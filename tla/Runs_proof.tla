----------------------------- MODULE Runs_proof -----------------------------
(***************************************************************************)
(* Proofs about MCRuns, for any value of its constants: first the bootstrap *)
(* lifecycle of an issue (Lifecycle), for any retry budget, with repairs or *)
(* without, and any number of commits, revisions of main and versions of    *)
(* the issue; then the runs of the extension (Auto), for any processes,     *)
(* runs and failures; then the choice of the next issue, of a roadmap       *)
(* (Roadmap) and by the shortlist (Discovery), for any issues and edits.    *)
(***************************************************************************)
EXTENDS MCRuns, SequenceTheorems, FiniteSetTheorems, WellFoundedInduction, TLAPS

-----------------------------------------------------------------------------
(* Types.                                                                   *)

(* main is one revision longer.                                             *)
Grows(S) ==
  /\ S \subseteq Commit
  /\ main' = Append(main, main[Latest] \cup S)

(* main has a revision, and each is a set of candidate commits.             *)
LEMMA Revisions ==
  ASSUME TypeOK
  PROVE  /\ Latest \in Nat \ {0} /\ DOMAIN main = 1 .. Latest
         /\ \A k \in DOMAIN main : main[k] \subseteq Commit
<1>1. main \in Seq(SUBSET Commit) /\ main # <<>>
  BY DEF TypeOK
<1>2. Len(main) \in Nat \ {0} /\ DOMAIN main = 1 .. Len(main)
  BY <1>1, LenProperties, EmptySeq
<1>3. \A k \in 1 .. Len(main) : main[k] \in SUBSET Commit
  BY <1>1, ElementOfSeq
<1>4. QED BY <1>2, <1>3 DEF Latest

(* The revisions there were stay as they are.                               *)
LEMMA RevisionsStay ==
  ASSUME TypeOK, NEW S, Grows(S)
  PROVE  /\ main' \in Seq(SUBSET Commit) /\ main' # <<>>
         /\ Latest' = Latest + 1 /\ DOMAIN main' = 1 .. Latest + 1
         /\ DOMAIN main \subseteq DOMAIN main'
         /\ \A k \in DOMAIN main : main'[k] = main[k]
         /\ main'[Latest'] = main[Latest] \cup S
<1>1. main \in Seq(SUBSET Commit) /\ Latest \in Nat \ {0} /\ DOMAIN main = 1 .. Latest
  BY Revisions DEF TypeOK
<1>2. main[Latest] \cup S \in SUBSET Commit
  BY <1>1, Revisions DEF Grows
<1>3. /\ main' \in Seq(SUBSET Commit) /\ Len(main') = Len(main) + 1
      /\ \A k \in 1 .. Len(main) : main'[k] = main[k]
      /\ main'[Len(main) + 1] = main[Latest] \cup S
  BY <1>1, <1>2, AppendProperties DEF Grows
<1>4. main' # <<>> /\ DOMAIN main' = 1 .. Len(main')
  BY <1>1, <1>3, LenProperties, EmptySeq DEF Latest
<1>5. QED BY <1>1, <1>3, <1>4 DEF Latest

(* The commits of the branch, the last of which is the tip.                 *)
LEMMA BranchCommits ==
  ASSUME TypeOK
  PROVE  /\ branch.own \in Seq(Commit) /\ Len(branch.own) \in Nat
         /\ DOMAIN branch.own = 1 .. Len(branch.own)
         /\ Own \subseteq Commit /\ Tip \in {0} \cup Own
         /\ Tip # 0 => Len(branch.own) \in DOMAIN branch.own /\ Tip = branch.own[Len(branch.own)]
         /\ Tip = 0 => branch.own = <<>> /\ Own = {}
<1>1. branch.own \in Seq(Commit)
  BY DEF TypeOK
<1>2. /\ Len(branch.own) \in Nat /\ DOMAIN branch.own = 1 .. Len(branch.own)
      /\ branch.own # <<>> => Len(branch.own) # 0
  BY <1>1, LenProperties, EmptySeq
<1>3. \A k \in 1 .. Len(branch.own) : branch.own[k] \in Commit
  BY <1>1, ElementOfSeq
<1>4. Len(<<>>) = 0
  BY EmptySeq
<1>5. 0 \notin Commit
  BY DEF Commit
<1>6. QED BY <1>1, <1>2, <1>3, <1>4, <1>5 DEF Own, Tip

(* One commit more.                                                         *)
LEMMA CommitAdded ==
  ASSUME TypeOK, NEW how, made < MaxCommit, Commits(how)
  PROVE  /\ made + 1 \in Commit /\ made' = made + 1
         /\ branch'.own = Append(branch.own, made + 1) /\ branch'.base = branch.base
         /\ branch' \in [base : {0} \cup DOMAIN main, own : Seq(Commit)]
         /\ Len(branch'.own) = Len(branch.own) + 1
         /\ \A k \in DOMAIN branch.own : branch'.own[k] = branch.own[k]
         /\ branch'.own[Len(branch.own) + 1] = made + 1
         /\ Own' = Own \cup {made + 1} /\ Tip' = made + 1
<1>0. made + 1 \in Commit /\ made' = made + 1
  <2>1. made \in {0} \cup Commit /\ MaxCommit \in Nat
    BY LifecycleAssumption DEF TypeOK, LifecycleAssumption
  <2>2. QED BY <2>1 DEF Commits, Commit
<1>1. branch' = [base |-> branch.base, own |-> Append(branch.own, made + 1)]
  BY DEF TypeOK, Commits
<1>2. /\ Append(branch.own, made + 1) \in Seq(Commit)
      /\ Len(branch'.own) = Len(branch.own) + 1
      /\ \A k \in 1 .. Len(branch.own) : branch'.own[k] = branch.own[k]
      /\ branch'.own[Len(branch.own) + 1] = made + 1
  BY <1>0, <1>1, AppendProperties, BranchCommits
<1>3. branch' \in [base : {0} \cup DOMAIN main, own : Seq(Commit)]
  BY <1>1, <1>2 DEF TypeOK
<1>4. branch'.own # <<>> /\ DOMAIN branch'.own = 1 .. Len(branch.own) + 1
  BY <1>2, <1>3, BranchCommits, EmptySeq, LenProperties
<1>5. Tip' = made + 1
  BY <1>2, <1>4 DEF Tip
<1>6. Own' = Own \cup {made + 1}
  <2>1. Own' = {branch'.own[k] : k \in 1 .. Len(branch.own) + 1}
    BY <1>4 DEF Own
  <2>2. 1 .. Len(branch.own) + 1 = (1 .. Len(branch.own)) \cup {Len(branch.own) + 1}
    BY BranchCommits
  <2>3. Own = {branch'.own[k] : k \in 1 .. Len(branch.own)}
    BY <1>2, BranchCommits DEF Own
  <2>4. QED BY <2>1, <2>2, <2>3, <1>2
<1>7. QED BY <1>0, <1>1, <1>2, <1>3, <1>5, <1>6, BranchCommits

(* TypeOK in three parts.                                                   *)
RepositoryType ==
  /\ main \in Seq(SUBSET Commit) /\ main # <<>>
  /\ local \in DOMAIN main
  /\ rootDirty \in {"yes", "no"}
  /\ branch \in [base : {0} \cup DOMAIN main, own : Seq(Commit)]
  /\ wt \in {"none", "clean", "dirty"}
  /\ made \in {0} \cup Commit
  /\ foreign \subseteq Commit

ItemType ==
  /\ issue \in [state : {"open", "closed"}, version : Nat,
                gate : {"clear", "pending", "passed", "failed"}]
  /\ proof \in {0} \cup Commit
  /\ verified \in [Commit -> Nat]

Report == {"none", "pass", "blocked", "repairable-failure", "no-change",
           "already-satisfied", "finalization-blocked"}

RunType ==
  run \in [pc : {"idle"} \cup SupervisorSteps \cup FinalizerSteps,
           entry : {"kernel", "finalize"}, resume : {"none", "only", "candidate"},
           baseline : {0} \cup DOMAIN main, seen : {0} \cup DOMAIN main,
           state : {"open", "closed"}, version : Nat,
           gate : {"clear", "pending", "passed", "failed"}, worker : Worker,
           aborted : {"yes", "no"}, checks : {"none", "pass", "fail"},
           cand : {0} \cup Commit,
           disposition : Report,
           finalization : {"none", "SKIPPED", "BLOCKED", "PASS"}]

(* The parts make up the type invariant.                                    *)
LEMMA TypeParts ==
  /\ TypeOK <=> RepositoryType /\ ItemType /\ RunType
  /\ TypeOK' <=> RepositoryType' /\ ItemType' /\ RunType'
BY DEF TypeOK, RepositoryType, ItemType, RunType, Report

(* The repository keeps its types: a commit that is made is within the      *)
(* bound, and local main is a revision of main.                             *)
LEMMA RepositoryStep ==
  ASSUME TypeOK, Next
  PROVE  RepositoryType'
<1>0. RepositoryType
  BY TypeParts
<1>1. CASE UNCHANGED repository
  BY <1>0, <1>1 DEF RepositoryType, repository
<1>2. CASE Prepare
  BY <1>0, <1>2, Revisions, EmptySeq DEF RepositoryType, Prepare
<1>3. CASE \E how \in Worker : Works(how)
  BY <1>0, <1>3 DEF RepositoryType, Works
<1>4. ASSUME NEW how \in {"clean"}, made < MaxCommit, Commits(how),
             UNCHANGED <<main, local, rootDirty, foreign>>
      PROVE  RepositoryType'
  <2>1. made' \in Commit /\ branch' \in [base : {0} \cup DOMAIN main, own : Seq(Commit)]
    BY <1>4, CommitAdded
  <2>2. QED BY <1>0, <1>4, <2>1 DEF RepositoryType, Commits
<1>5. CASE CommitDirty \/ CommitWorktree
  BY <1>4, <1>5 DEF CommitDirty, CommitWorktree
<1>6. ASSUME NEW S, Grows(S), local' \in {local, Latest + 1}, foreign' \in {foreign, foreign \cup S},
             UNCHANGED <<rootDirty, branch, wt, made>>
      PROVE  RepositoryType'
  <2>1. /\ main' \in Seq(SUBSET Commit) /\ main' # <<>>
        /\ DOMAIN main \subseteq DOMAIN main' /\ Latest + 1 \in DOMAIN main'
    BY <1>6, Revisions, RevisionsStay
  <2>2. branch' \in [base : {0} \cup DOMAIN main', own : Seq(Commit)]
    BY <1>0, <1>6, <2>1 DEF RepositoryType
  <2>3. QED BY <1>0, <1>6, <2>1, <2>2 DEF RepositoryType, Grows
<1>7. CASE Merge
  <2>1. CASE UNCHANGED <<main, local>>
    BY <1>0, <1>7, <2>1 DEF RepositoryType, Merge
  <2>2. CASE ~UNCHANGED <<main, local>>
    <3>1. Grows(Own) /\ local' = Latest + 1 /\ UNCHANGED <<rootDirty, branch, wt, made, foreign>>
      BY <1>7, <2>2, BranchCommits DEF Merge, Grows
    <3>2. QED BY <1>6, <3>1
  <2>3. QED BY <2>1, <2>2
<1>8. CASE OthersIntegrate
  <2>1. /\ Grows(Own) /\ foreign' = foreign \cup Own
        /\ UNCHANGED <<local, rootDirty, branch, wt, made>>
    BY <1>8, BranchCommits DEF OthersIntegrate, Grows
  <2>2. QED BY <1>6, <2>1
<1>9. CASE MainMoves
  <2>1. Grows({}) /\ foreign' = foreign
    BY <1>9, Revisions DEF MainMoves, Grows
  <2>2. QED BY <1>6, <1>9, <2>1 DEF MainMoves
<1>10. CASE Remove
  BY <1>0, <1>10 DEF RepositoryType, Remove
<1>11. CASE Delete
  BY <1>0, <1>11, EmptySeq DEF RepositoryType, Delete, NoBranch
<1>12. CASE Sync
  <2>1. run.seen \in {0} \cup DOMAIN main
    BY TypeParts DEF RunType
  <2>2. local \in DOMAIN main /\ DOMAIN main \subseteq Nat \ {0}
    BY <1>0, Revisions DEF RepositoryType
  <2>3. local' \in DOMAIN main
    BY <1>12, <2>1, <2>2 DEF Sync
  <2>4. QED BY <1>0, <1>12, <2>3 DEF RepositoryType, Sync
<1>13. CASE RefreshLocal
  BY <1>0, <1>13, Revisions DEF RepositoryType, RefreshLocal
<1>14. CASE EditRoot \/ EditWorktree
  BY <1>0, <1>14 DEF RepositoryType, EditRoot, EditWorktree
<1>15. Implement \/ Retry \/ Repair => \E how \in Worker : Works(how)
  BY DEF Implement, Retry, Repair
<1>16. \/ Begin \/ BeginFinalize \/ Fetch \/ Checks \/ Decide \/ Read \/ AfterCleanup
       \/ InspectClean \/ Verify \/ Settle \/ Clean \/ Fails \/ Crash \/ Abort \/ EditIssue
       => UNCHANGED repository
  BY DEF Begin, BeginFinalize, Fetch, Checks, Decide, Read, AfterCleanup, InspectClean, Verify,
         Settle, Clean, Fails, Crash, Abort, EditIssue
<1>17. QED
  BY <1>1, <1>2, <1>3, <1>5, <1>7, <1>8, <1>9, <1>10, <1>11, <1>12, <1>13, <1>14, <1>15, <1>16
     DEF Next, Continues

(* The issue, the durable proof and the history of verifications keep their *)
(* types.                                                                   *)
LEMMA ItemStep ==
  ASSUME TypeOK, Next
  PROVE  ItemType'
<1>0. ItemType /\ RunType
  BY TypeParts
<1>1. CASE UNCHANGED <<issue, proof, verified>>
  BY <1>0, <1>1 DEF ItemType
<1>a. ASSUME UNCHANGED <<proof, verified>>,
             \/ issue' = issue
             \/ issue' = [issue EXCEPT !.version = @ + 1]
             \/ issue' = [issue EXCEPT !.state = "closed", !.version = @ + 1]
      PROVE  ItemType'
  <2> DEFINE Issues == [state : {"open", "closed"}, version : Nat,
                        gate : {"clear", "pending", "passed", "failed"}]
  <2>1. issue \in Issues
    BY <1>0 DEF ItemType
  <2>2. [issue EXCEPT !.version = @ + 1] \in Issues
    BY <2>1
  <2>3. [issue EXCEPT !.state = "closed", !.version = @ + 1] \in Issues
    <3>1. issue.version + 1 \in Nat
      BY <2>1
    <3>2. QED BY <2>1, <3>1
  <2>4. issue' \in Issues
    BY <1>a, <2>1, <2>2, <2>3
  <2>5. QED BY <1>0, <1>a, <2>4 DEF ItemType
<1>2. CASE AfterCleanup
  BY <1>a, <1>2 DEF AfterCleanup
<1>3. CASE InspectClean
  BY <1>0, <1>3, BranchCommits DEF ItemType, InspectClean
<1>4. CASE Verify
  BY <1>0, <1>4 DEF ItemType, RunType, Verify
<1>5. CASE Settle
  BY <1>a, <1>5 DEF Settle
<1>6. CASE Crash
  BY <1>0, <1>6 DEF ItemType, Crash
<1>7. CASE EditIssue
  BY <1>0, <1>7 DEF ItemType, EditIssue
<1>8. \/ Begin \/ BeginFinalize \/ Prepare \/ Fetch \/ Implement \/ Retry \/ Checks \/ Repair
      \/ Decide \/ Read \/ CommitDirty \/ Merge \/ Clean \/ Remove \/ Delete \/ Sync \/ Fails
      \/ Abort \/ MainMoves \/ OthersIntegrate \/ RefreshLocal \/ EditRoot \/ EditWorktree
      \/ CommitWorktree
      => UNCHANGED <<issue, proof, verified>>
  BY DEF Begin, BeginFinalize, Prepare, Fetch, Implement, Retry, Works, Checks, Repair, Decide,
         Read, CommitDirty, Merge, Clean, Remove, Delete, Sync, Fails, Abort, MainMoves,
         OthersIntegrate, RefreshLocal, EditRoot, EditWorktree, CommitWorktree
<1>9. QED
  BY <1>1, <1>2, <1>3, <1>4, <1>5, <1>6, <1>7, <1>8 DEF Next, Continues

(* A run that begins, ends or goes on.                                      *)
LEMMA RunEnds ==
  ASSUME RunType, UNCHANGED main, NEW d \in Report,
         NEW f \in {"none", "SKIPPED", "BLOCKED", "PASS"}, Returns(d, f)
  PROVE  RunType'
<1>1. CASE run' = [Idle EXCEPT !.disposition = d, !.finalization = f]
  <2>1. "none" \in Report /\ "none" \in Worker
    BY DEF Report, Worker
  <2>2. run' = [pc |-> "idle", entry |-> "kernel", resume |-> "none", baseline |-> 0, seen |-> 0,
                state |-> "open", version |-> 0, gate |-> "clear", worker |-> "none",
                aborted |-> "no", checks |-> "none", cand |-> 0, disposition |-> d,
                finalization |-> f]
    BY <1>1 DEF Idle
  <2>3. QED BY <2>1, <2>2 DEF RunType
<1>2. CASE run' = Idle
  BY <1>2 DEF RunType, Idle, Worker, Report
<1>3. QED BY <1>1, <1>2 DEF Returns

(* A step that only moves the run on keeps its type.                        *)
LEMMA RunGoesOn ==
  ASSUME RunType, UNCHANGED main, NEW step \in SupervisorSteps \cup FinalizerSteps, Goto(step)
  PROVE  RunType'
<1>1. run' = [run EXCEPT !.pc = step]
  BY DEF Goto
<1>2. QED BY <1>1 DEF RunType

(* The run keeps its type: what it has seen of main is a revision that is   *)
(* still there.                                                             *)
LEMMA RunStep ==
  ASSUME TypeOK, Next
  PROVE  RunType'
<1>0. RunType /\ ItemType
  BY TypeParts
<1>1. Latest \in DOMAIN main /\ Tip \in {0} \cup Commit
  BY Revisions, BranchCommits
<1>2. ASSUME UNCHANGED run, DOMAIN main \subseteq DOMAIN main'
      PROVE  RunType'
  BY <1>0, <1>2 DEF RunType
<1>3. CASE Begin \/ BeginFinalize
  <2>1. UNCHANGED main
    BY <1>3 DEF Begin, BeginFinalize, repository
  <2>2. CASE Begin
    BY <2>1, <2>2 DEF Begin, RunType, Idle, Worker, Report, SupervisorSteps
  <2>3. CASE BeginFinalize
    BY <2>1, <2>3 DEF BeginFinalize, RunType, Idle, Worker, Report, FinalizerSteps
  <2>4. QED BY <1>3, <2>2, <2>3
<1>4. CASE Prepare
  BY <1>0, <1>1, <1>4 DEF RunType, Prepare, SupervisorSteps
<1>5. CASE Fetch
  <2>1. UNCHANGED main
    BY <1>5 DEF Fetch, repository
  <2>2. PICK resume \in {"none", "only", "candidate"}, step \in {"implement", "checks"} :
           run' = [run EXCEPT !.state = issue.state, !.resume = resume, !.pc = step]
    BY <1>0, <1>5 DEF RunType, Fetch
  <2>3. issue.state \in {"open", "closed"}
    BY <1>0 DEF ItemType
  <2>4. QED BY <1>0, <2>1, <2>2, <2>3 DEF RunType, SupervisorSteps
<1>6. ASSUME NEW worker \in Worker, NEW state \in {"open", "closed"}, NEW checks \in {"none", "pass", "fail"},
             NEW step \in SupervisorSteps, UNCHANGED main,
             \/ run' = [run EXCEPT !.worker = worker, !.state = state, !.pc = step]
             \/ run' = [run EXCEPT !.worker = worker, !.pc = step]
             \/ run' = [run EXCEPT !.checks = checks, !.pc = step]
      PROVE  RunType'
  <2>1. CASE run' = [run EXCEPT !.worker = worker, !.state = state, !.pc = step]
    BY <1>0, <1>6, <2>1 DEF RunType
  <2>2. CASE run' = [run EXCEPT !.worker = worker, !.pc = step]
    BY <1>0, <1>6, <2>2 DEF RunType
  <2>3. CASE run' = [run EXCEPT !.checks = checks, !.pc = step]
    BY <1>0, <1>6, <2>3 DEF RunType
  <2>4. QED BY <1>6, <2>1, <2>2, <2>3
<1>7. CASE Implement
  <2>1. PICK how \in Worker : Works(how) /\ run' = [run EXCEPT !.worker = how,
            !.state = IF how = "completed" /\ ~Delta(wt') THEN issue.state ELSE @,
            !.pc = IF Retryable(how) THEN "retry" ELSE "checks"]
    BY <1>7 DEF Implement
  <2>2. UNCHANGED main /\ issue.state \in {"open", "closed"} /\ run.state \in {"open", "closed"}
    BY <1>0, <2>1 DEF Works, ItemType, RunType
  <2>3. PICK state \in {"open", "closed"}, step \in {"retry", "checks"} :
           run' = [run EXCEPT !.worker = how, !.state = state, !.pc = step]
    BY <2>1, <2>2
  <2>4. QED BY <1>6, <2>2, <2>3 DEF SupervisorSteps
<1>8. CASE Checks
  <2>1. UNCHANGED main
    BY <1>8 DEF Checks, repository
  <2>2. PICK how \in {"pass", "fail"}, step \in {"repair", "decide"} :
           run' = [run EXCEPT !.checks = how, !.pc = step]
    BY <1>8 DEF Checks
  <2>3. QED BY <1>6, <2>1, <2>2 DEF SupervisorSteps, Worker
<1>9. CASE Retry \/ Repair
  <2>1. UNCHANGED main
    BY <1>9 DEF Retry, Repair, Works
  <2>2. PICK how \in Worker, checks \in {"pass", "fail"}, step \in {"checks", "decide"} :
           run' \in {[run EXCEPT !.worker = how, !.pc = step], [run EXCEPT !.checks = checks, !.pc = step]}
    BY <1>9 DEF Retry, Repair
  <2>3. QED BY <1>6, <2>1, <2>2 DEF SupervisorSteps
<1>10. CASE Decide
  <2>1. UNCHANGED main /\ Disposition \in Report
    BY <1>10 DEF Decide, repository, Disposition, Report
  <2>2. CASE run' = [Idle EXCEPT !.pc = "read"]
    BY <1>0, <2>1, <2>2 DEF RunType, Idle, Worker, Report, FinalizerSteps
  <2>3. CASE Returns(Disposition, "SKIPPED")
    BY <1>0, <2>1, <2>3, RunEnds
  <2>4. QED BY <1>10, <2>2, <2>3 DEF Decide
<1>11. CASE Read
  <2>1. UNCHANGED main
    BY <1>11 DEF Read, repository
  <2>2. PICK step \in {"after_cleanup", "inspect"} :
          run' = [run EXCEPT !.pc = step, !.seen = Latest, !.state = issue.state,
                             !.version = issue.version, !.gate = issue.gate]
    BY <1>11 DEF Read
  <2>3. /\ issue.state \in {"open", "closed"} /\ issue.version \in Nat
        /\ issue.gate \in {"clear", "pending", "passed", "failed"}
    BY <1>0 DEF ItemType
  <2>4. PICK seen \in {0} \cup DOMAIN main', state \in {"open", "closed"}, version \in Nat,
             gate \in {"clear", "pending", "passed", "failed"} :
          run' = [run EXCEPT !.pc = step, !.seen = seen, !.state = state, !.version = version, !.gate = gate]
    BY <1>1, <2>1, <2>2, <2>3
  <2>5. step \in FinalizerSteps
    BY DEF FinalizerSteps
  <2>6. run' = [pc |-> step, entry |-> run.entry, resume |-> run.resume, baseline |-> run.baseline,
                seen |-> seen, state |-> state, version |-> version, gate |-> gate,
                worker |-> run.worker, aborted |-> run.aborted, checks |-> run.checks,
                cand |-> run.cand, disposition |-> run.disposition,
                finalization |-> run.finalization]
    BY <1>0, <2>4 DEF RunType
  <2>7. QED BY <1>0, <2>1, <2>5, <2>6 DEF RunType
<1>12. CASE AfterCleanup
  <2>1. UNCHANGED main /\ proof \in {0} \cup Commit
    BY <1>0, <1>12 DEF AfterCleanup, repository, ItemType
  <2>2. CASE run' = [run EXCEPT !.pc = "sync"]
    BY <1>0, <2>1, <2>2 DEF RunType, FinalizerSteps
  <2>3. CASE run' = [run EXCEPT !.pc = "sync", !.cand = proof]
    BY <1>0, <2>1, <2>3 DEF RunType, FinalizerSteps
  <2>4. QED BY <1>12, <2>2, <2>3 DEF AfterCleanup
<1>13. ASSUME NEW allowed, NEW step \in {"verify", "merge"}, NEW cand \in {0} \cup Commit,
              UNCHANGED main, Admits(allowed, step, cand)
       PROVE  RunType'
  <2>1. CASE run' = [run EXCEPT !.pc = step, !.cand = cand]
    BY <1>0, <1>13, <2>1 DEF RunType, FinalizerSteps
  <2>2. CASE Returns("finalization-blocked", "BLOCKED")
    BY <1>0, <1>13, <2>2, RunEnds DEF Report
  <2>3. QED BY <1>13, <2>1, <2>2 DEF Admits
<1>14. CASE CommitDirty
  <2>1. made + 1 \in Commit
    BY <1>14, CommitAdded DEF CommitDirty
  <2>2. QED BY <1>13, <1>14, <2>1 DEF CommitDirty
<1>15. CASE InspectClean
  BY <1>1, <1>13, <1>15 DEF InspectClean, repository
<1>16. CASE Verify
  BY <1>0, <1>16, RunGoesOn DEF RunType, Verify, Goto, FinalizerSteps, repository
<1>17. CASE Merge
  <2>1. \E seen \in {Latest, Latest + 1} :
          /\ run' = [run EXCEPT !.pc = "settle", !.seen = seen]
          /\ (UNCHANGED main /\ seen = Latest) \/ Grows(Own)
    BY <1>17, BranchCommits DEF Merge, Grows
  <2>2. PICK seen \in DOMAIN main' : run' = [run EXCEPT !.pc = "settle", !.seen = seen]
    <3>1. PICK seen \in {Latest, Latest + 1} :
            /\ run' = [run EXCEPT !.pc = "settle", !.seen = seen]
            /\ (UNCHANGED main /\ seen = Latest) \/ Grows(Own)
      BY <2>1
    <3>2. seen \in DOMAIN main'
      BY <1>1, <3>1, Revisions, RevisionsStay
    <3>3. QED BY <3>1, <3>2
  <2>3. DOMAIN main \subseteq DOMAIN main'
    BY <2>1, RevisionsStay
  <2>4. QED BY <1>0, <2>2, <2>3 DEF RunType, FinalizerSteps
<1>18. CASE Settle \/ Clean \/ Remove \/ Delete
  <2>1. UNCHANGED main
    BY <1>18 DEF Settle, Clean, Remove, Delete, repository
  <2>2. \E step \in {"clean", "remove", "delete", "sync"} : Goto(step)
    BY <1>18 DEF Settle, Clean, Remove, Delete, Goto
  <2>3. QED BY <1>0, <2>1, <2>2, RunGoesOn DEF FinalizerSteps
<1>19. CASE Sync \/ Fails
  <2>1. UNCHANGED main
    BY <1>19 DEF Sync, Fails, repository
  <2>2. \E d \in Report, f \in {"none", "BLOCKED", "PASS"} : Returns(d, f)
    BY <1>19 DEF Sync, Fails, Report
  <2>3. QED BY <1>0, <2>1, <2>2, RunEnds
<1>20. CASE Crash
  <2>1. UNCHANGED main /\ run' = Idle
    BY <1>20 DEF Crash, repository
  <2>2. QED BY <2>1 DEF RunType, Idle, Worker, Report
<1>21. CASE Abort
  BY <1>0, <1>21 DEF RunType, Abort, repository
<1>22. CASE MainMoves \/ OthersIntegrate
  <2>1. UNCHANGED run /\ \E S \in {{}, Own} : Grows(S)
    BY <1>22, Revisions, BranchCommits DEF MainMoves, OthersIntegrate, Grows
  <2>2. QED BY <1>2, <2>1, RevisionsStay
<1>23. CASE RefreshLocal \/ EditRoot \/ EditWorktree \/ CommitWorktree \/ EditIssue
  <2>1. UNCHANGED <<main, run>>
    BY <1>23 DEF RefreshLocal, EditRoot, EditWorktree, CommitWorktree, EditIssue, repository
  <2>2. QED BY <1>2, <2>1
<1>24. QED
  BY <1>3, <1>4, <1>5, <1>6, <1>7, <1>8, <1>9, <1>10, <1>11, <1>12, <1>14, <1>15, <1>16, <1>17,
     <1>18, <1>19, <1>20, <1>21, <1>22, <1>23 DEF Next, Continues

(* Every step keeps the types.                                              *)
LEMMA TypeStep ==
  ASSUME TypeOK, [Next]_vars
  PROVE  TypeOK'
<1>1. CASE Next
  BY <1>1, RepositoryStep, ItemStep, RunStep, TypeParts
<1>2. CASE UNCHANGED vars
  BY <1>2 DEF vars, TypeOK
<1>3. QED BY <1>1, <1>2

(* The types hold at the beginning.                                         *)
LEMMA TypeInit ==
  Init => TypeOK
<1> SUFFICES ASSUME Init PROVE TypeOK
  OBVIOUS
<1>1. main \in Seq(SUBSET Commit) /\ main # <<>> /\ DOMAIN main = {1}
  BY DEF Init
<1>2. branch \in [base : {0} \cup DOMAIN main, own : Seq(Commit)]
  BY EmptySeq DEF Init, NoBranch
<1>3. RunType
  BY DEF Init, RunType, Idle, Worker, Report
<1>4. RepositoryType /\ ItemType
  BY <1>1, <1>2 DEF Init, RepositoryType, ItemType
<1>5. QED BY <1>3, <1>4, TypeParts

(* The variables keep their types: no run works with a revision of main     *)
(* that is not there, and no step makes a commit out of bounds.             *)
THEOREM TypeCorrect == Spec => []TypeOK
<1>1. QED BY TypeInit, TypeStep, PTL DEF Spec

-----------------------------------------------------------------------------
(* The history: main only grows, and it has a commit of the branch only     *)
(* with those before it.  So a branch that git lets go leaves nothing       *)
(* behind, whatever was committed or pushed since anybody looked.           *)
Contents ==
  /\ \A k \in DOMAIN main : main[k] \subseteq main[Latest]
  /\ main[Latest] \subseteq 1 .. made
  /\ foreign \subseteq main[Latest]
  /\ Own \subseteq 1 .. made

Ancestry ==
  \A k \in DOMAIN main, i \in DOMAIN branch.own :
    branch.own[i] \in main[k] => \A j \in 1 .. i : branch.own[j] \in main[k]

History == Contents /\ Ancestry /\ WorkKept

(* What a step does to it.                                                  *)
Stands == branch'.own = branch.own /\ UNCHANGED <<main, made, foreign>>

Adds == made < MaxCommit /\ Commits("clean") /\ UNCHANGED <<main, foreign>>

Integrates ==
  /\ \E S \in {{}, Own} : Grows(S) /\ foreign' \in {foreign, foreign \cup S}
  /\ UNCHANGED <<branch, made>>

LetsGo == branch'.own = <<>> /\ Own \subseteq main[Latest] /\ UNCHANGED <<main, made, foreign>>

(* What git branch -d lets go is on main: a tip that is in a revision has   *)
(* its whole branch there.                                                  *)
LEMMA Letting ==
  ASSUME TypeOK, History, NEW g \in DOMAIN main, Reachable(g)
  PROVE  Own \subseteq main[g]
<1>1. CASE Tip = 0
  BY <1>1, BranchCommits
<1>2. CASE Tip # 0
  <2>1. /\ Len(branch.own) \in DOMAIN branch.own /\ branch.own[Len(branch.own)] \in main[g]
        /\ DOMAIN branch.own = 1 .. Len(branch.own)
    BY <1>2, BranchCommits DEF Reachable
  <2>2. \A j \in 1 .. Len(branch.own) : branch.own[j] \in main[g]
    BY <2>1 DEF History, Ancestry
  <2>3. QED BY <2>1, <2>2 DEF Own
<1>3. QED BY <1>1, <1>2

(* Every step does one of the four to the history.                          *)
LEMMA Moves ==
  ASSUME TypeOK, History, [Next]_vars
  PROVE  Stands \/ Adds \/ Integrates \/ LetsGo
<1>1. CASE Prepare
  BY <1>1 DEF Prepare, NoBranch, Stands
<1>2. CASE CommitDirty \/ CommitWorktree
  BY <1>2 DEF CommitDirty, CommitWorktree, Adds
<1>3. CASE Merge
  BY <1>3, BranchCommits DEF Merge, Stands, Integrates, Grows
<1>4. CASE OthersIntegrate
  BY <1>4, BranchCommits DEF OthersIntegrate, Integrates, Grows
<1>5. CASE MainMoves
  <2>1. Grows({}) /\ UNCHANGED <<branch, made, foreign>>
    BY <1>5, Revisions DEF MainMoves, Grows
  <2>2. QED BY <2>1 DEF Integrates
<1>6. CASE Delete
  <2>1. local \in DOMAIN main /\ Reachable(local)
    BY <1>6 DEF Delete, Deletable, TypeOK
  <2>2. Own \subseteq main[Latest]
    BY <2>1, Letting DEF History, Contents
  <2>3. QED BY <1>6, <2>2 DEF Delete, NoBranch, LetsGo
<1>7. CASE UNCHANGED <<main, branch, made, foreign>>
  BY <1>7 DEF Stands
<1>8. \/ Begin \/ BeginFinalize \/ Fetch \/ Implement \/ Retry \/ Checks \/ Repair \/ Decide \/ Read
      \/ AfterCleanup \/ InspectClean \/ Verify \/ Settle \/ Clean \/ Remove \/ Sync \/ Fails \/ Crash
      \/ Abort \/ RefreshLocal \/ EditRoot \/ EditWorktree \/ EditIssue \/ UNCHANGED vars
      => UNCHANGED <<main, branch, made, foreign>>
  BY DEF Begin, BeginFinalize, Fetch, Implement, Retry, Works, Checks, Repair, Decide, Read,
         AfterCleanup, InspectClean, Verify, Settle, Clean, Remove, Sync, Fails, Crash, Abort,
         RefreshLocal, EditRoot, EditWorktree, EditIssue, repository, vars
<1>9. QED
  BY <1>1, <1>2, <1>3, <1>4, <1>5, <1>6, <1>7, <1>8 DEF Next, Continues

(* The history is kept whatever a step does to it.                          *)
LEMMA HistoryStep ==
  ASSUME TypeOK, TypeOK', History, [Next]_vars
  PROVE  History'
<1>0. /\ made \in Nat /\ Contents /\ Ancestry /\ WorkKept
  BY DEF TypeOK, History, Commit
<1>1. CASE Stands
  <2>1. Own' = Own /\ Latest' = Latest
    BY <1>1 DEF Stands, Own, Latest
  <2>2. QED BY <1>0, <1>1, <2>1 DEF History, Contents, Ancestry, WorkKept, OnMain, Stands
<1>2. CASE Adds
  <2>1. /\ made' = made + 1 /\ Own' = Own \cup {made + 1}
        /\ Len(branch.own) \in Nat /\ DOMAIN branch.own = 1 .. Len(branch.own)
        /\ DOMAIN branch'.own = 1 .. Len(branch.own) + 1
        /\ \A k \in DOMAIN branch.own : branch'.own[k] = branch.own[k]
        /\ branch'.own[Len(branch.own) + 1] = made + 1
        /\ UNCHANGED <<main, foreign>> /\ Latest' = Latest
    <3>1. branch'.own \in Seq(Commit) /\ Len(branch'.own) = Len(branch.own) + 1
      BY <1>2, CommitAdded DEF Adds
    <3>2. DOMAIN branch'.own = 1 .. Len(branch.own) + 1
      BY <3>1, LenProperties
    <3>3. QED BY <1>2, <3>2, CommitAdded, BranchCommits DEF Adds, Latest
  <2>2. \A k \in DOMAIN main : made + 1 \notin main[k]
    BY <1>0 DEF Contents
  <2>3. Contents'
    BY <1>0, <2>1 DEF Contents
  <2>4. Ancestry'
    <3> SUFFICES ASSUME NEW k \in DOMAIN main, NEW i \in 1 .. Len(branch.own) + 1,
                        branch'.own[i] \in main[k], NEW j \in 1 .. i
                 PROVE  branch'.own[j] \in main[k]
      BY <2>1 DEF Ancestry
    <3>1. i \in DOMAIN branch.own
      BY <2>1, <2>2
    <3>2. QED BY <1>0, <2>1, <3>1 DEF Ancestry
  <2>5. WorkKept'
    BY <1>0, <2>1 DEF WorkKept, OnMain
  <2>6. QED BY <2>3, <2>4, <2>5 DEF History
<1>3. CASE Integrates
  <2>1. PICK S \in {{}, Own} : Grows(S) /\ foreign' \in {foreign, foreign \cup S}
    BY <1>3 DEF Integrates
  <2>2. /\ UNCHANGED <<branch, made>> /\ Own' = Own
        /\ Latest' = Latest + 1 /\ DOMAIN main = 1 .. Latest /\ DOMAIN main' = 1 .. Latest + 1
        /\ \A k \in DOMAIN main : main'[k] = main[k]
        /\ main'[Latest'] = main[Latest] \cup S /\ Latest \in Nat \ {0}
    BY <1>3, <2>1, Revisions, RevisionsStay DEF Integrates, Own
  <2>3. Contents'
    <3>1. \A k \in DOMAIN main' : main'[k] \subseteq main'[Latest']
      BY <1>0, <2>2 DEF Contents
    <3>2. S \subseteq 1 .. made
      BY <1>0, <2>1 DEF Contents
    <3>3. QED BY <1>0, <2>1, <2>2, <3>1, <3>2 DEF Contents
  <2>4. Ancestry'
    <3> SUFFICES ASSUME NEW k \in 1 .. Latest + 1, NEW i \in DOMAIN branch.own,
                        branch.own[i] \in main'[k], NEW j \in 1 .. i
                 PROVE  branch.own[j] \in main'[k]
      BY <2>2 DEF Ancestry
    <3>1. Latest \in DOMAIN main /\ j \in DOMAIN branch.own /\ branch.own[j] \in Own
      BY <2>2, BranchCommits DEF Own
    <3>2. CASE k \in DOMAIN main
      BY <1>0, <2>2, <3>2 DEF Ancestry
    <3>3. CASE k = Latest + 1 /\ S = Own
      BY <2>2, <3>1, <3>3
    <3>4. CASE k = Latest + 1 /\ S = {}
      BY <1>0, <2>2, <3>1, <3>4 DEF Ancestry
    <3>5. QED BY <2>1, <2>2, <3>2, <3>3, <3>4
  <2>5. WorkKept'
    BY <1>0, <2>2 DEF WorkKept, OnMain
  <2>6. QED BY <2>3, <2>4, <2>5 DEF History
<1>4. CASE LetsGo
  <2>1. Own' = {} /\ DOMAIN branch'.own = {} /\ Latest' = Latest
    BY <1>4 DEF LetsGo, Own, Latest
  <2>2. QED BY <1>0, <1>4, <2>1 DEF History, Contents, Ancestry, WorkKept, OnMain, LetsGo
<1>5. QED BY <1>1, <1>2, <1>3, <1>4, Moves

(* At the beginning nothing has been made.                                  *)
LEMMA HistoryInit ==
  Init => History
<1> SUFFICES ASSUME Init PROVE History
  OBVIOUS
<1>1. main = <<{}>> /\ Latest = 1 /\ DOMAIN main = {1} /\ main[1] = {} /\ Own = {} /\ DOMAIN branch.own = {}
  BY DEF Init, Latest, Own, NoBranch
<1>2. QED BY <1>1 DEF Init, History, Contents, Ancestry, WorkKept, OnMain

(* No commit made for the issue is ever lost: it is on its branch or on     *)
(* main, for any number of commits, runs and crashes.                       *)
THEOREM NoWorkLost == Spec => []WorkKept
<1>1. TypeOK /\ History /\ [Next]_vars => (TypeOK /\ History)'
  BY TypeStep, HistoryStep
<1>2. QED BY <1>1, TypeInit, HistoryInit, PTL DEF Spec, History

-----------------------------------------------------------------------------
(* What a run knows.                                                        *)
Grounded(c) == verified[c] > 0 \/ c \in foreign

(* The steps that rest on what the finalizer has read.                      *)
Informed == {"after_cleanup", "inspect", "verify", "merge", "settle"}

(* The version of the issue tells whether it has been edited since.         *)
Informs ==
  /\ issue.version > 0
  /\ run.pc \in Informed =>
       /\ run.seen # 0 /\ run.version > 0 /\ run.version <= issue.version
       /\ run.version = issue.version => run.gate = issue.gate
  /\ run.pc \in {"verify", "merge", "settle"} => run.gate # "failed"

(* Proofs, and a tip on main, are of commits that were verified or that     *)
(* others integrated; what a run is about to integrate or close with, too.  *)
ProofGrounded == proof # 0 => Grounded(proof)

TipGrounded == Tip # 0 /\ OnMain(Tip) => Grounded(Tip)

RunGrounded ==
  /\ At("after_cleanup") => proof # 0 /\ OnMain(proof)
  /\ At("verify") => Tip = run.cand /\ wt = "clean"
  /\ At("merge") => run.cand # 0 /\ Grounded(run.cand)
  /\ At("settle") => run.cand # 0 /\ Grounded(run.cand) /\ OnMain(run.cand)

Knowledge == Informs /\ ProofGrounded /\ TipGrounded /\ RunGrounded

Inv == TypeOK /\ History /\ Knowledge

-----------------------------------------------------------------------------
(* The other steps of a run end at a step that rests on nothing.            *)
Uninformed ==
  \/ Begin \/ BeginFinalize \/ Prepare \/ Fetch \/ Implement \/ Retry \/ Checks \/ Repair \/ Decide
  \/ AfterCleanup \/ Settle \/ Clean \/ Remove \/ Delete \/ Sync \/ Fails \/ Crash \/ Abort

Environment ==
  \/ MainMoves \/ OthersIntegrate \/ RefreshLocal \/ EditRoot \/ EditWorktree \/ CommitWorktree
  \/ EditIssue \/ UNCHANGED vars

(* The steps, sorted by what they need to know.                             *)
LEMMA StepsAre ==
  ASSUME [Next]_vars
  PROVE  \/ Uninformed \/ Environment
         \/ Read \/ CommitDirty \/ InspectClean \/ Verify \/ Merge
BY DEF Next, Continues, Uninformed, Environment

(* What happens around the runs leaves the run and its records alone.       *)
LEMMA EnvironmentWaits ==
  ASSUME Environment
  PROVE  UNCHANGED <<proof, run, verified>>
BY DEF Environment, MainMoves, OthersIntegrate, RefreshLocal, EditRoot, EditWorktree, CommitWorktree,
       EditIssue, vars

(* A run that returns is idle.                                              *)
LEMMA Returned ==
  ASSUME NEW d, NEW f, Returns(d, f)
  PROVE  run'.pc = "idle"
BY DEF Returns, Idle

(* The other steps indeed end at a step that rests on nothing.              *)
LEMMA UninformedAre ==
  ASSUME TypeOK, Uninformed
  PROVE  run'.pc \notin Informed
<1>1. ASSUME NEW step, Goto(step) PROVE run'.pc = step
  BY <1>1 DEF Goto, TypeOK
<1>2. CASE Begin \/ BeginFinalize \/ Crash
  <2>1. CASE Begin
    <3>1. run'.pc = "prepare"
      BY <2>1 DEF Begin, Idle
    <3>2. QED BY <3>1 DEF Informed
  <2>2. CASE BeginFinalize
    <3>1. run'.pc = "read"
      BY <2>2 DEF BeginFinalize, Idle
    <3>2. QED BY <3>1 DEF Informed
  <2>3. CASE Crash
    BY <2>3 DEF Crash, Idle, Informed
  <2>4. QED BY <1>2, <2>1, <2>2, <2>3
<1>3. CASE Prepare \/ Fetch
  <2>1. run'.pc \in {"fetch", "implement", "checks"}
    BY <1>3 DEF Prepare, Fetch, TypeOK
  <2>2. QED BY <2>1 DEF Informed
<1>4. CASE Implement \/ Retry \/ Checks \/ Repair
  <2>1. Implement \/ Retry => run'.pc \in {"retry", "checks"}
    BY DEF Implement, Retry, TypeOK
  <2>2. Checks \/ Repair => run'.pc \in {"repair", "decide"}
    BY DEF Checks, Repair, TypeOK
  <2>3. QED BY <1>4, <2>1, <2>2 DEF Informed
<1>5. CASE Decide
  BY <1>5, Returned DEF Decide, Idle, Informed
<1>6. CASE AfterCleanup
  <2>1. run'.pc = "sync"
    BY <1>6 DEF AfterCleanup, TypeOK
  <2>2. QED BY <2>1 DEF Informed
<1>7. CASE Settle \/ Clean \/ Remove \/ Delete
  <2>1. \E step \in {"clean", "remove", "delete", "sync"} : Goto(step)
    BY <1>7 DEF Settle, Clean, Remove, Delete, Goto
  <2>2. QED BY <2>1, <1>1 DEF Informed
<1>8. CASE Sync \/ Fails
  BY <1>8, Returned DEF Sync, Fails, Informed
<1>9. CASE Abort
  <2>1. run'.pc \in SupervisorSteps
    BY <1>9 DEF Abort, TypeOK
  <2>2. QED BY <2>1 DEF SupervisorSteps, Informed
<1>10. QED BY <1>2, <1>3, <1>4, <1>5, <1>6, <1>7, <1>8, <1>9 DEF Uninformed

(* A run that goes on to merge, or to verify, takes a candidate along.      *)
LEMMA Admitted ==
  ASSUME TypeOK, NEW allowed, NEW step, NEW cand, Admits(allowed, step, cand), run'.pc # "idle"
  PROVE  /\ run'.pc = step /\ run'.cand = cand /\ run.gate # "failed"
         /\ UNCHANGED <<run.seen, run.version, run.gate>>
BY Returned DEF Admits, TypeOK

-----------------------------------------------------------------------------
(* A version that the run has read is not a version yet to come.            *)
LEMMA InformsStep ==
  ASSUME TypeOK, Informs, [Next]_vars
  PROVE  Informs'
<1>0. issue.version \in Nat /\ run.version \in Nat
  BY DEF TypeOK
<1>1. issue' = issue \/ issue'.version = issue.version + 1
  <2>1. CASE AfterCleanup \/ Settle
    <3>1. \/ issue' = issue
          \/ issue' = [issue EXCEPT !.version = @ + 1]
          \/ issue' = [issue EXCEPT !.state = "closed", !.version = @ + 1]
      BY <2>1 DEF AfterCleanup, Settle
    <3>2. QED BY <3>1 DEF TypeOK
  <2>2. CASE EditIssue
    BY <2>2 DEF EditIssue
  <2>3. CASE ~(AfterCleanup \/ Settle \/ EditIssue)
    BY <2>3 DEF Next, Continues, Begin, BeginFinalize, Prepare, Fetch, Implement, Retry, Works, Checks,
           Repair, Decide, Read, CommitDirty, InspectClean, Verify, Merge, Clean, Remove, Delete,
           Sync, Fails, Crash, Abort, MainMoves, OthersIntegrate, RefreshLocal, EditRoot,
           EditWorktree, CommitWorktree, vars
  <2>4. QED BY <2>1, <2>2, <2>3
<1>2. issue'.version > 0
  BY <1>0, <1>1 DEF Informs
<1>3. CASE Uninformed
  <2>1. run'.pc \notin Informed /\ run'.pc \notin {"verify", "merge", "settle"}
    BY <1>3, UninformedAre DEF Informed
  <2>2. QED BY <1>2, <2>1 DEF Informs
<1>4. CASE Environment
  BY <1>0, <1>1, <1>2, <1>4, EnvironmentWaits DEF Informs
<1>5. CASE Read
  <2>1. /\ run'.pc \in {"after_cleanup", "inspect"} /\ run'.seen = Latest
        /\ run'.version = issue.version /\ run'.gate = issue.gate /\ issue' = issue
    BY <1>5 DEF Read, TypeOK
  <2>2. QED BY <1>0, <1>2, <2>1, Revisions DEF Informs
<1>7. CASE CommitDirty \/ InspectClean
  <2>1. issue' = issue /\ run.pc = "inspect"
    BY <1>7 DEF CommitDirty, InspectClean, At
  <2>2. CASE run'.pc = "idle"
    BY <1>2, <2>2 DEF Informs, Informed
  <2>3. CASE run'.pc # "idle"
    <3>1. UNCHANGED <<run.seen, run.version, run.gate>> /\ run.gate # "failed"
      BY <1>7, <2>3, Admitted DEF CommitDirty, InspectClean
    <3>2. QED BY <1>2, <2>1, <3>1 DEF Informs, Informed
  <2>4. QED BY <2>2, <2>3
<1>8. CASE Verify
  <2>1. issue' = issue /\ run.pc = "verify" /\ UNCHANGED <<run.seen, run.version, run.gate>>
    BY <1>8 DEF Verify, Goto, At, TypeOK
  <2>2. QED BY <1>2, <2>1 DEF Informs, Informed
<1>9. CASE Merge
  <2>1. /\ issue' = issue /\ run.pc = "merge" /\ UNCHANGED <<run.version, run.gate>>
        /\ run'.seen \in {Latest, Latest + 1}
    BY <1>9 DEF Merge, At, TypeOK
  <2>2. QED BY <1>2, <2>1, Revisions DEF Informs, Informed
<1>10. QED BY <1>3, <1>4, <1>5, <1>7, <1>8, <1>9, StepsAre

-----------------------------------------------------------------------------
(* What was on main, integrated by others or verified stays so.             *)
LEMMA Persists ==
  ASSUME TypeOK, History, Informs, [Next]_vars
  PROVE  /\ \A c \in Commit : OnMain(c) => OnMain(c)'
         /\ foreign \subseteq foreign'
         /\ \A c \in Commit : Grounded(c) => Grounded(c)'
<1>1. foreign \subseteq foreign' /\ \A c \in Commit : OnMain(c) => OnMain(c)'
  <2>1. CASE Stands \/ Adds \/ LetsGo
    BY <2>1 DEF Stands, Adds, LetsGo, OnMain, Latest
  <2>2. CASE Integrates
    <3>1. PICK S \in {{}, Own} : Grows(S) /\ foreign' \in {foreign, foreign \cup S}
      BY <2>2 DEF Integrates
    <3>2. main'[Latest'] = main[Latest] \cup S
      BY <3>1, RevisionsStay
    <3>3. QED BY <3>1, <3>2 DEF OnMain
  <2>3. QED BY <2>1, <2>2, Moves
<1>2. \A c \in Commit : verified[c] > 0 => verified'[c] > 0
  <2>1. CASE Verify
    <3>1. run.version > 0 /\ run.version \in Nat
      BY <2>1 DEF Verify, At, Informs, Informed, TypeOK
    <3>2. CASE verified' = verified
      BY <3>2
    <3>3. CASE verified' = [verified EXCEPT ![run.cand] = IF Tip = run.cand /\ wt = "clean"
                                                          THEN run.version ELSE @]
      BY <3>1, <3>3 DEF TypeOK
    <3>4. QED BY <2>1, <3>2, <3>3 DEF Verify
  <2>2. CASE UNCHANGED verified
    BY <2>2
  <2>3. [Next]_vars => Verify \/ UNCHANGED verified
    BY DEF Next, Continues, Begin, BeginFinalize, Prepare, Fetch, Implement, Retry, Works, Checks, Repair,
           Decide, Read, AfterCleanup, CommitDirty, InspectClean, Merge, Settle, Clean, Remove,
           Delete, Sync, Fails, Crash, Abort, MainMoves, OthersIntegrate, RefreshLocal, EditRoot,
           EditWorktree, CommitWorktree, EditIssue, vars
  <2>4. QED BY <2>1, <2>2, <2>3
<1>3. QED BY <1>1, <1>2 DEF Grounded

(* The tip of the branch stays, is a new commit, or goes with the branch.   *)
LEMMA TipMoves ==
  ASSUME TypeOK, History, [Next]_vars
  PROVE  Tip' = Tip \/ Tip' = 0 \/ (Tip' # 0 /\ ~OnMain(Tip)')
<1>1. CASE Stands \/ Integrates
  BY <1>1 DEF Stands, Integrates, Tip
<1>2. CASE LetsGo
  BY <1>2 DEF LetsGo, Tip
<1>3. CASE Adds
  <2>1. Tip' = made + 1 /\ UNCHANGED main /\ made \in Nat
    BY <1>3, CommitAdded DEF Adds, TypeOK, Commit
  <2>2. made + 1 \notin main[Latest]
    BY <2>1 DEF History, Contents
  <2>3. QED BY <2>1, <2>2 DEF OnMain, Latest
<1>4. QED BY <1>1, <1>2, <1>3, Moves

(* What the finalizer sees in main at the revision it has read.             *)
LEMMA SeenOnMain ==
  ASSUME TypeOK, History, Informs, run.pc \in Informed, Tip # 0, Reachable(run.seen)
  PROVE  OnMain(Tip)
<1>1. run.seen \in DOMAIN main
  BY DEF TypeOK, Informs
<1>2. QED BY <1>1 DEF Reachable, History, Contents, OnMain

(* A durable proof is written of a commit that was just verified, or of a   *)
(* tip on main; afterwards it stands.                                       *)
LEMMA ProofStep ==
  ASSUME Inv, [Next]_vars
  PROVE  ProofGrounded'
<1>0. /\ TypeOK /\ History /\ Informs /\ ProofGrounded /\ TipGrounded /\ RunGrounded
      /\ proof \in {0} \cup Commit /\ Tip \in {0} \cup Commit
      /\ \A c \in Commit : Grounded(c) => Grounded(c)'
  BY Persists, BranchCommits DEF Inv, Knowledge, TypeOK
<1>1. CASE proof' \in {proof, 0}
  BY <1>0, <1>1 DEF ProofGrounded, Grounded
<1>2. CASE InspectClean
  <2>1. CASE Integrated
    <3>1. proof' = Tip /\ Reachable(run.seen) /\ run.pc \in Informed
      BY <1>2, <2>1 DEF InspectClean, Integrated, At, Informed
    <3>2. CASE Tip = 0
      BY <3>1, <3>2 DEF ProofGrounded
    <3>3. CASE Tip # 0
      <4>1. Tip \in Commit /\ Grounded(Tip)
        BY <1>0, <3>1, <3>3, SeenOnMain DEF TipGrounded
      <4>2. verified'[Tip] > 0 \/ Tip \in foreign'
        BY <1>0, <4>1 DEF Grounded
      <4>3. QED BY <3>1, <4>2 DEF ProofGrounded, Grounded
    <3>4. QED BY <3>2, <3>3
  <2>2. CASE ~Integrated
    BY <1>1, <1>2, <2>2 DEF InspectClean
  <2>3. QED BY <2>1, <2>2
<1>3. CASE Verify
  <2>1. CASE run.cand # 0
    <3>1. proof' = run.cand /\ run.cand \in Commit /\ run.version > 0
          /\ verified' = [verified EXCEPT ![run.cand] = run.version]
      BY <1>0, <1>3, <2>1 DEF Verify, At, RunGrounded, Informs, Informed, TypeOK
    <3>2. verified'[run.cand] > 0
      BY <1>0, <3>1 DEF TypeOK
    <3>3. QED BY <3>1, <3>2 DEF ProofGrounded, Grounded
  <2>2. CASE run.cand = 0
    BY <1>1, <1>3, <2>2 DEF Verify
  <2>3. QED BY <2>1, <2>2
<1>4. [Next]_vars => InspectClean \/ Verify \/ proof' \in {proof, 0}
  BY DEF Next, Continues, Begin, BeginFinalize, Prepare, Fetch, Implement, Retry, Works, Checks, Repair,
         Decide, Read, AfterCleanup, CommitDirty, Merge, Settle, Clean, Remove, Delete, Sync, Fails,
         Crash, Abort, MainMoves, OthersIntegrate, RefreshLocal, EditRoot, EditWorktree,
         CommitWorktree, EditIssue, vars
<1>5. QED BY <1>1, <1>2, <1>3, <1>4

(* A tip arrives on main by a run that had verified it, or by others.       *)
LEMMA TipStep ==
  ASSUME Inv, [Next]_vars
  PROVE  TipGrounded'
<1>0. /\ TypeOK /\ History /\ Informs /\ TipGrounded /\ RunGrounded
      /\ Tip \in {0} \cup Commit
      /\ \A c \in Commit : Grounded(c) => Grounded(c)'
  BY Persists, BranchCommits DEF Inv, Knowledge
<1>1. CASE Tip' = 0 \/ (Tip' # 0 /\ ~OnMain(Tip)')
  BY <1>1 DEF TipGrounded
<1>2. CASE Tip' = Tip
  <2> SUFFICES ASSUME Tip # 0, OnMain(Tip)'
               PROVE  Grounded(Tip)'
    BY <1>2 DEF TipGrounded
  <2>1. CASE OnMain(Tip)
    BY <1>0, <1>2, <2>1 DEF TipGrounded, Grounded
  <2>2. CASE ~OnMain(Tip)
    <3>1. main' # main
      BY <1>2, <2>2 DEF OnMain, Latest
    <3>2. CASE Merge
      <4>1. Tip = run.cand /\ At("merge")
        BY <3>2 DEF Merge
      <4>2. QED BY <1>0, <1>2, <4>1 DEF RunGrounded, Grounded
    <3>3. CASE OthersIntegrate
      <4>1. Tip \in Own /\ foreign' = foreign \cup Own
        BY <3>3, BranchCommits, <1>0 DEF OthersIntegrate
      <4>2. QED BY <1>2, <4>1 DEF Grounded
    <3>4. CASE MainMoves
      <4>1. Grows({})
        BY <3>4, Revisions, <1>0 DEF MainMoves, Grows
      <4>2. main'[Latest'] = main[Latest] \cup {}
        BY <1>0, <4>1, RevisionsStay, Zenon
      <4>3. QED BY <1>2, <2>2, <4>2 DEF OnMain
    <3>5. [Next]_vars => Merge \/ OthersIntegrate \/ MainMoves \/ UNCHANGED main
      BY DEF Next, Continues, Begin, BeginFinalize, Prepare, Fetch, Implement, Retry, Works, Checks,
             Repair, Decide, Read, AfterCleanup, CommitDirty, InspectClean, Verify, Settle, Clean,
             Remove, Delete, Sync, Fails, Crash, Abort, RefreshLocal, EditRoot, EditWorktree,
             CommitWorktree, EditIssue, repository, vars
    <3>6. QED BY <3>1, <3>2, <3>3, <3>4, <3>5
  <2>3. QED BY <2>1, <2>2
<1>3. QED BY <1>0, <1>1, <1>2, TipMoves

(* From the inspection to the closing the candidate of a run is the one     *)
(* that was inspected: verified, or put on main by others.                  *)
LEMMA RunGroundedStep ==
  ASSUME Inv, [Next]_vars
  PROVE  RunGrounded'
<1>0. /\ TypeOK /\ History /\ Informs /\ ProofGrounded /\ TipGrounded /\ RunGrounded
      /\ Tip \in {0} \cup Commit /\ run.cand \in {0} \cup Commit /\ proof \in {0} \cup Commit
      /\ \A c \in Commit : OnMain(c) => OnMain(c)'
      /\ \A c \in Commit : Grounded(c) => Grounded(c)'
  BY Persists, BranchCommits DEF Inv, Knowledge, TypeOK
<1>1. ASSUME run'.pc \notin {"after_cleanup", "verify", "merge", "settle"}
      PROVE  RunGrounded'
  BY <1>1 DEF RunGrounded, At
<1>2. CASE Uninformed
  BY <1>0, <1>1, <1>2, UninformedAre DEF Informed
<1>3. CASE Environment
  <2>1. UNCHANGED <<proof, run, verified>>
    BY <1>3, EnvironmentWaits
  <2>2. CASE At("after_cleanup")
    BY <1>0, <2>1, <2>2 DEF RunGrounded, At, OnMain
  <2>3. CASE At("verify")
    <3>1. UNCHANGED <<branch, wt>>
      BY <1>3, <2>3 DEF Environment, MainMoves, OthersIntegrate, RefreshLocal, EditRoot, EditWorktree,
             CommitWorktree, EditIssue, repository, vars
    <3>2. QED BY <1>0, <2>1, <2>3, <3>1 DEF RunGrounded, At, Tip
  <2>4. CASE At("merge") \/ At("settle")
    <3>1. run.cand \in Commit /\ Grounded(run.cand)
      BY <1>0, <2>4 DEF RunGrounded
    <3>2. verified'[run.cand] > 0 \/ run.cand \in foreign'
      BY <1>0, <3>1 DEF Grounded
    <3>3. At("settle") => run.cand \in main'[Latest']
      BY <1>0, <3>1 DEF RunGrounded, OnMain
    <3>4. QED BY <2>1, <2>4, <3>1, <3>2, <3>3 DEF RunGrounded, At, OnMain, Grounded, Commit
  <2>5. QED BY <1>1, <2>1, <2>2, <2>3, <2>4 DEF At
<1>4. CASE Read
  <2>1. /\ run'.pc = IF branch = NoBranch THEN "after_cleanup" ELSE "inspect"
        /\ branch = NoBranch => proof # 0 /\ OnMain(proof)
        /\ proof' = proof /\ main' = main
    BY <1>0, <1>4 DEF Read, repository, TypeOK
  <2>2. QED BY <2>1 DEF RunGrounded, At, OnMain, Latest
<1>5. CASE CommitDirty
  <2>1. CASE run'.pc = "idle"
    BY <1>1, <2>1
  <2>2. CASE run'.pc # "idle"
    <3>1. run'.pc = "verify" /\ run'.cand = made + 1
      BY <1>0, <1>5, <2>2, Admitted DEF CommitDirty
    <3>2. Tip' = made + 1 /\ wt' = "clean"
      BY <1>0, <1>5, CommitAdded DEF CommitDirty, Commits
    <3>3. QED BY <3>1, <3>2 DEF RunGrounded, At
  <2>3. QED BY <2>1, <2>2
<1>6. CASE InspectClean
  <2>1. CASE run'.pc = "idle"
    BY <1>1, <2>1
  <2>2. CASE run'.pc # "idle"
    <3>1. /\ run'.pc = (IF Fast THEN "merge" ELSE "verify") /\ run'.cand = Tip
          /\ wt' = "clean" /\ Tip' = Tip /\ run.pc \in Informed
      BY <1>0, <1>6, <2>2, Admitted DEF InspectClean, repository, Tip, At, Informed
    <3>2. CASE ~Fast
      BY <3>1, <3>2 DEF RunGrounded, At
    <3>3. CASE Fast
      <4>1. Tip # 0 /\ Grounded(Tip)
        <5>1. CASE HeadIntegrated
          BY <1>0, <3>1, <5>1, SeenOnMain DEF HeadIntegrated, TipGrounded
        <5>2. CASE ExactProof
          BY <1>0, <5>2 DEF ExactProof, ProofGrounded
        <5>3. QED BY <3>3, <5>1, <5>2 DEF Fast
      <4>2. verified'[Tip] > 0 \/ Tip \in foreign'
        BY <1>0, <4>1 DEF Grounded
      <4>3. QED BY <3>1, <3>3, <4>1, <4>2 DEF RunGrounded, At, Grounded
    <3>4. QED BY <3>2, <3>3
  <2>3. QED BY <2>1, <2>2
<1>7. CASE Verify
  <2>1. CASE run.cand # 0
    <3>1. /\ run.cand \in Commit /\ run.version > 0 /\ Tip = run.cand /\ wt = "clean"
          /\ run'.pc = "merge" /\ run'.cand = run.cand
          /\ verified' = [verified EXCEPT ![run.cand] = run.version]
      BY <1>0, <1>7, <2>1 DEF Verify, At, Goto, RunGrounded, Informs, Informed, TypeOK
    <3>2. verified'[run.cand] > 0
      BY <1>0, <3>1 DEF TypeOK
    <3>3. QED BY <2>1, <3>1, <3>2 DEF RunGrounded, At, Grounded
  <2>2. CASE run.cand = 0
    <3>1. run'.pc = "clean"
      BY <1>0, <1>7, <2>2 DEF Verify, TypeOK
    <3>2. QED BY <1>1, <3>1
  <2>3. QED BY <2>1, <2>2
<1>8. CASE Merge
  <2>1. /\ run'.pc = "settle" /\ run'.cand = run.cand /\ Tip = run.cand /\ Tip \in Commit
        /\ Grounded(run.cand)
    BY <1>0, <1>8 DEF Merge, At, RunGrounded, TypeOK
  <2>2. verified'[run.cand] > 0 \/ run.cand \in foreign'
    BY <1>0, <2>1 DEF Grounded
  <2>3. run.cand \in main'[Latest']
    <3>1. CASE OnMain(Tip)
      BY <1>0, <2>1, <3>1 DEF OnMain
    <3>2. CASE ~OnMain(Tip)
      <4>1. Grows(Own) /\ Tip \in Own
        BY <1>0, <1>8, <2>1, <3>2, BranchCommits DEF Merge, Grows, Commit
      <4>2. QED BY <1>0, <2>1, <4>1, RevisionsStay
    <3>3. QED BY <3>1, <3>2
  <2>4. QED BY <2>1, <2>2, <2>3 DEF RunGrounded, At, OnMain, Grounded, Commit
<1>9. QED BY <1>2, <1>3, <1>4, <1>5, <1>6, <1>7, <1>8, StepsAre

(* The invariant holds at the beginning.                                    *)
LEMMA InvInit ==
  Init => Inv
<1> SUFFICES ASSUME Init PROVE Inv
  OBVIOUS
<1>1. run.pc = "idle" /\ Tip = 0
  BY DEF Init, Idle, Tip, NoBranch
<1>2. Knowledge
  BY <1>1 DEF Init, Knowledge, Informs, Informed, ProofGrounded, TipGrounded, RunGrounded, At
<1>3. QED BY <1>2, TypeInit, HistoryInit DEF Inv

(* The invariant is inductive.                                              *)
LEMMA InvStep ==
  ASSUME Inv, [Next]_vars
  PROVE  Inv'
<1>1. TypeOK' /\ History'
  BY TypeStep, HistoryStep DEF Inv
<1>2. Informs'
  BY InformsStep DEF Inv, Knowledge
<1>3. QED BY <1>1, <1>2, ProofStep, TipStep, RunGroundedStep DEF Inv, Knowledge

(* The inductive invariant of the bootstrap lifecycle.                      *)
THEOREM LifecycleInvariant == Spec => []Inv
<1>1. QED BY InvInit, InvStep, PTL DEF Spec

(* What a run is about to merge was verified as that very commit, unless    *)
(* main has it: it was not the run that put it there.                       *)
THEOREM VerifiedPromotion == Spec => []PromotedVerified
<1>1. Inv => PromotedVerified
  <2> SUFFICES ASSUME Inv, At("merge"), ~OnMain(run.cand)
               PROVE  verified[run.cand] > 0
    BY DEF PromotedVerified
  <2>1. Grounded(run.cand)
    BY DEF Inv, Knowledge, RunGrounded
  <2>2. run.cand \notin foreign
    BY DEF Inv, History, Contents, OnMain
  <2>3. QED BY <2>1, <2>2 DEF Grounded
<1>2. QED BY <1>1, LifecycleInvariant, PTL

-----------------------------------------------------------------------------
(* Uncommitted work leaves a worktree in one way.                           *)
LEMMA EditsStay ==
  ASSUME TypeOK, Next, wt = "dirty", wt' # "dirty"
  PROVE  made' > made
<1>1. CASE CommitDirty \/ CommitWorktree
  <2>1. made' = made + 1
    BY <1>1 DEF CommitDirty, CommitWorktree, Commits
  <2>2. made \in Nat
    BY DEF TypeOK, Commit
  <2>3. QED BY <2>1, <2>2
<1>2. CASE ~(CommitDirty \/ CommitWorktree)
  BY <1>2 DEF Next, Continues, Begin, BeginFinalize, Prepare, Fetch, Implement, Retry, Works, Checks,
         Repair, Decide, Read, AfterCleanup, InspectClean, Verify, Merge, Settle, Clean, Remove,
         Removable, Delete, Sync, Fails, Crash, Abort, MainMoves, OthersIntegrate, RefreshLocal,
         EditRoot, EditWorktree, EditIssue, repository
<1>3. QED BY <1>1, <1>2

(* The two places where a run closes the issue.                             *)
LEMMA ClosesGuarded ==
  ASSUME Inv, Next, run' # run, issue.state = "open", issue'.state = "closed"
  PROVE  /\ OnMain(run'.cand)
         /\ verified[run'.cand] > 0 \/ run'.cand \in foreign
         /\ At("settle") => issue.gate \notin {"pending", "failed"}
<1>0. TypeOK /\ Informs /\ ProofGrounded /\ RunGrounded
  BY DEF Inv, Knowledge
<1>1. CASE AfterCleanup
  <2>1. run'.cand = proof /\ ~At("settle") /\ At("after_cleanup")
    BY <1>0, <1>1 DEF AfterCleanup, At, TypeOK
  <2>2. QED BY <1>0, <2>1 DEF ProofGrounded, RunGrounded, Grounded
<1>2. CASE Settle
  <2>1. At("settle") /\ run'.cand = run.cand
    BY <1>0, <1>2 DEF Settle, Goto, TypeOK
  <2>2. OnMain(run.cand) /\ Grounded(run.cand)
    BY <1>0, <2>1 DEF RunGrounded
  <2>3. Unchanged /\ run.gate # "pending"
    BY <1>0, <1>2 DEF Settle, TypeOK
  <2>4. issue.gate = run.gate /\ run.gate # "failed"
    BY <1>0, <2>1, <2>3 DEF Unchanged, Informs, Informed, At
  <2>5. QED BY <2>1, <2>2, <2>3, <2>4 DEF Grounded
<1>3. Next => AfterCleanup \/ Settle \/ UNCHANGED run \/ UNCHANGED issue
  BY DEF Next, Continues, Begin, BeginFinalize, Prepare, Fetch, Implement, Retry, Works, Checks, Repair,
         Decide, Read, CommitDirty, InspectClean, Verify, Merge, Clean, Remove, Delete, Sync, Fails,
         Crash, Abort, MainMoves, OthersIntegrate, RefreshLocal, EditRoot, EditWorktree,
         CommitWorktree, EditIssue
<1>4. QED BY <1>1, <1>2, <1>3

(* A run closes the issue with its candidate on main, verified or others'   *)
(* work, and after a last look at the issue with nothing left to verify     *)
(* outside; and no step drops work that is not committed.                   *)
THEOREM GuardedSteps == Spec => StepsGuarded
<1>1. ASSUME Inv, [Next]_vars, wt = "dirty", wt' # "dirty"
      PROVE  made' > made
  <2>1. Next
    BY <1>1 DEF vars
  <2>2. QED BY <1>1, <2>1, EditsStay DEF Inv
<1>2. ASSUME Inv, [Next]_vars, run' # run, issue.state = "open", issue'.state = "closed"
      PROVE  /\ OnMain(run'.cand)
             /\ verified[run'.cand] > 0 \/ run'.cand \in foreign
             /\ At("settle") => issue.gate \notin {"pending", "failed"}
  <2>1. Next
    BY <1>2 DEF vars
  <2>2. QED BY <1>2, <2>1, ClosesGuarded
<1>3. Inv /\ [Next]_vars => [wt = "dirty" /\ wt' # "dirty" => made' > made]_vars
  BY <1>1
<1>4. Inv /\ [Next]_vars =>
        [run' # run /\ issue.state = "open" /\ issue'.state = "closed" =>
           /\ OnMain(run'.cand)
           /\ verified[run'.cand] > 0 \/ run'.cand \in foreign
           /\ At("settle") => issue.gate \notin {"pending", "failed"}]_vars
  BY <1>2
<1>5. QED BY <1>3, <1>4, LifecycleInvariant, PTL DEF Spec, StepsGuarded, EditsKept, GuardedClosure
-----------------------------------------------------------------------------
(* Runs, who executes them and who can stop them.                           *)

USE RunsAssumption DEF A!AutoAssumption

RunState == [status : {"none", "running"} \cup A!Ending, stop : BOOLEAN, left : Int]

Execution ==
  [at : {"waiting", "boundary", "working", "done", "dead"}, host : A!Host, run : A!Run \cup {A!Nobody},
   want : {"auto", "named", "listed", "monitor"}, limit : Int, settled : Int, aborted : BOOLEAN]

(* The executions a monitor may wait for, or none.                          *)
Watched == {A!Nobody} \cup {e \in A!Execs : exec[e].run \in A!Run}

MonitorState(W) ==
  [running : BOOLEAN, shown : BOOLEAN, stopRequested : BOOLEAN, timer : BOOLEAN,
   check : {"none", "listing", "working"}, exec : W]

(* A monitor that is shown as running runs, and polls.                      *)
Polling(W) == {m \in MonitorState(W) : m.shown => m.running /\ (m.timer \/ m.check # "none")}

AutoTyped ==
  /\ setting \in Setting /\ file \in [A!Run -> RunState] /\ exec \in Seq(Execution)
  /\ \A e \in A!Execs : A!Live(e) \/ exec[e].want \in {"named", "listed"} => exec[e].run \in A!Run
  /\ controllers \in [A!Host -> [A!Run -> Nat]] /\ last \in [A!Host -> [A!Run -> Nat]]
  /\ \A h \in A!Host, r \in A!Run : controllers[h][r] \in {A!Nobody} \cup A!Execs
  /\ monitor \in [A!Host -> Seq(Polling(Watched))]
  /\ stopping \in [A!Host -> [run : A!Run \cup {A!Nobody}, copy : RunState]]
  /\ lost \subseteq A!Run

(* The execution registered last for a run is one of that run in that       *)
(* process, and the controller is its while it goes on.                     *)
Registered ==
  \A h \in A!Host, r \in A!Run :
    last[h][r] # A!Nobody =>
      /\ last[h][r] \in A!Execs
      /\ exec[last[h][r]].host = h /\ exec[last[h][r]].run = r /\ exec[last[h][r]].at # "waiting"
      /\ A!Live(last[h][r]) => controllers[h][r] = last[h][r]

AutoInv == AutoTyped /\ Registered /\ A!RunningExplained

(* A step of the system is one of the runs, or does not touch them.         *)
LEMMA AutoSteps == [EitherNext]_allVars => [A!Next]_auto
  BY DEF EitherNext, allVars, auto, A!vars

LEMMA AutoBegin == A!Init => AutoInv
<1> SUFFICES ASSUME A!Init PROVE AutoInv
  OBVIOUS
<1>1. exec \in Seq(Execution) /\ Len(exec) = 0 /\ A!Execs = {}
  BY EmptySeq DEF A!Init, A!Execs
<1>2. monitor \in [A!Host -> Seq(Polling(Watched))]
  BY EmptySeq DEF A!Init
<1>3. AutoTyped
  BY <1>1, <1>2 DEF A!Init, AutoTyped, RunState, A!NoState, A!Ending, A!Idle, A!Nobody
<1>4. Registered /\ A!RunningExplained
  BY DEF A!Init, Registered, A!RunningExplained, A!NoState
<1>5. QED
  BY <1>3, <1>4 DEF AutoInv

(* Executions as numbers.                                                   *)
LEMMA Numbers ==
  ASSUME AutoTyped
  PROVE  /\ Len(exec) \in Nat /\ DOMAIN exec = A!Execs /\ A!Execs = 1 .. Len(exec) /\ A!Nobody = 0
         /\ \A e \in A!Execs : exec[e] \in Execution
  BY LenProperties, ElementOfSeq DEF AutoTyped, A!Execs, A!Nobody

(* One execution changes.                                                   *)
LEMMA ExecMoves ==
  ASSUME AutoTyped, NEW e \in A!Execs, NEW x \in Execution, exec' = [exec EXCEPT ![e] = x]
  PROVE  /\ exec' \in Seq(Execution) /\ Len(exec') = Len(exec) /\ A!Execs' = A!Execs
         /\ exec'[e] = x /\ \A f \in A!Execs \ {e} : exec'[f] = exec[f]
  BY Numbers, ExceptSeq DEF AutoTyped, A!Execs

(* Who may be waited for goes on being so.                                  *)
LEMMA Lifts ==
  ASSUME NEW V, NEW W, V \subseteq W, NEW f \in [A!Host -> Seq(Polling(V))]
  PROVE  f \in [A!Host -> Seq(Polling(W))]
<1>1. Polling(V) \subseteq Polling(W)
  BY DEF Polling, MonitorState
<1>2. Seq(Polling(V)) \subseteq Seq(Polling(W))
  BY <1>1, SeqMonotonic
<1>3. QED
  BY <1>2

(* The next steps of a monitor.                                             *)
LEMMA MonitorsGoOn ==
  ASSUME NEW W, A!Nobody \in W, NEW m \in MonitorState(W), NEW aborted \in BOOLEAN
  PROVE  /\ A!NextCheck(m) \in Polling(W) /\ A!Returned(m, aborted) \in Polling(W)
         /\ m \in Polling(W) => A!Thrown(m, aborted) \in Polling(W)
<1>1. ASSUME NEW n \in MonitorState(W) PROVE A!NextCheck(n) \in Polling(W)
  <2>1. CASE n.running /\ ~ n.stopRequested
    <3>1. [n EXCEPT !.timer = TRUE, !.check = "none", !.exec = A!Nobody] \in Polling(W)
      BY <2>1 DEF Polling, MonitorState, A!Nobody
    <3>2. QED
      BY <2>1, <3>1 DEF A!NextCheck
  <2>2. CASE ~ (n.running /\ ~ n.stopRequested)
    <3>1. [n EXCEPT !.shown = FALSE, !.check = "none", !.exec = A!Nobody] \in Polling(W)
      BY DEF Polling, MonitorState, A!Nobody
    <3>2. QED
      BY <2>2, <3>1 DEF A!NextCheck
  <2>3. QED
    BY <2>1, <2>2
<1>2. A!Returned(m, aborted) \in Polling(W)
  <2>1. [m EXCEPT !.stopRequested = TRUE, !.running = FALSE] \in MonitorState(W)
    BY DEF MonitorState
  <2>2. QED
    BY <1>1, <2>1 DEF A!Returned
<1>3. ASSUME m \in Polling(W) PROVE A!Thrown(m, aborted) \in Polling(W)
  <2>1. [m EXCEPT !.shown = FALSE, !.check = "none", !.exec = A!Nobody] \in Polling(W)
    BY DEF Polling, MonitorState, A!Nobody
  <2>2. PICK t \in BOOLEAN : t = (m.timer \/ m.running)
    BY DEF MonitorState
  <2>3. [m EXCEPT !.timer = t, !.check = "none"] \in Polling(W)
    BY <1>3, <2>2 DEF Polling, MonitorState
  <2>4. QED
    BY <2>1, <2>2, <2>3 DEF A!Thrown
<1>4. QED
  BY <1>1, <1>2, <1>3

(* Executions go on, end or are aborted; none begins.                       *)
Onward ==
  /\ exec' \in Seq(Execution) /\ Len(exec') = Len(exec)
  /\ \A e \in A!Execs : /\ exec'[e].host = exec[e].host /\ exec'[e].run = exec[e].run /\ exec'[e].want = exec[e].want
                        /\ exec'[e].at = "waiting" => exec[e].at = "waiting"
                        /\ exec'[e].at \in {"boundary", "working"} => A!Live(e)

(* A controller goes only when the execution it would abort is over.        *)
Kept ==
  /\ controllers' \in [A!Host -> [A!Run -> Nat]] /\ last' = last
  /\ \A h \in A!Host, r \in A!Run :
       \/ controllers'[h][r] = controllers[h][r]
       \/ /\ controllers'[h][r] = A!Nobody
          /\ \A e \in A!Execs : e = controllers[h][r] /\ exec[e].host = h /\ exec[e].run = r =>
                                  exec'[e].at \notin {"boundary", "working"}

(* A run that a state still calls running has an execution, or is lost.     *)
Explained ==
  /\ file' \in [A!Run -> RunState] /\ lost' \subseteq A!Run
  /\ \A r \in A!Run : file'[r].status = "running" =>
       r \in lost' \/ \E e \in A!Execs : exec'[e].at \in {"boundary", "working"} /\ exec[e].run = r

Rest ==
  /\ setting' = setting /\ monitor' \in [A!Host -> Seq(Polling(Watched))]
  /\ stopping' \in [A!Host -> [run : A!Run \cup {A!Nobody}, copy : RunState]]

LEMMA Goes ==
  ASSUME AutoInv, Onward, Kept, Explained, Rest
  PROVE  AutoInv'
<1>1. A!Execs' = A!Execs /\ A!Host' = A!Host /\ A!Run' = A!Run /\ A!Nobody' = A!Nobody
  BY DEF Onward, Rest, A!Execs, A!Host, A!Run, A!Nobody
<1>2. RunState' = RunState /\ Execution' = Execution
  BY <1>1 DEF RunState, Execution
<1>3. AutoTyped'
  <2>1. \A e \in A!Execs : exec'[e].at \in {"boundary", "working"} \/ exec'[e].want \in {"named", "listed"} => exec'[e].run \in A!Run
    BY DEF AutoInv, AutoTyped, Onward
  <2>2. \A h \in A!Host, r \in A!Run : controllers'[h][r] \in {A!Nobody} \cup A!Execs
    BY DEF AutoInv, AutoTyped, Kept
  <2>3. \A e \in A!Execs : A!Live(e)' \/ exec'[e].want \in {"named", "listed"} => exec'[e].run \in A!Run
    BY <2>1 DEF A!Live
  <2>4. /\ setting' \in Setting /\ file' \in [A!Run -> RunState] /\ exec' \in Seq(Execution)
        /\ controllers' \in [A!Host -> [A!Run -> Nat]] /\ last' \in [A!Host -> [A!Run -> Nat]]
        /\ monitor' \in [A!Host -> Seq(Polling(Watched))] /\ lost' \subseteq A!Run
        /\ stopping' \in [A!Host -> [run : A!Run \cup {A!Nobody}, copy : RunState]]
    BY DEF AutoInv, AutoTyped, Onward, Kept, Explained, Rest
  <2>5. monitor' \in [A!Host -> Seq(Polling(Watched'))]
    BY <1>1, <2>4 DEF Watched, Onward
  <2>6. QED
    BY <1>1, <1>2, <2>2, <2>3, <2>4, <2>5 DEF AutoTyped
<1>4. Registered'
  <2>1. ASSUME NEW h \in A!Host, NEW r \in A!Run, NEW e \in A!Execs, last[h][r] = e, e # A!Nobody
        PROVE  /\ exec'[e].host = h /\ exec'[e].run = r /\ exec'[e].at # "waiting"
               /\ exec'[e].at \in {"boundary", "working"} => controllers'[h][r] = e
    <3>1. /\ exec[e].host = h /\ exec[e].run = r /\ exec[e].at # "waiting"
          /\ A!Live(e) => controllers[h][r] = e
      BY <2>1 DEF AutoInv, Registered
    <3>2. /\ exec'[e].host = h /\ exec'[e].run = r /\ exec'[e].at # "waiting"
          /\ exec'[e].at \in {"boundary", "working"} => A!Live(e)
      BY <3>1 DEF Onward
    <3>3. QED
      BY <3>1, <3>2 DEF Kept
  <2>2. \A h \in A!Host, r \in A!Run : last[h][r] # A!Nobody => last[h][r] \in A!Execs
    BY DEF AutoInv, Registered
  <2>3. QED
    BY <1>1, <2>1, <2>2 DEF Registered, A!Live, Kept
<1>5. A!RunningExplained'
  <2>1. ASSUME NEW r \in A!Run, file'[r].status = "running"
        PROVE  r \in lost' \/ \E e \in A!Execs : exec'[e].at \in {"boundary", "working"} /\ exec'[e].run = r
    BY <2>1 DEF Explained, Onward
  <2>2. QED
    BY <1>1, <2>1 DEF A!RunningExplained, A!Live
<1>6. QED
  BY <1>3, <1>4, <1>5 DEF AutoInv

(* An execution of r begins in h, which registers its controller.           *)
LEMMA Launches ==
  ASSUME AutoInv, UNCHANGED <<setting, stopping, lost>>, NEW e \in Nat \ {0}, NEW h \in A!Host, NEW r \in A!Run, NEW limit \in Int,
         exec' \in Seq(Execution), A!Execs' = A!Execs \cup {e}, e \in A!Execs => exec[e].at = "waiting",
         exec'[e].host = h /\ exec'[e].run = r /\ exec'[e].at = "boundary",
         \A f \in A!Execs \ {e} : exec'[f] = exec[f],
         A!Register(h, r, e), file' = [file EXCEPT ![r] = A!Fresh(limit)], monitor' \in [A!Host -> Seq(Polling(Watched'))]
  PROVE  AutoInv'
<1>1. A!Host' = A!Host /\ A!Run' = A!Run /\ A!Nobody' = A!Nobody /\ A!Nobody = 0
  BY DEF A!Host, A!Run, A!Nobody
<1>2. RunState' = RunState /\ Execution' = Execution
  BY <1>1 DEF RunState, Execution
<1>3. /\ controllers' \in [A!Host -> [A!Run -> Nat]] /\ last' \in [A!Host -> [A!Run -> Nat]]
      /\ controllers'[h][r] = e /\ last'[h][r] = e
      /\ \A g \in A!Host, q \in A!Run : g # h \/ q # r => controllers'[g][q] = controllers[g][q] /\ last'[g][q] = last[g][q]
  BY DEF AutoInv, AutoTyped, A!Register
<1>4. A!Fresh(limit) \in RunState
  BY DEF A!Fresh, RunState
<1>5. file' \in [A!Run -> RunState] /\ \A q \in A!Run \ {r} : file'[q] = file[q]
  BY <1>4 DEF AutoInv, AutoTyped
<1>6. \A f \in A!Execs : A!Live(f) => f # e
  BY DEF A!Live
<1>7. AutoTyped'
  <2>1. \A f \in A!Execs' : A!Live(f)' \/ exec'[f].want \in {"named", "listed"} => exec'[f].run \in A!Run
    BY DEF AutoInv, AutoTyped, A!Live
  <2>2. ASSUME NEW g \in A!Host, NEW q \in A!Run PROVE controllers'[g][q] \in {A!Nobody} \cup A!Execs'
    <3>1. controllers[g][q] \in {A!Nobody} \cup A!Execs
      BY DEF AutoInv, AutoTyped
    <3>2. CASE g = h /\ q = r
      BY <1>3, <3>2
    <3>3. CASE g # h \/ q # r
      BY <1>3, <3>1, <3>3
    <3>4. QED
      BY <3>2, <3>3
  <2>3. setting' \in Setting /\ lost' \subseteq A!Run /\ stopping' \in [A!Host -> [run : A!Run \cup {A!Nobody}, copy : RunState]]
    BY DEF AutoInv, AutoTyped
  <2>4. QED
    BY <1>1, <1>2, <1>3, <1>5, <2>1, <2>2, <2>3 DEF AutoTyped
<1>8. Registered'
  <2>1. ASSUME NEW g \in A!Host, NEW q \in A!Run, NEW f, last[g][q] = f, f # 0
        PROVE  /\ f \in A!Execs /\ f # e /\ exec'[f] = exec[f]
               /\ exec[f].host = g /\ exec[f].run = q /\ exec[f].at # "waiting"
               /\ exec[f].at \in {"boundary", "working"} => controllers[g][q] = f
    BY <1>1, <2>1 DEF AutoInv, Registered, A!Live
  <2>2. ASSUME NEW g \in A!Host, NEW q \in A!Run, NEW f, last'[g][q] = f, f # 0
        PROVE  /\ f \in A!Execs'
               /\ exec'[f].host = g /\ exec'[f].run = q /\ exec'[f].at # "waiting"
               /\ exec'[f].at \in {"boundary", "working"} => controllers'[g][q] = f
    <3>1. CASE g = h /\ q = r
      BY <1>3, <2>2, <3>1
    <3>2. CASE g # h \/ q # r
      <4>1. last[g][q] = f /\ controllers'[g][q] = controllers[g][q]
        BY <1>3, <2>2, <3>2
      <4>2. QED
        BY <2>1, <2>2, <4>1
    <3>3. QED
      BY <3>1, <3>2
  <2>3. QED
    BY <1>1, <2>2 DEF Registered, A!Live
<1>9. A!RunningExplained'
  <2>1. ASSUME NEW q \in A!Run, file'[q].status = "running"
        PROVE  q \in lost \/ \E f \in A!Execs' : exec'[f].at \in {"boundary", "working"} /\ exec'[f].run = q
    <3>1. CASE q = r
      BY <3>1
    <3>2. CASE q # r
      <4>1. q \in lost \/ \E f \in A!Execs : A!Live(f) /\ exec[f].run = q
        BY <1>5, <2>1, <3>2 DEF AutoInv, A!RunningExplained
      <4>2. \A f \in A!Execs : A!Live(f) => exec'[f] = exec[f]
        BY <1>6
      <4>3. QED
        BY <4>1, <4>2 DEF A!Live
    <3>3. QED
      BY <3>1, <3>2
  <2>2. QED
    BY <1>1, <2>1 DEF A!RunningExplained, A!Live
<1>10. QED
  BY <1>7, <1>8, <1>9 DEF AutoInv

(* One execution goes on, or none.                                          *)
LEMMA OneGoes ==
  ASSUME AutoInv, NEW e \in A!Execs, NEW x \in Execution, exec' = [exec EXCEPT ![e] = x],
         x.host = exec[e].host, x.run = exec[e].run, x.want = exec[e].want,
         x.at = "waiting" => exec[e].at = "waiting", x.at \in {"boundary", "working"} => A!Live(e)
  PROVE  Onward
<1>1. AutoTyped
  BY DEF AutoInv
<1>2. /\ exec' \in Seq(Execution) /\ Len(exec') = Len(exec)
      /\ exec'[e] = x /\ \A f \in A!Execs \ {e} : exec'[f] = exec[f]
  BY <1>1, ExecMoves
<1>3. QED
  BY <1>2 DEF Onward, A!Live

LEMMA NoneGoes ==
  ASSUME AutoInv, exec' = exec
  PROVE  Onward
  BY DEF Onward, A!Live, AutoInv, AutoTyped

(* What else a step leaves alone.                                           *)
LEMMA ControllersStay ==
  ASSUME AutoInv, UNCHANGED <<controllers, last>>
  PROVE  Kept
  BY DEF Kept, AutoInv, AutoTyped

LEMMA FilesStay ==
  ASSUME AutoInv, UNCHANGED <<file, lost>>, Onward,
         \A e \in A!Execs : A!Live(e) => exec'[e].at \in {"boundary", "working"}
  PROVE  Explained
  BY DEF Explained, AutoInv, AutoTyped, A!RunningExplained

LEMMA RestStays ==
  ASSUME AutoInv, UNCHANGED <<setting, monitor, stopping>>
  PROVE  Rest
  BY DEF Rest, AutoInv, AutoTyped

LEMMA LimitIs == AutoTyped => A!Limit \in Int
  BY RunsAssumption DEF AutoTyped, A!Limit, A!SettingOK

(* A command waits.                                                         *)
LEMMA AskKeeps ==
  ASSUME AutoInv, UNCHANGED setting, NEW h \in A!Host, A!Ask(h)
  PROVE  AutoInv'
<1>1. AutoTyped /\ A!Limit \in Int /\ \A r \in A!Run : file[r].left \in Int
  BY LimitIs DEF AutoInv, AutoTyped, RunState
<1>2. PICK x \in Execution : /\ exec' = Append(exec, x) /\ x.at = "waiting"
                             /\ x.want \in {"named", "listed"} => x.run \in A!Run
  <2>1. ASSUME NEW want \in {"auto", "named", "listed"}, NEW r \in A!Run \cup {A!Nobody}, NEW limit \in Int,
               exec' = Append(exec, A!Command(h, want, r, limit)), want # "auto" => r \in A!Run
        PROVE  \E x \in Execution : /\ exec' = Append(exec, x) /\ x.at = "waiting"
                                    /\ x.want \in {"named", "listed"} => x.run \in A!Run
    <3>0. A!Command(h, want, r, limit) \in Execution
      BY DEF A!Command, Execution
    <3>1. PICK x \in Execution : x = A!Command(h, want, r, limit)
      BY <3>0
    <3>2. x.at = "waiting" /\ x.want = want /\ x.run = r
      BY <3>1 DEF A!Command
    <3>3. QED
      BY <2>1, <3>1, <3>2
  <2>2. CASE exec' = Append(exec, A!Command(h, "auto", A!Nobody, A!Limit))
    BY <1>1, <2>1, <2>2
  <2>3. CASE \E r \in A!Run : exec' = Append(exec, A!Command(h, "named", r, 0))
    BY <2>1, <2>3
  <2>4. CASE \E r \in A!Run : exec' = Append(exec, A!Command(h, "listed", r, file[r].left))
    BY <1>1, <2>1, <2>4
  <2>5. QED
    BY <2>2, <2>3, <2>4 DEF A!Ask
<1>3. /\ UNCHANGED <<setting, file, controllers, last, monitor, stopping, lost>>
      /\ A!Host' = A!Host /\ A!Run' = A!Run /\ A!Nobody' = A!Nobody
  BY DEF A!Ask, A!Host, A!Run, A!Nobody
<1>4. RunState' = RunState /\ Execution' = Execution
  BY <1>3 DEF RunState, Execution
<1>5. /\ exec' \in Seq(Execution) /\ A!Execs' = A!Execs \cup {Len(exec) + 1}
      /\ exec'[Len(exec) + 1] = x /\ \A e \in A!Execs : exec'[e] = exec[e] /\ e # Len(exec) + 1
  <2>1. /\ exec' \in Seq(Execution) /\ Len(exec') = Len(exec) + 1
        /\ exec'[Len(exec) + 1] = x /\ \A e \in 1 .. Len(exec) : exec'[e] = exec[e]
    BY <1>1, <1>2, AppendProperties DEF AutoTyped
  <2>2. QED
    BY <1>1, <2>1, Numbers DEF A!Execs
<1>6. \A e \in A!Execs' : A!Live(e)' => e \in A!Execs /\ A!Live(e)
  BY <1>2, <1>5 DEF A!Live
<1>7. AutoTyped'
  <2>1. \A e \in A!Execs' : A!Live(e)' \/ exec'[e].want \in {"named", "listed"} => exec'[e].run \in A!Run
    BY <1>1, <1>2, <1>5, <1>6 DEF AutoTyped
  <2>2. \A g \in A!Host, q \in A!Run : controllers[g][q] \in {A!Nobody} \cup A!Execs'
    BY <1>1, <1>5 DEF AutoTyped
  <2>3. Watched \subseteq Watched'
    BY <1>3, <1>5 DEF Watched
  <2>4. monitor' \in [A!Host -> Seq(Polling(Watched'))]
    BY <1>1, <1>3, <2>3, Lifts DEF AutoTyped
  <2>5. QED
    BY <1>1, <1>3, <1>4, <1>5, <2>1, <2>2, <2>4 DEF AutoTyped
<1>8. Registered'
  <2>1. ASSUME NEW g \in A!Host, NEW q \in A!Run, NEW e, last[g][q] = e, e # A!Nobody
        PROVE  /\ e \in A!Execs' /\ exec'[e] = exec[e]
               /\ exec[e].host = g /\ exec[e].run = q /\ exec[e].at # "waiting"
               /\ A!Live(e) => controllers[g][q] = e
    BY <1>5, <2>1 DEF AutoInv, Registered
  <2>2. QED
    BY <1>3, <2>1 DEF Registered, A!Live
<1>9. A!RunningExplained'
  <2>1. \A e \in A!Execs : A!Live(e) => e \in A!Execs' /\ A!Live(e)' /\ exec'[e].run = exec[e].run
    BY <1>5 DEF A!Live
  <2>2. QED
    BY <1>3, <2>1 DEF AutoInv, A!RunningExplained
<1>10. QED
  BY <1>7, <1>8, <1>9 DEF AutoInv

(* A command starts to execute, or gives up; the scheduler takes an issue,  *)
(* reports and settles it.                                                  *)
LEMMA ProceedKeeps ==
  ASSUME AutoInv, UNCHANGED setting, NEW e \in A!Execs, A!Proceed(e)
  PROVE  AutoInv'
<1>1. exec[e] \in Execution /\ exec[e].at = "waiting" /\ exec[e].host \in A!Host /\ e \in Nat \ {0} /\ AutoTyped
  BY Numbers DEF AutoInv, A!Proceed, Execution
<1>2. ASSUME NEW r \in A!Run, NEW limit \in Int, A!Launch(e, r, limit)
      PROVE  AutoInv'
  <2> DEFINE x == [exec[e] EXCEPT !.at = "boundary", !.run = r, !.limit = limit]
  <2>1. x \in Execution /\ x.host = exec[e].host /\ x.run = r /\ x.at = "boundary"
    BY <1>1 DEF Execution
  <2>2. exec' = [exec EXCEPT ![e] = x]
    BY <1>1, <1>2, Numbers DEF A!Launch
  <2> HIDE DEF x
  <2>3. /\ exec' \in Seq(Execution) /\ A!Execs' = A!Execs
        /\ exec'[e] = x /\ \A f \in A!Execs \ {e} : exec'[f] = exec[f]
    BY <1>1, <2>1, <2>2, ExecMoves
  <2>a. Watched \subseteq Watched'
    BY <2>1, <2>3 DEF Watched, A!Run, A!Nobody
  <2>4. monitor' \in [A!Host -> Seq(Polling(Watched'))] /\ UNCHANGED <<stopping, lost>>
    BY <1>1, <2>a, Lifts DEF A!Proceed, AutoTyped
  <2>5. A!Register(exec[e].host, r, e) /\ file' = [file EXCEPT ![r] = A!Fresh(limit)]
    BY <1>2 DEF A!Launch
  <2>6. QED
    BY <1>1, <2>1, <2>3, <2>4, <2>5, Launches
<1>3. A!Limit \in Int
  BY <1>1, LimitIs
<1>4. exec[e].limit \in Int /\ \A r \in A!Run : file[r].left \in Int
  BY <1>1 DEF AutoTyped, Execution, RunState
<1>5. exec[e].want \in {"named", "listed"} => exec[e].run \in A!Run
  BY <1>1 DEF AutoTyped
<1>6. QED
  BY <1>2, <1>3, <1>4, <1>5 DEF A!Proceed, A!Unused

LEMMA TakesKeep ==
  ASSUME AutoInv, UNCHANGED setting, NEW e \in A!Execs, A!Refuse(e) \/ A!Take(e) \/ A!Settle(e)
  PROVE  AutoInv'
<1>1. exec[e] \in Execution
  BY Numbers DEF AutoInv
<1>2. /\ UNCHANGED <<controllers, last, file, lost, monitor, stopping>>
      /\ \/ exec[e].at = "waiting" /\ exec' = [exec EXCEPT ![e].at = "done"]
         \/ exec[e].at = "boundary" /\ exec' = [exec EXCEPT ![e].at = "working"]
         \/ exec[e].at = "working" /\ exec' = [exec EXCEPT ![e].at = "boundary", ![e].settled = @ + 1]
  BY DEF A!Refuse, A!Take, A!Settle
<1>3. PICK x \in Execution : /\ exec' = [exec EXCEPT ![e] = x]
                             /\ x.host = exec[e].host /\ x.run = exec[e].run /\ x.want = exec[e].want
                             /\ \/ exec[e].at = "waiting" /\ x.at = "done"
                                \/ A!Live(e) /\ x.at \in {"boundary", "working"}
  <2>1. CASE exec[e].at = "waiting" /\ exec' = [exec EXCEPT ![e].at = "done"]
    <3>1. PICK x \in Execution : x = [exec[e] EXCEPT !.at = "done"]
      BY <1>1 DEF Execution
    <3>2. x.host = exec[e].host /\ x.run = exec[e].run /\ x.want = exec[e].want /\ x.at = "done"
      BY <1>1, <3>1 DEF Execution
    <3>3. exec' = [exec EXCEPT ![e] = x]
      BY <2>1, <3>1
    <3>4. QED
      BY <2>1, <3>2, <3>3
  <2>2. CASE exec[e].at = "boundary" /\ exec' = [exec EXCEPT ![e].at = "working"]
    <3>1. PICK x \in Execution : x = [exec[e] EXCEPT !.at = "working"]
      BY <1>1 DEF Execution
    <3>2. x.host = exec[e].host /\ x.run = exec[e].run /\ x.want = exec[e].want /\ x.at = "working"
      BY <1>1, <3>1 DEF Execution
    <3>3. exec' = [exec EXCEPT ![e] = x]
      BY <2>2, <3>1
    <3>4. QED
      BY <2>2, <3>2, <3>3 DEF A!Live
  <2>3. CASE exec[e].at = "working" /\ exec' = [exec EXCEPT ![e].at = "boundary", ![e].settled = @ + 1]
    <3>0. PICK n \in Int : n = exec[e].settled + 1
      BY <1>1 DEF Execution
    <3>1. PICK x \in Execution : x = [exec[e] EXCEPT !.at = "boundary", !.settled = n]
      BY <1>1 DEF Execution
    <3>2. x.host = exec[e].host /\ x.run = exec[e].run /\ x.want = exec[e].want /\ x.at = "boundary"
      BY <1>1, <3>1 DEF Execution
    <3>3. exec' = [exec EXCEPT ![e] = x]
      BY <2>3, <3>0, <3>1, Numbers DEF AutoInv
    <3>4. QED
      BY <2>3, <3>2, <3>3 DEF A!Live
  <2>4. QED
    BY <1>2, <2>1, <2>2, <2>3
<1>4. Onward
  BY <1>3, OneGoes
<1>5. \A f \in A!Execs : A!Live(f) => exec'[f].at \in {"boundary", "working"}
  <2>1. exec'[e] = x /\ \A f \in A!Execs \ {e} : exec'[f] = exec[f]
    BY <1>3, ExecMoves DEF AutoInv
  <2>2. QED
    BY <1>3, <2>1 DEF A!Live
<1>6. QED
  BY <1>2, <1>4, <1>5, Goes, ControllersStay, FilesStay, RestStays

LEMMA ReportKeeps ==
  ASSUME AutoInv, UNCHANGED setting, NEW e \in A!Execs, A!Report(e)
  PROVE  AutoInv'
<1>1. /\ UNCHANGED <<exec, controllers, last, lost, monitor, stopping>> /\ A!Live(e)
      /\ file' = [file EXCEPT ![exec[e].run].status = "running"]
  BY DEF A!Report, A!Live
<1>2. PICK r \in A!Run : r = exec[e].run
  BY <1>1 DEF AutoInv, AutoTyped
<1>3. [file[r] EXCEPT !.status = "running"] \in RunState /\ [file[r] EXCEPT !.status = "running"].status = "running"
  <2>1. file[r] \in RunState
    BY DEF AutoInv, AutoTyped
  <2>2. QED
    BY <2>1 DEF RunState
<1>4. file' \in [A!Run -> RunState] /\ \A q \in A!Run \ {r} : file'[q] = file[q]
  BY <1>1, <1>2, <1>3 DEF AutoInv, AutoTyped
<1>5. Explained
  BY <1>1, <1>2, <1>4 DEF Explained, AutoInv, AutoTyped, A!RunningExplained, A!Live
<1>6. QED
  BY <1>1, <1>5, Goes, NoneGoes, ControllersStay, RestStays

(* An execution is back, and its monitor goes on.                           *)
LEMMA BackKeeps ==
  ASSUME AutoInv, NEW e \in A!Execs, NEW threw \in BOOLEAN, A!Back(e, threw), UNCHANGED <<setting, stopping>>
  PROVE  Rest
<1>1. exec[e].host \in A!Host /\ exec[e].aborted \in BOOLEAN
  BY Numbers DEF AutoInv, Execution
<1>2. PICK h \in A!Host : h = exec[e].host
  BY <1>1
<1>3. PICK aborted \in BOOLEAN : aborted = A!Stopped(e)
  BY <1>1 DEF A!Stopped
<1>4. /\ monitor \in [A!Host -> Seq(Polling(Watched))] /\ monitor[h] \in Seq(Polling(Watched)) /\ Len(monitor[h]) \in Nat
      /\ \A k \in 1 .. Len(monitor[h]) : monitor[h][k] \in Polling(Watched)
  BY LenProperties, ElementOfSeq DEF AutoInv, AutoTyped
<1> DEFINE After(m) == IF threw THEN A!Thrown(m, aborted) ELSE A!Returned(m, aborted)
           Step(k) == IF monitor[h][k].check = "working" /\ monitor[h][k].exec = e THEN After(monitor[h][k]) ELSE monitor[h][k]
<1>5. \A k \in 1 .. Len(monitor[h]) : Step(k) \in Polling(Watched)
  <2>1. \A m \in Polling(Watched) : m \in MonitorState(Watched)
    BY DEF Polling
  <2>2. QED
    BY <1>4, <2>1, MonitorsGoOn DEF Watched
<1>6. monitor' = [monitor EXCEPT ![h] = [k \in 1 .. Len(monitor[h]) |-> Step(k)]]
  BY <1>2, <1>3, <1>4 DEF A!Back
<1>7. [k \in 1 .. Len(monitor[h]) |-> Step(k)] \in [1 .. Len(monitor[h]) -> Polling(Watched)]
  BY <1>5
<1>8. [k \in 1 .. Len(monitor[h]) |-> Step(k)] \in Seq(Polling(Watched))
  BY <1>4, <1>7, SeqDef
<1> HIDE DEF Step
<1>9. QED
  BY <1>4, <1>6, <1>8 DEF Rest, AutoInv, AutoTyped

(* An execution returns or throws: nobody's controller is taken but its own.*)
LEMMA EndsKeep ==
  ASSUME AutoInv, UNCHANGED setting, NEW e \in A!Execs, A!Return(e) \/ A!Throw(e)
  PROVE  AutoInv'
<1>1. exec[e] \in Execution /\ A!Live(e) /\ exec' = [exec EXCEPT ![e].at = "done"]
  BY Numbers DEF AutoInv, A!Return, A!Throw
<1>2. PICK h \in A!Host, r \in A!Run : h = exec[e].host /\ r = exec[e].run
  BY <1>1 DEF AutoInv, AutoTyped, Execution
<1>3. PICK x \in Execution : x = [exec[e] EXCEPT !.at = "done"]
  BY <1>1 DEF Execution
<1>4. /\ x.host = exec[e].host /\ x.run = exec[e].run /\ x.want = exec[e].want /\ x.at = "done"
      /\ exec' = [exec EXCEPT ![e] = x]
  BY <1>1, <1>3 DEF Execution
<1>5. Onward
  BY <1>4, OneGoes
<1>6. exec'[e].at = "done" /\ \A f \in A!Execs \ {e} : exec'[f] = exec[f]
  BY <1>4, ExecMoves DEF AutoInv
<1>7. Kept
  <2>1. /\ controllers' = [controllers EXCEPT ![h] = [controllers[h] EXCEPT ![r] = IF controllers[h][r] = e THEN A!Nobody ELSE controllers[h][r]]]
        /\ last' = last
    BY <1>2 DEF A!Return, A!Throw, A!Unregistered, AutoInv, AutoTyped
  <2>2. /\ controllers' \in [A!Host -> [A!Run -> Nat]]
        /\ controllers'[h][r] = IF controllers[h][r] = e THEN A!Nobody ELSE controllers[h][r]
        /\ \A g \in A!Host, q \in A!Run : g # h \/ q # r => controllers'[g][q] = controllers[g][q]
    BY <2>1 DEF AutoInv, AutoTyped, A!Nobody
  <2>3. QED
    BY <1>6, <2>1, <2>2 DEF Kept
<1>8. Explained
  <2>1. \A q \in A!Run : q # r /\ file[q].status = "running" =>
          q \in lost \/ \E f \in A!Execs : exec'[f].at \in {"boundary", "working"} /\ exec[f].run = q
    BY <1>2, <1>6 DEF AutoInv, A!RunningExplained, A!Live
  <2>2. CASE A!Return(e)
    <3>1. PICK d \in A!Ending : file' = [file EXCEPT ![r] = A!Final(e, d)]
      BY <1>2, <2>2 DEF A!Return
    <3>2. A!Final(e, d) \in RunState /\ A!Final(e, d).status # "running"
      <4>1. file[r] \in RunState /\ exec[e].limit - exec[e].settled \in Int
        BY <1>1 DEF AutoInv, AutoTyped, Execution
      <4>2. PICK n \in Int : n = exec[e].limit - exec[e].settled
        BY <4>1
      <4>3. [file[r] EXCEPT !.status = d, !.left = n] \in RunState /\ [file[r] EXCEPT !.status = d, !.left = n].status = d
        BY <4>1 DEF RunState
      <4>4. QED
        BY <1>2, <4>2, <4>3 DEF A!Final, A!Ending
    <3>3. file' \in [A!Run -> RunState] /\ file'[r].status # "running" /\ \A q \in A!Run \ {r} : file'[q] = file[q]
      BY <3>1, <3>2 DEF AutoInv, AutoTyped
    <3>4. lost' = lost
      BY <2>2 DEF A!Return
    <3>5. QED
      BY <2>1, <3>3, <3>4 DEF Explained, AutoInv, AutoTyped
  <2>3. CASE A!Throw(e)
    <3>1. file' = file /\ lost' = lost \cup {r}
      BY <1>2, <2>3 DEF A!Throw
    <3>2. QED
      BY <2>1, <3>1 DEF Explained, AutoInv, AutoTyped
  <2>4. QED
    BY <2>2, <2>3
<1>9. Rest
  BY BackKeeps DEF A!Return, A!Throw
<1>10. QED
  BY <1>5, <1>7, <1>8, <1>9, Goes

(* A monitor is put in the place of one.                                    *)
LEMMA MonitorPut ==
  ASSUME AutoInv, NEW h \in A!Host, NEW k \in 1 .. Len(monitor[h]), NEW m \in Polling(Watched),
         monitor' = [monitor EXCEPT ![h] = [monitor[h] EXCEPT ![k] = m]]
  PROVE  monitor' \in [A!Host -> Seq(Polling(Watched))]
<1>1. monitor[h] \in Seq(Polling(Watched)) /\ monitor \in [A!Host -> Seq(Polling(Watched))]
  BY DEF AutoInv, AutoTyped
<1>2. [monitor[h] EXCEPT ![k] = m] \in Seq(Polling(Watched))
  BY <1>1, ExceptSeq
<1>3. QED
  BY <1>1, <1>2

(* The monitors of a host.                                                  *)
LEMMA MonitorsAre ==
  ASSUME AutoInv, NEW h \in A!Host
  PROVE  /\ monitor \in [A!Host -> Seq(Polling(Watched))] /\ monitor[h] \in Seq(Polling(Watched)) /\ Len(monitor[h]) \in Nat
         /\ \A k \in 1 .. Len(monitor[h]) : monitor[h][k] \in Polling(Watched) /\ monitor[h][k] \in MonitorState(Watched)
         /\ monitor[h] # <<>> => Len(monitor[h]) \in 1 .. Len(monitor[h])
<1>1. monitor \in [A!Host -> Seq(Polling(Watched))] /\ monitor[h] \in Seq(Polling(Watched))
  BY DEF AutoInv, AutoTyped
<1>2. Len(monitor[h]) \in Nat /\ (monitor[h] # <<>> => Len(monitor[h]) \in Nat \ {0})
  BY <1>1, LenProperties, EmptySeq
<1>3. \A k \in 1 .. Len(monitor[h]) : monitor[h][k] \in Polling(Watched)
  BY <1>1, ElementOfSeq
<1>4. QED
  BY <1>1, <1>2, <1>3 DEF Polling

(* abortRun marks an execution that goes on as before.                      *)
LEMMA AbortGoes ==
  ASSUME AutoInv, NEW h \in A!Host, NEW r \in A!Run, A!Abort(h, r)
  PROVE  Onward /\ \A e \in A!Execs : A!Live(e) => exec'[e].at \in {"boundary", "working"}
<1>1. PICK e \in {A!Nobody} \cup A!Execs : e = controllers[h][r]
  BY DEF AutoInv, AutoTyped
<1>2. CASE e = A!Nobody
  <2>1. exec' = exec
    BY <1>1, <1>2 DEF A!Abort
  <2>2. QED
    BY <2>1, NoneGoes DEF A!Live
<1>3. CASE e \in A!Execs /\ e # A!Nobody
  <2>1. exec[e] \in Execution
    BY <1>3, Numbers DEF AutoInv
  <2>2. PICK x \in Execution : x = [exec[e] EXCEPT !.aborted = TRUE]
    BY <2>1 DEF Execution
  <2>3. x.host = exec[e].host /\ x.run = exec[e].run /\ x.want = exec[e].want /\ x.at = exec[e].at
    BY <2>1, <2>2 DEF Execution
  <2>4. exec' = [exec EXCEPT ![e] = x]
    BY <1>1, <1>3, <2>2 DEF A!Abort
  <2>5. Onward
    BY <1>3, <2>3, <2>4, OneGoes DEF A!Live
  <2>6. exec'[e] = x /\ \A f \in A!Execs \ {e} : exec'[f] = exec[f]
    BY <1>3, <2>4, ExecMoves DEF AutoInv
  <2>7. QED
    BY <2>3, <2>5, <2>6 DEF A!Live
<1>4. QED
  BY <1>2, <1>3

(* The stop command.                                                        *)
LEMMA StopKeeps ==
  ASSUME AutoInv, UNCHANGED setting, NEW h \in A!Host, A!StopReads(h) \/ A!StopWrites(h)
  PROVE  AutoInv'
<1>0. /\ stopping \in [A!Host -> [run : A!Run \cup {A!Nobody}, copy : RunState]]
      /\ file \in [A!Run -> RunState] /\ lost \subseteq A!Run
  BY DEF AutoInv, AutoTyped
<1>1. CASE A!StopReads(h)
  <2>1. PICK r \in A!Run : stopping' = [stopping EXCEPT ![h] = [run |-> r, copy |-> file[r]]]
    BY <1>1 DEF A!StopReads
  <2>2. UNCHANGED <<file, exec, controllers, monitor, last, lost>>
    BY <1>1 DEF A!StopReads
  <2>3. Rest
    BY <1>0, <2>1, <2>2 DEF Rest, AutoInv, AutoTyped
  <2>4. Onward
    BY <2>2, NoneGoes
  <2>5. QED
    BY <2>2, <2>3, <2>4, Goes, ControllersStay, FilesStay DEF A!Live
<1>2. CASE A!StopWrites(h)
  <2>1. PICK r \in A!Run : r = stopping[h].run
    BY <1>0, <1>2 DEF A!StopWrites, A!Free
  <2>2. /\ A!Abort(h, r) /\ UNCHANGED <<controllers, monitor, last>> /\ stopping' = [stopping EXCEPT ![h] = A!Idle]
        /\ lost' = IF file[r].status = "running" THEN lost ELSE lost \cup {r}
        /\ file' = [file EXCEPT ![r] = [stopping[h].copy EXCEPT !.stop = TRUE]]
    BY <1>2, <2>1 DEF A!StopWrites
  <2>3. Onward /\ \A e \in A!Execs : A!Live(e) => exec'[e].at \in {"boundary", "working"}
    BY <2>2, AbortGoes
  <2>4. A!Idle \in [run : A!Run \cup {A!Nobody}, copy : RunState]
    BY DEF A!Idle, A!NoState, RunState
  <2>5. Rest
    BY <1>0, <2>2, <2>4 DEF Rest, AutoInv, AutoTyped
  <2>6. [stopping[h].copy EXCEPT !.stop = TRUE] \in RunState
    <3>1. stopping[h].copy \in RunState
      BY <1>0
    <3>2. QED
      BY <3>1 DEF RunState
  <2>7. file' \in [A!Run -> RunState] /\ \A q \in A!Run \ {r} : file'[q] = file[q]
    BY <1>0, <2>2, <2>6
  <2>8. lost' \subseteq A!Run /\ lost \subseteq lost' /\ (file[r].status # "running" => r \in lost')
    BY <1>0, <2>2
  <2>9. \A q \in A!Run : file[q].status = "running" =>
          q \in lost \/ \E e \in A!Execs : exec'[e].at \in {"boundary", "working"} /\ exec[e].run = q
    BY <2>3 DEF AutoInv, A!RunningExplained
  <2>10. Explained
    BY <2>7, <2>8, <2>9 DEF Explained
  <2>11. QED
    BY <2>2, <2>3, <2>5, <2>10, Goes, ControllersStay
<1>3. QED
  BY <1>1, <1>2

(* A monitor starts, stops, wakes, or cannot list.                          *)
LEMMA MonitorsKeep ==
  ASSUME AutoInv, UNCHANGED setting, NEW h \in A!Host,
         \/ A!MonitorStart(h) \/ A!MonitorStop(h)
         \/ \E k \in 1 .. Len(monitor[h]) : A!Wake(h, k) \/ A!ListingFails(h, k)
  PROVE  AutoInv'
<1>1. ASSUME UNCHANGED exec, monitor' \in [A!Host -> Seq(Polling(Watched))], UNCHANGED <<file, controllers, stopping, last, lost>>
      PROVE  AutoInv'
  <2>1. Rest
    BY <1>1 DEF Rest, AutoInv, AutoTyped
  <2>2. Onward
    BY <1>1, NoneGoes
  <2>3. QED
    BY <1>1, <2>1, <2>2, Goes, ControllersStay, FilesStay DEF A!Live
<1>2. CASE A!MonitorStart(h)
  <2>1. A!NewMonitor \in Polling(Watched)
    BY DEF A!NewMonitor, Polling, MonitorState, Watched
  <2>2. Append(monitor[h], A!NewMonitor) \in Seq(Polling(Watched))
    BY <2>1, MonitorsAre, AppendProperties
  <2>3. monitor' \in [A!Host -> Seq(Polling(Watched))]
    BY <1>2, <2>2, MonitorsAre DEF A!MonitorStart
  <2>4. QED
    BY <1>1, <1>2, <2>3 DEF A!MonitorStart
<1>3. CASE A!MonitorStop(h)
  <2>1. PICK k \in 1 .. Len(monitor[h]) : k = Len(monitor[h])
    BY <1>3, MonitorsAre DEF A!MonitorStop
  <2>2. PICK m \in Polling(Watched) : m = [monitor[h][k] EXCEPT !.running = FALSE, !.shown = FALSE, !.stopRequested = TRUE, !.timer = FALSE]
    <3>1. monitor[h][k] \in MonitorState(Watched)
      BY MonitorsAre
    <3>2. [monitor[h][k] EXCEPT !.running = FALSE, !.shown = FALSE, !.stopRequested = TRUE, !.timer = FALSE] \in Polling(Watched)
      BY <3>1 DEF Polling, MonitorState
    <3>3. QED
      BY <3>2
  <2>3. monitor' = [monitor EXCEPT ![h] = [monitor[h] EXCEPT ![k] = m]]
    BY <1>3, <2>1, <2>2, MonitorsAre DEF A!MonitorStop
  <2>4. monitor' \in [A!Host -> Seq(Polling(Watched))]
    BY <2>3, MonitorPut
  <2>5. UNCHANGED <<file, controllers, stopping, last, lost>>
    BY <1>3 DEF A!MonitorStop
  <2>6. Onward /\ \A e \in A!Execs : A!Live(e) => exec'[e].at \in {"boundary", "working"}
    <3>1. CASE monitor[h][k].exec = A!Nobody
      <4>1. exec' = exec
        BY <1>3, <2>1, <3>1 DEF A!MonitorStop, A!Current
      <4>2. QED
        BY <4>1, NoneGoes DEF A!Live
    <3>2. CASE monitor[h][k].exec # A!Nobody
      <4>1. monitor[h][k].exec \in Watched
        BY MonitorsAre DEF MonitorState
      <4>2. PICK r \in A!Run : r = exec[monitor[h][k].exec].run
        BY <3>2, <4>1 DEF Watched
      <4>3. A!Abort(h, r)
        BY <1>3, <2>1, <3>2, <4>2 DEF A!MonitorStop, A!Current
      <4>4. QED
        BY <4>3, AbortGoes
    <3>3. QED
      BY <3>1, <3>2
  <2>7. Rest
    BY <2>4, <2>5 DEF Rest, AutoInv, AutoTyped
  <2>8. QED
    BY <2>5, <2>6, <2>7, Goes, ControllersStay, FilesStay
<1>4. ASSUME NEW k \in 1 .. Len(monitor[h]), A!Wake(h, k)
      PROVE  AutoInv'
  <2>0. monitor[h][k] \in Polling(Watched) /\ monitor[h][k] \in MonitorState(Watched)
    BY MonitorsAre
  <2>1. PICK c \in {"none", "listing", "working"} :
          c = IF monitor[h][k].check = "none" /\ monitor[h][k].running THEN "listing" ELSE monitor[h][k].check
    BY <2>0 DEF MonitorState
  <2>2. [monitor[h][k] EXCEPT !.timer = FALSE, !.check = c] \in Polling(Watched)
    BY <2>0, <2>1 DEF Polling, MonitorState
  <2>3. PICK m \in Polling(Watched) : m = [monitor[h][k] EXCEPT !.timer = FALSE, !.check = c]
    BY <2>2
  <2>a. monitor' = [monitor EXCEPT ![h][k] = [monitor[h][k] EXCEPT !.timer = FALSE, !.check = c]]
    BY <1>4, <2>1 DEF A!Wake
  <2>4. monitor' = [monitor EXCEPT ![h] = [monitor[h] EXCEPT ![k] = m]]
    BY <2>3, <2>a, MonitorsAre
  <2>5. QED
    BY <1>1, <1>4, <2>4, MonitorPut DEF A!Wake
<1>5. ASSUME NEW k \in 1 .. Len(monitor[h]), A!ListingFails(h, k)
      PROVE  AutoInv'
  <2>1. PICK m \in Polling(Watched) : m = A!Thrown(monitor[h][k], FALSE)
    BY MonitorsAre, MonitorsGoOn DEF Watched
  <2>2. monitor' = [monitor EXCEPT ![h] = [monitor[h] EXCEPT ![k] = m]]
    BY <1>5, <2>1, MonitorsAre DEF A!ListingFails
  <2>3. QED
    BY <1>1, <1>5, <2>2, MonitorPut DEF A!ListingFails
<1>6. QED
  BY <1>2, <1>3, <1>4, <1>5

(* The shortlist is there; the monitor may launch a run.                    *)
LEMMA ListedKeeps ==
  ASSUME AutoInv, UNCHANGED setting, NEW h \in A!Host, NEW k \in 1 .. Len(monitor[h]), A!Listed(h, k)
  PROVE  AutoInv'
<1>0. monitor[h][k] \in Polling(Watched) /\ monitor[h][k] \in MonitorState(Watched)
  BY MonitorsAre
<1>1. CASE monitor' = [monitor EXCEPT ![h][k] = A!NextCheck(@)] /\ UNCHANGED <<file, exec, controllers, last>>
  <2>1. PICK m \in Polling(Watched) : m = A!NextCheck(monitor[h][k])
    BY <1>0, MonitorsGoOn DEF Watched
  <2>2. monitor' = [monitor EXCEPT ![h] = [monitor[h] EXCEPT ![k] = m]]
    BY <1>1, <2>1, MonitorsAre
  <2>3. monitor' \in [A!Host -> Seq(Polling(Watched))] /\ UNCHANGED <<stopping, lost>>
    BY <2>2, MonitorPut DEF A!Listed
  <2>4. Rest
    BY <2>3 DEF Rest, AutoInv, AutoTyped
  <2>5. Onward
    BY <1>1, NoneGoes
  <2>6. QED
    BY <1>1, <2>3, <2>4, <2>5, Goes, ControllersStay, FilesStay DEF A!Live
<1>2. ASSUME NEW r \in A!Run, exec' = Append(exec, [A!Command(h, "monitor", r, A!Limit) EXCEPT !.at = "boundary"]),
             file' = [file EXCEPT ![r] = A!Fresh(A!Limit)], A!Register(h, r, Len(exec) + 1),
             monitor' = [monitor EXCEPT ![h][k] = [@ EXCEPT !.check = "working", !.exec = Len(exec) + 1]]
      PROVE  AutoInv'
  <2>1. A!Limit \in Int /\ Len(exec) \in Nat /\ AutoTyped
    BY LimitIs, Numbers DEF AutoInv
  <2>2. PICK e \in Nat \ {0} : e = Len(exec) + 1
    BY <2>1
  <2>3. A!Command(h, "monitor", r, A!Limit) \in Execution
    BY <2>1 DEF A!Command, Execution
  <2>4. PICK x \in Execution : x = [A!Command(h, "monitor", r, A!Limit) EXCEPT !.at = "boundary"]
    BY <2>3 DEF Execution
  <2>5. x.host = h /\ x.run = r /\ x.at = "boundary"
    BY <2>4 DEF A!Command
  <2>6. /\ exec' \in Seq(Execution) /\ Len(exec') = Len(exec) + 1
        /\ exec'[e] = x /\ \A f \in 1 .. Len(exec) : exec'[f] = exec[f]
    BY <1>2, <2>1, <2>2, <2>4, AppendProperties DEF AutoTyped
  <2>7. A!Execs' = A!Execs \cup {e} /\ e \notin A!Execs /\ \A f \in A!Execs \ {e} : exec'[f] = exec[f]
    BY <2>1, <2>2, <2>6 DEF A!Execs
  <2>8. Watched \subseteq Watched' /\ e \in Watched'
    BY <2>5, <2>6, <2>7 DEF Watched, A!Run, A!Nobody
  <2>9. PICK m : m = [monitor[h][k] EXCEPT !.check = "working", !.exec = e]
    OBVIOUS
  <2>10. m \in Polling(Watched')
    <3>1. \E V : V = Watched'
      OBVIOUS
    <3>2. PICK V : V = Watched'
      BY <3>1
    <3>3. monitor[h][k] \in MonitorState(V) /\ e \in V /\ (monitor[h][k].shown => monitor[h][k].running)
      BY <1>0, <2>8, <3>2 DEF MonitorState, Polling
    <3>a. ASSUME NEW n \in MonitorState(V), n.shown => n.running
          PROVE  [n EXCEPT !.check = "working", !.exec = e] \in Polling(V)
      BY <3>3, <3>a DEF Polling, MonitorState
    <3>4. m \in Polling(V)
      BY <2>9, <3>3, <3>a
    <3>5. QED
      BY <3>2, <3>4
  <2>11. monitor' = [monitor EXCEPT ![h] = [monitor[h] EXCEPT ![k] = m]]
    BY <1>2, <2>2, <2>9, MonitorsAre
  <2>12. monitor' \in [A!Host -> Seq(Polling(Watched'))]
    <3>1. monitor \in [A!Host -> Seq(Polling(Watched'))]
      BY <2>1, <2>8, Lifts DEF AutoTyped
    <3>2. [monitor[h] EXCEPT ![k] = m] \in Seq(Polling(Watched'))
      BY <2>10, <3>1, ExceptSeq
    <3>3. QED
      BY <2>11, <3>1, <3>2
  <2>13. UNCHANGED <<stopping, lost>>
    BY DEF A!Listed
  <2>14. QED
    BY <1>2, <2>1, <2>2, <2>5, <2>6, <2>7, <2>12, <2>13, Launches
<1>3. QED
  BY <1>1, <1>2 DEF A!Listed, A!Unused

(* A process dies; its runs are lost.                                       *)
LEMMA DieKeeps ==
  ASSUME AutoInv, UNCHANGED setting, NEW h \in A!Host, A!Die(h)
  PROVE  AutoInv'
<1>1. /\ AutoTyped /\ Len(exec) \in Nat /\ A!Execs = 1 .. Len(exec) /\ \A e \in A!Execs : exec[e] \in Execution
  BY Numbers DEF AutoInv
<1> DEFINE Dead(e) == exec[e].host = h /\ exec[e].at # "done"
           Then(e) == IF Dead(e) THEN [exec[e] EXCEPT !.at = "dead"] ELSE exec[e]
<1>2. exec' = [e \in A!Execs |-> Then(e)]
  BY DEF A!Die
<1>3. \A e \in A!Execs : /\ Then(e) \in Execution /\ Then(e).host = exec[e].host /\ Then(e).run = exec[e].run
                         /\ Then(e).want = exec[e].want /\ Then(e).at = IF Dead(e) THEN "dead" ELSE exec[e].at
  BY <1>1 DEF Execution
<1>4. /\ exec' \in [1 .. Len(exec) -> Execution]
      /\ \A e \in A!Execs : /\ exec'[e].host = exec[e].host /\ exec'[e].run = exec[e].run /\ exec'[e].want = exec[e].want
                            /\ exec'[e].at = IF Dead(e) THEN "dead" ELSE exec[e].at
  <2> HIDE DEF Then
  <2>1. QED
    BY <1>1, <1>2, <1>3
<1>5. exec' \in Seq(Execution) /\ Len(exec') = Len(exec)
  <2>1. exec' \in Seq(Execution)
    BY <1>1, <1>4, SeqDef
  <2>2. DOMAIN exec' = 1 .. Len(exec') /\ Len(exec') \in Nat
    BY <2>1, LenProperties
  <2>3. 1 .. Len(exec') = 1 .. Len(exec)
    BY <1>4, <2>2
  <2>4. QED
    BY <1>1, <2>1, <2>2, <2>3
<1>6. Onward
  BY <1>4, <1>5 DEF Onward, A!Live
<1>7. Kept
  <2>1. controllers' = [controllers EXCEPT ![h] = [r \in A!Run |-> A!Nobody]] /\ last' = last
    BY DEF A!Die
  <2>2. /\ controllers' \in [A!Host -> [A!Run -> Nat]] /\ \A r \in A!Run : controllers'[h][r] = A!Nobody
        /\ \A g \in A!Host \ {h}, r \in A!Run : controllers'[g][r] = controllers[g][r]
    BY <1>1, <2>1 DEF AutoTyped, A!Nobody
  <2>3. \A e \in A!Execs : exec[e].host = h => exec'[e].at \notin {"boundary", "working"}
    BY <1>4
  <2>4. QED
    BY <2>1, <2>2, <2>3 DEF Kept
<1>8. Explained
  <2>1. file' = file /\ lost' = lost \cup {r \in A!Run : \E e \in A!Execs : exec[e].host = h /\ A!Live(e) /\ exec[e].run = r}
    BY DEF A!Die
  <2>2. ASSUME NEW r \in A!Run, file[r].status = "running", r \notin lost'
        PROVE  \E e \in A!Execs : exec'[e].at \in {"boundary", "working"} /\ exec[e].run = r
    <3>1. PICK e \in A!Execs : A!Live(e) /\ exec[e].run = r
      BY <2>1, <2>2 DEF AutoInv, A!RunningExplained
    <3>2. exec[e].host # h
      BY <2>1, <2>2, <3>1
    <3>3. QED
      BY <1>4, <3>1, <3>2 DEF A!Live
  <2>3. QED
    BY <1>1, <2>1, <2>2 DEF Explained, AutoTyped
<1>9. Rest
  <2>1. monitor' = [monitor EXCEPT ![h] = <<>>] /\ stopping' = [stopping EXCEPT ![h] = A!Idle]
    BY DEF A!Die
  <2>2. A!Idle \in [run : A!Run \cup {A!Nobody}, copy : RunState]
    BY DEF A!Idle, A!NoState, RunState
  <2>3. <<>> \in Seq(Polling(Watched))
    BY EmptySeq
  <2>4. QED
    BY <1>1, <2>1, <2>2, <2>3 DEF Rest, AutoTyped
<1>10. QED
  BY <1>6, <1>7, <1>8, <1>9, Goes

(* Every step keeps the invariant.                                          *)
LEMMA AutoStep == AutoInv /\ [A!Next]_auto => AutoInv'
<1> SUFFICES ASSUME AutoInv, [A!Next]_auto PROVE AutoInv'
  OBVIOUS
<1>1. CASE UNCHANGED auto
  <2>1. UNCHANGED <<setting, file, exec, controllers, monitor, stopping, last, lost>>
    BY <1>1 DEF auto
  <2>2. Onward
    BY <2>1, NoneGoes
  <2>3. QED
    BY <2>1, <2>2, Goes, ControllersStay, FilesStay, RestStays DEF A!Live
<1>2. CASE A!Next
  BY <1>2, ProceedKeeps, TakesKeep, ReportKeeps, EndsKeep, AskKeeps, StopKeeps, MonitorsKeep, ListedKeeps, DieKeeps DEF A!Next
<1>3. QED
  BY <1>1, <1>2

(* The invariant says what the property says.                               *)
LEMMA LatestKept == AutoInv => LatestReachable
<1> SUFFICES ASSUME AutoInv PROVE LatestReachable
  OBVIOUS
<1>1. A!LatestReachable
  BY DEF AutoInv, Registered, A!LatestReachable
<1>2. A!ShownRunningPolls
  BY MonitorsAre DEF A!ShownRunningPolls, Polling
<1>3. QED
  BY <1>1, <1>2 DEF LatestReachable, AutoInv

(* However commands, resumes, monitors and stops interleave, fail or die:   *)
(* the execution of a run that a process registered last can be aborted by  *)
(* it, a run whose state says running is executed or there is a cause, and  *)
(* a monitor shown as running polls (loop.ts, monitor.ts,                   *)
(* run-cancellation.ts): for any processes, runs, failures and numbers of   *)
(* commands and monitors.                                                   *)
THEOREM LatestIsReachable == EitherSpec => []LatestReachable
<1>1. EitherInit => AutoInv
  BY AutoBegin DEF EitherInit
<1>2. AutoInv /\ [EitherNext]_allVars => AutoInv'
  BY AutoStep, AutoSteps
<1>3. QED
  BY <1>1, <1>2, LatestKept, PTL DEF EitherSpec

-----------------------------------------------------------------------------
(* The next issue of the roadmap.                                           *)

USE DEF N!RoadmapAssumption

RoadmapTyped ==
  /\ live \in [Number -> N!State] /\ was \in [Number -> SUBSET N!State]
  /\ fetched \in Seq(N!State) /\ Len(fetched) <= Len(RoadmapOrder)
  /\ at \in Nat \ {0}
  /\ walk \in {"idle", "reading", "walking", "done"}

(* What was read of an issue, it was at some moment of the command.         *)
WasRead ==
  /\ walk # "idle" => \A i \in Number : live[i] \in was[i]
  /\ walk = "idle" => fetched = <<>> /\ at = 1 /\ DOMAIN cache = {}
  /\ walk = "walking" => Len(fetched) = Len(RoadmapOrder)
  /\ \A n \in 1 .. Len(fetched) : fetched[n] \in was[RoadmapOrder[n]]
  /\ DOMAIN cache \subseteq N!Outside
  /\ \A d \in DOMAIN cache : cache[d] \in BOOLEAN /\ \E s \in was[d] : s.open = cache[d]

(* An issue has a reason to be passed over, as it was and its dependencies. *)
PassedOver(i) ==
  \E s \in was[i] : ~ s.open \/ s.held \/ \E d \in s.text.depends \ {i} : \E t \in was[d] : t.open
WasReady(i) ==
  \E s \in was[i] : s.open /\ ~ s.held /\ s.text.clear /\ \A d \in s.text.depends \ {i} : \E t \in was[d] : ~ t.open
AllPassed == at <= Len(RoadmapOrder) + 1 /\ \A n \in 1 .. at - 1 : PassedOver(RoadmapOrder[n])

(* The one selected is in its place, and those before it have been judged.  *)
Chosen ==
  selected # N!NoIssue =>
    /\ selected \in Number /\ walk = "done" /\ at \in 1 .. Len(RoadmapOrder) /\ RoadmapOrder[at] = selected
    /\ WasReady(selected)

RoadmapInv == RoadmapTyped /\ WasRead /\ AllPassed /\ Chosen

LEMMA RoadmapSteps == [EitherNext]_allVars => [N!Next]_roadmap
  BY DEF EitherNext, allVars, choice, roadmap, N!vars

(* The roadmap lists issues, each once.                                     *)
LEMMA Positions ==
  /\ Len(RoadmapOrder) \in Nat /\ DOMAIN RoadmapOrder = 1 .. Len(RoadmapOrder)
  /\ \A n \in 1 .. Len(RoadmapOrder) : RoadmapOrder[n] \in Number
  /\ \A m, n \in 1 .. Len(RoadmapOrder) : RoadmapOrder[m] = RoadmapOrder[n] => m = n
  /\ \A n \in 1 .. Len(RoadmapOrder) : N!Place(RoadmapOrder[n]) = n
  /\ \A d \in Number \ N!Outside : N!Place(d) \in 1 .. Len(RoadmapOrder) /\ RoadmapOrder[N!Place(d)] = d
<1>1. /\ Len(RoadmapOrder) \in Nat /\ DOMAIN RoadmapOrder = 1 .. Len(RoadmapOrder)
      /\ \A n \in 1 .. Len(RoadmapOrder) : RoadmapOrder[n] \in Number
  BY RunsAssumption, LenProperties, ElementOfSeq
<1>2. \A m, n \in 1 .. Len(RoadmapOrder) : RoadmapOrder[m] = RoadmapOrder[n] => m = n
  BY <1>1, RunsAssumption DEF N!IsInjective
<1>3. \A n \in 1 .. Len(RoadmapOrder) : N!Place(RoadmapOrder[n]) = n
  BY <1>1, <1>2 DEF N!Place
<1>4. \A d \in Number \ N!Outside : \E n \in 1 .. Len(RoadmapOrder) : RoadmapOrder[n] = d
  BY <1>1 DEF N!Outside, N!ToSet
<1>5. \A d \in Number \ N!Outside : N!Place(d) \in 1 .. Len(RoadmapOrder) /\ RoadmapOrder[N!Place(d)] = d
  BY <1>3, <1>4
<1>6. QED
  BY <1>1, <1>2, <1>3, <1>5

LEMMA RoadmapBegin == N!Init => RoadmapInv
<1> SUFFICES ASSUME N!Init PROVE RoadmapInv
  OBVIOUS
<1>1. fetched = <<>> /\ Len(fetched) = 0 /\ fetched \in Seq(N!State) /\ cache = <<>> /\ DOMAIN cache = {} /\ at = 1
  BY EmptySeq DEF N!Init
<1>2. RoadmapTyped
  BY <1>1, Positions DEF N!Init, RoadmapTyped
<1>3. WasRead
  BY <1>1 DEF N!Init, WasRead
<1>4. AllPassed /\ Chosen
  BY <1>1, Positions DEF N!Init, AllPassed, Chosen
<1>5. QED
  BY <1>2, <1>3, <1>4 DEF RoadmapInv

(* What the issues were only grows.                                         *)
LEMMA WasGrows ==
  ASSUME \A i \in Number : was[i] \subseteq was'[i], RoadmapTyped
  PROVE  \A i \in Number : (PassedOver(i) => PassedOver(i)') /\ (WasReady(i) => WasReady(i)')
<1>1. \A i \in Number : \A s \in was[i] : s \in was'[i] /\ s.text.depends \subseteq Number
  BY RunsAssumption DEF RoadmapTyped, N!State
<1>2. QED
  BY <1>1 DEF PassedOver, WasReady

(* The command begins, reads, or somebody changes an issue.                 *)
LEMMA ReadsKeep ==
  ASSUME RoadmapInv, N!Begin \/ N!Fetch \/ \E i \in Number : N!Change(i)
  PROVE  RoadmapInv'
<1>0. RoadmapTyped /\ WasRead /\ AllPassed /\ Chosen /\ Len(fetched) \in Nat
  BY LenProperties DEF RoadmapInv, RoadmapTyped
<1>1. CASE N!Begin
  <2>1. /\ walk = "idle" /\ walk' = "reading" /\ was' = [i \in Number |-> {live[i]}]
        /\ UNCHANGED <<live, fetched, at, cache, selected>>
    BY <1>1 DEF N!Begin
  <2>2. selected = N!NoIssue /\ fetched = <<>> /\ Len(fetched) = 0 /\ at = 1 /\ DOMAIN cache = {}
    BY <1>0, <2>1, EmptySeq DEF Chosen, WasRead
  <2>3. RoadmapTyped'
    BY <1>0, <2>1 DEF RoadmapTyped
  <2>4. WasRead'
    BY <1>0, <2>1, <2>2 DEF WasRead
  <2>5. AllPassed'
    BY <2>1, <2>2, Positions DEF AllPassed
  <2>6. Chosen'
    BY <2>1, <2>2 DEF Chosen, N!NoIssue
  <2>7. QED
    BY <2>3, <2>4, <2>5, <2>6 DEF RoadmapInv
<1>2. CASE N!Fetch /\ Len(fetched) < Len(RoadmapOrder)
  <2>1. PICK i \in Number : i = RoadmapOrder[Len(fetched) + 1]
    BY <1>0, <1>2, Positions
  <2>2. /\ fetched' = Append(fetched, live[i]) /\ walk = "reading"
        /\ UNCHANGED <<live, walk, at, cache, selected, was>>
    BY <1>2, <2>1 DEF N!Fetch
  <2>3. /\ fetched' \in Seq(N!State) /\ Len(fetched') = Len(fetched) + 1
        /\ \A n \in 1 .. Len(fetched) : fetched'[n] = fetched[n]
        /\ fetched'[Len(fetched) + 1] = live[i]
    BY <1>0, <2>2, AppendProperties DEF RoadmapTyped
  <2>4. RoadmapTyped'
    BY <1>0, <1>2, <2>2, <2>3, Positions DEF RoadmapTyped
  <2>5. \A n \in 1 .. Len(fetched') : fetched'[n] \in was[RoadmapOrder[n]]
    <3>1. live[i] \in was[i]
      BY <1>0, <2>2 DEF WasRead
    <3>2. QED
      BY <1>0, <2>1, <2>3, <3>1 DEF WasRead
  <2>6. WasRead'
    BY <1>0, <2>2, <2>5 DEF WasRead
  <2>7. AllPassed' /\ Chosen'
    BY <1>0, <2>2 DEF AllPassed, PassedOver, Chosen, WasReady
  <2>8. QED
    BY <2>4, <2>6, <2>7 DEF RoadmapInv
<1>3. CASE N!Fetch /\ ~ (Len(fetched) < Len(RoadmapOrder))
  <2>1. walk = "reading" /\ walk' = "walking" /\ UNCHANGED <<live, fetched, at, cache, selected, was>>
    BY <1>3 DEF N!Fetch
  <2>2. Len(fetched) = Len(RoadmapOrder)
    BY <1>0, <1>3, Positions DEF RoadmapTyped
  <2>3. RoadmapTyped' /\ WasRead'
    BY <1>0, <2>1, <2>2 DEF RoadmapTyped, WasRead
  <2>4. AllPassed' /\ Chosen'
    BY <1>0, <2>1 DEF AllPassed, PassedOver, Chosen, WasReady
  <2>5. QED
    BY <2>3, <2>4 DEF RoadmapInv
<1>4. ASSUME NEW i \in Number, N!Change(i)
      PROVE  RoadmapInv'
  <2>1. PICK s \in N!State : live' = [live EXCEPT ![i] = s]
    BY <1>4 DEF N!Change
  <2>2. live' \in [Number -> N!State] /\ live'[i] = s /\ \A j \in Number \ {i} : live'[j] = live[j]
    BY <1>0, <2>1 DEF RoadmapTyped
  <2>3. was' = [was EXCEPT ![i] = @ \cup {s}] /\ walk \notin {"idle", "done"} /\ UNCHANGED <<walk, fetched, at, cache, selected>>
    BY <1>4, <2>2 DEF N!Change
  <2>4. was' \in [Number -> SUBSET N!State] /\ was'[i] = was[i] \cup {s} /\ \A j \in Number \ {i} : was'[j] = was[j]
    BY <1>0, <2>3 DEF RoadmapTyped
  <2>5. \A j \in Number : was[j] \subseteq was'[j]
    BY <2>4
  <2>6. RoadmapTyped'
    BY <1>0, <2>2, <2>3, <2>4 DEF RoadmapTyped
  <2>7. WasRead'
    <3>1. \A j \in Number : live'[j] \in was'[j]
      BY <1>0, <2>2, <2>3, <2>4 DEF WasRead
    <3>2. \A n \in 1 .. Len(fetched) : RoadmapOrder[n] \in Number
      BY <1>0, Positions DEF RoadmapTyped
    <3>3. \A n \in 1 .. Len(fetched) : fetched[n] \in was'[RoadmapOrder[n]]
      BY <1>0, <2>5, <3>2 DEF WasRead
    <3>4. \A d \in DOMAIN cache : cache[d] \in BOOLEAN /\ \E t \in was'[d] : t.open = cache[d]
      BY <1>0, <2>5 DEF WasRead, N!Outside
    <3>5. QED
      BY <1>0, <2>3, <3>1, <3>3, <3>4 DEF WasRead
  <2>8. AllPassed'
    <3>1. \A n \in 1 .. at - 1 : RoadmapOrder[n] \in Number /\ PassedOver(RoadmapOrder[n])'
      BY <1>0, <2>5, WasGrows, Positions DEF AllPassed, RoadmapTyped
    <3>2. QED
      BY <1>0, <2>3, <3>1 DEF AllPassed, PassedOver
  <2>9. Chosen'
    BY <1>0, <2>3 DEF Chosen, N!NoIssue
  <2>10. QED
    BY <2>6, <2>7, <2>8, <2>9 DEF RoadmapInv
<1>5. QED
  BY <1>1, <1>2, <1>3, <1>4

(* The issue in hand, as it was read.                                       *)
LEMMA InHand ==
  ASSUME RoadmapInv, N!Walking
  PROVE  /\ walk = "walking" /\ at \in 1 .. Len(RoadmapOrder) /\ RoadmapOrder[at] \in Number
         /\ N!Item = fetched[at] /\ fetched[at] \in was[RoadmapOrder[at]] /\ fetched[at] \in N!State
         /\ N!Dependencies = fetched[at].text.depends \ {RoadmapOrder[at]} /\ N!Dependencies \subseteq Number
<1>1. walk = "walking" /\ at \in 1 .. Len(RoadmapOrder) /\ RoadmapOrder[at] \in Number /\ Len(fetched) = Len(RoadmapOrder)
  BY Positions DEF N!Walking, RoadmapInv, RoadmapTyped, WasRead
<1>2. fetched[at] \in was[RoadmapOrder[at]] /\ fetched[at] \in N!State
  BY <1>1 DEF RoadmapInv, RoadmapTyped, WasRead
<1>3. fetched[at].text.depends \subseteq Number
  BY <1>2, RunsAssumption DEF N!State
<1>4. QED
  BY <1>1, <1>2, <1>3 DEF N!Item, N!Dependencies

(* A dependency is closed, or open, as it was at some moment.               *)
LEMMA ClosedWas ==
  ASSUME RoadmapInv, N!Walking, NEW d \in N!Dependencies, N!Unread = {}
  PROVE  \E t \in was[d] : IF N!Closed(d) THEN ~ t.open ELSE t.open
<1>1. d \in Number
  BY InHand
<1>2. CASE d \in N!Outside
  <2>1. d \in DOMAIN cache
    BY <1>2 DEF N!Unread
  <2>2. PICK t \in was[d] : t.open = cache[d]
    BY <2>1 DEF RoadmapInv, WasRead
  <2>3. QED
    BY <1>2, <2>2 DEF N!Closed
<1>3. CASE d \notin N!Outside
  <2>1. N!Place(d) \in 1 .. Len(RoadmapOrder) /\ RoadmapOrder[N!Place(d)] = d
    BY <1>1, <1>3, Positions
  <2>2. fetched[N!Place(d)] \in was[d]
    BY <2>1, InHand DEF RoadmapInv, WasRead
  <2>3. QED
    BY <1>3, <2>2 DEF N!Closed
<1>4. QED
  BY <1>2, <1>3

(* The issue in hand is judged, or passed over without.                     *)
LEMMA JudgesKeep ==
  ASSUME RoadmapInv, N!Skip \/ N!Judge
  PROVE  RoadmapInv'
<1>0. RoadmapTyped /\ WasRead /\ AllPassed /\ Chosen /\ N!Walking /\ UNCHANGED <<live, fetched, cache, was>>
  BY DEF RoadmapInv, N!Skip, N!Judge, N!Candidate
<1>1. PICK i \in Number : /\ i = RoadmapOrder[at] /\ N!Item = fetched[at] /\ fetched[at] \in was[i]
                        /\ N!Dependencies = fetched[at].text.depends \ {i}
                        /\ walk = "walking" /\ at \in 1 .. Len(RoadmapOrder)
  BY <1>0, InHand
<1>2. selected = N!NoIssue
  BY <1>0, <1>1 DEF Chosen
<1>3. ASSUME at' = at + 1, UNCHANGED <<walk, selected>>, PassedOver(i)
      PROVE  RoadmapInv'
  <2>1. RoadmapTyped' /\ WasRead'
    BY <1>0, <1>1, <1>3 DEF RoadmapTyped, WasRead
  <2>2. AllPassed'
    <3>1. \A n \in 1 .. at : PassedOver(RoadmapOrder[n])
      BY <1>0, <1>1, <1>3 DEF AllPassed
    <3>2. QED
      BY <1>0, <1>1, <1>3, <3>1, Positions DEF AllPassed, PassedOver
  <2>3. Chosen'
    BY <1>2, <1>3 DEF Chosen, N!NoIssue
  <2>4. QED
    BY <2>1, <2>2, <2>3 DEF RoadmapInv
<1>4. CASE N!Skip
  <2>1. ~ fetched[at].open \/ fetched[at].held
    BY <1>1, <1>4 DEF N!Skip, N!Candidate
  <2>2. PassedOver(i)
    BY <1>1, <2>1 DEF PassedOver
  <2>3. QED
    BY <1>3, <1>4, <2>2 DEF N!Skip
<1>5. CASE N!Judge /\ \A d \in N!Dependencies : N!Closed(d)
  <2>1. walk' = "done" /\ selected' = i /\ at' = at
    BY <1>1, <1>5 DEF N!Judge
  <2>2. fetched[at].open /\ ~ fetched[at].held /\ fetched[at].text.clear /\ N!Unread = {}
    BY <1>1, <1>5 DEF N!Judge, N!Candidate
  <2>3. \A d \in fetched[at].text.depends \ {i} : \E t \in was[d] : ~ t.open
    BY <1>0, <1>1, <1>5, <2>2, ClosedWas
  <2>4. WasReady(i)
    BY <1>1, <2>2, <2>3 DEF WasReady
  <2>5. RoadmapTyped' /\ WasRead'
    BY <1>0, <1>1, <2>1 DEF RoadmapTyped, WasRead
  <2>6. AllPassed'
    BY <1>0, <2>1 DEF AllPassed, PassedOver
  <2>7. Chosen'
    BY <1>0, <1>1, <2>1, <2>4 DEF Chosen, WasReady
  <2>8. QED
    BY <2>5, <2>6, <2>7 DEF RoadmapInv
<1>6. CASE N!Judge /\ ~ \A d \in N!Dependencies : N!Closed(d)
  <2>1. at' = at + 1 /\ UNCHANGED <<walk, selected>> /\ N!Unread = {}
    BY <1>6 DEF N!Judge
  <2>2. PICK d \in N!Dependencies : \E t \in was[d] : t.open
    BY <1>0, <1>6, <2>1, ClosedWas
  <2>3. PassedOver(i)
    BY <1>1, <2>2 DEF PassedOver
  <2>4. QED
    BY <1>3, <2>1, <2>3
<1>7. QED
  BY <1>4, <1>5, <1>6

(* A dependency outside is read, or nothing is selected.                    *)
LEMMA AskKeepsRoadmap ==
  ASSUME RoadmapInv, N!Ask \/ N!Fails \/ N!Ambiguous \/ N!Nothing
  PROVE  RoadmapInv'
<1>0. RoadmapTyped /\ WasRead /\ AllPassed /\ Chosen
  BY DEF RoadmapInv
<1>1. CASE N!Ask
  <2>1. PICK d \in N!Unread : cache' = [e \in DOMAIN cache \cup {d} |-> IF e = d THEN live[d].open ELSE cache[e]]
    BY <1>1 DEF N!Ask
  <2>2. UNCHANGED <<live, walk, fetched, at, selected, was>> /\ N!Walking
    BY <1>1 DEF N!Ask, N!Candidate
  <2>3. d \in Number /\ d \in N!Outside /\ walk = "walking"
    BY <2>2, InHand DEF N!Unread
  <2>4. live[d] \in was[d] /\ live[d].open \in BOOLEAN
    BY <1>0, <2>3 DEF WasRead, RoadmapTyped, N!State
  <2>5. /\ DOMAIN cache' = DOMAIN cache \cup {d} /\ cache'[d] = live[d].open
        /\ \A e \in DOMAIN cache \ {d} : cache'[e] = cache[e]
    BY <2>1
  <2>6. WasRead'
    <3>1. \A e \in DOMAIN cache' : cache'[e] \in BOOLEAN /\ \E s \in was[e] : s.open = cache'[e]
      BY <1>0, <2>4, <2>5 DEF WasRead
    <3>2. DOMAIN cache' \subseteq N!Outside
      BY <1>0, <2>3, <2>5 DEF WasRead
    <3>3. QED
      BY <1>0, <2>2, <2>3, <3>1, <3>2 DEF WasRead, N!Outside
  <2>7. QED
    BY <1>0, <2>2, <2>6 DEF RoadmapInv, RoadmapTyped, AllPassed, PassedOver, Chosen, WasReady
<1>2. CASE N!Fails \/ N!Ambiguous \/ N!Nothing
  <2>1. walk' = "done" /\ walk # "idle" /\ UNCHANGED <<live, fetched, at, cache, selected, was>>
    BY <1>2 DEF N!Fails, N!Ambiguous, N!Nothing, N!Abandon, N!Candidate, N!Walking
  <2>2. RoadmapTyped' /\ WasRead'
    BY <1>0, <2>1 DEF RoadmapTyped, WasRead
  <2>3. AllPassed' /\ Chosen'
    BY <1>0, <2>1 DEF AllPassed, PassedOver, Chosen, WasReady
  <2>4. QED
    BY <2>2, <2>3 DEF RoadmapInv
<1>3. QED
  BY <1>1, <1>2

LEMMA RoadmapStep == RoadmapInv /\ [N!Next]_roadmap => RoadmapInv'
<1> SUFFICES ASSUME RoadmapInv, [N!Next]_roadmap PROVE RoadmapInv'
  OBVIOUS
<1>1. CASE UNCHANGED roadmap
  BY <1>1 DEF roadmap, RoadmapInv, RoadmapTyped, WasRead, AllPassed, PassedOver, Chosen, WasReady
<1>2. CASE N!Next
  BY <1>2, ReadsKeep, JudgesKeep, AskKeepsRoadmap DEF N!Next
<1>3. QED
  BY <1>1, <1>2

LEMMA RoadmapKept == RoadmapInv => N!NextIsReady
<1> SUFFICES ASSUME RoadmapInv, selected # N!NoIssue PROVE N!NextIsReady
  BY DEF N!NextIsReady
<1>1. /\ selected \in Number /\ at \in 1 .. Len(RoadmapOrder) /\ RoadmapOrder[at] = selected /\ WasReady(selected)
      /\ \A n \in 1 .. at - 1 : PassedOver(RoadmapOrder[n])
  BY DEF RoadmapInv, Chosen, AllPassed
<1>2. N!Place(selected) = at
  BY <1>1, Positions
<1>3. QED
  BY <1>1, <1>2 DEF N!NextIsReady, N!Reads, N!Reason, PassedOver, WasReady

-----------------------------------------------------------------------------
(* The choice of the next issue.                                            *)

USE DEF D!DiscoveryAssumption

(* A finite set in some total order has a sequence in that order: the place *)
(* of an element is one more than the number of those before it.            *)
LEMMA Ordered ==
  ASSUME NEW S, IsFiniteSet(S), NEW R,
         \A i \in S : <<i, i>> \notin R,
         \A i, j \in S : i # j => <<i, j>> \in R \/ <<j, i>> \in R,
         \A i, j, k \in S : <<i, j>> \in R /\ <<j, k>> \in R => <<i, k>> \in R
  PROVE  \E s \in [1 .. Cardinality(S) -> S] :
           \A m, n \in 1 .. Cardinality(S) : m < n => <<s[m], s[n]>> \in R
<1> DEFINE Less(i) == {j \in S : <<j, i>> \in R}
<1>1. Cardinality(S) \in Nat
  BY FS_CardinalityType
<1>2. \A i \in S : IsFiniteSet(Less(i)) /\ Cardinality(Less(i)) \in Nat
  BY FS_Subset, FS_CardinalityType
<1>3. ASSUME NEW i \in S PROVE Cardinality(Less(i)) < Cardinality(S)
  <2>1. Less(i) \in SUBSET S /\ i \notin Less(i)
    OBVIOUS
  <2>2. Cardinality(Less(i)) <= Cardinality(S) /\ Cardinality(Less(i)) # Cardinality(S)
    BY <2>1, FS_Subset
  <2>3. Cardinality(Less(i)) \in Nat
    BY <1>2
  <2> HIDE DEF Less
  <2>4. QED
    BY <1>1, <2>2, <2>3
<1>4. ASSUME NEW i \in S, NEW j \in S, <<i, j>> \in R PROVE Cardinality(Less(i)) < Cardinality(Less(j))
  <2>1. Less(i) \in SUBSET Less(j) /\ i \in Less(j) /\ i \notin Less(i)
    BY <1>4
  <2>2. Cardinality(Less(i)) <= Cardinality(Less(j)) /\ Cardinality(Less(i)) # Cardinality(Less(j))
    BY <1>2, <2>1, FS_Subset
  <2>3. Cardinality(Less(i)) \in Nat /\ Cardinality(Less(j)) \in Nat
    BY <1>2
  <2> HIDE DEF Less
  <2>4. QED
    BY <2>2, <2>3
<1> HIDE DEF Less
<1>5. PICK f \in [S -> 1 .. Cardinality(S)] : \A i \in S : f[i] = Cardinality(Less(i)) + 1
  <2>1. \A i \in S : Cardinality(Less(i)) + 1 \in 1 .. Cardinality(S)
    BY <1>1, <1>2, <1>3
  <2>2. [i \in S |-> Cardinality(Less(i)) + 1] \in [S -> 1 .. Cardinality(S)]
    BY <2>1
  <2>3. QED
    BY <2>2
<1>6. \A i, j \in S : <<i, j>> \in R => f[i] < f[j]
  BY <1>2, <1>4, <1>5
<1>7. \A i \in S : f[i] \in Nat
  BY <1>1, <1>5
<1>8. f \in Injection(S, 1 .. Cardinality(S))
  <2>1. \A i, j \in S : i # j => f[i] # f[j]
    <3>1. \A i, j \in S : i # j => f[i] < f[j] \/ f[j] < f[i]
      BY <1>6
    <3>2. QED
      BY <3>1, <1>7
  <2>2. QED
    BY <1>5, <2>1 DEF Injection, IsInjective
<1>9. \A m \in 1 .. Cardinality(S) : \E i \in S : f[i] = m
  <2>1. IsFiniteSet(1 .. Cardinality(S)) /\ Cardinality(1 .. Cardinality(S)) = Cardinality(S)
    BY <1>1, FS_Interval
  <2>2. f \in Surjection(S, 1 .. Cardinality(S))
    BY <1>8, <2>1, FS_Injection
  <2>3. QED
    BY <2>2 DEF Surjection
<1>10. PICK s \in [1 .. Cardinality(S) -> S] : \A m \in 1 .. Cardinality(S) : f[s[m]] = m
  <2>1. [m \in 1 .. Cardinality(S) |-> CHOOSE i \in S : f[i] = m] \in [1 .. Cardinality(S) -> S]
    BY <1>9
  <2>2. QED
    BY <1>9, <2>1
<1>11. ASSUME NEW m \in 1 .. Cardinality(S), NEW n \in 1 .. Cardinality(S), m < n
       PROVE  <<s[m], s[n]>> \in R
  <2>1. s[m] \in S /\ s[n] \in S /\ f[s[m]] = m /\ f[s[n]] = n
    BY <1>10
  <2>2. m \in Nat /\ n \in Nat
    BY <1>1
  <2>3. s[m] # s[n] /\ ~ (f[s[n]] < f[s[m]])
    BY <1>11, <2>1, <2>2
  <2>4. QED
    BY <1>6, <2>1, <2>3
<1>12. QED
  BY <1>10, <1>11

(* As many different elements as the set has are all of them.               *)
LEMMA AllOf ==
  ASSUME NEW S, IsFiniteSet(S), NEW s \in [1 .. Cardinality(S) -> S],
         \A m, n \in 1 .. Cardinality(S) : m < n => s[m] # s[n]
  PROVE  \A i \in S : \E m \in 1 .. Cardinality(S) : s[m] = i
<1>1. Cardinality(S) \in Nat
  BY FS_CardinalityType
<1>2. s \in Injection(1 .. Cardinality(S), S)
  BY <1>1 DEF Injection, IsInjective
<1>3. IsFiniteSet(1 .. Cardinality(S)) /\ Cardinality(1 .. Cardinality(S)) = Cardinality(S)
  BY <1>1, FS_Interval
<1>4. s \in Surjection(1 .. Cardinality(S), S)
  BY <1>2, <1>3, FS_Injection
<1>5. QED
  BY <1>4 DEF Surjection

(* An issue as it is listed.                                                *)
IssueState == [kind : Kind, updated : Nat]

(* The comparison is a total order.                                         *)
LEMMA Comparison ==
  ASSUME NEW of, NEW S \in SUBSET Number, \A i \in S : of[i] \in IssueState
  PROVE  /\ \A i \in S : ~ D!Before(i, i, of)
         /\ \A i, j \in S : i # j => D!Before(i, j, of) \/ D!Before(j, i, of)
         /\ \A i, j, k \in S : D!Before(i, j, of) /\ D!Before(j, k, of) => D!Before(i, k, of)
<1>1. \A p : D!Place(p) \in Nat
  <2>1. DOMAIN Priorities \subseteq Nat
    BY LenProperties
  <2>2. QED
    BY <2>1 DEF D!Place
<1>2. PICK a \in [S -> Nat] : \A i \in S : a[i] = D!Place(of[i].kind.first)
  <2>1. [i \in S |-> D!Place(of[i].kind.first)] \in [S -> Nat]
    BY <1>1
  <2>2. QED
    BY <2>1
<1>3. PICK b \in [S -> {0, 1}] : \A i \in S : b[i] = IF "ready" \in of[i].kind.labels THEN 0 ELSE 1
  <2>1. [i \in S |-> IF "ready" \in of[i].kind.labels THEN 0 ELSE 1] \in [S -> {0, 1}]
    OBVIOUS
  <2>2. QED
    BY <2>1
<1>4. PICK u \in [S -> Nat] : \A i \in S : u[i] = of[i].updated
  <2>1. \A i \in S : of[i].updated \in Nat
    BY DEF IssueState
  <2>2. [i \in S |-> of[i].updated] \in [S -> Nat]
    BY <2>1
  <2>3. QED
    BY <2>2
<1>5. \A i \in S : a[i] \in Nat /\ b[i] \in Nat /\ u[i] \in Nat /\ i \in Nat
  BY <1>2, <1>3, <1>4
<1>6. ASSUME NEW i \in S, NEW j \in S
      PROVE  D!Before(i, j, of) <=>
               \/ a[i] < a[j] \/ (a[i] = a[j] /\ b[i] < b[j])
               \/ (a[i] = a[j] /\ b[i] = b[j] /\ u[i] > u[j])
               \/ (a[i] = a[j] /\ b[i] = b[j] /\ u[i] = u[j] /\ i < j)
  <2>1. D!Rank(i, of) = <<a[i], b[i]>> /\ D!Rank(j, of) = <<a[j], b[j]>>
    BY <1>2, <1>3 DEF D!Rank
  <2>2. (<<a[i], b[i]>> = <<a[j], b[j]>>) <=> a[i] = a[j] /\ b[i] = b[j]
    OBVIOUS
  <2>3. <<a[i], b[i]>>[1] = a[i] /\ <<a[i], b[i]>>[2] = b[i] /\ <<a[j], b[j]>>[1] = a[j] /\ <<a[j], b[j]>>[2] = b[j]
    OBVIOUS
  <2>4. u[i] = of[i].updated /\ u[j] = of[j].updated
    BY <1>4
  <2>5. QED
    BY <2>1, <2>2, <2>3, <2>4 DEF D!Before
<1> DEFINE Sooner(i, j) == \/ a[i] < a[j] \/ (a[i] = a[j] /\ b[i] < b[j])
                           \/ (a[i] = a[j] /\ b[i] = b[j] /\ u[i] > u[j])
                           \/ (a[i] = a[j] /\ b[i] = b[j] /\ u[i] = u[j] /\ i < j)
<1>7. \A i \in S : ~ D!Before(i, i, of)
  BY <1>5, <1>6
<1>8. ASSUME NEW i \in S, NEW j \in S, i # j
      PROVE  D!Before(i, j, of) \/ D!Before(j, i, of)
  <2>1. /\ a[i] \in Nat /\ b[i] \in Nat /\ u[i] \in Nat /\ i \in Nat
        /\ a[j] \in Nat /\ b[j] \in Nat /\ u[j] \in Nat /\ j \in Nat
    BY <1>5
  <2>2. Sooner(i, j) \/ Sooner(j, i)
    BY <1>8, <2>1
  <2>3. QED
    BY <1>6, <2>2
<1>9. ASSUME NEW i \in S, NEW j \in S, NEW k \in S, D!Before(i, j, of), D!Before(j, k, of)
      PROVE  D!Before(i, k, of)
  <2>1. /\ a[i] \in Nat /\ b[i] \in Nat /\ u[i] \in Nat /\ i \in Nat
        /\ a[j] \in Nat /\ b[j] \in Nat /\ u[j] \in Nat /\ j \in Nat
        /\ a[k] \in Nat /\ b[k] \in Nat /\ u[k] \in Nat /\ k \in Nat
    BY <1>5
  <2>2. Sooner(i, j) /\ Sooner(j, k)
    BY <1>6, <1>9
  <2> HIDE DEF RunsAssumption, A!AutoAssumption, D!DiscoveryAssumption, N!RoadmapAssumption
  <2>3. Sooner(i, k)
    BY <2>1, <2>2
  <2>4. QED
    BY <1>6, <2>3
<1>10. QED
  BY <1>7, <1>8, <1>9

(* The comparison and the eligibility look at the issues they are about.    *)
LEMMA SameBefore ==
  ASSUME NEW of, NEW other, NEW i, NEW j, of[i] = other[i], of[j] = other[j]
  PROVE  D!Before(i, j, of) <=> D!Before(i, j, other)
BY DEF D!Before, D!Rank

LEMMA SameEligible ==
  ASSUME NEW of, NEW other, NEW i, of[i] = other[i]
  PROVE  D!Eligible(i, of) <=> D!Eligible(i, other)
BY DEF D!Eligible, D!Unchanged

LEMMA EligibleStays ==
  ASSUME UNCHANGED here
  PROVE  \A i : D!Eligible(i, item)' <=> D!Eligible(i, item')
BY DEF D!Eligible, D!Unchanged, D!Excluded

DiscoveryTyped ==
  /\ item \in [Number -> IssueState] /\ held \subseteq Number /\ here \in Exclusion
  /\ selecting \in D!Phase /\ listed \in 0 .. Len(Priorities)
  /\ DOMAIN view \subseteq Number /\ view \in [DOMAIN view -> IssueState]
  /\ order \in Seq(Number) /\ window \in Seq(Number) /\ leased \subseteq Number
  /\ steady \subseteq Number /\ chances \in [eligible : SUBSET Number, free : SUBSET Number]

(* The eligible issues of the view.                                         *)
Found == {i \in DOMAIN view : D!Eligible(i, view)}

LEMMA FoundIs ==
  ASSUME DiscoveryTyped
  PROVE  Found \subseteq Number /\ IsFiniteSet(Found) /\ Cardinality(Found) \in Nat
<1>1. IsFiniteSet(Number)
  BY DEF D!IsFiniteSet, IsFiniteSet
<1>2. Found \in SUBSET Number
  BY DEF DiscoveryTyped, Found
<1>3. QED
  BY <1>1, <1>2, FS_Subset, FS_CardinalityType

(* They are all in the list that is sorted, in order.                       *)
LEMMA Sorted ==
  ASSUME DiscoveryTyped
  PROVE  /\ D!Sort \in Seq(Number) /\ \A m \in 1 .. Len(D!Sort) : D!Sort[m] \in Found
         /\ \A m, n \in 1 .. Len(D!Sort) : m < n => D!Before(D!Sort[m], D!Sort[n], view) /\ D!Sort[m] # D!Sort[n]
         /\ \A i \in Found : \E m \in 1 .. Len(D!Sort) : D!Sort[m] = i
<1> DEFINE Size == Cardinality(Found)
           Good(s) == \A m, n \in 1 .. Size : m < n => D!Before(s[m], s[n], view)
<1>1. Found \in SUBSET Number /\ IsFiniteSet(Found) /\ Size \in Nat /\ D!Cardinality(Found) = Size
  BY FoundIs DEF D!Cardinality, Cardinality, D!IsFiniteSet, IsFiniteSet
<1>2. /\ \A i \in Found : ~ D!Before(i, i, view)
      /\ \A i, j \in Found : i # j => D!Before(i, j, view) \/ D!Before(j, i, view)
      /\ \A i, j, k \in Found : D!Before(i, j, view) /\ D!Before(j, k, view) => D!Before(i, k, view)
  <2>1. \A i \in Found : view[i] \in IssueState
    BY DEF DiscoveryTyped, Found
  <2>2. QED
    BY <1>1, <2>1, Comparison
<1>3. \E s \in [1 .. Size -> Found] : Good(s)
  <2> DEFINE R == {p \in Found \X Found : D!Before(p[1], p[2], view)}
  <2>1. \A i, j \in Found : <<i, j>> \in R <=> D!Before(i, j, view)
    OBVIOUS
  <2> HIDE DEF R
  <2>2. PICK s \in [1 .. Size -> Found] : \A m, n \in 1 .. Size : m < n => <<s[m], s[n]>> \in R
    <3>1. /\ \A i \in Found : <<i, i>> \notin R
          /\ \A i, j \in Found : i # j => <<i, j>> \in R \/ <<j, i>> \in R
          /\ \A i, j, k \in Found : <<i, j>> \in R /\ <<j, k>> \in R => <<i, k>> \in R
      BY <1>2, <2>1
    <3>2. QED
      BY <1>1, <3>1, Ordered
  <2>3. QED
    BY <2>1, <2>2
<1>4. D!Sort \in [1 .. Size -> Found] /\ Good(D!Sort)
  <2>1. D!Sort = CHOOSE s \in [1 .. Size -> Found] : \A m, n \in DOMAIN s : m < n => D!Before(s[m], s[n], view)
    BY <1>1 DEF D!Sort, Found
  <2>2. \E s \in [1 .. Size -> Found] : \A m, n \in DOMAIN s : m < n => D!Before(s[m], s[n], view)
    BY <1>3
  <2>3. D!Sort \in [1 .. Size -> Found] /\ \A m, n \in DOMAIN D!Sort : m < n => D!Before(D!Sort[m], D!Sort[n], view)
    BY <2>1, <2>2
  <2>4. QED
    BY <2>3
<1> HIDE DEF Size
<1>5. \A m, n \in 1 .. Size : m < n => D!Sort[m] # D!Sort[n]
  BY <1>2, <1>4
<1>6. D!Sort \in Seq(Number) /\ Len(D!Sort) = Size
  <2>1. D!Sort \in [1 .. Size -> Number]
    BY <1>1, <1>4
  <2>2. D!Sort \in Seq(Number)
    BY <1>1, <2>1, SeqDef
  <2>3. Len(D!Sort) \in Nat /\ DOMAIN D!Sort = 1 .. Len(D!Sort)
    BY <2>2, LenProperties
  <2>4. QED
    BY <1>1, <2>1, <2>2, <2>3
<1>7. \A i \in Found : \E m \in 1 .. Size : D!Sort[m] = i
  BY <1>1, <1>4, <1>5, AllOf DEF Size
<1>8. QED
  BY <1>4, <1>5, <1>6, <1>7

(* A sequence cut in two.                                                   *)
LEMMA Cuts ==
  ASSUME NEW S, NEW s \in Seq(S), NEW n \in Nat
  PROVE  /\ D!Chop(s, n) \in Seq(S) /\ D!Rest(s, n) \in Seq(S)
         /\ Len(s) = Len(D!Chop(s, n)) + Len(D!Rest(s, n))
         /\ Len(D!Chop(s, n)) = IF Len(s) <= n THEN Len(s) ELSE n
         /\ \A m \in 1 .. Len(D!Chop(s, n)) : D!Chop(s, n)[m] = s[m]
         /\ \A m \in 1 .. Len(D!Rest(s, n)) : D!Rest(s, n)[m] = s[n + m]
<1>1. Len(s) \in Nat /\ \A m \in 1 .. Len(s) : s[m] \in S
  BY LenProperties, ElementOfSeq
<1>2. CASE Len(s) <= n
  <2>1. D!Chop(s, n) = s
    BY <1>2 DEF D!Chop
  <2>2. D!Rest(s, n) = <<>>
    BY <1>1, <1>2, SubSeqEmpty DEF D!Rest
  <2>3. <<>> \in Seq(S) /\ Len(<<>>) = 0
    BY EmptySeq
  <2>4. QED
    BY <1>1, <1>2, <2>1, <2>2, <2>3
<1>3. CASE n < Len(s)
  <2>1. D!Chop(s, n) = SubSeq(s, 1, n) /\ D!Rest(s, n) = SubSeq(s, n + 1, Len(s))
    BY <1>1, <1>3 DEF D!Chop, D!Rest
  <2>2. (\A m \in 1 .. n : s[m] \in S) /\ (\A m \in n + 1 .. Len(s) : s[m] \in S)
    BY <1>1, <1>3
  <2>3. /\ SubSeq(s, 1, n) \in Seq(S) /\ Len(SubSeq(s, 1, n)) = (IF 1 <= n THEN n - 1 + 1 ELSE 0)
        /\ \A m \in 1 .. n - 1 + 1 : SubSeq(s, 1, n)[m] = s[1 + m - 1]
    BY <2>2, SubSeqProperties
  <2>4. n + 1 \in Int /\ Len(s) \in Int
    BY <1>1
  <2>5. /\ SubSeq(s, n + 1, Len(s)) \in Seq(S)
        /\ Len(SubSeq(s, n + 1, Len(s))) = (IF n + 1 <= Len(s) THEN Len(s) - (n + 1) + 1 ELSE 0)
        /\ \A m \in 1 .. Len(s) - (n + 1) + 1 : SubSeq(s, n + 1, Len(s))[m] = s[(n + 1) + m - 1]
    BY <2>2, <2>4, SubSeqProperties
  <2>6. Len(SubSeq(s, 1, n)) = n /\ Len(SubSeq(s, n + 1, Len(s))) = Len(s) - n
    BY <1>1, <1>3, <2>3, <2>5
  <2>7. \A m \in 1 .. n : SubSeq(s, 1, n)[m] = s[m]
    BY <2>3
  <2>8. \A m \in 1 .. Len(s) - n : SubSeq(s, n + 1, Len(s))[m] = s[n + m]
    BY <1>1, <2>5
  <2>9. /\ Len(s) = Len(D!Chop(s, n)) + Len(D!Rest(s, n)) /\ Len(D!Chop(s, n)) = n
        /\ ~ (Len(s) <= n)
    <3>1. Len(D!Chop(s, n)) = n /\ Len(D!Rest(s, n)) = Len(s) - n
      BY <2>1, <2>6
    <3>2. Len(s) \in Nat
      BY <1>1
    <3>3. QED
      BY <1>3, <3>1, <3>2
  <2>10. /\ \A m \in 1 .. Len(D!Chop(s, n)) : D!Chop(s, n)[m] = s[m]
         /\ \A m \in 1 .. Len(D!Rest(s, n)) : D!Rest(s, n)[m] = s[n + m]
    BY <2>1, <2>6, <2>7, <2>8
  <2>11. QED
    BY <2>1, <2>3, <2>5, <2>9, <2>10
<1>4. QED
  BY <1>1, <1>2, <1>3

LEMMA Least ==
  ASSUME NEW S \in SUBSET Nat, S # {}
  PROVE  \E n \in S : \A m \in S : n <= m
<1> DEFINE Less == {pair \in Nat \X Nat : pair[1] < pair[2]}
<1>1. IsWellFoundedOn(Less, Nat)
  BY NatLessThanWellFounded DEF OpToRel
<1>2. PICK n \in S : \A m \in S : ~ (<<m, n>> \in Less)
  <2> HIDE DEF Less
  <2>1. QED
    BY <1>1, WFMin
<1>3. \A m \in S : ~ (m < n) /\ m \in Nat /\ n \in Nat
  BY <1>2
<1> HIDE DEF Less
<1>4. QED
  BY <1>3

(* The first of a window that is not leased.                                *)
First(n) == n = D!SelectInSeq(window, LAMBDA i : i \notin leased)

LEMMA FirstIs ==
  ASSUME DiscoveryTyped, NEW n, First(n)
  PROVE  \/ n = 0 /\ \A m \in 1 .. Len(window) : window[m] \in leased
         \/ /\ n \in 1 .. Len(window) /\ window[n] \notin leased
            /\ \A m \in 1 .. n - 1 : window[m] \in leased
<1> DEFINE I == {m \in 1 .. Len(window) : window[m] \notin leased}
<1>1. n = IF I # {} THEN D!Min(I) ELSE 0
  BY DEF First, D!SelectInSeq
<1>2. CASE I = {}
  BY <1>1, <1>2
<1>3. CASE I # {}
  <2>1. I \in SUBSET Nat
    OBVIOUS
  <2>2. \E x \in I : \A y \in I : x <= y
    BY <1>3, <2>1, Least
  <2>3. n \in I /\ \A y \in I : n <= y
    BY <1>1, <1>3, <2>2 DEF D!Min
  <2>4. \A m \in 1 .. n - 1 : m \notin I /\ m \in 1 .. Len(window)
    <3>1. Len(window) \in Nat /\ n \in 1 .. Len(window)
      BY <2>3, LenProperties DEF DiscoveryTyped
    <3>2. \A m \in 1 .. n - 1 : m \in 1 .. Len(window) /\ ~ (n <= m)
      BY <3>1
    <3>3. QED
      BY <2>3, <3>2
  <2>5. QED
    BY <2>3, <2>4
<1>4. QED
  BY <1>2, <1>3

-----------------------------------------------------------------------------
(* What the selection knows of an issue it goes on with.                    *)

Going == selecting \in {"refreshing", "listing", "checking"}

(* What is known is what was so at some moment, or still is of issues that  *)
(* nobody touched; such an issue that may be chosen is in the view when its *)
(* priority is listed.                                                      *)
Shown(i) == item[i].kind.open /\ D!Disposition(item[i].kind) # "deferred"
Known ==
  /\ \A i \in Number : D!Eligible(i, item) => i \in chances.eligible
  /\ \A i \in Number \ held : i \in chances.free
  /\ \A i \in DOMAIN view : D!Eligible(i, view) => i \in chances.eligible
  /\ \A i \in DOMAIN view : i \in steady => view[i] = item[i]
  /\ \A i \in steady, n \in 1 .. listed : Shown(i) /\ item[i].kind.listed = Priorities[n] => i \in DOMAIN view
  /\ leased \cap steady \subseteq held

(* What is not yet known.                                                   *)
Unknown ==
  /\ selecting = "idle" => listed = 0 /\ DOMAIN view = {} /\ leased = {}
  /\ selecting \in {"idle", "refreshing", "listing"} => window = <<>>
  /\ selecting = "checking" => listed = Len(Priorities)
  /\ selecting # "done" => candidate = D!NoItem

(* The window and what is left are what comes next in order, after issues   *)
(* that are leased.                                                         *)
InOrder(c) ==
  /\ c \in Nat /\ Len(D!Sort) = c + Len(window) + Len(order)
  /\ \A m \in 1 .. c : D!Sort[m] \in leased
  /\ \A m \in 1 .. Len(window) : window[m] = D!Sort[c + m]
  /\ \A m \in 1 .. Len(order) : order[m] = D!Sort[c + Len(window) + m]

(* The leases of a window are read in batches: those before the end b of    *)
(* the present one are read, or to be read.                                 *)
BatchTo(b) ==
  /\ \A i \in todo : \E p \in 1 .. Len(window) : window[p] = i /\ b - Concurrency < p /\ p <= b
  /\ \A p \in 1 .. Len(window) : p <= b => window[p] \in todo \cup leased \cup chances.free
  /\ todo = {} => Len(window) <= b
BatchEnd == {Concurrency * (k + 1) : k \in Nat}
Batches == \E b \in BatchEnd : BatchTo(b)

DiscoveryInv ==
  /\ DiscoveryTyped /\ Unknown
  /\ Going => Known
  /\ selecting = "checking" => Batches /\ \E c \in Nat : InOrder(c)
  /\ D!NotPassedOver

LEMMA DiscoverySteps == [EitherNext]_allVars => [D!Next]_discovery
BY DEF EitherNext, allVars, choice

LEMMA DiscoveryBegin == D!Init => DiscoveryInv
<1> SUFFICES ASSUME D!Init PROVE DiscoveryInv
  OBVIOUS
<1>1. DiscoveryTyped
  <2>1. item \in [Number -> IssueState]
    BY DEF D!Init, IssueState
  <2>2. DOMAIN view = {} /\ view \in [DOMAIN view -> IssueState]
    BY DEF D!Init
  <2>3. order \in Seq(Number) /\ window \in Seq(Number)
    BY EmptySeq DEF D!Init
  <2>4. listed \in 0 .. Len(Priorities)
    BY LenProperties DEF D!Init
  <2>5. QED
    BY <2>1, <2>2, <2>3, <2>4 DEF D!Init, DiscoveryTyped, D!Phase
<1>2. Unknown
  BY DEF D!Init, Unknown, D!NoItem
<1>3. QED
  BY <1>1, <1>2 DEF D!Init, DiscoveryInv, Going, D!NotPassedOver

-----------------------------------------------------------------------------
(* Steps that add to what is known, and steps of the others.                *)

LEMMA BeginKnows ==
  ASSUME DiscoveryInv, D!Begin
  PROVE  DiscoveryInv'
<1>1. /\ UNCHANGED <<item, held, here, listed, view, order, window, leased, candidate>>
      /\ selecting = "idle" /\ selecting' \in {"refreshing", "listing"}
      /\ steady' = Number /\ chances' = [eligible |-> {i \in Number : D!Eligible(i, item)}, free |-> Number \ held]
  BY DEF D!Begin, D!world, D!result
<1>2. listed = 0 /\ DOMAIN view = {} /\ leased = {} /\ window = <<>> /\ candidate = D!NoItem
  BY <1>1 DEF DiscoveryInv, Unknown
<1>3. DiscoveryTyped'
  BY <1>1 DEF DiscoveryInv, DiscoveryTyped, D!Phase
<1>4. Unknown'
  BY <1>1, <1>2 DEF Unknown, D!NoItem
<1>5. Known'
  <2>1. \A i \in Number : D!Eligible(i, item)' => i \in chances'.eligible
    BY <1>1, EligibleStays
  <2>2. QED
    BY <1>1, <1>2, <2>1 DEF Known
<1>6. QED
  BY <1>1, <1>3, <1>4, <1>5 DEF DiscoveryInv, D!NotPassedOver

LEMMA RefreshedKnows ==
  ASSUME DiscoveryInv, D!Refreshed
  PROVE  DiscoveryInv'
<1>1. /\ UNCHANGED <<item, held, here, listed, view, order, window, leased, candidate, steady, chances>>
      /\ selecting = "refreshing" /\ selecting' = "listing"
  BY DEF D!Refreshed, D!world, D!result, D!history
<1>2. DiscoveryTyped'
  BY <1>1 DEF DiscoveryInv, DiscoveryTyped, D!Phase
<1>3. Unknown'
  BY <1>1 DEF DiscoveryInv, Unknown, D!NoItem
<1>4. Known'
  <2>1. \A i, of : D!Eligible(i, of)' <=> D!Eligible(i, of')
    BY <1>1 DEF D!Eligible, D!Unchanged, D!Excluded
  <2>2. QED
    BY <1>1 DEF DiscoveryInv, Going, Known, Shown, D!Eligible, D!Unchanged, D!Excluded
<1>5. QED
  BY <1>1, <1>2, <1>3, <1>4 DEF DiscoveryInv, D!NotPassedOver

LEMMA ListKnows ==
  ASSUME DiscoveryInv, D!List
  PROVE  DiscoveryInv'
<1> DEFINE found == {i \in Number : /\ item[i].kind.open /\ item[i].kind.listed = Priorities[listed + 1]
                                    /\ D!Disposition(item[i].kind) # "deferred"}
<1>1. /\ UNCHANGED <<item, held, here, selecting, order, window, leased, candidate, steady, chances>>
      /\ selecting = "listing" /\ listed < Len(Priorities) /\ listed' = listed + 1
      /\ view' = [i \in found \cup DOMAIN view |-> IF i \in found THEN item[i] ELSE view[i]]
  BY DEF D!List, D!world, D!result, D!history
<1>2. listed \in Nat /\ listed' \in 0 .. Len(Priorities)
  BY <1>1, LenProperties DEF DiscoveryInv, DiscoveryTyped
<1>3. /\ DOMAIN view' = found \cup DOMAIN view
      /\ \A i \in found : view'[i] = item[i]
      /\ \A i \in DOMAIN view' : i \notin found => i \in DOMAIN view /\ view'[i] = view[i]
  BY <1>1
<1>4. DiscoveryTyped'
  <2>1. \A i \in found \cup DOMAIN view : (IF i \in found THEN item[i] ELSE view[i]) \in IssueState
    BY DEF DiscoveryInv, DiscoveryTyped
  <2>2. DOMAIN view' \subseteq Number /\ view' \in [DOMAIN view' -> IssueState]
    BY <1>1, <2>1 DEF DiscoveryInv, DiscoveryTyped
  <2>3. QED
    BY <1>1, <1>2, <2>2 DEF DiscoveryInv, DiscoveryTyped
<1>5. Unknown'
  BY <1>1 DEF DiscoveryInv, Unknown, D!NoItem
<1>6. Known
  BY <1>1 DEF DiscoveryInv, Going
<1>7. Known'
  <2>1. \A i, of : D!Eligible(i, of)' <=> D!Eligible(i, of')
    BY <1>1 DEF D!Eligible, D!Unchanged, D!Excluded
  <2>2. \A i \in Number : D!Eligible(i, item)' => i \in chances'.eligible
    BY <1>1, <1>6, EligibleStays DEF Known
  <2>3. ASSUME NEW i \in DOMAIN view', D!Eligible(i, view)' PROVE i \in chances'.eligible
    <3>1. D!Eligible(i, view')
      BY <1>1, <2>3 DEF D!Eligible, D!Unchanged, D!Excluded
    <3>2. CASE i \in found
      <4>1. D!Eligible(i, item)
        BY <1>3, <3>1, <3>2, SameEligible
      <4>2. QED
        BY <1>1, <1>6, <3>2, <4>1 DEF Known
    <3>3. CASE i \notin found
      <4>1. i \in DOMAIN view /\ D!Eligible(i, view)
        BY <1>3, <3>1, <3>3, SameEligible
      <4>2. QED
        BY <1>1, <1>6, <4>1 DEF Known
    <3>4. QED
      BY <3>2, <3>3
  <2>4. \A i \in DOMAIN view' : i \in steady' => view'[i] = item'[i]
    BY <1>1, <1>3, <1>6 DEF Known
  <2>5. ASSUME NEW i \in steady', NEW n \in 1 .. listed', Shown(i)', item'[i].kind.listed = Priorities[n]
        PROVE  i \in DOMAIN view'
    <3>1. Shown(i) /\ item[i].kind.listed = Priorities[n] /\ i \in steady /\ i \in Number
      BY <1>1, <2>5 DEF Shown, D!Disposition, D!Awaiting, D!HeldFinding, DiscoveryInv, DiscoveryTyped
    <3>2. CASE n = listed + 1
      BY <1>3, <3>1, <3>2 DEF Shown
    <3>3. CASE n \in 1 .. listed
      BY <1>3, <1>6, <3>1, <3>3 DEF Known
    <3>4. QED
      BY <1>1, <1>2, <3>2, <3>3
  <2>6. leased' \cap steady' \subseteq held'
    BY <1>1, <1>6 DEF Known
  <2>7. \A i \in Number \ held' : i \in chances'.free
    BY <1>1, <1>6 DEF Known
  <2>8. QED
    BY <2>2, <2>3, <2>4, <2>5, <2>6, <2>7 DEF Known
<1>8. QED
  BY <1>1, <1>4, <1>5, <1>7 DEF DiscoveryInv, D!NotPassedOver

(* Others edit an issue, or take or leave its lease.                        *)
LEMMA OthersMove ==
  ASSUME DiscoveryInv, NEW i \in Number, D!EditIssue(i) \/ D!LeaseMoves(i)
  PROVE  DiscoveryInv'
<1>1. /\ UNCHANGED <<here, selecting, listed, view, order, window, todo, leased, candidate, outcome>>
      /\ selecting \notin {"idle", "done"} /\ steady' = steady \ {i}
      /\ chances' = [eligible |-> IF D!Eligible(i, item') THEN chances.eligible \cup {i} ELSE chances.eligible,
                     free |-> IF i \in held' THEN chances.free ELSE chances.free \cup {i}]
  BY DEF D!EditIssue, D!LeaseMoves, D!Moved, D!result
<1>2. item' \in [Number -> IssueState] /\ \A j \in Number \ {i} : item'[j] = item[j]
  <2>1. CASE D!EditIssue(i)
    <3>1. PICK k \in Kind : item' = [item EXCEPT ![i] = [kind |-> k, updated |-> @.updated + 1]]
      BY <2>1 DEF D!EditIssue
    <3>2. item \in [Number -> IssueState] /\ item[i].updated \in Nat
      BY DEF DiscoveryInv, DiscoveryTyped, IssueState
    <3>3. [kind |-> k, updated |-> item[i].updated + 1] \in IssueState
      BY <3>2 DEF IssueState
    <3>4. QED
      BY <3>1, <3>2, <3>3
  <2>2. CASE D!LeaseMoves(i)
    BY <2>2 DEF D!LeaseMoves, DiscoveryInv, DiscoveryTyped
  <2>3. QED
    BY <2>1, <2>2
<1>3. held' \subseteq Number /\ \A j \in Number \ {i} : j \in held' <=> j \in held
  BY DEF D!EditIssue, D!LeaseMoves, DiscoveryInv, DiscoveryTyped
<1>4. /\ chances' \in [eligible : SUBSET Number, free : SUBSET Number]
      /\ chances.eligible \subseteq chances'.eligible /\ chances.free \subseteq chances'.free
      /\ D!Eligible(i, item') => i \in chances'.eligible
      /\ i \notin held' => i \in chances'.free
  BY <1>1 DEF DiscoveryInv, DiscoveryTyped
<1>5. DiscoveryTyped'
  BY <1>1, <1>2, <1>3, <1>4 DEF DiscoveryInv, DiscoveryTyped
<1>6. Unknown'
  BY <1>1 DEF DiscoveryInv, Unknown, D!NoItem
<1>7. Known
  BY <1>1 DEF DiscoveryInv, Going, DiscoveryTyped, D!Phase
<1>8. Known'
  <2>1. ASSUME NEW j \in Number, D!Eligible(j, item)' PROVE j \in chances'.eligible
    <3>1. D!Eligible(j, item')
      BY <1>1, <2>1, EligibleStays
    <3>2. CASE j # i
      <4>1. D!Eligible(j, item)
        BY <1>2, <3>1, <3>2, SameEligible
      <4>2. QED
        BY <1>4, <1>7, <4>1 DEF Known
    <3>3. QED
      BY <1>4, <3>1, <3>2
  <2>2. \A j \in Number \ held' : j \in chances'.free
    BY <1>3, <1>4, <1>7 DEF Known
  <2>3. ASSUME NEW j \in DOMAIN view', D!Eligible(j, view)' PROVE j \in chances'.eligible
    <3>1. D!Eligible(j, view)
      BY <1>1, <2>3 DEF D!Eligible, D!Unchanged, D!Excluded
    <3>2. QED
      BY <1>1, <1>4, <1>7, <3>1 DEF Known
  <2>4. \A j \in DOMAIN view' : j \in steady' => view'[j] = item'[j]
    BY <1>1, <1>2, <1>7 DEF Known, DiscoveryInv, DiscoveryTyped
  <2>5. ASSUME NEW j \in steady', NEW n \in 1 .. listed', Shown(j)', item'[j].kind.listed = Priorities[n]
        PROVE  j \in DOMAIN view'
    <3>1. j \in steady /\ j # i /\ item'[j] = item[j] /\ n \in 1 .. listed
      BY <1>1, <1>2 DEF DiscoveryInv, DiscoveryTyped
    <3>2. Shown(j) /\ item[j].kind.listed = Priorities[n]
      BY <2>5, <3>1 DEF Shown
    <3>3. QED
      BY <1>1, <1>7, <3>1, <3>2 DEF Known
  <2>6. leased' \cap steady' \subseteq held'
    BY <1>1, <1>3, <1>7 DEF Known, DiscoveryInv, DiscoveryTyped
  <2>7. QED
    BY <2>1, <2>2, <2>3, <2>4, <2>5, <2>6 DEF Known
<1>9. selecting' = "checking" => Batches' /\ \E c \in Nat : InOrder(c)'
  <2>1. SUFFICES ASSUME selecting = "checking" PROVE Batches' /\ \E c \in Nat : InOrder(c)'
    BY <1>1
  <2>2. PICK b \in BatchEnd : BatchTo(b)
    BY <2>1 DEF DiscoveryInv, Batches
  <2>3. BatchTo(b)'
    BY <1>1, <1>4, <2>2 DEF BatchTo
  <2>4. PICK c \in Nat : InOrder(c)
    BY <2>1 DEF DiscoveryInv
  <2>5. D!Sort' = D!Sort
    BY <1>1 DEF D!Sort, D!Eligible, D!Unchanged, D!Excluded, D!Before, D!Rank
  <2>6. InOrder(c)'
    BY <1>1, <2>4, <2>5 DEF InOrder
  <2>7. QED
    BY <2>3, <2>6 DEF Batches
<1>10. QED
  BY <1>1, <1>5, <1>6, <1>8, <1>9 DEF DiscoveryInv, D!NotPassedOver

-----------------------------------------------------------------------------
(* Windows and batches.                                                     *)

LEMMA OfSequence ==
  ASSUME NEW s \in Seq(Number)
  PROVE  D!ToSet(s) = {s[m] : m \in 1 .. Len(s)}
BY LenProperties DEF D!ToSet

LEMMA InBatch ==
  ASSUME NEW w \in Seq(Number), NEW b \in Nat
  PROVE  D!Batch(b, w) = {w[p] : p \in {q \in 1 .. Len(w) : b < q /\ q <= b + Concurrency}}
<1>1. Len(w) \in Nat /\ Concurrency \in Nat
  BY LenProperties
<1>2. PICK r \in Seq(Number) : r = D!Rest(w, b)
  BY Cuts
<1>3. /\ Len(r) = IF Len(w) <= b THEN 0 ELSE Len(w) - b
      /\ \A m \in 1 .. Len(r) : r[m] = w[b + m]
  <2>1. /\ Len(w) = Len(D!Chop(w, b)) + Len(r)
        /\ Len(D!Chop(w, b)) = IF Len(w) <= b THEN Len(w) ELSE b
        /\ \A m \in 1 .. Len(r) : r[m] = w[b + m]
    BY <1>2, Cuts
  <2>2. Len(r) \in Nat
    BY LenProperties
  <2>3. Len(r) = IF Len(w) <= b THEN 0 ELSE Len(w) - b
    <3>1. /\ Len(w) = Len(D!Chop(w, b)) + Len(r)
          /\ Len(D!Chop(w, b)) = IF Len(w) <= b THEN Len(w) ELSE b
      BY <2>1
    <3>2. QED
      BY <1>1, <2>2, <3>1
  <2>4. QED
    BY <2>1, <2>3
<1>4. PICK t \in Seq(Number) : t = D!Chop(r, Concurrency)
  BY <1>1, Cuts
<1>5. /\ Len(t) = IF Len(r) <= Concurrency THEN Len(r) ELSE Concurrency
      /\ \A m \in 1 .. Len(t) : t[m] = r[m]
  BY <1>1, <1>4, Cuts
<1>6. D!Batch(b, w) = {t[m] : m \in 1 .. Len(t)}
  BY <1>2, <1>4, OfSequence DEF D!Batch
<1>7. \A m \in 1 .. Len(t) : t[m] = w[b + m]
  BY <1>1, <1>3, <1>5
<1> DEFINE Places == {q \in 1 .. Len(w) : b < q /\ q <= b + Concurrency}
<1>8. \A p \in Places : p \in Int /\ p - b \in 1 .. Len(t) /\ b + (p - b) = p
  BY <1>1, <1>3, <1>5
<1>9. \A m \in 1 .. Len(t) : b + m \in Places
  BY <1>1, <1>3, <1>5
<1> HIDE DEF Places
<1>10. \A m \in 1 .. Len(t) : \E p \in Places : w[p] = t[m]
  BY <1>7, <1>9
<1>11. ASSUME NEW p \in Places PROVE \E m \in 1 .. Len(t) : t[m] = w[p]
  <2>1. p - b \in 1 .. Len(t) /\ b + (p - b) = p
    BY <1>8
  <2>2. t[p - b] = w[b + (p - b)]
    BY <1>7, <2>1
  <2>3. QED
    BY <2>1, <2>2
<1>12. {t[m] : m \in 1 .. Len(t)} = {w[p] : p \in Places}
  <2>1. ASSUME NEW x \in {t[m] : m \in 1 .. Len(t)} PROVE x \in {w[p] : p \in Places}
    <3>1. PICK m \in 1 .. Len(t) : x = t[m]
      BY <2>1
    <3>2. PICK p \in Places : w[p] = t[m]
      BY <1>10
    <3>3. QED
      BY <3>1, <3>2
  <2>2. ASSUME NEW x \in {w[p] : p \in Places} PROVE x \in {t[m] : m \in 1 .. Len(t)}
    <3>1. PICK p \in Places : x = w[p]
      BY <2>2
    <3>2. PICK m \in 1 .. Len(t) : t[m] = w[p]
      BY <1>11
    <3>3. QED
      BY <3>1, <3>2
  <2>3. QED
    BY <2>1, <2>2
<1>13. QED
  BY <1>6, <1>12 DEF Places

(* A new window follows the one before, and its first leases are read.      *)
LEMMA NewWindow ==
  ASSUME NEW s \in Seq(Number), window' = D!Chop(s, Window), order' = D!Rest(s, Window),
         todo' = D!ToSet(D!Chop(window', Concurrency))
  PROVE  /\ window' \in Seq(Number) /\ order' \in Seq(Number)
         /\ Len(s) = Len(window') + Len(order')
         /\ \A m \in 1 .. Len(window') : window'[m] = s[m]
         /\ \A m \in 1 .. Len(order') : order'[m] = s[Len(window') + m]
         /\ Batches'
<1>1. /\ window' \in Seq(Number) /\ order' \in Seq(Number)
      /\ Len(s) = Len(window') + Len(order')
      /\ Len(window') = IF Len(s) <= Window THEN Len(s) ELSE Window
      /\ \A m \in 1 .. Len(window') : window'[m] = s[m]
      /\ \A m \in 1 .. Len(order') : order'[m] = s[Window + m]
  <2>1. PICK n \in Nat : n = Window
    OBVIOUS
  <2> HIDE DEF RunsAssumption, A!AutoAssumption, D!DiscoveryAssumption, N!RoadmapAssumption
  <2>2. /\ D!Chop(s, n) \in Seq(Number) /\ D!Rest(s, n) \in Seq(Number)
        /\ Len(s) = Len(D!Chop(s, n)) + Len(D!Rest(s, n))
        /\ Len(D!Chop(s, n)) = IF Len(s) <= n THEN Len(s) ELSE n
        /\ \A m \in 1 .. Len(D!Chop(s, n)) : D!Chop(s, n)[m] = s[m]
        /\ \A m \in 1 .. Len(D!Rest(s, n)) : D!Rest(s, n)[m] = s[n + m]
    BY Cuts
  <2>3. window' = D!Chop(s, n) /\ order' = D!Rest(s, n)
    BY <2>1
  <2>4. QED
    BY <2>1, <2>2, <2>3
<1>2. Len(s) \in Nat /\ Len(window') \in Nat /\ Len(order') \in Nat /\ Concurrency \in Nat \ {0} /\ Window \in Nat
  BY <1>1, LenProperties
<1>3. \A m \in 1 .. Len(order') : order'[m] = s[Len(window') + m]
  <2>1. CASE Len(s) <= Window
    <3>1. Len(order') = 0
      BY <1>1, <1>2, <2>1
    <3>2. QED
      BY <3>1
  <2>2. CASE Window < Len(s)
    <3>1. Len(window') = Window
      BY <1>1, <1>2, <2>2
    <3>2. QED
      BY <1>1, <3>1
  <2>3. Len(s) <= Window \/ Window < Len(s)
    BY <1>2
  <2>4. QED
    BY <2>1, <2>2, <2>3
<1>4. PICK t \in Seq(Number) : t = D!Chop(window', Concurrency)
  BY <1>1, <1>2, Cuts
<1>5. /\ Len(t) = IF Len(window') <= Concurrency THEN Len(window') ELSE Concurrency
      /\ \A m \in 1 .. Len(t) : t[m] = window'[m]
  <2>1. PICK w \in Seq(Number) : w = window'
    BY <1>1
  <2>2. t = D!Chop(w, Concurrency) /\ Concurrency \in Nat
    BY <1>2, <1>4, <2>1
  <2> HIDE DEF RunsAssumption, A!AutoAssumption, D!DiscoveryAssumption, N!RoadmapAssumption
  <2>3. QED
    BY <2>1, <2>2, Cuts
<1>6. todo' = {t[m] : m \in 1 .. Len(t)}
  BY <1>4, OfSequence
<1>7. \A p \in 1 .. Len(window') : p <= Concurrency => p \in 1 .. Len(t)
  BY <1>2, <1>5
<1>8. \A m \in 1 .. Len(t) : m \in 1 .. Len(window') /\ 0 < m /\ m <= Concurrency
  BY <1>2, <1>5
<1>9. BatchTo(Concurrency)'
  <2>1. \A i \in todo' : \E p \in 1 .. Len(window') : window'[p] = i /\ Concurrency - Concurrency < p /\ p <= Concurrency
    <3>1. Concurrency - Concurrency = 0
      BY <1>2
    <3>2. QED
      BY <1>5, <1>6, <1>8, <3>1
  <2>2. \A p \in 1 .. Len(window') : p <= Concurrency => window'[p] \in todo'
    BY <1>5, <1>6, <1>7
  <2>3. todo' = {} => Len(window') <= Concurrency
    <3>1. 1 \in 1 .. Len(t) => t[1] \in todo'
      BY <1>6
    <3>2. Len(window') <= Concurrency \/ 1 \in 1 .. Len(t)
      BY <1>2, <1>5
    <3>3. QED
      BY <3>1, <3>2
  <2>4. QED
    BY <2>1, <2>2, <2>3 DEF BatchTo
<1>10. Batches'
  <2>1. Concurrency = Concurrency * (0 + 1) /\ 0 \in Nat
    BY <1>2
  <2>2. Concurrency \in BatchEnd
    BY <2>1 DEF BatchEnd
  <2>3. QED
    BY <1>9, <2>2 DEF Batches
<1>11. QED
  BY <1>1, <1>3, <1>10

(* Which batch a place of the window is in.                                 *)
LEMMA BatchNumber ==
  ASSUME NEW n \in Nat \ {0}, NEW k \in Nat, NEW p \in Nat, n * k < p, p <= n * k + n
  PROVE  (p - 1) \div n = k
<1>1. p - 1 \in Int /\ n * k \in Int
  OBVIOUS
<1>2. PICK q \in Int : q = (p - 1) \div n
  OBVIOUS
<1>3. n * q <= p - 1 /\ p - 1 < n * q + n
  BY <1>2
<1>4. ~ (q <= k - 1)
  <2>1. SUFFICES ASSUME q <= k - 1 PROVE FALSE
    OBVIOUS
  <2>2. PICK d \in Nat : k = q + 1 + d
    <3>1. k - q - 1 \in Nat /\ k = q + 1 + (k - q - 1)
      BY <2>1
    <3>2. QED
      BY <3>1
  <2>3. n * k = n * q + n + n * d
    BY <2>2
  <2>4. n * d \in Nat /\ n * q \in Int /\ n * k \in Int
    BY <1>1
  <2>5. QED
    BY <1>3, <2>3, <2>4
<1>5. ~ (k + 1 <= q)
  <2>1. SUFFICES ASSUME k + 1 <= q PROVE FALSE
    OBVIOUS
  <2>2. PICK d \in Nat : q = k + 1 + d
    <3>1. q - k - 1 \in Nat /\ q = k + 1 + (q - k - 1)
      BY <2>1
    <3>2. QED
      BY <3>1
  <2>3. n * q = n * k + n + n * d
    BY <2>2
  <2>4. n * d \in Nat /\ n * q \in Int /\ n * k \in Int
    BY <1>1
  <2>5. QED
    BY <1>3, <2>3, <2>4
<1>6. k <= q /\ q <= k
  BY <1>4, <1>5
<1>7. QED
  BY <1>2, <1>6

-----------------------------------------------------------------------------
(* Windows are begun, their leases are read, and one issue is decided on.   *)

(* The list stays as it is while the view and what is excluded do.          *)
LEMMA SortStays ==
  ASSUME UNCHANGED <<here, view>>
  PROVE  D!Sort' = D!Sort
BY DEF D!Sort, D!Eligible, D!Unchanged, D!Excluded, D!Before, D!Rank

(* And what is known, while only leases of others are found.                *)
LEMMA KnownStays ==
  ASSUME Known, UNCHANGED <<item, held, here, listed, view, steady, chances>>,
         leased' \subseteq leased \cup held
  PROVE  Known'
<1>1. \A i \in Number : D!Eligible(i, item)' => i \in chances'.eligible
  BY EligibleStays DEF Known
<1>2. \A i \in DOMAIN view : D!Eligible(i, view)' => i \in chances'.eligible
  BY DEF Known, D!Eligible, D!Unchanged, D!Excluded
<1>3. \A i, n : i \in steady' /\ n \in 1 .. listed' /\ Shown(i)' /\ item'[i].kind.listed = Priorities[n] => i \in DOMAIN view'
  BY DEF Known, Shown
<1>4. leased' \cap steady' \subseteq held'
  BY DEF Known
<1>5. QED
  BY <1>1, <1>2, <1>3, <1>4 DEF Known

(* An issue nobody touched that may be chosen is in the view and not found  *)
(* leased.                                                                  *)
LEMMA StillThere ==
  ASSUME DiscoveryTyped, Known, listed = Len(Priorities), NEW i \in steady, D!Available(i)
  PROVE  i \in Found /\ i \notin leased /\ view[i] = item[i]
<1>1. i \in Number /\ item[i] \in IssueState /\ i \notin held /\ D!Eligible(i, item)
  BY DEF DiscoveryTyped, D!Available
<1>2. Shown(i)
  BY <1>1 DEF Shown, D!Eligible, D!Disposition
<1>3. \E n \in 1 .. Len(Priorities) : item[i].kind.listed = Priorities[n]
  <2>1. item[i].kind.listed \in D!ToSet(Priorities)
    BY <1>1 DEF IssueState
  <2>2. QED
    BY <2>1, LenProperties DEF D!ToSet
<1>4. i \in DOMAIN view
  BY <1>2, <1>3 DEF Known
<1>5. view[i] = item[i]
  BY <1>4 DEF Known
<1>6. D!Eligible(i, view)
  BY <1>1, <1>5, SameEligible
<1>7. QED
  BY <1>1, <1>4, <1>5, <1>6 DEF Known, Found

(* The first of the list that is not found leased is justified.             *)
LEMMA FirstOfList ==
  ASSUME DiscoveryTyped, Known, listed = Len(Priorities),
         NEW p \in 1 .. Len(D!Sort), \A q \in 1 .. p - 1 : D!Sort[q] \in leased
  PROVE  /\ D!Sort[p] \in chances.eligible
         /\ \A i \in steady : D!Available(i) /\ D!Sort[p] # i /\ D!Sort[p] \in steady => D!Before(D!Sort[p], i, item)
<1>1. D!Sort[p] \in Found
  BY Sorted
<1>2. D!Sort[p] \in chances.eligible
  BY <1>1 DEF Found, Known
<1>3. ASSUME NEW i \in steady, D!Available(i), D!Sort[p] # i, D!Sort[p] \in steady
      PROVE  D!Before(D!Sort[p], i, item)
  <2>1. i \in Found /\ i \notin leased /\ view[i] = item[i]
    BY <1>3, StillThere
  <2>2. PICK m \in 1 .. Len(D!Sort) : D!Sort[m] = i
    BY <2>1, Sorted
  <2>3. ~ (m < p) /\ m # p /\ Len(D!Sort) \in Nat
    <3>1. Len(D!Sort) \in Nat
      BY Sorted, LenProperties
    <3>2. m < p => m \in 1 .. p - 1
      BY <3>1
    <3>3. QED
      BY <1>3, <2>1, <2>2, <3>1, <3>2
  <2>4. p < m
    BY <2>3
  <2>5. D!Before(D!Sort[p], i, view)
    BY <2>2, <2>4, Sorted
  <2>6. view[D!Sort[p]] = item[D!Sort[p]]
    BY <1>1, <1>3 DEF Found, Known
  <2>7. QED
    BY <2>1, <2>5, <2>6, SameBefore
<1>4. QED
  BY <1>2, <1>3

(* What is decided by that.                                                 *)
LEMMA Decides ==
  ASSUME DiscoveryTyped, Known, listed = Len(Priorities),
         UNCHANGED <<item, held, here, steady, chances>>,
         outcome' = D!Outcome,
         \/ /\ D!Grouped = {} \/ \A m \in 1 .. Len(D!Sort) : D!Sort[m] \in leased
            /\ candidate' = D!NoItem
         \/ /\ D!Grouped # {}
            /\ \E p \in 1 .. Len(D!Sort) : /\ candidate' = D!Sort[p]
                                           /\ \A q \in 1 .. p - 1 : D!Sort[q] \in leased
            /\ window' # <<>> => candidate' \in chances.free
  PROVE  D!NotPassedOver'
<1>1. \A i \in steady : D!Available(i) /\ D!Place(item[i].kind.first) # 0 =>
        /\ i \in D!Grouped /\ i \in Found /\ i \notin leased
  BY StillThere DEF D!Grouped, Found
<1>2. \A i \in steady : D!Available(i)' <=> D!Available(i)
  BY EligibleStays DEF D!Available
<1>3. CASE /\ D!Grouped = {} \/ \A m \in 1 .. Len(D!Sort) : D!Sort[m] \in leased
           /\ candidate' = D!NoItem
  <2>1. \A i \in steady : ~ (D!Available(i) /\ D!Place(item[i].kind.first) # 0)
    <3>1. D!Grouped = {} \/ \A i \in Found : i \in leased
      BY <1>3, Sorted
    <3>2. QED
      BY <1>1, <3>1
  <2>2. QED
    BY <1>2, <1>3, <2>1 DEF D!NotPassedOver, D!NoItem
<1>4. CASE /\ D!Grouped # {}
           /\ \E p \in 1 .. Len(D!Sort) : /\ candidate' = D!Sort[p]
                                          /\ \A q \in 1 .. p - 1 : D!Sort[q] \in leased
           /\ window' # <<>> => candidate' \in chances.free
  <2>1. PICK p \in 1 .. Len(D!Sort) : candidate' = D!Sort[p] /\ \A q \in 1 .. p - 1 : D!Sort[q] \in leased
    BY <1>4
  <2>2. /\ candidate' \in chances.eligible
        /\ \A i \in steady : D!Available(i) /\ candidate' # i /\ candidate' \in steady => D!Before(candidate', i, item)
    BY <2>1, FirstOfList
  <2>3. outcome' = "candidate"
    BY <1>4 DEF D!Outcome
  <2>4. QED
    BY <1>2, <1>4, <2>2, <2>3 DEF D!NotPassedOver
<1>5. QED
  BY <1>3, <1>4

LEMMA CheckKeeps ==
  ASSUME DiscoveryInv, D!Check
  PROVE  DiscoveryInv'
<1>1. /\ UNCHANGED <<item, held, here, listed, view, leased, steady, chances>>
      /\ selecting = "listing" /\ listed = Len(Priorities)
  BY DEF D!Check, D!world, D!history
<1>2. Known /\ DiscoveryTyped /\ window = <<>> /\ candidate = D!NoItem
  BY <1>1 DEF DiscoveryInv, Going, Unknown
<1>3. Known'
  BY <1>1, <1>2, KnownStays
<1>4. CASE /\ selecting' = "checking"
           /\ window' = D!Chop(D!Sort, Window) /\ order' = D!Rest(D!Sort, Window)
           /\ todo' = D!ToSet(D!Chop(window', Concurrency))
           /\ UNCHANGED <<candidate, outcome>>
  <2>1. D!Sort \in Seq(Number)
    BY <1>2, Sorted
  <2>2. /\ window' \in Seq(Number) /\ order' \in Seq(Number)
        /\ Len(D!Sort) = Len(window') + Len(order')
        /\ \A m \in 1 .. Len(window') : window'[m] = D!Sort[m]
        /\ \A m \in 1 .. Len(order') : order'[m] = D!Sort[Len(window') + m]
        /\ Batches'
    BY <1>4, <2>1, NewWindow
  <2>3. DiscoveryTyped'
    BY <1>1, <1>2, <1>4, <2>2 DEF DiscoveryTyped, D!Phase
  <2>4. Unknown'
    BY <1>1, <1>2, <1>4 DEF Unknown, D!NoItem
  <2>5. InOrder(0)'
    <3>1. D!Sort' = D!Sort
      BY <1>1, SortStays
    <3>2. Len(window') \in Nat /\ Len(order') \in Nat
      BY <2>2, LenProperties
    <3>3. 0 + Len(window') + Len(order') = Len(window') + Len(order')
      BY <3>2
    <3>4. \A m \in 1 .. Len(window') : 0 + m = m /\ window'[m] = D!Sort'[0 + m]
      BY <2>2, <3>1, <3>2
    <3>5. \A m \in 1 .. Len(order') : order'[m] = D!Sort'[0 + Len(window') + m]
      BY <2>2, <3>1, <3>2
    <3>6. \A m \in 1 .. 0 : D!Sort'[m] \in leased'
      OBVIOUS
    <3>7. Len(D!Sort') = 0 + Len(window') + Len(order')
      BY <2>2, <3>1, <3>3
    <3>8. QED
      BY <3>4, <3>5, <3>6, <3>7 DEF InOrder
  <2>6. QED
    BY <1>3, <1>4, <2>2, <2>3, <2>4, <2>5 DEF DiscoveryInv, D!NotPassedOver
<1>5. CASE /\ selecting' = "done"
           /\ outcome' = D!Outcome
           /\ candidate' = IF D!Grouped = {} THEN D!NoItem ELSE D!Sort[1]
           /\ UNCHANGED <<window, order, todo>>
  <2>1. DiscoveryTyped'
    BY <1>1, <1>2, <1>5 DEF DiscoveryTyped, D!Phase
  <2>2. Unknown'
    BY <1>5 DEF Unknown
  <2>3. D!Grouped # {} => 1 \in 1 .. Len(D!Sort)
    <3>1. D!Grouped \subseteq Found
      BY DEF D!Grouped, Found
    <3>2. D!Grouped # {} => \E m \in 1 .. Len(D!Sort) : TRUE
      BY <1>2, <3>1, Sorted
    <3>3. Len(D!Sort) \in Nat
      BY <1>2, Sorted, LenProperties
    <3>4. QED
      BY <3>2, <3>3
  <2>4. D!NotPassedOver'
    BY <1>1, <1>2, <1>5, <2>3, Decides
  <2>5. QED
    BY <1>5, <2>1, <2>2, <2>4 DEF DiscoveryInv, Going
<1>6. QED
  BY <1>4, <1>5 DEF D!Check, D!result

(* A window is of different issues, so a lease that is read is one of the   *)
(* present batch.                                                           *)
LEMMA WindowDiffers ==
  ASSUME DiscoveryTyped, NEW c \in Nat, InOrder(c)
  PROVE  \A m, n \in 1 .. Len(window) : window[m] = window[n] => m = n
<1> SUFFICES ASSUME NEW m \in 1 .. Len(window), NEW n \in 1 .. Len(window), window[m] = window[n] PROVE m = n
  OBVIOUS
<1>1. Len(window) \in Nat /\ Len(order) \in Nat /\ Len(D!Sort) = c + Len(window) + Len(order)
  BY LenProperties DEF DiscoveryTyped, InOrder
<1>2. c + m \in 1 .. Len(D!Sort) /\ c + n \in 1 .. Len(D!Sort) /\ m \in Nat /\ n \in Nat
  BY <1>1
<1>3. D!Sort[c + m] = D!Sort[c + n]
  BY DEF InOrder
<1>4. ~ (c + m < c + n) /\ ~ (c + n < c + m)
  BY <1>2, <1>3, Sorted
<1>5. QED
  BY <1>2, <1>4

LEMMA ReadKeeps ==
  ASSUME DiscoveryInv, NEW i \in Number, D!Read(i)
  PROVE  DiscoveryInv'
<1>1. /\ UNCHANGED <<item, held, here, selecting, listed, view, order, window, candidate, outcome, steady, chances>>
      /\ selecting = "checking" /\ i \in todo
      /\ leased' = IF i \in held THEN leased \cup {i} ELSE leased
  BY DEF D!Read, D!world, D!result, D!history
<1>2. Known /\ DiscoveryTyped
  BY <1>1 DEF DiscoveryInv, Going
<1>3. Known'
  BY <1>1, <1>2, KnownStays
<1>4. DiscoveryTyped'
  BY <1>1, <1>2 DEF DiscoveryTyped
<1>5. Unknown'
  BY <1>1 DEF DiscoveryInv, Unknown, D!NoItem
<1>6. PICK c \in Nat : InOrder(c)
  BY <1>1 DEF DiscoveryInv
<1>7. InOrder(c)'
  <2>1. D!Sort' = D!Sort
    BY <1>1, SortStays
  <2>2. QED
    BY <1>1, <1>6, <2>1 DEF InOrder
<1>8. PICK b \in BatchEnd : BatchTo(b)
  BY <1>1 DEF DiscoveryInv, Batches
<1>9. PICK k \in Nat : /\ b = Concurrency * (k + 1) /\ b = Concurrency * k + Concurrency /\ b \in Nat
                       /\ b + Concurrency = Concurrency * ((k + 1) + 1) /\ b - Concurrency = Concurrency * k
  <2>1. PICK k \in Nat : b = Concurrency * (k + 1)
    BY <1>8 DEF BatchEnd
  <2>2. /\ Concurrency * (k + 1) = Concurrency * k + Concurrency
        /\ Concurrency * ((k + 1) + 1) = (Concurrency * k + Concurrency) + Concurrency
        /\ Concurrency * k \in Nat /\ Concurrency \in Nat
    OBVIOUS
  <2>3. QED
    BY <2>1, <2>2
<1>10. i \in leased' \cup chances'.free
  BY <1>1, <1>2 DEF Known
<1>11. Len(window) \in Nat /\ Concurrency \in Nat \ {0}
  BY <1>2, LenProperties DEF DiscoveryTyped
<1>12. ASSUME todo \ {i} # {} PROVE Batches'
  <2>1. todo' = todo \ {i}
    BY <1>12 DEF D!Read
  <2>2. BatchTo(b)'
    BY <1>1, <1>8, <1>9, <1>10, <1>12, <2>1 DEF BatchTo
  <2>3. QED
    BY <1>8, <2>2 DEF Batches
<1>13. ASSUME todo \ {i} = {} PROVE Batches'
  <2>1. PICK p \in 1 .. Len(window) : window[p] = i /\ b - Concurrency < p /\ p <= b
    BY <1>1, <1>8, <1>9 DEF BatchTo
  <2>2. (CHOOSE n \in DOMAIN window : window[n] = i) = p
    <3>1. \A n \in 1 .. Len(window) : window[n] = i => n = p
      BY <1>2, <1>6, <2>1, WindowDiffers
    <3>2. DOMAIN window = 1 .. Len(window)
      BY <1>2, LenProperties DEF DiscoveryTyped
    <3>3. QED
      BY <2>1, <3>1, <3>2
  <2>3. Concurrency * ((p - 1) \div Concurrency + 1) = b
    <3>1. p \in Nat /\ Concurrency * k < p /\ p <= Concurrency * k + Concurrency
      BY <1>9, <1>11, <2>1
    <3>2. (p - 1) \div Concurrency = k
      BY <1>11, <3>1, BatchNumber
    <3>3. QED
      BY <1>9, <3>2
  <2>4. todo' = D!Batch(b, window)
    BY <1>13, <2>2, <2>3 DEF D!Read
  <2>5. todo' = {window[q] : q \in {r \in 1 .. Len(window) : b < r /\ r <= b + Concurrency}}
    BY <1>2, <1>9, <2>4, InBatch DEF DiscoveryTyped
  <2>6. BatchTo(b + Concurrency)'
    <3>1. \A j \in todo' : \E q \in 1 .. Len(window) : window[q] = j /\ b < q /\ q <= b + Concurrency
      BY <2>5
    <3>2. \A q \in 1 .. Len(window) : q <= b => window[q] \in leased' \cup chances'.free
      <4>1. \A j \in todo : j \in leased' \cup chances'.free
        BY <1>10, <1>13
      <4>2. leased \subseteq leased' /\ chances' = chances
        BY <1>1
      <4>3. QED
        BY <1>8, <4>1, <4>2 DEF BatchTo
    <3>3. \A q \in 1 .. Len(window) : b < q /\ q <= b + Concurrency => window[q] \in todo'
      BY <2>5
    <3>4. ASSUME NEW q \in 1 .. Len(window), q <= b + Concurrency
          PROVE  window[q] \in todo' \cup leased' \cup chances'.free
      <4>1. q <= b \/ b < q
        BY <1>9, <1>11
      <4>2. QED
        BY <3>2, <3>3, <3>4, <4>1
    <3>5. todo' = {} => Len(window) <= b
      <4>1. SUFFICES ASSUME b < Len(window) PROVE todo' # {}
        BY <1>9, <1>11
      <4>2. b + 1 \in 1 .. Len(window) /\ b < b + 1 /\ b + 1 <= b + Concurrency
        BY <1>9, <1>11, <4>1
      <4>3. QED
        BY <3>3, <4>2
    <3>6. (b + Concurrency) - Concurrency = b /\ (Len(window) <= b => Len(window) <= b + Concurrency)
      BY <1>9, <1>11
    <3>7. QED
      BY <1>1, <3>1, <3>4, <3>5, <3>6 DEF BatchTo
  <2>7. b + Concurrency \in BatchEnd
    <3>1. k + 1 \in Nat /\ b + Concurrency = Concurrency * ((k + 1) + 1)
      BY <1>9
    <3>2. QED
      BY <3>1 DEF BatchEnd
  <2>8. QED
    BY <2>6, <2>7 DEF Batches
<1>14. Batches'
  BY <1>12, <1>13
<1>15. QED
  BY <1>1, <1>3, <1>4, <1>5, <1>7, <1>14 DEF DiscoveryInv, D!NotPassedOver

LEMMA DecideKeeps ==
  ASSUME DiscoveryInv, D!Decide
  PROVE  DiscoveryInv'
<1> DEFINE n == D!SelectInSeq(window, LAMBDA i : i \notin leased)
<1>1. /\ UNCHANGED <<item, held, here, listed, view, leased, steady, chances>>
      /\ selecting = "checking" /\ todo = {}
  BY DEF D!Decide, D!world, D!history
<1>2. Known /\ DiscoveryTyped /\ listed = Len(Priorities) /\ candidate = D!NoItem
  BY <1>1 DEF DiscoveryInv, Going, Unknown, D!NoItem
<1>3. Known'
  BY <1>1, <1>2, KnownStays
<1>4. PICK c \in Nat : InOrder(c)
  BY <1>1 DEF DiscoveryInv
<1>5. Len(window) \in Nat /\ Len(order) \in Nat /\ Len(D!Sort) = c + Len(window) + Len(order)
  BY <1>2, <1>4, LenProperties DEF DiscoveryTyped, InOrder
<1>6. \A p \in 1 .. Len(window) : window[p] \in leased \cup chances.free
  <2>1. PICK b \in BatchEnd : BatchTo(b)
    BY <1>1 DEF DiscoveryInv, Batches
  <2>2. b \in Nat
    BY <2>1 DEF BatchEnd
  <2>3. \A p \in 1 .. Len(window) : p <= b
    BY <1>1, <1>5, <2>1, <2>2 DEF BatchTo
  <2>4. QED
    BY <1>1, <2>1, <2>3 DEF BatchTo
<1>7. \/ n = 0 /\ \A m \in 1 .. Len(window) : window[m] \in leased
      \/ /\ n \in 1 .. Len(window) /\ window[n] \notin leased
         /\ \A m \in 1 .. n - 1 : window[m] \in leased
  BY <1>2, FirstIs DEF First
<1>8. D!Decide =>
        IF n = 0 /\ order # <<>>
        THEN /\ window' = D!Chop(order, Window) /\ order' = D!Rest(order, Window)
             /\ todo' = D!ToSet(D!Chop(window', Concurrency))
             /\ UNCHANGED <<selecting, candidate, outcome>>
        ELSE /\ selecting' = "done" /\ outcome' = D!Outcome
             /\ candidate' = (IF n # 0 /\ D!Grouped # {} THEN window[n] ELSE D!NoItem)
             /\ UNCHANGED <<window, order, todo>>
  BY DEF D!Decide, D!result
<1> HIDE DEF n
<1>9. \A q \in 1 .. c + Len(window) : q \in 1 .. c \/ (q - c \in 1 .. Len(window) /\ c + (q - c) = q)
  BY <1>5
<1>10. CASE n = 0 /\ order # <<>>
  <2>1. /\ window' = D!Chop(order, Window) /\ order' = D!Rest(order, Window)
        /\ todo' = D!ToSet(D!Chop(window', Concurrency))
        /\ UNCHANGED <<selecting, candidate, outcome>>
    BY <1>8, <1>10
  <2>2. /\ window' \in Seq(Number) /\ order' \in Seq(Number)
        /\ Len(order) = Len(window') + Len(order')
        /\ \A m \in 1 .. Len(window') : window'[m] = order[m]
        /\ \A m \in 1 .. Len(order') : order'[m] = order[Len(window') + m]
        /\ Batches'
    BY <1>2, <2>1, NewWindow DEF DiscoveryTyped
  <2>3. DiscoveryTyped'
    BY <1>1, <1>2, <2>1, <2>2 DEF DiscoveryTyped
  <2>4. Unknown'
    BY <1>1, <1>2, <2>1 DEF Unknown, D!NoItem
  <2>5. PICK d \in Nat : d = c + Len(window)
    BY <1>5
  <2>6. InOrder(d)'
    <3>1. D!Sort' = D!Sort
      BY <1>1, SortStays
    <3>2. Len(window') \in Nat /\ Len(order') \in Nat
      BY <2>2, LenProperties
    <3>3. Len(D!Sort') = d + Len(window') + Len(order')
      BY <1>5, <2>2, <2>5, <3>1, <3>2
    <3>4. ASSUME NEW q \in 1 .. d PROVE D!Sort'[q] \in leased'
      <4>1. CASE q \in 1 .. c
        BY <1>1, <1>4, <3>1, <4>1 DEF InOrder
      <4>2. CASE q - c \in 1 .. Len(window) /\ c + (q - c) = q
        <5>1. window[q - c] = D!Sort[q]
          BY <1>4, <4>2 DEF InOrder
        <5>2. window[q - c] \in leased
          BY <1>7, <1>10, <4>2
        <5>3. QED
          BY <1>1, <3>1, <5>1, <5>2
      <4>3. QED
        BY <1>9, <2>5, <4>1, <4>2
    <3>5. ASSUME NEW m \in 1 .. Len(window') PROVE window'[m] = D!Sort'[d + m]
      <4>1. m \in 1 .. Len(order) /\ c + Len(window) + m = d + m
        BY <2>2, <2>5, <3>2
      <4>2. order[m] = D!Sort[c + Len(window) + m]
        BY <1>4, <4>1 DEF InOrder
      <4>3. QED
        BY <2>2, <3>1, <4>1, <4>2
    <3>6. ASSUME NEW m \in 1 .. Len(order') PROVE order'[m] = D!Sort'[d + Len(window') + m]
      <4>1. Len(window') + m \in 1 .. Len(order) /\ c + Len(window) + (Len(window') + m) = d + Len(window') + m
        BY <1>5, <2>2, <2>5, <3>2
      <4>2. order[Len(window') + m] = D!Sort[c + Len(window) + (Len(window') + m)]
        BY <1>4, <4>1 DEF InOrder
      <4>3. QED
        BY <2>2, <3>1, <4>1, <4>2
    <3>7. QED
      BY <2>5, <3>3, <3>4, <3>5, <3>6 DEF InOrder
  <2>7. QED
    BY <1>1, <1>3, <2>1, <2>2, <2>3, <2>4, <2>5, <2>6 DEF DiscoveryInv, D!NotPassedOver
<1>11. CASE ~ (n = 0 /\ order # <<>>)
  <2>1. /\ selecting' = "done" /\ outcome' = D!Outcome
        /\ candidate' = (IF n # 0 /\ D!Grouped # {} THEN window[n] ELSE D!NoItem)
        /\ UNCHANGED <<window, order, todo>>
    BY <1>8, <1>11
  <2>2. DiscoveryTyped'
    BY <1>1, <1>2, <2>1 DEF DiscoveryTyped, D!Phase
  <2>3. Unknown'
    BY <2>1 DEF Unknown
  <2>4. CASE n = 0
    <3>1. Len(order) = 0
      BY <1>11, <2>4, EmptySeq
    <3>2. ASSUME NEW q \in 1 .. Len(D!Sort) PROVE D!Sort[q] \in leased
      <4>1. CASE q \in 1 .. c
        BY <1>4, <4>1 DEF InOrder
      <4>2. CASE q - c \in 1 .. Len(window) /\ c + (q - c) = q
        <5>1. window[q - c] = D!Sort[q]
          BY <1>4, <4>2 DEF InOrder
        <5>2. window[q - c] \in leased
          BY <1>7, <2>4, <4>2
        <5>3. QED
          BY <5>1, <5>2
      <4>3. q \in 1 .. c + Len(window)
        BY <1>5, <3>1
      <4>4. QED
        BY <1>9, <4>1, <4>2, <4>3
    <3>3. D!NotPassedOver'
      BY <1>1, <1>2, <2>1, <2>4, <3>2, Decides
    <3>4. QED
      BY <2>1, <2>2, <2>3, <3>3 DEF DiscoveryInv, Going
  <2>5. CASE n # 0 /\ D!Grouped = {}
    <3>1. D!NotPassedOver'
      BY <1>1, <1>2, <2>1, <2>5, Decides
    <3>2. QED
      BY <2>1, <2>2, <2>3, <3>1 DEF DiscoveryInv, Going
  <2>6. CASE n # 0 /\ D!Grouped # {}
    <3>1. n \in 1 .. Len(window) /\ window[n] \notin leased /\ \A m \in 1 .. n - 1 : window[m] \in leased
      BY <1>7, <2>6
    <3>2. candidate' = window[n] /\ candidate' \in chances.free
      BY <1>6, <2>1, <2>6, <3>1
    <3>3. c + n \in 1 .. Len(D!Sort) /\ candidate' = D!Sort[c + n]
      BY <1>4, <1>5, <3>1, <3>2 DEF InOrder
    <3>4. ASSUME NEW q \in 1 .. (c + n) - 1 PROVE D!Sort[q] \in leased
      <4>1. CASE q \in 1 .. c
        BY <1>4, <4>1 DEF InOrder
      <4>2. CASE q - c \in 1 .. Len(window) /\ c + (q - c) = q
        <5>1. q - c \in 1 .. n - 1
          BY <1>5, <3>1, <4>2
        <5>2. QED
          BY <1>4, <3>1, <4>2, <5>1 DEF InOrder
      <4>3. q \in 1 .. c + Len(window)
        BY <1>5, <3>1
      <4>4. QED
        BY <1>9, <4>1, <4>2, <4>3
    <3>5. D!NotPassedOver'
      BY <1>1, <1>2, <2>1, <2>6, <3>2, <3>3, <3>4, Decides
    <3>6. QED
      BY <2>1, <2>2, <2>3, <3>5 DEF DiscoveryInv, Going
  <2>7. QED
    BY <2>4, <2>5, <2>6
<1>12. QED
  BY <1>10, <1>11

LEMMA DiscoveryStep == DiscoveryInv /\ [D!Next]_discovery => DiscoveryInv'
<1> SUFFICES ASSUME DiscoveryInv, [D!Next]_discovery PROVE DiscoveryInv'
  OBVIOUS
<1>1. CASE UNCHANGED discovery
  <2>1. D!Sort' = D!Sort
    BY <1>1, SortStays DEF discovery
  <2>2. \A i : D!Eligible(i, item)' <=> D!Eligible(i, item)
    BY <1>1, EligibleStays DEF discovery
  <2>3. \A i : D!Eligible(i, view)' <=> D!Eligible(i, view)
    BY <1>1 DEF discovery, D!Eligible, D!Unchanged, D!Excluded
  <2>4. DiscoveryTyped' /\ Unknown'
    BY <1>1 DEF discovery, DiscoveryInv, DiscoveryTyped, Unknown, D!NoItem
  <2>5. Known => Known'
    BY <1>1, KnownStays DEF discovery
  <2>6. \A c \in Nat : InOrder(c) => InOrder(c)'
    BY <1>1, <2>1 DEF discovery, InOrder
  <2>7. \A b \in BatchEnd : BatchTo(b) => BatchTo(b)'
    BY <1>1 DEF discovery, BatchTo
  <2>8. Batches => Batches'
    BY <2>7 DEF Batches
  <2>9. D!NotPassedOver'
    BY <1>1, <2>2 DEF discovery, DiscoveryInv, D!NotPassedOver, D!Available, D!NoItem, D!Before, D!Rank
  <2>10. QED
    BY <1>1, <2>4, <2>5, <2>6, <2>8, <2>9 DEF discovery, DiscoveryInv, Going
<1>2. CASE D!Unavailable
  <2>1. /\ UNCHANGED <<item, held, here, listed, view, order, window, leased, candidate, steady, chances>>
        /\ selecting \in {"refreshing", "listing", "checking"} /\ selecting' = "done" /\ outcome' = "unavailable"
    BY <1>2 DEF D!Unavailable, D!world, D!history
  <2>2. DiscoveryTyped' /\ Unknown'
    BY <2>1 DEF DiscoveryInv, DiscoveryTyped, Unknown, D!Phase
  <2>3. D!NotPassedOver'
    BY <2>1 DEF DiscoveryInv, Unknown, D!NotPassedOver, D!NoItem
  <2>4. QED
    BY <2>1, <2>2, <2>3 DEF DiscoveryInv, Going
<1>3. CASE D!Begin \/ D!Refreshed \/ D!List \/ D!Check \/ D!Decide
  BY <1>3, BeginKnows, RefreshedKnows, ListKnows, CheckKeeps, DecideKeeps
<1>4. CASE \E i \in Number : D!Read(i) \/ D!EditIssue(i) \/ D!LeaseMoves(i)
  BY <1>4, ReadKeeps, OthersMove
<1>5. QED
  BY <1>1, <1>2, <1>3, <1>4 DEF D!Next

(* The two ways a run finds its issue (issue-candidates.ts over             *)
(* work-authority.ts, next-roadmap-issue.ts), whatever others edit, take    *)
(* and leave meanwhile: by the shortlist, the issue chosen was eligible and *)
(* free at some moment, and no available issue is passed over for a less    *)
(* urgent one or by calling the queue exhausted; by the roadmap, the issue  *)
(* selected was ready as it and its dependencies were read, and those       *)
(* before it were not.  For any issues, priorities, labels, texts, windows  *)
(* and batches of lease reads, edits and leases.                            *)
THEOREM ChoiceIsJustified == EitherSpec => []ChoiceJustified
<1>1. EitherInit => DiscoveryInv /\ RoadmapInv
  BY DiscoveryBegin, RoadmapBegin DEF EitherInit
<1>2. DiscoveryInv /\ RoadmapInv /\ [EitherNext]_allVars => DiscoveryInv' /\ RoadmapInv'
  BY DiscoveryStep, DiscoverySteps, RoadmapStep, RoadmapSteps
<1>3. DiscoveryInv /\ RoadmapInv => ChoiceJustified
  BY RoadmapKept DEF DiscoveryInv, ChoiceJustified
<1>4. QED
  BY <1>1, <1>2, <1>3, PTL DEF EitherSpec
=============================================================================

----------------------------- MODULE Lifecycle -----------------------------
(***************************************************************************)
(* One issue in one clone, through any number of lifecycle runs: the       *)
(* kernel (src/lifecycle/kernel.ts) with the bootstrap supervisor          *)
(* (src/bootstrap/supervisor.ts) and the bootstrap finalizer               *)
(* (src/lifecycle/bootstrap-finalize.ts), or the finalizer alone from the  *)
(* command line.  The lifecycle lock (LifecycleLock) lets one run at a     *)
(* time work on the issue; finalizeIssue is taken at its word (Finalize):  *)
(* it promotes the candidate, then closes the issue or leaves it open.     *)
(*                                                                         *)
(* Candidate commits are numbered as they are made.  main is origin/main   *)
(* as the sequence of its revisions, each the set of candidate commits it  *)
(* contains; `local' and what a run has fetched are positions in it.       *)
(* Integrations are merges: no candidate is itself the tip of main.        *)
(***************************************************************************)
EXTENDS Naturals, Sequences

CONSTANTS
  RetryBudget,  \* implementationRetryBudget
  AllowRepair,  \* options.allowRepair, "yes" or "no"
  MaxCommit,    \* bound: candidate commits
  MaxMain,      \* bound: revisions of main
  MaxVersion    \* bound: versions of the issue, its closing apart

ASSUME LifecycleAssumption ==
  /\ RetryBudget \in Nat
  /\ AllowRepair \in {"yes", "no"}
  /\ MaxCommit \in Nat /\ MaxMain \in Nat \ {0} /\ MaxVersion \in Nat \ {0}

VARIABLES
  main,      \* origin/main
  local,     \* local main
  rootDirty, \* has the operator edited the coordination root?
  branch,    \* agent/issue-N: its revision of main and its own commits
  wt,        \* .worktrees/issue-N: none, clean or dirty
  made,      \* candidate commits made so far
  issue,     \* state, version and external verification
  proof,     \* the durable verified-candidate proof, 0 for none
  run,       \* the run that holds the lifecycle lock, or what the last one reported
  verified,  \* history: the version each commit was verified at, 0 for never
  foreign    \* history: commits that others have put on main

vars == <<main, local, rootDirty, branch, wt, made, issue, proof, run, verified, foreign>>

repository == <<main, local, rootDirty, branch, wt, made, foreign>>

Commit == 1 .. MaxCommit

NoBranch == [base |-> 0, own |-> <<>>]

Worker == {"none", "completed", "failed", "cancelled", "timed_out"}

Idle == [pc |-> "idle", entry |-> "kernel", resume |-> "none", baseline |-> 0, seen |-> 0,
         state |-> "open", version |-> 0, gate |-> "clear", worker |-> "none", aborted |-> "no",
         checks |-> "none", cand |-> 0, disposition |-> "none", finalization |-> "none"]

SupervisorSteps == {"prepare", "fetch", "implement", "retry", "checks", "repair", "decide"}
FinalizerSteps == {"read", "after_cleanup", "inspect", "verify", "merge", "settle", "clean", "remove",
                   "delete", "sync"}

Init ==
  /\ main = <<{}>>
  /\ local = 1
  /\ rootDirty = "no"
  /\ branch = NoBranch
  /\ wt = "none"
  /\ made = 0
  /\ issue = [state |-> "open", version |-> 1, gate |-> "clear"]
  /\ proof = 0
  /\ run = Idle
  /\ verified = [c \in Commit |-> 0]
  /\ foreign = {}

-----------------------------------------------------------------------------
(* Operators named X_Y are X with a plausible bug; no specification uses    *)
(* them.  They show that the properties below would notice.                 *)

Latest == Len(main)

OnMain(c) == c \in main[Latest]

Own == {branch.own[k] : k \in DOMAIN branch.own}

(* The tip as a candidate; 0 while the branch is where it was created.      *)
Tip == IF branch.own = <<>> THEN 0 ELSE branch.own[Len(branch.own)]

(* Is the branch reachable from the revision g of main?                     *)
Reachable(g) == IF Tip = 0 THEN branch.base <= g ELSE Tip \in main[g]

(* readCandidateState against the run's baseline.                           *)
Delta(state) == state = "dirty" \/ ~Reachable(run.baseline)
HasDelta == Delta(wt)
Behind == branch.base < run.baseline

Commits(how) ==
  /\ made' = made + 1
  /\ branch' = [branch EXCEPT !.own = Append(@, made + 1)]
  /\ wt' = how

(* hasExactVerifiedFinalizationCandidate                                    *)
ExactProof_Any == proof # 0
ExactProof == proof # 0 /\ proof = Tip

StaleProof == proof # 0 /\ ~ExactProof

(* A clean worktree whose own commits are on main, put there by a run that  *)
(* crashed or by somebody else.                                             *)
HeadIntegrated ==
  /\ wt = "clean"
  /\ Tip # 0 /\ Reachable(run.seen)

LiveTakesPrecedence == StaleProof /\ Tip # 0

(* finalizeIssue closes only what is as the finalizer read it.              *)
Unchanged_Ignored == TRUE
Unchanged == issue.version = run.version

(* git worktree remove refuses a worktree with changes.                     *)
Removable_Forced == wt # "none"
Removable == wt = "clean"

(* git branch -d refuses what is not in the HEAD of the root.               *)
Deletable_Forced == branch # NoBranch
Deletable == branch # NoBranch /\ Reachable(local)

At(step) == run.pc = step
Goto(step) == run' = [run EXCEPT !.pc = step]

(* The run gives the lock back; a kernel run reports.                       *)
Returns(disposition, finalization) ==
  run' = IF run.entry = "kernel"
         THEN [Idle EXCEPT !.disposition = disposition, !.finalization = finalization] ELSE Idle

-----------------------------------------------------------------------------
(* The kernel and the supervisor.                                           *)

(* With the exact verified candidate at hand only the finalization is left. *)
Begin ==
  /\ At("idle")
  /\ run' = [Idle EXCEPT !.pc = "prepare",
                         !.resume = IF branch # NoBranch /\ ExactProof THEN "only" ELSE "none"]
  /\ UNCHANGED <<repository, issue, proof, verified>>

(* prepareRepository refuses a dirty root unless there is a candidate to    *)
(* resume; prepareWorktree makes what is missing.                           *)
Prepare ==
  /\ At("prepare")
  /\ rootDirty = "no" \/ (wt # "none" /\ (wt = "dirty" \/ ~Reachable(Latest)))
  /\ branch' = IF branch = NoBranch THEN [base |-> Latest, own |-> <<>>] ELSE branch
  /\ wt' = IF wt = "none" THEN "clean" ELSE wt
  /\ run' = [run EXCEPT !.pc = "fetch", !.baseline = Latest]
  /\ UNCHANGED <<main, local, rootDirty, made, foreign, issue, proof, verified>>

(* The issue is read for the worker's prompt; an existing candidate is      *)
(* resumed instead of launching an implementation worker.                   *)
Fetch ==
  /\ At("fetch")
  /\ LET resume == IF run.resume = "none" /\ HasDelta THEN "candidate" ELSE run.resume IN
     run' = [run EXCEPT !.state = issue.state, !.resume = resume,
                        !.pc = IF resume = "none" THEN "implement" ELSE "checks"]
  /\ UNCHANGED <<repository, issue, proof, verified>>

(* A worker may edit the worktree and commits nothing; it ends cancelled    *)
(* once the operator has aborted.                                           *)
Works(how) ==
  /\ (how = "cancelled") <=> (run.aborted = "yes")
  /\ wt' \in {wt, "dirty"}
  /\ UNCHANGED <<main, local, rootDirty, branch, made, foreign, issue, proof, verified>>

(* decideZeroDeltaImplementationRetry, on the issue as fetched again.       *)
Retryable(how) ==
  /\ 0 < RetryBudget
  /\ how = "completed"
  /\ ~Delta(wt')
  /\ issue.state = "open"
  /\ run.aborted = "no"

Implement ==
  /\ At("implement")
  /\ \E how \in Worker \ {"none"} :
       /\ Works(how)
       /\ run' = [run EXCEPT !.worker = how,
            !.state = IF how = "completed" /\ ~Delta(wt') THEN issue.state ELSE @,
            !.pc = IF Retryable(how) THEN "retry" ELSE "checks"]

Retry ==
  /\ At("retry")
  /\ \E how \in Worker \ {"none"} :
       /\ Works(how)
       /\ run' = [run EXCEPT !.worker = how, !.pc = "checks"]

ProtocolCompleted == run.resume # "none" \/ run.worker = "completed"

OperatorCancelled == run.resume = "none" /\ (run.aborted = "yes" \/ run.worker = "cancelled")

RecoveryAllowed ==
  ~OperatorCancelled /\ (ProtocolCompleted \/ (run.worker = "timed_out" /\ HasDelta))

(* A candidate that fails its checks gets one repair worker.                *)
Checks ==
  /\ At("checks")
  /\ \E how \in {"pass", "fail"} :
       /\ how = "pass" => run.aborted = "no"
       /\ run' = [run EXCEPT !.checks = how,
            !.pc = IF how = "fail" /\ AllowRepair = "yes" /\ HasDelta
                      /\ (ProtocolCompleted \/ RecoveryAllowed)
                   THEN "repair" ELSE "decide"]
  /\ UNCHANGED <<repository, issue, proof, verified>>

Repair ==
  /\ At("repair")
  /\ \E how \in Worker \ {"none"}, checks \in {"pass", "fail"} :
       /\ Works(how)
       /\ checks = "pass" => run.aborted = "no"
       /\ run' = [run EXCEPT !.checks = checks, !.pc = "decide"]

Disposition ==
  CASE OperatorCancelled \/ (~ProtocolCompleted /\ ~RecoveryAllowed) -> "blocked"
    [] run.checks = "fail" -> "repairable-failure"
    [] ~HasDelta -> IF run.state = "closed" THEN "already-satisfied" ELSE "no-change"
    [] OTHER -> "pass"

FinalizationReady == HasDelta /\ RecoveryAllowed /\ ~Behind

(* The kernel finalizes a verified candidate that is ready, or exact.       *)
Decide ==
  /\ At("decide")
  /\ \/ /\ run.checks = "pass" /\ (FinalizationReady \/ run.resume = "only")
        /\ run' = [Idle EXCEPT !.pc = "read"]
     \/ /\ ~(run.checks = "pass" /\ (FinalizationReady \/ run.resume = "only"))
        /\ Returns(Disposition, "SKIPPED")
  /\ UNCHANGED <<repository, issue, proof, verified>>

-----------------------------------------------------------------------------
(* The bootstrap finalizer.                                                 *)

(* From the command line, with no worker before it.                         *)
BeginFinalize ==
  /\ At("idle")
  /\ run' = [Idle EXCEPT !.pc = "read", !.entry = "finalize"]
  /\ UNCHANGED <<repository, issue, proof, verified>>

(* Fetch main, read the issue and look for the candidate.  Without branch   *)
(* and worktree only a durable proof of an integrated candidate will do.    *)
Read ==
  /\ At("read")
  /\ branch = NoBranch => wt = "none" /\ proof # 0 /\ OnMain(proof)
  /\ branch # NoBranch => wt # "none"
  /\ run' = [run EXCEPT !.pc = IF branch = NoBranch THEN "after_cleanup" ELSE "inspect",
                        !.seen = Latest, !.state = issue.state, !.version = issue.version,
                        !.gate = issue.gate]
  /\ UNCHANGED <<repository, issue, proof, verified>>

(* A rerun after cleanup: the gate decides, and close() is called here.     *)
AfterCleanup ==
  /\ At("after_cleanup")
  /\ run.gate # "failed"
  /\ IF run.gate = "pending"
     THEN run' = [run EXCEPT !.pc = "sync"] /\ UNCHANGED issue
     ELSE /\ run' = [run EXCEPT !.pc = "sync", !.cand = proof]
          /\ issue' = IF run.state = "closed" THEN issue
                      ELSE [issue EXCEPT !.state = "closed", !.version = @ + 1]
  /\ UNCHANGED <<repository, proof, verified>>

(* Go on with cand unless its external verification failed.                 *)
Admits(allowed, step, cand) ==
  \/ /\ allowed /\ run.gate # "failed"
     /\ run' = [run EXCEPT !.pc = step, !.cand = cand]
  \/ /\ ~(allowed /\ run.gate # "failed")
     /\ Returns("finalization-blocked", "BLOCKED")

(* Uncommitted work comes first, whatever ancestry and proofs say.          *)
CommitDirty ==
  /\ At("inspect")
  /\ wt = "dirty"
  /\ rootDirty = "no" /\ run.state = "open" /\ ~LiveTakesPrecedence
  /\ made < MaxCommit
  /\ Commits("clean")
  /\ Admits(TRUE, "verify", made + 1)
  /\ UNCHANGED <<main, local, rootDirty, foreign, issue, proof, verified>>

(* An exact proof, or a candidate that is on main, needs no verification.   *)
Fast == HeadIntegrated \/ ExactProof
Integrated == Fast /\ Reachable(run.seen)

InspectClean ==
  /\ At("inspect")
  /\ wt = "clean"
  /\ StaleProof => LiveTakesPrecedence
  /\ proof' = IF Integrated THEN Tip ELSE IF LiveTakesPrecedence THEN 0 ELSE proof
  /\ Admits(Integrated \/ rootDirty = "no", IF Fast THEN "merge" ELSE "verify", Tip)
  /\ UNCHANGED <<repository, issue, verified>>

(* The required checks on the candidate, then its proof.  A branch without  *)
(* changes is cleaned up if the issue is closed, and refused otherwise.     *)
Verify ==
  /\ At("verify")
  /\ \/ /\ run.cand # 0
        /\ verified' = [verified EXCEPT ![run.cand] = IF Tip = run.cand /\ wt = "clean"
                                                      THEN run.version ELSE @]
        /\ proof' = run.cand
        /\ Goto("merge")
     \/ /\ run.cand = 0 /\ run.state = "closed"
        /\ run' = [run EXCEPT !.pc = "clean"]
        /\ UNCHANGED <<verified, proof>>
  /\ UNCHANGED <<repository, issue>>

-----------------------------------------------------------------------------
(* finalizeIssue.                                                           *)

(* The tip is merged and pushed, unless main has it.                        *)
Merge ==
  /\ At("merge")
  /\ Tip = run.cand
  /\ \/ /\ OnMain(Tip)
        /\ run' = [run EXCEPT !.pc = "settle", !.seen = Latest]
        /\ UNCHANGED <<main, local>>
     \/ /\ ~OnMain(Tip) /\ rootDirty = "no"
        /\ Latest < MaxMain
        /\ main' = Append(main, main[Latest] \cup Own)
        /\ local' = Latest + 1
        /\ run' = [run EXCEPT !.pc = "settle", !.seen = Latest + 1]
  /\ UNCHANGED <<rootDirty, branch, wt, made, foreign, issue, proof, verified>>

(* Close, record the pending verification, or leave the issue open.         *)
Settle ==
  /\ At("settle")
  /\ \/ /\ Unchanged /\ run.gate = "pending"
        /\ issue.version < MaxVersion
        /\ issue' = [issue EXCEPT !.version = @ + 1]
        /\ Goto("clean")
     \/ /\ Unchanged /\ run.gate # "pending"
        /\ issue' = IF issue.state = "closed" THEN issue
                    ELSE [issue EXCEPT !.state = "closed", !.version = @ + 1]
        /\ run' = [run EXCEPT !.pc = "clean"]
     \/ /\ ~Unchanged
        /\ UNCHANGED issue
        /\ Goto("clean")
  /\ UNCHANGED <<repository, proof, verified>>

-----------------------------------------------------------------------------
(* Cleanup: whatever finalizeIssue decided about the issue.                 *)

Clean ==
  /\ At("clean")
  /\ wt # "dirty"
  /\ Reachable(run.seen)
  /\ Goto("remove")
  /\ UNCHANGED <<repository, issue, proof, verified>>

Remove ==
  /\ At("remove")
  /\ Removable
  /\ wt' = "none"
  /\ Goto("delete")
  /\ UNCHANGED <<main, local, rootDirty, branch, made, foreign, issue, proof, verified>>

Delete ==
  /\ At("delete")
  /\ Deletable
  /\ branch' = NoBranch
  /\ Goto("sync")
  /\ UNCHANGED <<main, local, rootDirty, wt, made, foreign, issue, proof, verified>>

(* Fast-forward a clean local main, and report.                             *)
Sync ==
  /\ At("sync")
  /\ local' = IF rootDirty = "no" /\ local < run.seen THEN run.seen ELSE local
  /\ Returns("pass", "PASS")
  /\ UNCHANGED <<main, rootDirty, branch, wt, made, foreign, issue, proof, verified>>

(* A step that throws: an error before finalization leaves the kernel too.  *)
Fails ==
  /\ run.pc \in {"prepare", "fetch"} \cup FinalizerSteps
  /\ IF run.pc \in FinalizerSteps THEN Returns("finalization-blocked", "BLOCKED")
     ELSE Returns("none", "none")
  /\ UNCHANGED <<repository, issue, proof, verified>>

(* A proof is being written.                                                *)
Proving == (At("verify") /\ run.cand # 0) \/ (At("inspect") /\ wt = "clean" /\ Integrated)

(* The process is killed; its lock is recovered.  A proof that was being    *)
(* written cannot be read.                                                  *)
Crash ==
  /\ ~At("idle")
  /\ run' = Idle
  /\ proof' \in {proof} \cup (IF Proving THEN {0} ELSE {})
  /\ UNCHANGED <<repository, issue, verified>>

(* The operator aborts: the signal reaches the supervisor only.             *)
Abort ==
  /\ run.pc \in SupervisorSteps
  /\ run.aborted = "no"
  /\ run' = [run EXCEPT !.aborted = "yes"]
  /\ UNCHANGED <<repository, issue, proof, verified>>

-----------------------------------------------------------------------------
(* The environment.                                                         *)

MainMoves ==
  /\ Latest < MaxMain
  /\ main' = Append(main, main[Latest])
  /\ UNCHANGED <<local, rootDirty, branch, wt, made, foreign, issue, proof, run, verified>>

OthersIntegrate ==
  /\ Tip # 0 /\ ~OnMain(Tip)
  /\ Latest < MaxMain
  /\ main' = Append(main, main[Latest] \cup Own)
  /\ foreign' = foreign \cup Own
  /\ UNCHANGED <<local, rootDirty, branch, wt, made, issue, proof, run, verified>>

RefreshLocal ==
  /\ local < Latest /\ rootDirty = "no"
  /\ local' = Latest
  /\ UNCHANGED <<main, rootDirty, branch, wt, made, foreign, issue, proof, run, verified>>

EditRoot ==
  /\ rootDirty' = IF rootDirty = "yes" THEN "no" ELSE "yes"
  /\ UNCHANGED <<main, local, branch, wt, made, foreign, issue, proof, run, verified>>

(* Somebody edits in the worktree, or commits there; not while checks run   *)
(* ("Do not mutate ... the worktree while the bootstrap supervisor is       *)
(* active").                                                                *)
EditWorktree ==
  /\ wt = "clean" /\ ~At("verify")
  /\ wt' = "dirty"
  /\ UNCHANGED <<main, local, rootDirty, branch, made, foreign, issue, proof, run, verified>>

CommitWorktree ==
  /\ wt # "none" /\ ~At("verify")
  /\ made < MaxCommit
  /\ Commits("clean")
  /\ UNCHANGED <<main, local, rootDirty, foreign, issue, proof, run, verified>>

(* Edits and comments, the markers of external verification among them.     *)
EditIssue ==
  /\ issue.version < MaxVersion
  /\ \E gate \in {issue.gate, "pending", "passed", "failed"}, state \in {issue.state, "closed"} :
       /\ gate \in {"passed", "failed"} \ {issue.gate} => issue.gate = "pending"
       /\ issue' = [state |-> state, version |-> issue.version + 1, gate |-> gate]
  /\ UNCHANGED <<repository, proof, run, verified>>

-----------------------------------------------------------------------------
Continues ==
  \/ Prepare \/ Fetch \/ Implement \/ Retry \/ Checks \/ Repair \/ Decide
  \/ Read \/ AfterCleanup \/ CommitDirty \/ InspectClean \/ Verify \/ Merge \/ Settle
  \/ Clean \/ Remove \/ Delete \/ Sync \/ Fails

Next ==
  \/ Begin \/ BeginFinalize \/ Continues \/ Crash \/ Abort
  \/ MainMoves \/ OthersIntegrate \/ RefreshLocal \/ EditRoot \/ EditWorktree
  \/ CommitWorktree \/ EditIssue

Spec == Init /\ [][Next]_vars

-----------------------------------------------------------------------------
(* Properties.                                                              *)

TypeOK ==
  /\ main \in Seq(SUBSET Commit) /\ main # <<>>
  /\ local \in DOMAIN main
  /\ rootDirty \in {"yes", "no"}
  /\ branch \in [base : {0} \cup DOMAIN main, own : Seq(Commit)]
  /\ wt \in {"none", "clean", "dirty"}
  /\ made \in {0} \cup Commit
  /\ issue \in [state : {"open", "closed"}, version : Nat,
                gate : {"clear", "pending", "passed", "failed"}]
  /\ proof \in {0} \cup Commit
  /\ run \in [pc : {"idle"} \cup SupervisorSteps \cup FinalizerSteps,
              entry : {"kernel", "finalize"}, resume : {"none", "only", "candidate"},
              baseline : {0} \cup DOMAIN main, seen : {0} \cup DOMAIN main,
              state : {"open", "closed"}, version : Nat,
              gate : {"clear", "pending", "passed", "failed"}, worker : Worker,
              aborted : {"yes", "no"}, checks : {"none", "pass", "fail"},
              cand : {0} \cup Commit,
              disposition : {"none", "pass", "blocked", "repairable-failure", "no-change",
                             "already-satisfied", "finalization-blocked"},
              finalization : {"none", "SKIPPED", "BLOCKED", "PASS"}]
  /\ verified \in [Commit -> Nat]
  /\ foreign \subseteq Commit

(* "Never delete unique or unintegrated work": every commit ever made for   *)
(* the issue is on its branch or on main, through cleanup, crashes, reruns  *)
(* and commits that arrive in the middle of a cleanup.                      *)
WorkKept ==
  \A c \in 1 .. made : c \in Own \/ OnMain(c)

(* The same of uncommitted work: it leaves the worktree only as a commit.   *)
EditsKept ==
  [][wt = "dirty" /\ wt' # "dirty" => made' > made]_vars

(* "Never promote an unverified candidate": what a run is about to merge    *)
(* has passed the required checks as that very commit.                      *)
PromotedVerified ==
  At("merge") /\ Tip = run.cand /\ ~OnMain(run.cand) => verified[run.cand] > 0

(* A run closes an issue only with its candidate on main, a candidate that  *)
(* was verified or that others integrated; guarded completion never while   *)
(* its external verification is pending or failed, however late the marker  *)
(* arrives ("never claim external verification as PASS").                   *)
GuardedClosure ==
  [][run' # run /\ issue.state = "open" /\ issue'.state = "closed" =>
       /\ OnMain(run'.cand)
       /\ verified[run'.cand] > 0 \/ run'.cand \in foreign
       /\ At("settle") => issue.gate \notin {"pending", "failed"}]_vars

(* What no step of any run may do, whatever came before it: drop work that  *)
(* is not committed, or close the issue without what GuardedClosure asks.   *)
StepsGuarded == EditsKept /\ GuardedClosure

(* "The live work item is unchanged since verification": an issue that the *)
(* guarded completion closes is as it was when its candidate was verified,  *)
(* unless others integrated that candidate.                                 *)
CurrentAuthority ==
  [][At("settle") /\ run' # run /\ issue.state = "open" /\ issue'.state = "closed" =>
       issue.version = verified[run.cand] \/ run.cand \in foreign]_vars
=============================================================================

---------------------------- MODULE Stores_proof ----------------------------
(***************************************************************************)
(* Proofs about what a checkout keeps between runs: Worktree, for any      *)
(* runs, work, failures and leases that run out; and, as parts of          *)
(* MCStores, Command, for any commands, harnesses, issues, artifacts and   *)
(* attempts, Stream, for any lines, reads and buffer, Verification, for    *)
(* any comments, runs and revisions of main, Skills, for any sources,      *)
(* revisions, allowlists and edits, and Plan, for any plans, names and     *)
(* fixes.                                                                  *)
(***************************************************************************)
EXTENDS MCStores, SequenceTheorems, FiniteSetTheorems, WellFoundedInduction, TLAPS

USE WorktreeAssumption DEF WorktreeAssumption

-----------------------------------------------------------------------------
(* Commits and what they contain.                                           *)

(* A revision of main is a set of commits, the earlier ones part of it.     *)
LEMMA MainCommits ==
  ASSUME NEW k \in 0 .. MaxMain
  PROVE  Main(k) \in SUBSET Commit /\ Content(Main(k)) = {}
<1>1. Main(k) \subseteq Main(MaxMain)
  BY DEF Main
<1>2. \A c \in Main(k) : c[1] = "main"
  BY DEF Main
<1>3. QED BY <1>1, <1>2 DEF Commit, Content

(* The content of commits is work.                                          *)
LEMMA ContentIs ==
  ASSUME NEW tip \in SUBSET Commit
  PROVE  Content(tip) \subseteq Work
<1>1. \A c \in Main(MaxMain) : c[1] = "main"
  BY DEF Main
<1>2. \A c \in Work \X (0 .. MaxMain) : c[1] \in Work
  OBVIOUS
<1>3. QED BY <1>1, <1>2 DEF Content, Commit

(* More commits, more content.                                              *)
LEMMA ContentGrows ==
  ASSUME NEW a, NEW b
  PROVE  /\ Content(a \cup b) = Content(a) \cup Content(b)
         /\ a \subseteq b => Content(a) \subseteq Content(b)
BY DEF Content

(* The content of commits of some work is that work.                        *)
LEMMA ContentOfWork ==
  ASSUME NEW w \in SUBSET Work, NEW k \in 0 .. MaxMain
  PROVE  w \X {k} \in SUBSET Commit /\ Content(w \X {k}) = w
<1>1. "main" \notin w
  BY DEF Work
<1>2. \A c \in w \X {k} : c[1] \in w
  OBVIOUS
<1>3. \A x \in w : <<x, k>> \in w \X {k} /\ <<x, k>>[1] = x
  OBVIOUS
<1>4. w \X {k} \in SUBSET Commit
  BY DEF Commit
<1>5. Content(w \X {k}) = w
  BY <1>1, <1>2, <1>3 DEF Content
<1>6. QED BY <1>4, <1>5

(* A replay keeps the work.                                                 *)
LEMMA ReplayedIs ==
  ASSUME TypeOK, NEW r \in Run
  PROVE  Replayed(r) \in SUBSET Commit /\ Content(Replayed(r)) = Content(run[r].legacy)
<1>1. run[r].main \in 0 .. MaxMain /\ run[r].legacy \in SUBSET Commit
  BY DEF TypeOK
<1>2. Content(run[r].legacy) \in SUBSET Work
  BY <1>1, ContentIs
<1> DEFINE m == Main(run[r].main)
           w == Content(run[r].legacy) \X {run[r].main}
<1>3. m \in SUBSET Commit /\ Content(m) = {}
  BY <1>1, MainCommits
<1>4. w \in SUBSET Commit /\ Content(w) = Content(run[r].legacy)
  BY <1>1, <1>2, ContentOfWork
<1>5. Replayed(r) = m \cup w
  BY DEF Replayed
<1> HIDE DEF m, w
<1>6. QED BY <1>3, <1>4, <1>5, ContentGrows

-----------------------------------------------------------------------------
(* Types.                                                                   *)
(* Every step of a run is one of its operations.                            *)
RunSteps(r) ==
  \/ Claim(r) \/ Release(r) \/ Ready(r) \/ Refuse(r) \/ Migrate(r) \/ Salvage(r) \/ Absent(r)
  \/ HasBranch(r) \/ Checkpoint(r) \/ NoCheckpoint(r) \/ AdoptLegacy(r) \/ NoLegacy(r)
  \/ FromMain(r) \/ FromLocalMain(r) \/ Attach(r) \/ Vacate(r) \/ Point(r)
  \/ Replay(r) \/ Conflict(r) \/ Confirm(r) \/ MoveOld(r) \/ CreateCanonical(r)
  \/ Dismantle(r) \/ Cleanup(r) \/ Fail(r) \/ Done(r) \/ Die(r)

(* What a step does to the branches, one at most but for the recovery       *)
(* branch that is disposed of.                                              *)
LEMMA BranchStep ==
  ASSUME TypeOK, Next
  PROVE  branch' \in [Branch -> SUBSET Commit]
<1>0. /\ branch \in [Branch -> SUBSET Commit] /\ "canonical" \in Branch /\ "legacy" \in Branch
      /\ Run \subseteq Branch /\ main.tracking \in 0 .. MaxMain /\ main.origin \in 0 .. MaxMain
      /\ remote \in [{"canonical", "legacy"} -> SUBSET Commit]
  BY DEF TypeOK, Branch
<1>1. ASSUME NEW b \in Branch, NEW tip \in SUBSET Commit, branch' = [branch EXCEPT ![b] = tip]
      PROVE  branch' \in [Branch -> SUBSET Commit]
  BY <1>0, <1>1
<1>2. ASSUME NEW r \in Run, RunSteps(r)
      PROVE  branch' \in [Branch -> SUBSET Commit]
  <2>0. run[r].legacy \in SUBSET Commit
    BY DEF TypeOK
  <2>1. CASE Salvage(r)
    BY <1>0, <1>1, <2>1, MainCommits DEF Salvage
  <2>2. CASE Checkpoint(r) \/ AdoptLegacy(r)
    BY <1>0, <1>1, <2>2 DEF Checkpoint, AdoptLegacy, Create
  <2>3. CASE FromMain(r)
    <3>1. Main(main.origin) \in SUBSET Commit
      BY <1>0, MainCommits
    <3>2. QED BY <1>0, <2>3, <3>1 DEF FromMain
  <2>4. CASE FromLocalMain(r)
    <3>1. \A k \in 0 .. main.tracking : k \in 0 .. MaxMain
      BY <1>0
    <3>2. QED BY <1>0, <1>1, <2>4, <3>1, MainCommits DEF FromLocalMain, Create
  <2>5. CASE Point(r)
    BY <1>0, <1>1, <2>0, <2>5 DEF Point, Create
  <2>6. CASE Replay(r)
    BY <1>0, <1>1, <2>6, ReplayedIs DEF Replay
  <2>7. CASE CreateCanonical(r)
    BY <1>0, <1>1, <2>7 DEF CreateCanonical, Create
  <2>8. CASE Dismantle(r) \/ Cleanup(r)
    BY <1>0, <1>1, <2>8 DEF Dismantle, Cleanup, Dispose
  <2>9. CASE UNCHANGED branch
    BY <1>0, <2>9
  <2>10. QED
    BY <1>2, <2>1, <2>2, <2>3, <2>4, <2>5, <2>6, <2>7, <2>8, <2>9
       DEF RunSteps, Claim, Release, Ready, Refuse, Migrate, Absent, HasBranch, NoCheckpoint, NoLegacy,
           Attach, Vacate, Conflict, Confirm, MoveOld, Fail, Done, Die
<1>3. CASE CommitWork
  <2>1. tree["issue"].dirt \X {0} \in SUBSET Commit
    BY DEF TypeOK, Checkout, Commit
  <2>2. QED BY <1>0, <1>3, <2>1 DEF CommitWork
<1>4. CASE UNCHANGED branch
  BY <1>0, <1>4
<1>5. QED
  BY <1>2, <1>3, <1>4 DEF Next, RunSteps, Expire, Edit, Delete, MainAdvances, Publish

(* What a step does to the worktrees: no more than one of them, and those   *)
(* whose directory is gone.                                                 *)
LEMMA TreeStep ==
  ASSUME TypeOK, Next
  PROVE  tree' \in [{"issue"} \cup Run -> Checkout] /\ kept' \subseteq Checkout
<1> DEFINE Trees == [{"issue"} \cup Run -> Checkout]
<1>0. tree \in Trees /\ kept \subseteq Checkout /\ tree["issue"] \in Checkout
  BY DEF TypeOK
<1>1. Nothing \in Checkout /\ \A b \in Branch : On(b) \in Checkout
  BY DEF Nothing, On, Checkout
<1>2. ASSUME NEW p \in {"issue"} \cup Run, NEW c \in Checkout, tree' = [tree EXCEPT ![p] = c]
      PROVE  tree' \in Trees
  BY <1>0, <1>2
<1>3. SetAside => tree' \in Trees /\ kept' \subseteq Checkout
  BY <1>0, <1>1, <1>2 DEF SetAside
<1>4. ASSUME NEW r \in Run, RunSteps(r)
      PROVE  tree' \in Trees /\ kept' \subseteq Checkout
  <2>1. CASE Salvage(r)
    BY <1>0, <1>1, <1>2, <2>1 DEF Salvage, Branch
  <2>2. CASE Absent(r)
    BY <1>0, <1>1, <2>2 DEF Absent
  <2>3. CASE Attach(r)
    BY <1>0, <1>1, <1>2, <2>3 DEF Attach, Branch
  <2>4. CASE Vacate(r)
    BY <1>0, <1>1, <1>2, <1>3, <2>4 DEF Vacate
  <2>5. CASE MoveOld(r)
    BY <1>0, <1>3, <2>5 DEF MoveOld
  <2>6. CASE Dismantle(r) \/ Cleanup(r)
    BY <1>0, <1>1, <1>2, <2>6 DEF Dismantle, Cleanup, Dispose
  <2>7. CASE UNCHANGED <<tree, kept>>
    BY <1>0, <2>7
  <2>8. QED
    BY <1>4, <2>1, <2>2, <2>3, <2>4, <2>5, <2>6, <2>7
       DEF RunSteps, Claim, Release, Ready, Refuse, Migrate, HasBranch, Checkpoint, NoCheckpoint,
           AdoptLegacy, NoLegacy, FromMain, FromLocalMain, Point, Replay, Conflict, Confirm,
           CreateCanonical, Fail, Done, Die
<1>5. CASE Edit
  <2>1. PICK w \in Ours \ made : tree' = [tree EXCEPT !["issue"].dirt = @ \cup {w}]
    BY <1>5 DEF Edit
  <2>2. w \in Work
    BY DEF Work
  <2>3. QED BY <1>0, <1>5, <2>1, <2>2 DEF Edit, Checkout
<1>6. CASE CommitWork
  BY <1>0, <1>6 DEF CommitWork, Checkout
<1>7. CASE Delete
  BY <1>0, <1>7 DEF Delete, Checkout
<1>8. CASE UNCHANGED <<tree, kept>>
  BY <1>0, <1>8
<1>9. QED
  BY <1>4, <1>5, <1>6, <1>7, <1>8 DEF Next, RunSteps, Expire, MainAdvances, Publish

(* What a step does to a run: it goes on, or takes notes of the branches.   *)
RunType == [pc : Steps, legacy : SUBSET Commit, canonical : SUBSET Commit,
            main : 0 .. MaxMain, dirty : BOOLEAN]

LEMMA RunStep ==
  ASSUME TypeOK, Next
  PROVE  run' \in [Run -> RunType]
<1>0. /\ run \in [Run -> RunType] /\ main.tracking \in 0 .. MaxMain
      /\ branch["legacy"] \in SUBSET Commit /\ branch["canonical"] \in SUBSET Commit
  BY DEF TypeOK, RunType, Branch
<1>1. ASSUME NEW r \in Run, NEW step \in Steps, Goto(r, step)
      PROVE  run' \in [Run -> RunType]
  BY <1>0, <1>1 DEF Goto, RunType
<1>2. ASSUME NEW r \in Run, NEW x \in RunType, run' = [run EXCEPT ![r] = x]
      PROVE  run' \in [Run -> RunType]
  BY <1>0, <1>2
<1>3. ASSUME NEW r \in Run, RunSteps(r)
      PROVE  run' \in [Run -> RunType]
  <2>1. CASE Claim(r)
    <3>1. Idle \in RunType /\ "list" \in Steps
      BY DEF Idle, RunType, Steps
    <3>2. [Idle EXCEPT !.pc = "list"] \in RunType
      BY <3>1 DEF RunType
    <3>3. QED BY <1>2, <2>1, <3>2 DEF Claim
  <2>2. CASE Migrate(r)
    <3>1. [pc |-> "vacate", legacy |-> branch["legacy"], canonical |-> branch["canonical"],
           main |-> main.tracking, dirty |-> tree["issue"].dirt # {}] \in RunType
      BY <1>0 DEF RunType, Steps
    <3>2. QED BY <1>2, <2>2, <3>1 DEF Migrate
  <2>3. CASE Salvage(r)
    <3>1. [Idle EXCEPT !.pc = "replay", !.legacy = branch["legacy"], !.main = main.tracking] \in RunType
      BY <1>0 DEF Idle, RunType, Steps
    <3>2. QED BY <1>2, <2>3, <3>1 DEF Salvage
  <2>4. CASE \E step \in Steps : Goto(r, step)
    BY <1>1, <2>4
  <2>5. \/ Claim(r) \/ Migrate(r) \/ Salvage(r) \/ \E step \in Steps : Goto(r, step)
    BY <1>3 DEF RunSteps, Release, Ready, Refuse, Absent, HasBranch, Checkpoint, NoCheckpoint, AdoptLegacy,
           NoLegacy, FromMain, FromLocalMain, Attach, Vacate, Point, Replay, Conflict, Confirm,
           MoveOld, CreateCanonical, Dismantle, Cleanup, Fail, Done, Die, Steps
  <2>6. QED BY <2>1, <2>2, <2>3, <2>4, <2>5
<1>4. CASE UNCHANGED run
  BY <1>0, <1>4
<1>5. QED
  BY <1>3, <1>4 DEF Next, RunSteps, Expire, Edit, CommitWork, Delete, MainAdvances, Publish

(* The rest.                                                                *)
LEMMA OtherStep ==
  ASSUME TypeOK, Next
  PROVE  /\ remote' \in [{"canonical", "legacy"} -> SUBSET Commit]
         /\ main' \in [origin : 0 .. MaxMain, tracking : 0 .. MaxMain]
         /\ main'.tracking <= main'.origin
         /\ owner' \in Run \cup {NoOne}
         /\ made' \subseteq Work
         /\ expiries' \in 0 .. MaxExpiries /\ faults' \in 0 .. MaxFaults
<1>0. /\ remote \in [{"canonical", "legacy"} -> SUBSET Commit]
      /\ main \in [origin : 0 .. MaxMain, tracking : 0 .. MaxMain] /\ main.tracking <= main.origin
      /\ owner \in Run \cup {NoOne} /\ made \subseteq Work
      /\ expiries \in 0 .. MaxExpiries /\ faults \in 0 .. MaxFaults
  BY DEF TypeOK
<1>1. remote' \in [{"canonical", "legacy"} -> SUBSET Commit] /\ made' \subseteq Work
  <2>1. CASE Publish
    <3>1. 0 \in 0 .. MaxMain /\ Published \in SUBSET Work
      BY DEF Work
    <3>2. Main(0) \in SUBSET Commit
      BY <3>1, MainCommits
    <3>3. Published \X {0} \in SUBSET Commit
      BY <3>1, ContentOfWork
    <3>4. QED BY <1>0, <2>1, <3>2, <3>3 DEF Publish, Work
  <2>2. CASE Edit \/ Delete
    BY <1>0, <2>2 DEF Edit, Delete, Work
  <2>3. CASE UNCHANGED <<remote, made>>
    BY <1>0, <2>3
  <2>4. QED
    BY <2>1, <2>2, <2>3 DEF Next, Claim, Release, Ready, Refuse, Migrate, Salvage, Absent, HasBranch,
       Checkpoint, NoCheckpoint, AdoptLegacy, NoLegacy, FromMain, FromLocalMain, Attach, Vacate, Point,
       Replay, Conflict, Confirm, MoveOld, CreateCanonical, Dismantle, Cleanup, Fail, Done, Die,
       Expire, CommitWork, MainAdvances
<1>2. /\ main' \in [origin : 0 .. MaxMain, tracking : 0 .. MaxMain]
      /\ main'.tracking <= main'.origin
  <2>1. CASE \E r \in Run : FromMain(r)
    BY <1>0, <2>1 DEF FromMain
  <2>2. CASE MainAdvances
    BY <1>0, <2>2 DEF MainAdvances
  <2>3. CASE UNCHANGED main
    BY <1>0, <2>3
  <2>4. QED
    BY <2>1, <2>2, <2>3 DEF Next, Claim, Release, Ready, Refuse, Migrate, Salvage, Absent, HasBranch,
       Checkpoint, NoCheckpoint, AdoptLegacy, NoLegacy, FromLocalMain, Attach, Vacate, Point,
       Replay, Conflict, Confirm, MoveOld, CreateCanonical, Dismantle, Cleanup, Fail, Done, Die,
       Expire, Edit, CommitWork, Delete, Publish
<1>3. owner' \in Run \cup {NoOne} /\ expiries' \in 0 .. MaxExpiries
  <2>1. CASE \E r \in Run : Claim(r) \/ Release(r)
    BY <1>0, <2>1 DEF Claim, Release
  <2>2. CASE Expire
    BY <1>0, <2>2 DEF Expire
  <2>3. CASE UNCHANGED <<owner, expiries>>
    BY <1>0, <2>3
  <2>4. QED
    BY <2>1, <2>2, <2>3 DEF Next, Ready, Refuse, Migrate, Salvage, Absent, HasBranch,
       Checkpoint, NoCheckpoint, AdoptLegacy, NoLegacy, FromMain, FromLocalMain, Attach, Vacate, Point,
       Replay, Conflict, Confirm, MoveOld, CreateCanonical, Dismantle, Cleanup, Fail, Done, Die,
       Edit, CommitWork, Delete, MainAdvances, Publish
<1>4. faults' \in 0 .. MaxFaults
  <2>1. faults' = faults \/ (faults < MaxFaults /\ faults' = faults + 1)
    BY DEF Next, Claim, Release, Ready, Refuse, Migrate, Salvage, Absent, HasBranch,
       Checkpoint, NoCheckpoint, NotThere, AdoptLegacy, NoLegacy, FromMain, FromLocalMain, Attach,
       Vacate, Point, Replay, Conflict, Confirm, MoveOld, CreateCanonical, Dismantle, Cleanup, Fail,
       Done, Die, Expire, Edit, CommitWork, Delete, MainAdvances, Publish
  <2>2. QED BY <1>0, <2>1
<1>5. QED BY <1>1, <1>2, <1>3, <1>4

(* Every step keeps the types.                                              *)
LEMMA TypeStep ==
  ASSUME TypeOK, [Next]_vars
  PROVE  TypeOK'
<1>1. CASE Next
  BY <1>1, BranchStep, TreeStep, RunStep, OtherStep DEF TypeOK, RunType
<1>2. CASE UNCHANGED vars
  BY <1>2 DEF vars, TypeOK
<1>3. QED BY <1>1, <1>2

(* The types hold to begin with.                                            *)
LEMMA TypeInit ==
  ASSUME Init
  PROVE  TypeOK
<1>1. PICK at \in {"nothing", "canonical", "legacy", "foreign"}, past \in SUBSET (Ours \cup Theirs),
           dirt \in SUBSET Ours, k \in 0 .. MaxMain, begun, pushed \in BOOLEAN :
        /\ Cardinality(past) <= 1 /\ Cardinality(dirt) <= 1 /\ past \cap dirt = {}
        /\ dirt # {} => at = "legacy"
        /\ at = "canonical" => begun
        /\ Beginning(at, IF at = "legacy" \/ pushed THEN Main(0) \cup past \X {0} ELSE {}, dirt,
                     begun, pushed)
        /\ main = [origin |-> k, tracking |-> k]
  BY DEF Init
<1> DEFINE old == IF at = "legacy" \/ pushed THEN Main(0) \cup past \X {0} ELSE {}
<1>2. 0 \in 0 .. MaxMain /\ past \in SUBSET Work /\ dirt \in SUBSET Work
  BY DEF Work
<1>3. Main(0) \in SUBSET Commit /\ past \X {0} \in SUBSET Commit
  BY <1>2, MainCommits, ContentOfWork
<1>4. old \in SUBSET Commit
  BY <1>3
<1>5. Beginning(at, old, dirt, begun, pushed)
  BY <1>1
<1> HIDE DEF old
<1>6. branch \in [Branch -> SUBSET Commit]
  BY <1>3, <1>4, <1>5 DEF Beginning
<1>7. remote \in [{"canonical", "legacy"} -> SUBSET Commit]
  BY <1>4, <1>5 DEF Beginning
<1>8. tree \in [{"issue"} \cup Run -> Checkout]
  <2>1. Nothing \in Checkout /\ On(at) \in Checkout
    BY DEF Nothing, On, Checkout, Branch
  <2>2. [On(at) EXCEPT !.dirt = dirt] \in Checkout
    BY <1>2, <2>1 DEF Checkout
  <2>3. QED BY <1>5, <2>1, <2>2 DEF Beginning
<1>9. made \subseteq Work
  BY <1>2, <1>4, <1>5, ContentIs DEF Beginning
<1>10. run \in [Run -> RunType]
  <2>1. Idle \in RunType
    BY DEF Idle, RunType, Steps
  <2>2. QED BY <2>1 DEF Init
<1>11. QED BY <1>1, <1>6, <1>7, <1>8, <1>9, <1>10 DEF Init, TypeOK, RunType

(* The branches, the worktrees and the runs' notes are what TypeOK says,    *)
(* whatever commands fail and whoever dies.                                 *)
THEOREM TypeCorrect == Spec => []TypeOK
<1>1. Init => TypeOK
  BY TypeInit
<1>2. TypeOK /\ [Next]_vars => TypeOK'
  BY TypeStep
<1>3. QED BY <1>1, <1>2, PTL DEF Spec

-----------------------------------------------------------------------------
(* No work is lost.                                                         *)

(* Work in a directory is on the issue's branch or a legacy one, where it   *)
(* can be committed.                                                        *)
Places ==
  /\ tree["issue"].at \notin Run
  /\ tree["issue"].at \in {"nothing", "foreign"} \/ tree["issue"].gone => tree["issue"].dirt = {}

(* Where work on the issue is safe: never on a recovery branch only.        *)
Safe ==
  Content(branch["canonical"]) \cup Content(branch["legacy"])
    \cup Content(remote["canonical"]) \cup Content(remote["legacy"])
    \cup tree["issue"].dirt \cup UNION {c.dirt : c \in kept}

Inv == TypeOK /\ Places /\ made \subseteq Safe

(* The issue's branch and the legacy one only move forward.                 *)
Forward ==
  branch["canonical"] \subseteq branch'["canonical"] /\ branch["legacy"] \subseteq branch'["legacy"]

(* What is safe stays safe when nothing that holds it loses anything.       *)
LEMMA SafeGrows ==
  ASSUME Forward, remote["canonical"] \subseteq remote'["canonical"], remote["legacy"] \subseteq remote'["legacy"],
         kept \subseteq kept'
  PROVE  Safe \subseteq Safe' \cup tree["issue"].dirt
<1>1. /\ Content(branch["canonical"]) \subseteq Content(branch'["canonical"])
      /\ Content(branch["legacy"]) \subseteq Content(branch'["legacy"])
      /\ Content(remote["canonical"]) \subseteq Content(remote'["canonical"])
      /\ Content(remote["legacy"]) \subseteq Content(remote'["legacy"])
  BY ContentGrows DEF Forward
<1>2. UNION {c.dirt : c \in kept} \subseteq UNION {c.dirt : c \in kept'}
  OBVIOUS
<1>3. QED BY <1>1, <1>2 DEF Safe

(* A run does not undo another's work: a branch is created when there is    *)
(* none, and moved only from the tip the run has seen to one that contains  *)
(* it.                                                                      *)
LEMMA ForwardStep ==
  ASSUME TypeOK, Places, [Next]_vars
  PROVE  Forward
<1>0. /\ branch \in [Branch -> SUBSET Commit] /\ "canonical" \in Branch /\ "legacy" \in Branch
      /\ "canonical" \notin Run /\ "legacy" \notin Run
  BY DEF TypeOK, Branch
<1>1. ASSUME NEW tip, Create("canonical", tip)
      PROVE  Forward
  BY <1>0, <1>1 DEF Create, Forward
<1>2. ASSUME NEW r \in Run, NEW tip, branch' = [branch EXCEPT ![r] = tip]
      PROVE  Forward
  BY <1>0, <1>2 DEF Forward
<1>3. CASE UNCHANGED branch
  BY <1>3 DEF Forward
<1>4. ASSUME NEW r \in Run, RunSteps(r)
      PROVE  Forward
  <2>1. CASE Checkpoint(r) \/ AdoptLegacy(r) \/ FromLocalMain(r) \/ CreateCanonical(r)
    BY <1>1, <1>3, <2>1 DEF Checkpoint, AdoptLegacy, FromLocalMain, CreateCanonical
  <2>2. CASE FromMain(r)
    BY <1>0, <2>2 DEF FromMain, Forward
  <2>3. CASE Point(r)
    <3>1. CASE Behind(r) /\ Unmoved(r) /\ branch' = [branch EXCEPT !["canonical"] = run[r].legacy]
      BY <1>0, <3>1 DEF Behind, Unmoved, Forward
    <3>2. QED BY <1>1, <1>3, <2>3, <3>1 DEF Point
  <2>4. CASE Salvage(r) \/ Replay(r) \/ Dismantle(r) \/ Cleanup(r)
    BY <1>2, <2>4 DEF Salvage, Replay, Dismantle, Cleanup, Dispose
  <2>5. QED
    BY <1>3, <1>4, <2>1, <2>2, <2>3, <2>4
       DEF RunSteps, Claim, Release, Ready, Refuse, Migrate, Absent, HasBranch, NoCheckpoint, NoLegacy,
           Attach, Vacate, Conflict, Confirm, MoveOld, Fail, Done, Die
<1>5. CASE CommitWork
  <2>1. PICK b, more : branch' = [branch EXCEPT ![b] = @ \cup more]
    BY <1>5 DEF CommitWork
  <2>2. QED BY <1>0, <2>1 DEF Forward
<1>6. CASE UNCHANGED vars
  BY <1>3, <1>6 DEF vars
<1>7. QED
  BY <1>3, <1>4, <1>5, <1>6 DEF Next, RunSteps, Expire, Edit, Delete, MainAdvances, Publish

(* Every step keeps what holds work in its place, and all of it.            *)
LEMMA KeptStep ==
  ASSUME Inv, [Next]_vars
  PROVE  Places' /\ made' \subseteq Safe'
<1> DEFINE here == tree["issue"]
           Others == UNCHANGED <<remote, kept, made>>
<1>0. /\ tree \in [{"issue"} \cup Run -> Checkout] /\ here \in Checkout /\ Places /\ made \subseteq Safe
      /\ "issue" \notin Run /\ "nothing" \notin Run /\ "canonical" \notin Run
      /\ remote \in [{"canonical", "legacy"} -> SUBSET Commit] /\ kept \subseteq kept
  BY DEF Inv, TypeOK
<1>1. Forward
  BY ForwardStep DEF Inv
<1>2. /\ Nothing.at = "nothing" /\ Nothing.dirt = {}
      /\ On("canonical").at = "canonical" /\ On("canonical").dirt = {} /\ On("canonical").gone = FALSE
  BY DEF Nothing, On
<1>3. ASSUME UNCHANGED <<remote, kept>>, made' = made
      PROVE  made' \subseteq Safe' \cup here.dirt
  BY <1>0, <1>1, <1>3, SafeGrows
<1>4. CASE UNCHANGED <<remote, kept, made>> /\ tree'["issue"] = here
  <2>1. Places'
    BY <1>0, <1>4 DEF Places
  <2>2. here.dirt \subseteq Safe'
    BY <1>4 DEF Safe
  <2>3. QED BY <1>3, <1>4, <2>1, <2>2
<1>5. CASE UNCHANGED <<remote, kept, made>> /\ here.dirt = {} /\ tree'["issue"] \in {Nothing, On("canonical")}
  <2>1. Places'
    BY <1>0, <1>2, <1>5 DEF Places
  <2>2. QED BY <1>3, <1>5, <2>1
<1>6. CASE SetAside /\ UNCHANGED <<remote, made>>
  <2>1. tree'["issue"] = Nothing /\ kept' = kept \cup {here}
    BY <1>0, <1>6 DEF SetAside
  <2>2. Places'
    BY <1>0, <1>2, <2>1 DEF Places
  <2>3. Safe \subseteq Safe' \cup here.dirt
    BY <1>1, <1>6, <2>1, SafeGrows
  <2>4. here.dirt \subseteq Safe'
    BY <2>1 DEF Safe
  <2>5. QED BY <1>0, <1>6, <2>2, <2>3, <2>4
<1>7. ASSUME NEW r \in Run, RunSteps(r)
      PROVE  Places' /\ made' \subseteq Safe'
  <2>0. ASSUME NEW c, tree' = [tree EXCEPT ![r] = c]
        PROVE  tree'["issue"] = here
    BY <1>0, <2>0
  <2>1. CASE Salvage(r) \/ Dismantle(r) \/ Cleanup(r)
    BY <1>4, <2>0, <2>1 DEF Salvage, Dismantle, Cleanup, Dispose
  <2>2. CASE Absent(r)
    <3>1. tree'["issue"] = IF here.gone THEN Nothing ELSE here
      BY <1>0, <2>2 DEF Absent
    <3>2. QED BY <1>0, <1>4, <1>5, <2>2, <3>1 DEF Absent, Places
  <2>3. CASE Attach(r)
    BY <1>0, <1>2, <1>4, <1>5, <2>3 DEF Attach
  <2>4. CASE Vacate(r)
    BY <1>0, <1>4, <1>5, <1>6, <2>4 DEF Vacate, Removable
  <2>5. CASE MoveOld(r)
    BY <1>4, <1>6, <2>5 DEF MoveOld
  <2>6. CASE UNCHANGED <<tree, remote, kept, made>>
    BY <1>4, <2>6
  <2>7. QED
    BY <1>7, <2>1, <2>2, <2>3, <2>4, <2>5, <2>6
       DEF RunSteps, Claim, Release, Ready, Refuse, Migrate, HasBranch, Checkpoint, NoCheckpoint,
           AdoptLegacy, NoLegacy, FromMain, FromLocalMain, Point, Replay, Conflict, Confirm,
           CreateCanonical, Fail, Done, Die
<1>8. CASE Edit
  <2>1. PICK w : /\ tree' = [tree EXCEPT !["issue"].dirt = @ \cup {w}]
                 /\ made' = made \cup {w}
    BY <1>8 DEF Edit
  <2>2. tree'["issue"] = [here EXCEPT !.dirt = @ \cup {w}]
    BY <1>0, <2>1
  <2>3. tree'["issue"].at = here.at /\ tree'["issue"].dirt = here.dirt \cup {w} /\ tree'["issue"].gone = here.gone
    BY <1>0, <2>2 DEF Checkout
  <2>4. here.at \in {"canonical", "legacy"} /\ ~ here.gone
    BY <1>8 DEF Edit, There
  <2>5. Places'
    BY <1>0, <2>3, <2>4 DEF Places
  <2>6. Safe \subseteq Safe' \cup here.dirt
    BY <1>0, <1>1, <1>8, SafeGrows DEF Edit
  <2>7. here.dirt \cup {w} \subseteq Safe'
    BY <2>3 DEF Safe
  <2>8. QED BY <1>0, <2>1, <2>5, <2>6, <2>7
<1>9. CASE CommitWork
  <2>1. tree'["issue"].at = here.at /\ tree'["issue"].dirt = {} /\ tree'["issue"].gone = here.gone
    BY <1>0, <1>9 DEF CommitWork, Checkout
  <2>2. Places'
    BY <1>0, <2>1 DEF Places
  <2>3. here.at \in {"canonical", "legacy"}
    BY <1>0, <1>9 DEF CommitWork, Places, Checkout, Branch
  <2>4. here.dirt \X {0} \subseteq branch'[here.at]
    BY <1>9, <2>3 DEF CommitWork, Inv, TypeOK, Branch
  <2>5. here.dirt \subseteq Content(branch'[here.at])
    <3>1. here.dirt \in SUBSET Work /\ 0 \in 0 .. MaxMain
      BY <1>0 DEF Checkout
    <3>2. Content(here.dirt \X {0}) = here.dirt
      BY <3>1, ContentOfWork
    <3>3. QED BY <2>4, <3>2, ContentGrows
  <2>6. here.dirt \subseteq Safe'
    BY <2>3, <2>5 DEF Safe
  <2>7. QED BY <1>3, <1>9, <2>2, <2>6 DEF CommitWork
<1>10. CASE Delete
  <2>1. tree'["issue"].at = here.at /\ tree'["issue"].dirt = {}
    BY <1>0, <1>10 DEF Delete, Checkout
  <2>2. Places'
    BY <1>0, <2>1 DEF Places
  <2>3. Safe \subseteq Safe' \cup here.dirt
    BY <1>0, <1>1, <1>10, SafeGrows DEF Delete
  <2>4. QED BY <1>0, <1>10, <2>2, <2>3 DEF Delete
<1>11. CASE Publish
  <2>1. /\ remote["canonical"] = {} /\ remote'["legacy"] = remote["legacy"]
        /\ Published \X {0} \subseteq remote'["canonical"]
    BY <1>0, <1>11 DEF Publish
  <2>2. Places'
    BY <1>0, <1>11 DEF Publish, Places
  <2>3. Safe \subseteq Safe' \cup here.dirt
    BY <1>0, <1>1, <1>11, <2>1, SafeGrows DEF Publish
  <2>4. Published \subseteq Content(remote'["canonical"])
    <3>1. Published \in SUBSET Work /\ 0 \in 0 .. MaxMain
      BY DEF Work
    <3>2. Content(Published \X {0}) = Published
      BY <3>1, ContentOfWork
    <3>3. QED BY <2>1, <3>2, ContentGrows
  <2>5. here.dirt \cup Published \subseteq Safe'
    BY <1>11, <2>4 DEF Publish, Safe
  <2>6. QED BY <1>0, <1>11, <2>2, <2>3, <2>5 DEF Publish
<1>12. CASE Expire \/ MainAdvances \/ UNCHANGED vars
  BY <1>4, <1>12 DEF Expire, MainAdvances, vars
<1>13. QED
  BY <1>7, <1>8, <1>9, <1>10, <1>11, <1>12 DEF Next, RunSteps

(* To begin with, all work is on a legacy branch or in its directory.       *)
LEMMA KeptInit ==
  ASSUME Init
  PROVE  Inv
<1>1. PICK at \in {"nothing", "canonical", "legacy", "foreign"}, past \in SUBSET (Ours \cup Theirs),
           dirt \in SUBSET Ours, k \in 0 .. MaxMain, begun, pushed \in BOOLEAN :
        /\ Cardinality(past) <= 1 /\ Cardinality(dirt) <= 1 /\ past \cap dirt = {}
        /\ dirt # {} => at = "legacy"
        /\ at = "canonical" => begun
        /\ Beginning(at, IF at = "legacy" \/ pushed THEN Main(0) \cup past \X {0} ELSE {}, dirt,
                     begun, pushed)
        /\ main = [origin |-> k, tracking |-> k]
  BY DEF Init
<1> DEFINE old == IF at = "legacy" \/ pushed THEN Main(0) \cup past \X {0} ELSE {}
<1>2. Beginning(at, old, dirt, begun, pushed)
  BY <1>1
<1> HIDE DEF old
<1>3. branch["legacy"] = old
  BY <1>2 DEF Beginning, Branch
<1>4. tree["issue"].at = at /\ tree["issue"].dirt = dirt /\ tree["issue"].gone = FALSE
  BY <1>2 DEF Beginning, On
<1>5. made = Content(old) \cup dirt
  BY <1>2 DEF Beginning
<1>6. made \subseteq Safe
  BY <1>3, <1>4, <1>5 DEF Safe
<1>7. Places
  BY <1>1, <1>4 DEF Places
<1>8. QED BY <1>6, <1>7, TypeInit DEF Inv

(* The inductive invariant holds.                                           *)
LEMMA Inductive == Spec => []Inv
<1>1. Init => Inv
  BY KeptInit
<1>2. Inv /\ [Next]_vars => Inv'
  BY TypeStep, KeptStep DEF Inv
<1>3. QED BY <1>1, <1>2, PTL DEF Spec

(* Nothing anybody has done for the issue is lost: it is on the issue's     *)
(* branch, on the legacy one, on origin, or uncommitted where it was or     *)
(* where it was moved to.  Interrupted migrations, two runs after a lease   *)
(* that ran out, workers who go on working, all included.                   *)
THEOREM NoWorkLost == Spec => []WorkKept
<1>1. Inv => WorkKept
  <2> SUFFICES ASSUME Inv PROVE WorkKept
    OBVIOUS
  <2> DEFINE tips == UNION ({branch[b] : b \in Branch} \cup {remote[b] : b \in DOMAIN remote})
  <2>0. /\ "canonical" \in Branch /\ "legacy" \in Branch /\ DOMAIN remote = {"canonical", "legacy"}
        /\ DOMAIN tree = {"issue"} \cup Run
    BY DEF Inv, TypeOK, Branch
  <2>1. /\ branch["canonical"] \subseteq tips /\ branch["legacy"] \subseteq tips
        /\ remote["canonical"] \subseteq tips /\ remote["legacy"] \subseteq tips
    BY <2>0
  <2> HIDE DEF tips
  <2>2. /\ Content(branch["canonical"]) \subseteq Content(tips) /\ Content(branch["legacy"]) \subseteq Content(tips)
        /\ Content(remote["canonical"]) \subseteq Content(tips) /\ Content(remote["legacy"]) \subseteq Content(tips)
    BY <2>1, ContentGrows
  <2> DEFINE dirts == UNION ({tree[p].dirt : p \in DOMAIN tree} \cup {c.dirt : c \in kept})
  <2>3. tree["issue"].dirt \subseteq dirts /\ UNION {c.dirt : c \in kept} \subseteq dirts
    BY <2>0
  <2>4. WorkKept <=> made \subseteq Content(tips) \cup dirts
    BY DEF WorkKept, tips
  <2> HIDE DEF dirts
  <2>5. QED BY <2>2, <2>3, <2>4 DEF Inv, Safe
<1>2. QED BY <1>1, Inductive, PTL

(* No run takes a commit off the issue's branch or the legacy one: update-  *)
(* ref moves from the tip that was read to one that contains it.            *)
THEOREM OnlyForward == Spec => [][Forward]_vars
<1>1. Inv /\ [Next]_vars => [Forward]_vars
  BY ForwardStep DEF Inv
<1>2. QED BY <1>1, Inductive, PTL DEF Spec

-----------------------------------------------------------------------------
(* Commands and harnesses that take issues.                                 *)

USE StoresAssumption DEF C!CommandAssumption

ProcessState ==
  [pc : C!Steps, issue : Issue \cup {Nobody}, free : BOOLEAN, tries : Nat, todo : SUBSET Artifact]

CommandTyped ==
  /\ lease \in [Issue -> [owner : Process \cup {Nobody}, fresh : BOOLEAN]]
  /\ proc \in [Process -> ProcessState]
  /\ root \subseteq Artifact /\ ws \in [Issue -> SUBSET Artifact]
  /\ parked \in [Issue -> SUBSET C!Parked] /\ legacy \subseteq C!Parked

(* Between a claim that was granted and the release.                        *)
Holds(p) == proc[p].pc \in {"attach", "inherit", "legacy", "check", "work", "release"}

(* Who was granted the lease of an issue owns it while it is fresh, and     *)
(* before it expires nobody else can; who was not granted one has none.     *)
Owning(p) ==
  /\ proc[p].pc \in {"claim"} \/ Holds(p) => proc[p].issue \in Issue
  /\ Holds(p) => p \in lapsed \/ (lease[proc[p].issue].owner = p /\ lease[proc[p].issue].fresh)
  /\ Holds(p) => C!Holding(p) \subseteq {proc[p].issue}
  /\ proc[p].pc \in {"idle", "choose", "claim"} => C!Holding(p) = {}
  /\ proc[p].pc = "over" => C!Holding(p) = {} \/ p \in unsure

CommandInv == CommandTyped /\ (\A p \in Process : Owning(p)) /\ C!TextsKept

(* A step of the system is one of the commands, or does not touch them.     *)
LEMMA CommandSteps == [EitherNext]_allVars => [C!Next]_command
  BY DEF EitherNext, allVars, text, command

(* Every behaviour of the commands begins with the invariant.               *)
LEMMA CommandBegin == C!Init => CommandInv
<1> SUFFICES ASSUME C!Init PROVE CommandInv
  OBVIOUS
<1>1. CommandTyped
  BY DEF C!Init, CommandTyped, ProcessState, C!Steps
<1>2. \A p \in Process : Owning(p)
  BY DEF C!Init, Owning, Holds, C!Holding
<1>3. C!TextsKept
  BY DEF C!Init, C!TextsKept
<1>4. QED
  BY <1>1, <1>2, <1>3 DEF CommandInv

(* A process goes on to a step that needs no more than the one before, and  *)
(* files are left alone.                                                    *)
LEMMA GoesOn ==
  ASSUME CommandInv, NEW p \in Process, NEW r \in ProcessState, proc' = [proc EXCEPT ![p] = r],
         root' \subseteq Artifact, ws' \in [Issue -> SUBSET Artifact], parked' \in [Issue -> SUBSET C!Parked],
         legacy' \subseteq C!Parked, lease' = lease, lapsed' = lapsed, unsure \subseteq unsure', C!TextsKept',
         \/ Holds(p) /\ r.issue = proc[p].issue /\ r.pc \in {"inherit", "legacy", "check", "work", "release"}
         \/ proc[p].pc \in {"idle", "choose", "claim"} /\ r.pc \in {"choose", "claim", "over"} /\
            (r.pc = "claim" => r.issue \in Issue)
         \/ p \in unsure' /\ r.pc \in {"over", "dead"}
         \/ C!Holding(p) = {} /\ r.pc = "over"
  PROVE  CommandInv'
<1>1. proc' \in [Process -> ProcessState] /\ proc'[p] = r /\ \A q \in Process \ {p} : proc'[q] = proc[q]
  BY DEF CommandInv, CommandTyped
<1>2. CommandTyped'
  BY <1>1 DEF CommandInv, CommandTyped
<1>3. \A q : C!Holding(q)' = C!Holding(q)
  BY DEF C!Holding
<1>4. \A q \in Process \ {p} : Owning(q)'
  BY <1>1, <1>3 DEF CommandInv, Owning, Holds
<1>5. Owning(p)'
  BY <1>1, <1>3 DEF CommandInv, Owning, Holds
<1>6. QED
  BY <1>2, <1>4, <1>5 DEF CommandInv

(* What is written, of the directories, keeps the texts there are.          *)
LEMMA FilesAlone ==
  ASSUME C!TextsKept, UNCHANGED <<root, ws, parked, legacy, texts>>
  PROVE  C!TextsKept'
  BY DEF C!TextsKept

(* A step that only goes on leaves the rest of a process alone.             *)
LEMMA GotoKeeps ==
  ASSUME CommandInv, NEW p \in Process, NEW s \in C!Steps, C!Goto(p, s),
         lease' = lease, lapsed' = lapsed, unsure \subseteq unsure', UNCHANGED <<root, ws, parked, legacy, texts>>,
         \/ Holds(p) /\ s \in {"inherit", "legacy", "check", "work", "release"}
         \/ proc[p].pc \in {"idle", "choose", "claim"} /\ s \in {"choose", "over"}
         \/ p \in unsure' /\ s \in {"over", "dead"}
         \/ C!Holding(p) = {} /\ s = "over"
  PROVE  CommandInv'
<1>1. proc[p] \in ProcessState /\ proc \in [Process -> ProcessState]
  BY DEF CommandInv, CommandTyped
<1> DEFINE r == [proc[p] EXCEPT !.pc = s]
<1>2. r \in ProcessState /\ r.pc = s /\ r.issue = proc[p].issue
  BY <1>1 DEF ProcessState
<1>3. proc' = [proc EXCEPT ![p] = r]
  BY <1>1 DEF C!Goto
<1> HIDE DEF r
<1>4. C!TextsKept' /\ root' \subseteq Artifact /\ ws' \in [Issue -> SUBSET Artifact] /\ parked' \in [Issue -> SUBSET C!Parked]
      /\ legacy' \subseteq C!Parked
  BY FilesAlone DEF CommandInv, CommandTyped
<1>5. QED
  BY <1>2, <1>3, <1>4, GoesOn

(* The files and the leases are left alone.                                 *)
LEMMA Alone ==
  ASSUME CommandInv, UNCHANGED <<C!Files, C!Leases>>
  PROVE  /\ lease' = lease /\ lapsed' = lapsed /\ unsure \subseteq unsure' /\ UNCHANGED <<root, ws, parked, legacy, texts>>
         /\ C!TextsKept' /\ root' \subseteq Artifact /\ ws' \in [Issue -> SUBSET Artifact]
         /\ parked' \in [Issue -> SUBSET C!Parked] /\ legacy' \subseteq C!Parked
  BY FilesAlone DEF C!Files, C!Leases, CommandInv, CommandTyped

(* A command begins, chooses or goes on, or is killed.                      *)
LEMMA MovesKeep ==
  ASSUME CommandInv, NEW p \in Process,
         \/ C!Begin(p) \/ C!Prepare(p) \/ C!Choose(p) \/ C!Attach(p) \/ C!HandoffFails(p) \/ C!Inherited(p)
         \/ C!Settled(p) \/ C!Check(p) \/ C!LeaseLost(p) \/ C!Finish(p) \/ C!Kill(p)
  PROVE  CommandInv'
<1>1. proc[p] \in ProcessState /\ proc \in [Process -> ProcessState] /\ Owning(p)
  BY DEF CommandInv, CommandTyped
<1>2. {"idle", "choose", "claim", "attach", "inherit", "legacy", "check", "work", "release", "over", "dead"} = C!Steps
  BY DEF C!Steps
<1>3. ASSUME NEW i \in Issue, NEW r \in {[proc[p] EXCEPT !.pc = "claim", !.issue = i],
                                      [proc[p] EXCEPT !.pc = "claim", !.issue = i, !.free = TRUE]},
             proc' = [proc EXCEPT ![p] = r], proc[p].pc \in {"idle", "choose", "claim"}, UNCHANGED <<C!Files, C!Leases>>
      PROVE  CommandInv'
  <2>a. "claim" \in C!Steps /\ proc[p] \in ProcessState
    BY <1>1, <1>2
  <2>b. ASSUME r = [proc[p] EXCEPT !.pc = "claim", !.issue = i]
        PROVE  r \in ProcessState /\ r.pc = "claim" /\ r.issue = i
    BY <2>a, <2>b DEF ProcessState
  <2>c. ASSUME r = [proc[p] EXCEPT !.pc = "claim", !.issue = i, !.free = TRUE]
        PROVE  r \in ProcessState /\ r.pc = "claim" /\ r.issue = i
    BY <2>a, <2>c DEF ProcessState
  <2>1. r \in ProcessState /\ r.pc = "claim" /\ r.issue = i
    BY <1>3, <2>b, <2>c
  <2>2. QED
    BY <1>3, <2>1, Alone, GoesOn
<1>4. ASSUME NEW s \in {"inherit", "legacy"}, NEW todo \in SUBSET Artifact,
             proc' = [proc EXCEPT ![p].pc = s, ![p].todo = todo], Holds(p), UNCHANGED <<C!Files, C!Leases>>
      PROVE  CommandInv'
  <2> DEFINE r == [proc[p] EXCEPT !.pc = s, !.todo = todo]
  <2>1. r \in ProcessState /\ r.pc = s /\ r.issue = proc[p].issue
    BY <1>1, <1>2 DEF ProcessState
  <2>2. proc' = [proc EXCEPT ![p] = r]
    BY <1>1, <1>4
  <2> HIDE DEF r
  <2>3. QED
    BY <1>4, <2>1, <2>2, Alone, GoesOn
<1>5. CASE C!Begin(p)
  <2>1. proc[p].pc = "idle" /\ UNCHANGED <<C!Files, C!Leases>>
    BY <1>5 DEF C!Begin, C!At
  <2>2. ASSUME NEW i \in Issue, proc' = [proc EXCEPT ![p].pc = "claim", ![p].issue = i] PROVE CommandInv'
    BY <1>1, <1>3, <2>1, <2>2
  <2>3. QED
    BY <1>2, <1>5, <2>1, <2>2, Alone, GotoKeeps DEF C!Begin
<1>6. CASE C!Prepare(p)
  <2>1. proc[p].pc = "idle" /\ UNCHANGED <<C!Files, C!Leases>>
    BY <1>6 DEF C!Prepare, C!At
  <2>2. PICK i \in Issue : proc' = [proc EXCEPT ![p].pc = "claim", ![p].issue = i]
    BY <1>6 DEF C!Prepare
  <2>3. QED
    BY <1>1, <1>3, <2>1, <2>2
<1>7. CASE C!Choose(p)
  <2>1. proc[p].pc = "choose" /\ UNCHANGED <<C!Files, C!Leases>>
    BY <1>7 DEF C!Choose, C!At
  <2>2. ASSUME NEW i \in Issue, proc' = [proc EXCEPT ![p].pc = "claim", ![p].issue = i, ![p].free = TRUE] PROVE CommandInv'
    BY <1>1, <1>3, <2>1, <2>2
  <2>3. QED
    BY <1>2, <1>7, <2>1, <2>2, Alone, GotoKeeps DEF C!Choose
<1>8. CASE C!Attach(p)
  <2>1. proc[p].pc = "attach" /\ Holds(p) /\ UNCHANGED <<C!Files, C!Leases>>
    BY <1>8 DEF C!Attach, C!At, Holds
  <2>2. ws[proc[p].issue] \in SUBSET Artifact
    BY <1>1, <2>1 DEF Owning, CommandInv, CommandTyped
  <2>3. CASE C!Goto(p, "work")
    BY <1>2, <2>1, <2>3, Alone, GotoKeeps
  <2>4. CASE proc' = [proc EXCEPT ![p].pc = "inherit", ![p].todo = ws[proc[p].issue]]
    BY <1>4, <2>1, <2>2, <2>4
  <2>5. QED
    BY <1>8, <2>3, <2>4 DEF C!Attach
<1>9. CASE C!Inherited(p)
  <2>1. proc[p].pc = "inherit" /\ Holds(p) /\ UNCHANGED <<C!Files, C!Leases>> /\ root \in SUBSET Artifact
    BY <1>9 DEF C!Inherited, C!At, Holds, CommandInv, CommandTyped
  <2>2. QED
    BY <1>4, <1>9, <2>1 DEF C!Inherited
<1>10. CASE C!HandoffFails(p) \/ C!Settled(p) \/ C!Check(p) \/ C!Finish(p)
  <2>1. Holds(p) /\ UNCHANGED <<C!Files, C!Leases>>
    BY <1>10 DEF C!HandoffFails, C!Settled, C!Check, C!Finish, C!At, Holds
  <2>2. C!Goto(p, "check") \/ C!Goto(p, "work") \/ C!Goto(p, "release")
    BY <1>10 DEF C!HandoffFails, C!Settled, C!Check, C!Finish, C!Undo
  <2>3. QED
    BY <1>2, <2>1, <2>2, Alone, GotoKeeps
<1>11. CASE C!LeaseLost(p)
  <2>1. Holds(p) /\ C!Goto(p, "over") /\ UNCHANGED <<C!Files, C!Leases>> /\ lease[proc[p].issue].owner # p
    BY <1>11 DEF C!LeaseLost, C!At, Holds
  <2>2. C!Holding(p) = {}
    BY <1>1, <2>1 DEF Owning, C!Holding
  <2>3. QED
    BY <1>2, <2>1, <2>2, Alone, GotoKeeps
<1>12. CASE C!Kill(p)
  <2>1. /\ C!Goto(p, "dead") /\ lease' = lease /\ lapsed' = lapsed /\ unsure' = unsure \cup {p}
        /\ UNCHANGED <<root, ws, parked, legacy, texts>>
    BY <1>12 DEF C!Kill, C!Files
  <2>2. QED
    BY <1>2, <2>1, GotoKeeps
<1>13. QED
  BY <1>5, <1>6, <1>7, <1>8, <1>9, <1>10, <1>11, <1>12


(* A lease is moved: to p, or from it to nobody.                            *)
LEMMA LeaseMoves ==
  ASSUME CommandTyped, NEW i \in Issue, NEW o \in Process \cup {Nobody}, NEW fresh \in BOOLEAN,
         lease' = [lease EXCEPT ![i] = [owner |-> o, fresh |-> fresh]]
  PROVE  /\ lease' \in [Issue -> [owner : Process \cup {Nobody}, fresh : BOOLEAN]]
         /\ lease'[i].owner = o /\ lease'[i].fresh = fresh /\ \A j \in Issue \ {i} : lease'[j] = lease[j]
         /\ \A q \in Process \ {o} : C!Holding(q)' \subseteq C!Holding(q)
         /\ \A q \in Process : C!Holding(q)' \subseteq C!Holding(q) \cup {i}
<1>1. /\ lease' \in [Issue -> [owner : Process \cup {Nobody}, fresh : BOOLEAN]]
      /\ lease'[i].owner = o /\ lease'[i].fresh = fresh /\ \A j \in Issue \ {i} : lease'[j] = lease[j]
  BY DEF CommandTyped
<1>2. QED
  BY <1>1 DEF C!Holding

(* An issue is claimed: granted, refused, or the call fails.                *)
LEMMA ClaimKeeps ==
  ASSUME CommandInv, NEW p \in Process, C!Claim(p)
  PROVE  CommandInv'
<1>0. PICK i \in Issue : i = proc[p].issue
  BY DEF C!Claim, C!At, CommandInv, Owning
<1>1. /\ proc[p] \in ProcessState /\ proc \in [Process -> ProcessState] /\ proc[p].pc = "claim" /\ C!Holding(p) = {}
      /\ UNCHANGED <<root, ws, parked, legacy, texts>> /\ C!TextsKept'
  BY FilesAlone DEF C!Claim, C!At, CommandInv, CommandTyped, Owning, C!Files
<1>2. ASSUME ~ lease[i].fresh, lease' = [lease EXCEPT ![i] = [owner |-> p, fresh |-> TRUE]], lapsed' = lapsed,
             NEW s \in {"attach", "work", "over"}, C!Goto(p, s), unsure \subseteq unsure', s = "over" => p \in unsure'
      PROVE  CommandInv'
  <2>1. /\ lease' \in [Issue -> [owner : Process \cup {Nobody}, fresh : BOOLEAN]]
        /\ lease'[i].owner = p /\ lease'[i].fresh /\ \A j \in Issue \ {i} : lease'[j] = lease[j]
        /\ \A q \in Process \ {p} : C!Holding(q)' \subseteq C!Holding(q)
        /\ C!Holding(p)' \subseteq {i}
    BY <1>1, <1>2, LeaseMoves DEF CommandInv
  <2>2. /\ proc' \in [Process -> ProcessState] /\ proc'[p].pc = s /\ proc'[p].issue = i
        /\ \A q \in Process \ {p} : proc'[q] = proc[q]
    <3>1. [proc[p] EXCEPT !.pc = s] \in ProcessState
      BY <1>1 DEF ProcessState, C!Steps
    <3>2. proc' = [proc EXCEPT ![p] = [proc[p] EXCEPT !.pc = s]]
      BY <1>1, <1>2 DEF C!Goto
    <3>3. QED
      BY <1>0, <1>1, <3>1, <3>2 DEF ProcessState
  <2>3. CommandTyped'
    BY <1>1, <2>1, <2>2 DEF CommandInv, CommandTyped
  <2>4. Owning(p)'
    BY <1>2, <2>1, <2>2 DEF Owning, Holds
  <2>5. ASSUME NEW q \in Process \ {p} PROVE Owning(q)'
    <3>1. Owning(q)
      BY DEF CommandInv
    <3>2. Holds(q) => q \in lapsed \/ proc[q].issue # i
      BY <1>2, <3>1 DEF Owning
    <3>3. QED
      BY <1>2, <2>1, <2>2, <3>1, <3>2 DEF Owning, Holds
  <2>6. QED
    BY <1>1, <2>3, <2>4, <2>5 DEF CommandInv
<1>3. ASSUME proc' = [proc EXCEPT ![p].pc = IF @ = "claim" /\ proc[p].free THEN "choose" ELSE "over",
                                 ![p].tries = IF proc[p].free THEN @ + 1 ELSE @],
             UNCHANGED C!Leases
      PROVE  CommandInv'
  <2> DEFINE r == [proc[p] EXCEPT !.pc = IF proc[p].free THEN "choose" ELSE "over",
                                  !.tries = IF proc[p].free THEN @ + 1 ELSE @]
  <2>1. r \in ProcessState /\ r.pc \in {"choose", "over"}
    <3>1. PICK s \in {"choose", "over"} : s = IF proc[p].free THEN "choose" ELSE "over"
      OBVIOUS
    <3>2. PICK n \in Nat : n = IF proc[p].free THEN proc[p].tries + 1 ELSE proc[p].tries
      BY <1>1 DEF ProcessState
    <3>3. r = [proc[p] EXCEPT !.pc = s, !.tries = n]
      BY <3>1, <3>2
    <3> HIDE DEF r
    <3>4. QED
      BY <1>1, <3>3 DEF ProcessState, C!Steps
  <2>2. proc' = [proc EXCEPT ![p] = r]
    BY <1>1, <1>3
  <2> HIDE DEF r
  <2>3. lease' = lease /\ lapsed' = lapsed /\ unsure' = unsure
    BY <1>3 DEF C!Leases
  <2>4. /\ root' \subseteq Artifact /\ ws' \in [Issue -> SUBSET Artifact] /\ parked' \in [Issue -> SUBSET C!Parked]
        /\ legacy' \subseteq C!Parked
    BY <1>1 DEF CommandInv, CommandTyped
  <2>5. QED
    BY <1>1, <2>1, <2>2, <2>3, <2>4, GoesOn
<1>4. CASE C!Goto(p, "over") /\ unsure' = unsure \cup {p} /\ UNCHANGED <<lease, lapsed>>
  BY <1>1, <1>4, GotoKeeps DEF C!Steps
<1>5. QED
  BY <1>0, <1>2, <1>3, <1>4 DEF C!Claim, C!Free, C!Granted

(* The lease is given back, or is not the process's any more.               *)
LEMMA ReleaseKeeps ==
  ASSUME CommandInv, NEW p \in Process, C!Release(p)
  PROVE  CommandInv'
<1>1. /\ proc[p].pc = "release" /\ Holds(p) /\ Owning(p) /\ C!Goto(p, "over") /\ UNCHANGED <<root, ws, parked, legacy, texts>>
      /\ C!TextsKept'
  BY FilesAlone DEF C!Release, C!At, Holds, C!Files, CommandInv
<1>0. PICK i \in Issue : i = proc[p].issue
  BY <1>1 DEF Owning
<1>2. CASE UNCHANGED <<lease, lapsed>> /\ unsure' = unsure \cup {p}
  BY <1>1, <1>2, GotoKeeps DEF C!Steps
<1>3. CASE /\ lease' = IF lease[i].owner = p THEN [lease EXCEPT ![i] = [owner |-> Nobody, fresh |-> FALSE]] ELSE lease
           /\ lapsed' = lapsed \ {p} /\ unsure' = unsure
  <2>1. /\ proc' \in [Process -> ProcessState] /\ proc'[p].pc = "over"
        /\ \A q \in Process \ {p} : proc'[q] = proc[q]
    <3>1. proc[p] \in ProcessState /\ proc \in [Process -> ProcessState]
      BY DEF CommandInv, CommandTyped
    <3>2. [proc[p] EXCEPT !.pc = "over"] \in ProcessState /\ [proc[p] EXCEPT !.pc = "over"].pc = "over"
      BY <3>1 DEF ProcessState, C!Steps
    <3>3. proc' = [proc EXCEPT ![p] = [proc[p] EXCEPT !.pc = "over"]]
      BY <1>1, <3>1 DEF C!Goto
    <3>4. QED
      BY <3>1, <3>2, <3>3
  <2>2. /\ lease' \in [Issue -> [owner : Process \cup {Nobody}, fresh : BOOLEAN]]
        /\ \A j \in Issue \ {i} : lease'[j] = lease[j]
        /\ lease'[i].owner # p /\ (lease[i].owner # p => lease'[i] = lease[i])
        /\ \A q \in Process : C!Holding(q)' \subseteq C!Holding(q)
    <3>1. CASE lease[i].owner = p
      <4>1. lease' = [lease EXCEPT ![i] = [owner |-> Nobody, fresh |-> FALSE]] /\ CommandTyped
        BY <1>3, <3>1 DEF CommandInv
      <4>2. Nobody \notin Process
        OBVIOUS
      <4>3. /\ lease' \in [Issue -> [owner : Process \cup {Nobody}, fresh : BOOLEAN]]
            /\ lease'[i].owner = Nobody /\ \A j \in Issue \ {i} : lease'[j] = lease[j]
            /\ \A q \in Process \ {Nobody} : C!Holding(q)' \subseteq C!Holding(q)
        BY <4>1, LeaseMoves
      <4>4. QED
        BY <3>1, <4>2, <4>3
    <3>2. CASE lease[i].owner # p
      BY <1>3, <3>2 DEF CommandInv, CommandTyped, C!Holding
    <3>3. QED
      BY <3>1, <3>2
  <2>3. C!Holding(p)' = {}
    BY <1>0, <1>1, <2>2 DEF Owning, C!Holding
  <2>4. CommandTyped'
    BY <1>1, <2>1, <2>2 DEF CommandInv, CommandTyped
  <2>5. Owning(p)'
    BY <2>1, <2>3 DEF Owning, Holds
  <2>6. ASSUME NEW q \in Process \ {p} PROVE Owning(q)'
    <3>1. Owning(q)
      BY DEF CommandInv
    <3>2. QED
      BY <1>3, <2>1, <2>2, <3>1 DEF Owning, Holds
  <2>7. QED
    BY <1>1, <2>4, <2>5, <2>6 DEF CommandInv
<1>4. QED
  BY <1>0, <1>2, <1>3 DEF C!Release


(* A lease is renewed, or expires.                                          *)
LEMMA LeasesKeep ==
  ASSUME CommandInv, (\E p \in Process : C!Renew(p)) \/ (\E i \in Issue : C!Expire(i))
  PROVE  CommandInv'
<1>1. /\ UNCHANGED <<proc, unsure, root, ws, parked, legacy, texts>> /\ C!TextsKept'
  BY FilesAlone DEF C!Renew, C!Expire, C!Files, CommandInv
<1>2. PICK i \in Issue, fresh \in BOOLEAN :
        /\ lease' = [lease EXCEPT ![i] = [owner |-> lease[i].owner, fresh |-> fresh]]
        /\ \/ \E p \in Process : fresh /\ lease[i].owner = p /\ proc[p].pc = "work" /\ proc[p].issue = i /\ lapsed' = lapsed \ {p}
           \/ ~ fresh /\ lapsed' = lapsed \cup {p \in {lease[i].owner} : p # Nobody}
  <2>1. ASSUME NEW p \in Process, C!Renew(p)
        PROVE  \E i \in Issue : /\ lease' = [lease EXCEPT ![i] = [owner |-> lease[i].owner, fresh |-> TRUE]]
                               /\ lease[i].owner = p /\ proc[p].pc = "work" /\ proc[p].issue = i /\ lapsed' = lapsed \ {p}
    <3>1. PICK i \in Issue : i = proc[p].issue /\ proc[p].pc = "work" /\ lease[i].owner = p
      BY <2>1 DEF C!Renew, C!At, CommandInv, Owning, Holds
    <3>2. lease[i] \in [owner : Process \cup {Nobody}, fresh : BOOLEAN] /\ lease' = [lease EXCEPT ![i].fresh = TRUE]
      BY <2>1, <3>1 DEF C!Renew, CommandInv, CommandTyped
    <3>a. ASSUME NEW l \in [owner : Process \cup {Nobody}, fresh : BOOLEAN],
                 NEW b \in BOOLEAN
          PROVE  [l EXCEPT !.fresh = b] = [owner |-> l.owner, fresh |-> b]
      OBVIOUS
    <3>b. [lease[i] EXCEPT !.fresh = TRUE] = [owner |-> lease[i].owner, fresh |-> TRUE]
      BY <3>2, <3>a
    <3>3. lease' = [lease EXCEPT ![i] = [owner |-> lease[i].owner, fresh |-> TRUE]]
      BY <3>2, <3>b
    <3>4. QED
      BY <2>1, <3>1, <3>3 DEF C!Renew
  <2>2. ASSUME NEW i \in Issue, C!Expire(i)
        PROVE  /\ lease' = [lease EXCEPT ![i] = [owner |-> lease[i].owner, fresh |-> FALSE]]
               /\ lapsed' = lapsed \cup {p \in {lease[i].owner} : p # Nobody}
    <3>1. lease[i] \in [owner : Process \cup {Nobody}, fresh : BOOLEAN] /\ lease' = [lease EXCEPT ![i].fresh = FALSE]
      BY <2>2 DEF C!Expire, CommandInv, CommandTyped
    <3>2. QED
      BY <2>2, <3>1 DEF C!Expire
  <2> DEFINE Renewal(j, f) ==
        /\ lease' = [lease EXCEPT ![j] = [owner |-> lease[j].owner, fresh |-> f]]
        /\ \/ \E p \in Process : f /\ lease[j].owner = p /\ proc[p].pc = "work" /\ proc[p].issue = j /\ lapsed' = lapsed \ {p}
           \/ ~ f /\ lapsed' = lapsed \cup {p \in {lease[j].owner} : p # Nobody}
  <2>3. CASE \E p \in Process : C!Renew(p)
    <3>1. \E j \in Issue : Renewal(j, TRUE)
      BY <2>1, <2>3
    <3>2. QED
      BY <3>1
  <2>4. CASE \E i \in Issue : C!Expire(i)
    <3>1. \E j \in Issue : Renewal(j, FALSE)
      BY <2>2, <2>4
    <3>2. QED
      BY <3>1
  <2>5. QED
    BY <2>3, <2>4
<1>3. lease[i].owner \in Process \cup {Nobody} /\ CommandTyped
  BY DEF CommandInv, CommandTyped
<1>4. /\ lease' \in [Issue -> [owner : Process \cup {Nobody}, fresh : BOOLEAN]]
      /\ lease'[i].owner = lease[i].owner /\ lease'[i].fresh = fresh /\ \A j \in Issue \ {i} : lease'[j] = lease[j]
  BY <1>2, <1>3, LeaseMoves
<1>5. \A q : C!Holding(q)' = C!Holding(q)
  BY <1>4 DEF C!Holding
<1>6. CommandTyped'
  BY <1>1, <1>4 DEF CommandInv, CommandTyped
<1>7. ASSUME NEW q \in Process PROVE Owning(q)'
  <2>1. Owning(q) /\ q # Nobody
    BY DEF CommandInv
  <2>2. CASE \E p \in Process : fresh /\ lease[i].owner = p /\ proc[p].pc = "work" /\ proc[p].issue = i /\ lapsed' = lapsed \ {p}
    BY <1>1, <1>4, <1>5, <2>1, <2>2 DEF Owning, Holds
  <2>3. CASE ~ fresh /\ lapsed' = lapsed \cup {p \in {lease[i].owner} : p # Nobody}
    BY <1>1, <1>4, <1>5, <2>1, <2>3 DEF Owning, Holds
  <2>4. QED
    BY <1>2, <2>2, <2>3
<1>8. QED
  BY <1>1, <1>6, <1>7 DEF CommandInv

(* What Move leaves under a target that is not occupied.                    *)
LEMMA MoveKeeps ==
  ASSUME NEW store \in SUBSET C!Parked, NEW a \in Artifact, NEW b \in Artifact, ~ C!Occupied(store, a, b)
  PROVE  /\ C!Move(store, a, b) \in SUBSET C!Parked
         /\ \A o \in store : \E t \in C!Move(store, a, b) : t.text = o.text
         /\ \E t \in C!Move(store, a, b) : t.text = b.text
<1>00. C!Aside(a, b) \in C!Parked
  <2>1. C!Aside(a, b) \in {C!Aside(x, y) : x \in Artifact, y \in Artifact}
    OBVIOUS
  <2>2. QED
    BY <2>1 DEF C!Parked
<1>b. C!Aside(a, b).text = b.text
  BY DEF C!Aside
<1>c. C!Aside(a, b) \in C!Move(store, a, b)
  BY DEF C!Move
<1>1. C!Aside(a, b) \in C!Parked /\ C!Aside(a, b).text = b.text /\ C!Aside(a, b) \in C!Move(store, a, b)
  BY <1>00, <1>b, <1>c
<1>2. \A o \in store : o \in C!Move(store, a, b) \/ o.text = b.text
  BY DEF C!Occupied, C!Move
<1>3. C!Move(store, a, b) \in SUBSET C!Parked
  BY <1>1 DEF C!Move
<1>4. QED
  BY <1>1, <1>2, <1>3

(* An artifact another issue left is moved aside, or not.                   *)
LEMMA AsideKeeps ==
  ASSUME CommandInv, NEW p \in Process, C!MoveInherited(p) \/ C!MoveLegacy(p)
  PROVE  CommandInv'
<1>1. /\ proc[p] \in ProcessState /\ proc \in [Process -> ProcessState] /\ Holds(p) /\ Owning(p)
      /\ lease' = lease /\ lapsed' = lapsed /\ unsure' = unsure
  BY DEF C!MoveInherited, C!MoveLegacy, C!At, Holds, C!Leases, CommandInv, CommandTyped
<1>2. ASSUME NEW a \in proc[p].todo, proc' = [proc EXCEPT ![p].todo = @ \ {a}], C!TextsKept',
             root' \subseteq Artifact, ws' \in [Issue -> SUBSET Artifact], parked' \in [Issue -> SUBSET C!Parked],
             legacy' \subseteq C!Parked, proc[p].pc \in {"inherit", "legacy"}
      PROVE  CommandInv'
  <2> DEFINE r == [proc[p] EXCEPT !.todo = @ \ {a}]
  <2>1. r \in ProcessState /\ r.pc = proc[p].pc /\ r.issue = proc[p].issue
    BY <1>1 DEF ProcessState
  <2>2. proc' = [proc EXCEPT ![p] = r]
    BY <1>1, <1>2
  <2> HIDE DEF r
  <2>3. QED
    BY <1>1, <1>2, <2>1, <2>2, GoesOn
<1>3. ASSUME C!Undo(p), UNCHANGED C!Files PROVE CommandInv'
  BY <1>1, <1>3, GotoKeeps DEF C!Undo, C!Steps, C!Files
<1>4. /\ root \subseteq Artifact /\ ws \in [Issue -> SUBSET Artifact] /\ parked \in [Issue -> SUBSET C!Parked]
      /\ legacy \subseteq C!Parked /\ C!TextsKept /\ proc[p].todo \in SUBSET Artifact
  BY <1>1 DEF CommandInv, CommandTyped, ProcessState
<1>5. CASE C!MoveInherited(p)
  <2>1. PICK i \in Issue : i = proc[p].issue
    BY <1>1 DEF Owning
  <2>2. proc[p].pc = "inherit"
    BY <1>5 DEF C!MoveInherited, C!At
  <2>3. ASSUME NEW a \in proc[p].todo, a \in ws[i], ~ C!Occupied(parked[i], a, a),
               parked' = [parked EXCEPT ![i] = C!Move(@, a, a)], ws' = [ws EXCEPT ![i] = @ \ {a}],
               UNCHANGED <<root, legacy, texts>>
        PROVE  C!TextsKept' /\ ws' \in [Issue -> SUBSET Artifact] /\ parked' \in [Issue -> SUBSET C!Parked]
    <3> DEFINE store == C!Move(parked[i], a, a)
    <3>1. /\ store \in SUBSET C!Parked
          /\ \A o \in parked[i] : \E t \in store : t.text = o.text
          /\ \E t \in store : t.text = a.text
      BY <1>4, <2>3, MoveKeeps
    <3> HIDE DEF store
    <3>2. /\ parked' \in [Issue -> SUBSET C!Parked] /\ parked'[i] = store /\ \A j \in Issue \ {i} : parked'[j] = parked[j]
      BY <1>4, <2>3, <3>1 DEF store
    <3>3. /\ ws' \in [Issue -> SUBSET Artifact] /\ ws'[i] = ws[i] \ {a} /\ \A j \in Issue \ {i} : ws'[j] = ws[j]
      BY <1>4, <2>3
    <3>4. \A j \in Issue : \A t \in ws[j] \cup parked[j] : \E u \in ws'[j] \cup parked'[j] : u.text = t.text
      BY <3>1, <3>2, <3>3
    <3>5. C!TextsKept'
      BY <1>4, <2>3, <3>4 DEF C!TextsKept
    <3>6. QED
      BY <3>2, <3>3, <3>5
  <2>4. QED
    BY <1>2, <1>3, <1>4, <1>5, <2>1, <2>2, <2>3, FilesAlone DEF C!MoveInherited, C!Files
<1>6. CASE C!MoveLegacy(p)
  <2>1. proc[p].pc = "legacy"
    BY <1>6 DEF C!MoveLegacy, C!At
  <2>2. ASSUME NEW a \in proc[p].todo, NEW b \in root, ~ C!Occupied(legacy, a, b),
               legacy' = C!Move(legacy, a, b), root' = root \ {b}, UNCHANGED <<ws, parked, texts>>
        PROVE  C!TextsKept' /\ legacy' \subseteq C!Parked
    <3>0. legacy' \subseteq C!Parked
      BY <1>4, <2>2, MoveKeeps
    <3>1. /\ \A o \in legacy : \E t \in legacy' : t.text = o.text
          /\ \E t \in legacy' : t.text = b.text
      BY <1>4, <2>2, MoveKeeps
    <3>2. \A t \in root \cup legacy : \E u \in root' \cup legacy' : u.text = t.text
      BY <2>2, <3>1
    <3>3. QED
      BY <1>4, <2>2, <3>0, <3>2 DEF C!TextsKept
  <2>3. QED
    BY <1>2, <1>3, <1>4, <1>6, <2>1, <2>2 DEF C!MoveLegacy
<1>7. QED
  BY <1>5, <1>6

(* The worker writes a plan, or somebody leaves an artifact.                *)
LEMMA WritesKeep ==
  ASSUME CommandInv, (\E p \in Process : C!WritePlan(p)) \/ C!LeaveInRoot
  PROVE  CommandInv'
<1>1. UNCHANGED <<proc, parked, legacy>> /\ lease' = lease /\ lapsed' = lapsed /\ unsure' = unsure
  BY DEF C!WritePlan, C!LeaveInRoot, C!Leases
<1>2. \A p \in Process : Owning(p)'
  BY <1>1 DEF CommandInv, Owning, Holds, C!Holding
<1>3. CASE C!LeaveInRoot
  BY <1>1, <1>2, <1>3 DEF C!LeaveInRoot, C!Write, CommandInv, CommandTyped, C!TextsKept
<1>4. ASSUME NEW p \in Process, C!WritePlan(p)
      PROVE  CommandInv'
  <2>1. PICK i \in Issue : i = proc[p].issue
    BY <1>4 DEF C!WritePlan, C!At, CommandInv, Owning, Holds
  <2>2. PICK a \in Artifact : texts' = texts \cup {a} /\ ws' = [ws EXCEPT ![i] = @ \cup {a}]
    BY <1>4, <2>1 DEF C!WritePlan, C!Write
  <2>3. /\ ws' \in [Issue -> SUBSET Artifact] /\ ws'[i] = ws[i] \cup {a} /\ \A j \in Issue \ {i} : ws'[j] = ws[j]
    BY <2>2 DEF CommandInv, CommandTyped
  <2>4. root' = root
    BY <1>4 DEF C!WritePlan
  <2>5. CommandTyped'
    BY <1>1, <2>3, <2>4 DEF CommandInv, CommandTyped
  <2>6. C!TextsKept'
    BY <1>1, <2>2, <2>3, <2>4 DEF CommandInv, C!TextsKept
  <2>7. QED
    BY <1>2, <2>5, <2>6 DEF CommandInv
<1>5. QED
  BY <1>3, <1>4

(* Every step keeps the invariant.                                          *)
LEMMA CommandStep == CommandInv /\ [C!Next]_command => CommandInv'
<1> SUFFICES ASSUME CommandInv, [C!Next]_command PROVE CommandInv'
  OBVIOUS
<1>1. CASE UNCHANGED command
  BY <1>1 DEF command, CommandInv, CommandTyped, Owning, Holds, C!Holding, C!TextsKept
<1>2. CASE C!Next
  BY <1>2, MovesKeep, ClaimKeeps, ReleaseKeeps, LeasesKeep, AsideKeeps, WritesKeep DEF C!Next
<1>3. QED
  BY <1>1, <1>2

(* The invariant says what the property says.                               *)
LEMMA ScopeKept == CommandInv => ScopedWork
<1> SUFFICES ASSUME CommandInv PROVE ScopedWork
  OBVIOUS
<1>1. ASSUME NEW p \in Process, NEW q \in Process, p # q, C!At(p, "work"), C!At(q, "work"), proc[p].issue = proc[q].issue
      PROVE  lapsed \cap {p, q} # {}
  BY <1>1 DEF CommandInv, Owning, Holds, C!At
<1>2. \A p \in Process : C!At(p, "over") => C!Holding(p) = {} \/ p \in unsure
  BY DEF CommandInv, Owning, C!At
<1>3. QED
  BY <1>1, <1>2 DEF ScopedWork, C!ScopedWork, CommandInv

(* Two processes work on one issue only when the lease of one ran out; who  *)
(* has none, or is through, holds no lease unless a call failed or it was   *)
(* killed; and the text of every artifact is still somewhere                *)
(* (runIssueScopedPrompt of commands.ts, coordination/cli.ts): for any      *)
(* commands and harnesses, issues, artifacts and attempts.                  *)
THEOREM WorkIsScoped == EitherSpec => []ScopedWork
<1>1. EitherInit => CommandInv
  BY CommandBegin DEF EitherInit
<1>2. CommandInv /\ [EitherNext]_allVars => CommandInv'
  BY CommandStep, CommandSteps
<1>3. QED
  BY <1>1, <1>2, ScopeKept, PTL DEF EitherSpec


-----------------------------------------------------------------------------
(* The event stream of a worker.                                            *)

USE DEF T!StreamAssumption

(* What the buffer is bound to hold: a line and one more read.              *)
Fits(l) == (l.end - l.first) + MaxChunk <= MaxPending

StreamTyped ==
  /\ lines \subseteq [first : Nat \ {0}, end : Nat \ {0}] /\ written \in Nat
  /\ pending \in [from : Nat, to : Nat] /\ parsed \subseteq lines

(* Lines lie behind one another in what was written.                        *)
Laid ==
  /\ \A l \in lines : l.first <= l.end /\ l.end <= written
  /\ \A k, l \in lines : k.end < l.end => k.end < l.first

(* The buffer has the beginning of every line not received yet that fits.   *)
Buffered ==
  /\ pending.from <= pending.to /\ pending.to <= written
  /\ \A l \in lines : Fits(l) /\ pending.to < l.end => pending.from < l.first

StreamInv == StreamTyped /\ Laid /\ Buffered /\ LinesParsed

(* A step of the system is one of the stream, or does not touch it.         *)
LEMMA StreamSteps == [EitherNext]_allVars => [T!Next]_stream
  BY DEF EitherNext, allVars, text, stream, T!vars

LEMMA StreamBegin == T!Init => StreamInv
  BY DEF T!Init, StreamInv, StreamTyped, Laid, Buffered, LinesParsed, T!LinesParsed

(* A set of naturals has a least element, the module's induction says.      *)
LEMMA Least ==
  ASSUME NEW S \in SUBSET Nat, S # {}
  PROVE  \E n \in S : \A m \in S : n <= m
<1> DEFINE Less == {pair \in Nat \X Nat : pair[1] < pair[2]}
<1>1. IsWellFoundedOn(Less, Nat)
  BY NatLessThanWellFounded DEF OpToRel
<1>2. PICK n \in S : \A m \in S : ~ (<<m, n>> \in Less)
  <2> HIDE DEF Less
  <2>1. QED
    BY <1>1, WFMin
<1>3. \A m \in S : ~ (m < n) /\ m \in Nat /\ n \in Nat
  BY <1>2
<1> HIDE DEF Less
<1>4. QED
  BY <1>3

(* One that is bounded has a greatest, which Max returns.                   *)
LEMMA Greatest ==
  ASSUME NEW S \in SUBSET Nat, S # {}, NEW n \in Nat, \A x \in S : x <= n
  PROVE  T!Max(S) \in S /\ \A x \in S : x <= T!Max(S)
<1> DEFINE Bounds == {b \in Nat : \A x \in S : x <= b}
<1>1. PICK b \in Bounds : \A c \in Bounds : b <= c
  BY Least
<1>2. b \in S
  <2>1. CASE \A x \in S : x < b
    <3>0. PICK x \in S : x \in Nat /\ b \in Nat
      BY <1>1
    <3>1. b \in Nat /\ b > 0
      BY <2>1, <3>0
    <3>2. b - 1 \in Bounds /\ ~ (b <= b - 1)
      BY <2>1, <3>1
    <3>3. QED
      BY <1>1, <3>2
  <2>2. QED
    BY <1>1, <2>1
<1>3. \E x \in S : \A y \in S : x >= y
  BY <1>1, <1>2
<1>4. T!Max(S) \in S /\ \A y \in S : T!Max(S) >= y
  BY <1>3 DEF T!Max
<1>5. QED
  BY <1>4

(* The worker writes a line.                                                *)
LEMMA WriteKeeps == StreamInv /\ T!Write => StreamInv'
<1> SUFFICES ASSUME StreamInv, T!Write PROVE StreamInv'
  OBVIOUS
<1>1. PICK n \in Length : /\ lines' = lines \cup {[first |-> written + 1, end |-> written + n + 1]}
                          /\ written' = written + n + 1
  BY DEF T!Write
<1>2. n \in Nat /\ written \in Nat /\ UNCHANGED <<pending, parsed>>
  BY StoresAssumption DEF T!Write, StreamInv, StreamTyped
<1>3. PICK l \in [first : Nat \ {0}, end : Nat \ {0}] :
        l = [first |-> written + 1, end |-> written + n + 1]
  <2>1. written + 1 \in Nat \ {0} /\ written + n + 1 \in Nat \ {0}
    BY <1>2
  <2>2. QED
    BY <2>1
<1>4. l.first = written + 1 /\ l.end = written + n + 1 /\ lines' = lines \cup {l}
  BY <1>1, <1>3
<1>5. /\ pending.from \in Nat /\ pending.to \in Nat
      /\ \A k \in lines : k.first \in Nat /\ k.end \in Nat
  BY DEF StreamInv, StreamTyped
<1>6. StreamTyped'
  BY <1>1, <1>2, <1>4 DEF StreamInv, StreamTyped
<1>7. Laid'
  BY <1>1, <1>2, <1>4, <1>5 DEF StreamInv, Laid
<1>8. Buffered'
  BY <1>1, <1>2, <1>4, <1>5 DEF StreamInv, Buffered, Fits
<1>9. LinesParsed'
  BY <1>2, <1>4, <1>5 DEF StreamInv, Buffered, LinesParsed, T!LinesParsed
<1>10. QED
  BY <1>6, <1>7, <1>8, <1>9 DEF StreamInv

(* A chunk arrives: what it completes was buffered, and what is left of the *)
(* buffer begins before every line still to come.                           *)
LEMMA PushKeeps == StreamInv /\ T!Push => StreamInv'
<1> SUFFICES ASSUME StreamInv, T!Push PROVE StreamInv'
  OBVIOUS
<1>1. /\ MaxChunk \in Nat /\ MaxPending \in Nat /\ MaxChunk <= MaxPending
      /\ written \in Nat /\ pending.from \in Nat /\ pending.to \in Nat /\ pending.from <= pending.to
      /\ \A l \in lines : l.first \in Nat /\ l.end \in Nat /\ l.first <= l.end
      /\ UNCHANGED <<lines, written>>
  BY StoresAssumption DEF T!Push, StreamInv, StreamTyped, Laid, Buffered
<1>2. PICK n \in 1 .. MaxChunk : LET to == pending.to + n
                                     from == T!Trimmed(pending.from, to)
                                 IN /\ to <= written
                                    /\ parsed' = parsed \cup T!Whole(from, to)
                                    /\ pending' = [from |-> T!Max({from} \cup T!Newlines(from, to)), to |-> to]
  BY DEF T!Push
<1>3. PICK to \in Nat : to = pending.to + n
  BY <1>1
<1>4. PICK from \in Nat : from = T!Trimmed(pending.from, to)
  BY <1>1, <1>3 DEF T!Trimmed
<1>5. from <= to /\ \A l \in lines : Fits(l) /\ pending.to < l.end => from < l.first
  BY <1>1, <1>2, <1>3, <1>4 DEF T!Trimmed, StreamInv, Buffered, Fits
<1>6. PICK S \in SUBSET Nat : S = {from} \cup T!Newlines(from, to)
  BY <1>1 DEF T!Newlines
<1>7. \A x \in S : x <= to /\ (x = from \/ \E k \in lines : x = k.end)
  BY <1>5, <1>6 DEF T!Newlines
<1>8. PICK top \in S : top = T!Max(S)
  BY <1>6, <1>7, Greatest
<1>9. /\ to <= written /\ parsed' = parsed \cup T!Whole(from, to)
      /\ pending' = [from |-> top, to |-> to] /\ top \in Nat
  BY <1>2, <1>3, <1>4, <1>6, <1>8
<1>10. StreamTyped'
  BY <1>1, <1>9 DEF StreamInv, StreamTyped, T!Whole
<1>11. Laid'
  BY <1>1 DEF StreamInv, Laid
<1>12. Buffered'
  <2>1. ASSUME NEW l \in lines, Fits(l), to < l.end
        PROVE  top < l.first
    <3>1. CASE top = from
      BY <1>1, <1>2, <1>3, <1>5, <2>1, <3>1
    <3>2. CASE \E k \in lines : top = k.end
      BY <1>1, <1>7, <1>8, <1>9, <2>1, <3>2 DEF StreamInv, Laid
    <3>3. QED
      BY <1>7, <1>8, <3>1, <3>2
  <2>2. QED
    BY <1>1, <1>7, <1>8, <1>9, <2>1 DEF Buffered, Fits
<1>13. LinesParsed'
  <2>1. ASSUME NEW l \in lines, l.end <= to, Fits(l)
        PROVE  l \in parsed'
    <3>1. CASE l.end <= pending.to
      BY <1>9, <2>1, <3>1 DEF StreamInv, LinesParsed, T!LinesParsed, Fits
    <3>2. CASE pending.to < l.end
      BY <1>5, <1>9, <2>1, <3>2 DEF T!Whole
    <3>3. QED
      BY <1>1, <2>1, <3>1, <3>2
  <2>2. QED
    BY <1>1, <1>9, <2>1 DEF LinesParsed, T!LinesParsed, Fits
<1>14. QED
  BY <1>10, <1>11, <1>12, <1>13 DEF StreamInv

(* Every step keeps the invariant.                                          *)
LEMMA StreamStep == StreamInv /\ [T!Next]_stream => StreamInv'
<1> SUFFICES ASSUME StreamInv, [T!Next]_stream PROVE StreamInv'
  OBVIOUS
<1>1. CASE UNCHANGED stream
  BY <1>1 DEF stream, StreamInv, StreamTyped, Laid, Buffered, Fits, LinesParsed, T!LinesParsed
<1>2. CASE T!Finish
  <2>1. UNCHANGED <<lines, written, pending>> /\ parsed \subseteq parsed' /\ parsed' \subseteq lines
    BY <1>2 DEF T!Finish, StreamInv, StreamTyped
  <2>2. QED
    BY <2>1 DEF StreamInv, StreamTyped, Laid, Buffered, Fits, LinesParsed, T!LinesParsed
<1>3. QED
  BY <1>1, <1>2, WriteKeeps, PushKeeps DEF T!Next

(* However the pipe cuts the stream of a worker, every line received with   *)
(* its newline has been parsed, unless it and one more read do not fit the  *)
(* buffer (worker-telemetry.ts, worker-activity.ts): for lines of any       *)
(* lengths, any number of them, and any sizes of a read and of the buffer.  *)
THEOREM LinesAreParsed == EitherSpec => []LinesParsed
<1>1. EitherInit => StreamInv
  BY StreamBegin DEF EitherInit
<1>2. StreamInv /\ [EitherNext]_allVars => StreamInv'
  BY StreamStep, StreamSteps
<1>3. StreamInv => LinesParsed
  BY DEF StreamInv
<1>4. QED
  BY <1>1, <1>2, <1>3, PTL DEF EitherSpec

-----------------------------------------------------------------------------
(* The checks of an issue.                                                  *)

USE DEF V!VerificationAssumption

AnyComment ==
  {V!Pending(s) : s \in Nat} \cup {V!Result(s, r) : s \in Nat, r \in {"passed", "failed"}}
IssueRead == [open : BOOLEAN, thread : Seq(AnyComment)]
Finalizing ==
  [at : {"merge", "fence", "mark", "post", "close", "clean"}, gate : {"clear", "pending"},
   first : IssueRead, read : IssueRead, sha : Nat]

ChecksTyped == head \in Nat /\ issue \in IssueRead /\ finalizer \in Finalizing \cup {V!Idle}

(* A run goes on to close with what it read at first, which was fit to be   *)
(* closed.                                                                  *)
Informed ==
  /\ finalizer.at \in {"merge", "fence"} =>
       V!Readable(finalizer.first.thread) /\ finalizer.gate = V!Gate(finalizer.first.thread)
  /\ finalizer.at = "close" => V!Settled(finalizer.read.thread)

ChecksInv == ChecksTyped /\ Informed

LEMMA ChecksSteps == [EitherNext]_allVars => [V!Next]_thread
BY DEF EitherNext, allVars

LEMMA ChecksBegin == V!Init => ChecksInv
<1> SUFFICES ASSUME V!Init PROVE ChecksInv
  OBVIOUS
<1>1. <<>> \in Seq(AnyComment)
  BY EmptySeq
<1>2. issue \in IssueRead
  BY <1>1 DEF V!Init, IssueRead
<1>3. QED
  BY <1>2 DEF V!Init, ChecksInv, ChecksTyped, Informed, V!Idle

(* Where markers and results all agree, nothing pending is settled.         *)
LEMMA ClearIsSettled ==
  ASSUME NEW t \in Seq(AnyComment), V!Readable(t), V!Gate(t) = "clear"
  PROVE  V!Settled(t)
<1>1. V!ToSet(t) \subseteq AnyComment
  <2>1. DOMAIN t = 1 .. Len(t) /\ \A m \in 1 .. Len(t) : t[m] \in AnyComment
    BY LenProperties, ElementOfSeq
  <2>2. QED
    BY <2>1 DEF V!ToSet
<1> SUFFICES ASSUME NEW p \in V!Marked(t, "pending")
             PROVE  V!Result(p.sha, "passed") \in V!ToSet(t) /\ V!Result(p.sha, "failed") \notin V!ToSet(t)
  BY DEF V!Settled
<1>2. /\ ~ V!Awaiting(V!Marked(t, "pending"), V!Marked(t, "result"))
      /\ "failed" \notin {r.status : r \in V!Marked(t, "result")}
  <2>1. V!Marked(t, "pending") # {}
    OBVIOUS
  <2>2. QED
    BY <2>1 DEF V!Gate
<1>3. PICK q \in V!Marked(t, "pending"), r \in V!Marked(t, "result") : q.sha = r.sha
  BY <1>2 DEF V!Awaiting
<1>4. q = p /\ p \in V!ToSet(t) /\ r \in V!ToSet(t) /\ r.kind = "result"
  BY <1>3 DEF V!Readable, V!Marked
<1>5. PICK s \in Nat, v \in {"passed", "failed"} : r = V!Result(s, v)
  BY <1>1, <1>4 DEF AnyComment, V!Pending, V!Result
<1>6. r.status # "failed"
  BY <1>2, <1>3
<1>7. r = V!Result(p.sha, "passed")
  BY <1>3, <1>4, <1>5, <1>6 DEF V!Result
<1>8. \A c \in V!ToSet(t) : c.kind = "result" => c = r
  BY <1>4 DEF V!Readable
<1>9. V!Result(p.sha, "failed") \notin V!ToSet(t)
  <2>1. V!Result(p.sha, "failed").kind = "result" /\ V!Result(p.sha, "failed").status = "failed"
    BY DEF V!Result
  <2>2. QED
    BY <1>6, <1>8, <2>1
<1>10. QED
  BY <1>4, <1>7, <1>9

LEMMA Gates ==
  ASSUME NEW t
  PROVE  V!Gate(t) \in {"clear", "pending", "failed"}
BY DEF V!Gate

(* A comment is added.                                                      *)
LEMMA Commented ==
  ASSUME issue \in IssueRead, NEW c \in AnyComment
  PROVE  [issue EXCEPT !.thread = Append(@, c)] \in IssueRead
<1>1. Append(issue.thread, c) \in Seq(AnyComment)
  BY AppendProperties DEF IssueRead
<1>2. QED
  BY <1>1 DEF IssueRead

LEMMA ChecksStep == ChecksInv /\ [V!Next]_thread => ChecksInv'
<1> SUFFICES ASSUME ChecksInv, [V!Next]_thread PROVE ChecksInv'
  OBVIOUS
<1> USE DEF ChecksInv, ChecksTyped
<1>1. CASE UNCHANGED thread
  BY <1>1 DEF thread, Informed
<1>2. CASE V!Ask \/ V!Answer
  <2>1. PICK c \in AnyComment : V!Post(c)
    <3>1. CASE V!Ask
      BY <3>1 DEF V!Ask, AnyComment
    <3>2. CASE V!Answer
      BY <3>2 DEF V!Answer, AnyComment
    <3>3. QED
      BY <1>2, <3>1, <3>2
  <2>2. issue' \in IssueRead /\ UNCHANGED <<head, finalizer>>
    BY <2>1, Commented DEF V!Post
  <2>3. QED
    BY <2>2 DEF Informed
<1>3. CASE V!Advance
  BY <1>3 DEF V!Advance, Informed
<1>4. CASE V!Reimplement
  BY <1>4 DEF V!Reimplement, Informed
<1>5. CASE V!Begin
  <2>1. head' = head /\ issue' = issue
    BY <1>5 DEF V!Begin
  <2>2. \/ finalizer' = V!Idle
        \/ /\ V!Readable(issue.thread) /\ V!Gate(issue.thread) # "failed"
           /\ finalizer' = [at |-> "merge", gate |-> V!Gate(issue.thread), first |-> issue, read |-> issue, sha |-> 0]
        \/ /\ V!Readable(issue.thread) /\ V!Gate(issue.thread) = "clear"
           /\ finalizer' = [at |-> "close", gate |-> V!Gate(issue.thread), first |-> issue, read |-> issue, sha |-> 0]
    BY <1>5 DEF V!Begin
  <2>3. V!Readable(issue.thread) /\ V!Gate(issue.thread) = "clear" => V!Settled(issue.thread)
    BY ClearIsSettled DEF IssueRead
  <2>4. QED
    BY <2>1, <2>2, <2>3, Gates DEF Informed, V!Idle, Finalizing
<1>6. CASE V!Integrate
  <2>1. head' \in Nat /\ issue' = issue /\ finalizer.at = "merge"
        /\ finalizer' = [finalizer EXCEPT !.at = "fence", !.sha = head']
    BY <1>6 DEF V!Integrate
  <2>2. finalizer \in Finalizing
    BY <2>1 DEF V!Idle
  <2>3. finalizer' \in Finalizing /\ finalizer'.at = "fence" /\ finalizer'.first = finalizer.first /\ finalizer'.gate = finalizer.gate
    BY <2>1, <2>2 DEF Finalizing
  <2>4. QED
    BY <2>1, <2>3 DEF Informed
<1>7. CASE V!Fence
  <2>1. UNCHANGED <<head, issue>> /\ finalizer.at = "fence"
    BY <1>7 DEF V!Fence
  <2>2. finalizer \in Finalizing
    BY <2>1 DEF V!Idle
  <2>3. CASE finalizer' = V!Idle
    BY <2>1, <2>3 DEF Informed, V!Idle
  <2>4. CASE finalizer' # V!Idle
    <3>1. PICK a \in {"clean", "mark", "close"} :
            /\ finalizer' = [finalizer EXCEPT !.at = a, !.read = issue]
            /\ a = "close" => issue = finalizer.first /\ finalizer.gate # "pending"
      BY <1>7, <2>4 DEF V!Fence
    <3>2. finalizer' \in Finalizing /\ finalizer'.at = a /\ finalizer'.read = issue
      BY <2>2, <3>1 DEF Finalizing
    <3>3. a = "close" => V!Settled(issue.thread)
      <4>1. a = "close" => V!Readable(issue.thread) /\ V!Gate(issue.thread) = "clear"
        BY <2>1, <2>2, <3>1 DEF Informed, Finalizing
      <4>2. QED
        BY <4>1, ClearIsSettled DEF IssueRead
    <3>4. QED
      BY <2>1, <3>2, <3>3 DEF Informed
  <2>5. QED
    BY <2>3, <2>4
<1>8. CASE V!Mark
  <2>1. UNCHANGED <<head, issue>> /\ finalizer.at = "mark"
    BY <1>8 DEF V!Mark
  <2>2. finalizer \in Finalizing
    BY <2>1 DEF V!Idle
  <2>3. finalizer' = V!Idle \/ \E a \in {"clean", "post"} : finalizer' = [finalizer EXCEPT !.at = a, !.read = issue]
    BY <1>8 DEF V!Mark
  <2>4. finalizer' = V!Idle \/ (finalizer' \in Finalizing /\ finalizer'.at \in {"clean", "post"})
    BY <2>2, <2>3 DEF Finalizing
  <2>5. QED
    BY <2>1, <2>4 DEF Informed, V!Idle
<1>9. CASE V!PostMarker \/ V!Close
  <2>1. head' = head /\ finalizer.at \in {"post", "close"}
        /\ (finalizer' = V!Idle \/ finalizer' = [finalizer EXCEPT !.at = "clean"])
    BY <1>9 DEF V!PostMarker, V!Close
  <2>2. finalizer \in Finalizing
    BY <2>1 DEF V!Idle
  <2>3. issue' \in IssueRead
    <3>1. CASE V!PostMarker
      <4>1. V!Pending(finalizer.sha) \in AnyComment
        BY <2>2 DEF Finalizing, AnyComment
      <4>2. QED
        BY <3>1, <4>1, Commented DEF V!PostMarker
    <3>2. CASE V!Close
      BY <3>2 DEF V!Close, IssueRead
    <3>3. QED
      BY <1>9, <3>1, <3>2
  <2>4. finalizer' = V!Idle \/ (finalizer' \in Finalizing /\ finalizer'.at = "clean")
    BY <2>1, <2>2 DEF Finalizing
  <2>5. QED
    BY <2>1, <2>3, <2>4 DEF Informed, V!Idle
<1>10. CASE V!Clean \/ V!GiveUp
  BY <1>10 DEF V!Clean, V!GiveUp, Informed, V!Idle
<1>11. QED
  BY <1>1, <1>2, <1>3, <1>4, <1>5, <1>6, <1>7, <1>8, <1>9, <1>10 DEF V!Next

(* Only a run closes the issue.                                             *)
LEMMA RunsClose ==
  ASSUME [V!Next]_thread, issue.open, ~ issue'.open, ChecksInv
  PROVE  V!Close
<1>1. \A c : [issue EXCEPT !.thread = Append(@, c)].open = issue.open
  BY DEF ChecksInv, ChecksTyped, IssueRead
<1>2. issue' # issue
  OBVIOUS
<1>3. QED
  BY <1>1, <1>2 DEF thread, V!Next, V!Ask, V!Answer, V!Post, V!Advance, V!Reimplement, V!Begin, V!Integrate, V!Fence,
                    V!Mark, V!PostMarker, V!Clean, V!GiveUp

(* An issue is closed by a run that last read it, after the integration or  *)
(* with nothing to integrate, when every revision to be checked had passed  *)
(* with no result to the contrary, whatever people and pipelines ask and    *)
(* answer and wherever runs fail (bootstrap-finalize.ts, work-authority.ts): *)
(* for any revisions of main, comments and runs.                            *)
THEOREM ClosedWhenSettled == EitherSpec => ClosedSettled
<1>1. EitherInit => ChecksInv
  BY ChecksBegin DEF EitherInit
<1>2. ChecksInv /\ [EitherNext]_allVars => ChecksInv'
  BY ChecksStep, ChecksSteps
<1>3. ASSUME ChecksInv, [EitherNext]_allVars, issue.open, ~ issue'.open
      PROVE  finalizer.at = "close" /\ V!Settled(finalizer.read.thread)
  <2>1. V!Close
    BY <1>3, ChecksSteps, RunsClose
  <2>2. QED
    BY <1>3, <2>1 DEF V!Close, ChecksInv, Informed
<1>4. ChecksInv /\ [EitherNext]_allVars =>
        [issue.open /\ ~ issue'.open => finalizer.at = "close" /\ V!Settled(finalizer.read.thread)]_(V!vars)
  BY <1>3
<1>5. QED
  BY <1>1, <1>2, <1>4, PTL DEF EitherSpec, ClosedSettled, V!ClosedSettled

-----------------------------------------------------------------------------
(* The skill packs.                                                         *)

HIDE WorktreeAssumption DEF WorktreeAssumption, V!VerificationAssumption, C!CommandAssumption, T!StreamAssumption
USE DEF K!SkillsAssumption

SyncOpening == [at : {"source"}, source : Source, pinned : [Source -> Revision], local : SUBSET Local]
SyncWriting ==
  [at : {"copy", "remove", "mark"}, source : Source, pinned : [Source -> Revision], local : SUBSET Local,
   todo : SUBSET K!File, old : SUBSET K!File]

PacksTyped ==
  /\ manifest \in [Source -> Revision] /\ disk \in [Source -> [K!File -> K!Content]]
  /\ DOMAIN marker = Source /\ \A s \in Source : marker[s].revision \in Revision \cup {"none", "torn"}
  /\ sync \in {K!Idle} \cup SyncOpening \cup SyncWriting
  /\ used \in [edits : Nat, manifests : Nat, kills : Nat]
  /\ ghost \in [raced : SUBSET (Source \X K!File), local : SUBSET Source]

Raced(s, f) == <<s, f>> \in ghost.raced
Unmanaged(s, f) == K!Marked(marker[s]) /\ f \notin K!Managed(marker[s])

(* What a copy of a file is once the sync is done with it, the checkout of  *)
(* its source being local or not.                                           *)
Kept(s, f, content, v, local) == content = v \/ Raced(s, f) \/ (s \in local /\ content = "local")

(* A marker manages what the allowlist of its revision names, and hashes    *)
(* what was copied, or what somebody made of it during the sync.            *)
Hashed(s) ==
  K!Marked(marker[s]) =>
    /\ K!Managed(marker[s]) = Allowed[marker[s].revision]
    /\ \A f \in K!Managed(marker[s]) : Kept(s, f, marker[s].hash[f], marker[s].revision, ghost.local)

(* A sync has copied what is not left to do, and what it will replace or    *)
(* remove was not edited but for files that nobody managed.                 *)
Writing ==
  sync.at \in {"copy", "remove", "mark"} =>
    LET s == sync.source
        wanted == Allowed[sync.pinned[s]] IN
    /\ sync.todo \subseteq wanted /\ sync.old \cap wanted = {}
    /\ sync.at = "copy" <=> sync.todo # {}
    /\ \A f \in wanted \ sync.todo : Kept(s, f, disk[s][f], sync.pinned[s], sync.local)
    /\ \A f \in sync.todo : disk[s][f] = "edited" => Raced(s, f) \/ Unmanaged(s, f)
    /\ sync.at # "mark" => \A f \in sync.old : disk[s][f] = "edited" => Raced(s, f) \/ Unmanaged(s, f)

PacksInv == PacksTyped /\ (\A s \in Source : Hashed(s)) /\ Writing

LEMMA PacksSteps == [EitherNext]_allVars => [K!Next]_packs
BY DEF EitherNext, allVars

LEMMA FilesAre == \A v \in Revision : Allowed[v] \in SUBSET K!File /\ Allowed[v] # {} /\ K!File \subseteq Nat
BY DEF K!File

LEMMA PacksBegin == K!Init => PacksInv
<1> SUFFICES ASSUME K!Init PROVE PacksInv
  OBVIOUS
<1>1. PacksTyped
  BY DEF K!Init, PacksTyped, K!Content, K!NoMarker
<1>2. \A s \in Source : ~ K!Marked(marker[s])
  BY DEF K!Init, K!Marked, K!NoMarker
<1>3. sync.at = "idle"
  BY DEF K!Init, K!Idle
<1>4. QED
  BY <1>1, <1>2, <1>3 DEF PacksInv, Hashed, Writing

LEMMA OpenKeeps ==
  ASSUME PacksInv, K!Open
  PROVE  PacksInv'
<1>1. UNCHANGED <<manifest, disk, marker, used, ghost>> /\ sync.at = "source"
  BY DEF K!Open
<1>2. sync \in SyncOpening
  BY <1>1 DEF PacksInv, PacksTyped, K!Idle, SyncWriting
<1>3. PICK s \in Source, v \in Revision : s = sync.source /\ v = sync.pinned[s]
  BY <1>2 DEF SyncOpening
<1> DEFINE old == IF K!Marked(marker[s]) THEN K!Managed(marker[s]) \ Allowed[v] ELSE {}
           go == [at |-> "copy", source |-> s, pinned |-> sync.pinned, local |-> sync.local,
                  todo |-> Allowed[v], old |-> old]
<1>4. \/ sync' = K!Idle
      \/ /\ sync' = go
         /\ IF marker[s] = K!NoMarker THEN K!Empty(disk[s]) ELSE K!Untouched(marker[s], disk[s])
  BY <1>3 DEF K!Open
<1>5. \A r \in Source : Hashed(r)'
  BY <1>1 DEF PacksInv, Hashed, Kept, Raced
<1>6. CASE sync' = K!Idle
  BY <1>1, <1>5, <1>6 DEF PacksInv, PacksTyped, Writing, K!Idle
<1>7. CASE /\ sync' = go
           /\ IF marker[s] = K!NoMarker THEN K!Empty(disk[s]) ELSE K!Untouched(marker[s], disk[s])
  <2>1. old \subseteq K!File /\ old \cap Allowed[v] = {} /\ Allowed[v] # {} /\ Allowed[v] \subseteq K!File
    <3>1. K!Marked(marker[s]) => K!Managed(marker[s]) \subseteq K!File
      BY FilesAre DEF PacksInv, Hashed, K!Marked
    <3>2. QED
      BY <3>1, FilesAre
  <2>2. ASSUME NEW f \in K!File, disk[s][f] = "edited" PROVE Raced(s, f) \/ Unmanaged(s, f)
    <3>1. marker[s] # K!NoMarker
      BY <1>7, <2>2 DEF K!Empty
    <3>2. K!Marked(marker[s]) /\ \A g \in K!Managed(marker[s]) : disk[s][g] \in {"absent", marker[s].hash[g]}
      BY <1>7, <3>1 DEF K!Untouched
    <3>3. CASE f \in K!Managed(marker[s])
      <4>1. marker[s].hash[f] = "edited" /\ marker[s].revision # "edited"
        BY <2>2, <3>2, <3>3 DEF K!Marked
      <4>2. QED
        BY <3>2, <3>3, <4>1 DEF PacksInv, Hashed, Kept
    <3>4. QED
      BY <3>2, <3>3 DEF Unmanaged
  <2> HIDE DEF old
  <2>3. sync' \in SyncWriting
    BY <1>2, <1>7, <2>1 DEF SyncOpening, SyncWriting
  <2>4. Writing'
    BY <1>1, <1>3, <1>7, <2>1, <2>2 DEF Writing, Raced, Unmanaged
  <2>5. QED
    BY <1>1, <1>5, <2>3, <2>4 DEF PacksInv, PacksTyped
<1>8. QED
  BY <1>4, <1>6, <1>7

(* The next file to copy.                                                   *)
LEMMA NextFile ==
  ASSUME PacksInv, sync.at = "copy"
  PROVE  K!Min(sync.todo) \in sync.todo
<1>1. sync.todo # {} /\ sync.todo \in SUBSET Nat
  BY FilesAre DEF PacksInv, PacksTyped, Writing, K!Idle, SyncOpening, SyncWriting
<1>2. \E n \in sync.todo : \A m \in sync.todo : n <= m
  BY <1>1, Least
<1>3. QED
  BY <1>2 DEF K!Min

LEMMA WritingIs ==
  ASSUME PacksInv, sync.at \in {"copy", "remove", "mark"}
  PROVE  /\ sync \in SyncWriting /\ sync.source \in Source /\ sync.pinned[sync.source] \in Revision
         /\ sync.todo \subseteq K!File /\ sync.old \subseteq K!File
         /\ Allowed[sync.pinned[sync.source]] \subseteq K!File
<1>1. sync \in SyncWriting
  BY DEF PacksInv, PacksTyped, K!Idle, SyncOpening
<1>2. QED
  BY <1>1, FilesAre DEF SyncWriting

LEMMA CopyKeeps ==
  ASSUME PacksInv, K!Copy
  PROVE  PacksInv'
<1>1. UNCHANGED <<manifest, marker, used, ghost>> /\ sync.at = "copy"
  BY DEF K!Copy
<1>2. PICK s \in Source, v \in Revision, f \in K!File, c \in Revision \cup {"local"} :
        /\ s = sync.source /\ v = sync.pinned[s] /\ f \in sync.todo
        /\ c = v \/ (s \in sync.local /\ c = "local")
        /\ disk' = [disk EXCEPT ![s][f] = c]
        /\ sync' = [sync EXCEPT !.todo = sync.todo \ {f}, !.at = IF sync.todo \ {f} = {} THEN "remove" ELSE "copy"]
  BY <1>1, NextFile, WritingIs DEF K!Copy, K!Copied
<1>3. sync \in SyncWriting
  BY <1>1, WritingIs
<1>4. /\ sync' \in SyncWriting /\ sync'.source = s /\ sync'.pinned = sync.pinned /\ sync'.old = sync.old
      /\ sync'.local = sync.local /\ sync'.todo = sync.todo \ {f} /\ sync'.at = IF sync.todo \ {f} = {} THEN "remove" ELSE "copy"
  BY <1>2, <1>3 DEF SyncWriting
<1>5. /\ disk' \in [Source -> [K!File -> K!Content]] /\ disk'[s][f] = c
      /\ \A g \in K!File : g # f => disk'[s][g] = disk[s][g]
  BY <1>2 DEF PacksInv, PacksTyped, K!Content
<1>6. PacksTyped'
  BY <1>1, <1>4, <1>5 DEF PacksInv, PacksTyped
<1>7. \A r \in Source : Hashed(r)'
  BY <1>1 DEF PacksInv, Hashed, Kept, Raced
<1>8. Writing'
  <2>1. /\ sync.todo \subseteq Allowed[v] /\ sync.old \cap Allowed[v] = {}
        /\ \A g \in Allowed[v] \ sync.todo : Kept(s, g, disk[s][g], v, sync.local)
        /\ \A g \in sync.todo : disk[s][g] = "edited" => Raced(s, g) \/ Unmanaged(s, g)
        /\ \A g \in sync.old : disk[s][g] = "edited" => Raced(s, g) \/ Unmanaged(s, g)
    BY <1>1, <1>2 DEF PacksInv, Writing
  <2>2. sync.todo \subseteq K!File /\ sync.old \subseteq K!File /\ Allowed[v] \subseteq K!File
    BY <1>1, <1>2, WritingIs
  <2>3. \A g \in Allowed[v] \ sync'.todo : Kept(s, g, disk'[s][g], v, sync.local)
    BY <1>2, <1>4, <1>5, <2>1, <2>2 DEF Kept
  <2>4. \A g \in sync'.todo \cup sync'.old : disk'[s][g] = "edited" => Raced(s, g) \/ Unmanaged(s, g)
    BY <1>2, <1>4, <1>5, <2>1, <2>2
  <2>5. QED
    BY <1>1, <1>2, <1>4, <2>1, <2>3, <2>4 DEF Writing, Kept, Raced, Unmanaged
<1>9. QED
  BY <1>6, <1>7, <1>8 DEF PacksInv

LEMMA StartKeeps ==
  ASSUME PacksInv, K!Start
  PROVE  PacksInv'
<1>1. UNCHANGED <<manifest, disk, marker, used, ghost>>
  BY DEF K!Start
<1>2. sync' \in SyncOpening /\ sync'.at = "source"
  BY DEF K!Start, K!Opening, SyncOpening, PacksInv, PacksTyped, K!SkillsAssumption
<1>3. \A r \in Source : Hashed(r)'
  BY <1>1 DEF PacksInv, Hashed, Kept, Raced
<1>4. QED
  BY <1>1, <1>2, <1>3 DEF PacksInv, PacksTyped, Writing

LEMMA PinKeeps ==
  ASSUME PacksInv, K!Pin
  PROVE  PacksInv'
<1>1. UNCHANGED <<disk, marker, sync, ghost>>
  BY DEF K!Pin
<1>2. manifest' \in [Source -> Revision] /\ used' \in [edits : Nat, manifests : Nat, kills : Nat]
  BY DEF K!Pin, PacksInv, PacksTyped
<1>3. \A r \in Source : Hashed(r)'
  BY <1>1 DEF PacksInv, Hashed, Kept, Raced
<1>4. Writing'
  BY <1>1 DEF PacksInv, Writing, Kept, Raced, Unmanaged
<1>5. QED
  BY <1>1, <1>2, <1>3, <1>4 DEF PacksInv, PacksTyped

LEMMA RemoveKeeps ==
  ASSUME PacksInv, K!Remove
  PROVE  PacksInv'
<1>1. UNCHANGED <<manifest, marker, used, ghost>> /\ sync.at = "remove"
  BY DEF K!Remove
<1>2. PICK s \in Source, v \in Revision :
        /\ s = sync.source /\ v = sync.pinned[s]
        /\ disk' = [disk EXCEPT ![s] = [f \in K!File |-> IF f \in sync.old THEN "absent" ELSE disk[s][f]]]
        /\ sync' = [sync EXCEPT !.at = "mark"]
  BY <1>1, WritingIs DEF K!Remove
<1>3. /\ sync' \in SyncWriting /\ sync'.at = "mark" /\ sync'.source = s /\ sync'.pinned = sync.pinned
      /\ sync'.old = sync.old /\ sync'.todo = sync.todo /\ sync'.local = sync.local
  BY <1>1, <1>2, WritingIs DEF SyncWriting
<1>4. /\ disk' \in [Source -> [K!File -> K!Content]]
      /\ \A f \in K!File : disk'[s][f] = IF f \in sync.old THEN "absent" ELSE disk[s][f]
  BY <1>2 DEF PacksInv, PacksTyped, K!Content
<1>5. PacksTyped'
  BY <1>1, <1>3, <1>4 DEF PacksInv, PacksTyped
<1>6. \A r \in Source : Hashed(r)'
  BY <1>1 DEF PacksInv, Hashed, Kept, Raced
<1>7. Writing'
  <2>1. /\ sync.todo = {} /\ sync.old \cap Allowed[v] = {}
        /\ \A g \in Allowed[v] \ sync.todo : Kept(s, g, disk[s][g], v, sync.local)
    BY <1>1, <1>2 DEF PacksInv, Writing
  <2>2. sync.old \subseteq K!File /\ Allowed[v] \subseteq K!File
    BY <1>1, <1>2, WritingIs
  <2>3. \A g \in Allowed[v] : Kept(s, g, disk'[s][g], v, sync.local)
    BY <1>4, <2>1, <2>2 DEF Kept
  <2>4. QED
    BY <1>1, <1>2, <1>3, <2>1, <2>2, <2>3 DEF Writing, Kept, Raced, Unmanaged
<1>8. QED
  BY <1>5, <1>6, <1>7 DEF PacksInv

LEMMA MarkKeeps ==
  ASSUME PacksInv, K!Mark
  PROVE  PacksInv'
<1>1. UNCHANGED <<manifest, disk, used>> /\ sync.at = "mark"
  BY DEF K!Mark
<1>2. PICK s \in Source, v \in Revision : s = sync.source /\ v = sync.pinned[s] /\ Allowed[v] \subseteq K!File
  BY <1>1, WritingIs
<1>3. \A g \in Allowed[v] : Kept(s, g, disk[s][g], v, sync.local)
  BY <1>1, <1>2 DEF PacksInv, Writing
<1> DEFINE mark == [revision |-> v, hash |-> [f \in Allowed[v] |-> disk[s][f]]]
<1>4. CASE \E f \in Allowed[v] : disk[s][f] = "absent"
  <2>1. marker' = marker /\ sync' = K!Idle /\ ghost' = ghost
    BY <1>2, <1>4 DEF K!Mark
  <2>2. \A r \in Source : Hashed(r)'
    BY <2>1 DEF PacksInv, Hashed, Kept, Raced
  <2>3. QED
    BY <1>1, <2>1, <2>2 DEF PacksInv, PacksTyped, Writing, K!Idle
<1>5. CASE ~ \E f \in Allowed[v] : disk[s][f] = "absent"
  <2>1. /\ marker' = [marker EXCEPT ![s] = mark]
        /\ sync' = IF s + 1 \in Source THEN K!Opening(s + 1, sync.pinned, sync.local) ELSE K!Idle
        /\ ghost' = [ghost EXCEPT !.local = (@ \ {s}) \cup ({s} \cap sync.local)]
    BY <1>2, <1>5 DEF K!Mark
  <2>2. /\ ghost' \in [raced : SUBSET (Source \X K!File), local : SUBSET Source] /\ ghost'.raced = ghost.raced
        /\ \A r \in Source : r \in ghost'.local <=> IF r = s THEN s \in sync.local ELSE r \in ghost.local
    BY <2>1 DEF PacksInv, PacksTyped
  <2>3. sync' \in {K!Idle} \cup SyncOpening /\ sync'.at \in {"idle", "source"}
    BY <1>1, <2>1, WritingIs DEF SyncOpening, SyncWriting, K!Idle, K!Opening
  <2>4. DOMAIN marker' = Source /\ \A r \in Source : marker'[r] = IF r = s THEN mark ELSE marker[r]
    BY <2>1 DEF PacksInv, PacksTyped
  <2>5. ASSUME NEW r \in Source PROVE Hashed(r)'
    <3>1. CASE r = s
      <4>1. marker'[r].revision = v /\ K!Managed(marker'[r]) = Allowed[v]
        BY <2>4, <3>1 DEF K!Managed
      <4>2. \A f \in Allowed[v] : marker'[r].hash[f] = disk[s][f]
        BY <2>4, <3>1
      <4>3. QED
        BY <1>3, <2>2, <3>1, <4>1, <4>2 DEF Hashed, Kept, Raced, K!Managed
    <3>2. CASE r # s
      BY <2>2, <2>4, <3>2 DEF PacksInv, Hashed, Kept, Raced, K!Managed, K!Marked
    <3>3. QED
      BY <3>1, <3>2
  <2>6. \A r \in Source : marker'[r].revision \in Revision \cup {"none", "torn"}
    BY <2>4 DEF PacksInv, PacksTyped
  <2>7. QED
    BY <1>1, <2>2, <2>3, <2>4, <2>5, <2>6 DEF PacksInv, PacksTyped, Writing
<1>6. QED
  BY <1>4, <1>5

LEMMA EditKeeps ==
  ASSUME PacksInv, K!Edit
  PROVE  PacksInv'
<1>1. UNCHANGED <<manifest, marker, sync>> /\ used' \in [edits : Nat, manifests : Nat, kills : Nat]
  BY DEF K!Edit, PacksInv, PacksTyped
<1>2. PICK s \in Source, f \in K!File, c \in {"edited", "absent"} :
        /\ disk' = [disk EXCEPT ![s][f] = c]
        /\ ghost' = IF sync = K!Idle THEN ghost ELSE [ghost EXCEPT !.raced = @ \cup {<<s, f>>}]
  BY DEF K!Edit
<1>3. /\ ghost' \in [raced : SUBSET (Source \X K!File), local : SUBSET Source] /\ ghost'.local = ghost.local
      /\ ghost.raced \subseteq ghost'.raced /\ (sync # K!Idle => <<s, f>> \in ghost'.raced)
  BY <1>2 DEF PacksInv, PacksTyped
<1>4. /\ disk' \in [Source -> [K!File -> K!Content]]
      /\ \A r \in Source, g \in K!File : <<r, g>> # <<s, f>> => disk'[r][g] = disk[r][g]
  BY <1>2 DEF PacksInv, PacksTyped, K!Content
<1>5. \A r \in Source : Hashed(r)'
  BY <1>1, <1>3 DEF PacksInv, Hashed, Kept, Raced, K!Managed, K!Marked
<1>6. Writing'
  <2>1. SUFFICES ASSUME sync.at \in {"copy", "remove", "mark"} PROVE Writing'
    BY <1>1 DEF Writing
  <2>2. /\ sync.source \in Source /\ sync.todo \subseteq K!File /\ sync.old \subseteq K!File
        /\ Allowed[sync.pinned[sync.source]] \subseteq K!File /\ sync # K!Idle
    BY <2>1, WritingIs DEF K!Idle
  <2>3. \A g \in K!File : disk'[sync.source][g] = disk[sync.source][g] \/ Raced(sync.source, g)'
    BY <1>1, <1>3, <1>4, <2>2 DEF Raced
  <2>4. \A g \in K!File : Raced(sync.source, g) => Raced(sync.source, g)'
    BY <1>1, <1>3 DEF Raced
  <2>5. \A g \in K!File : Unmanaged(sync.source, g) = Unmanaged(sync.source, g)'
    BY <1>1 DEF Unmanaged
  <2> HIDE DEF Raced, Unmanaged
  <2>6. QED
    BY <1>1, <2>1, <2>2, <2>3, <2>4, <2>5 DEF PacksInv, Writing, Kept
<1>7. QED
  BY <1>1, <1>3, <1>4, <1>5, <1>6 DEF PacksInv, PacksTyped

LEMMA CutKeeps ==
  ASSUME PacksInv, K!Cut
  PROVE  PacksInv'
<1>1. manifest' = manifest /\ sync' = K!Idle /\ used' \in [edits : Nat, manifests : Nat, kills : Nat]
  BY DEF K!Cut, PacksInv, PacksTyped
<1>2. sync.at \in {"source", "copy", "remove", "mark"}
  BY DEF K!Cut, PacksInv, PacksTyped, K!Idle, SyncOpening, SyncWriting
<1>3. sync.at # "source" => sync.source \in Source
  BY <1>2, WritingIs
<1>4. ghost' = ghost
  BY DEF K!Cut
<1>5. disk' \in [Source -> [K!File -> K!Content]]
  <2>1. disk' = disk \/ \E s \in Source, f \in K!File : disk' = [disk EXCEPT ![s][f] = "torn"]
    BY <1>3, NextFile, WritingIs DEF K!Cut
  <2>2. ASSUME NEW s \in Source, NEW f \in K!File, disk' = [disk EXCEPT ![s][f] = "torn"]
        PROVE  disk' \in [Source -> [K!File -> K!Content]]
    BY <2>2 DEF PacksInv, PacksTyped, K!Content
  <2>3. QED
    BY <2>1, <2>2 DEF PacksInv, PacksTyped
<1>6. /\ DOMAIN marker' = Source
      /\ \A r \in Source : marker'[r] = marker[r] \/ marker'[r] = K!TornMarker
  BY DEF K!Cut, PacksInv, PacksTyped
<1>7. \A r \in Source : marker'[r].revision \in Revision \cup {"none", "torn"}
  BY <1>6 DEF PacksInv, PacksTyped, K!TornMarker
<1>8. ASSUME NEW r \in Source PROVE Hashed(r)'
  <2>1. CASE marker'[r] = marker[r]
    BY <1>4, <2>1 DEF PacksInv, Hashed, Kept, Raced, K!Managed, K!Marked
  <2>2. CASE marker'[r] = K!TornMarker
    BY <2>2 DEF Hashed, K!Marked, K!TornMarker
  <2>3. QED
    BY <1>6, <2>1, <2>2
<1>9. QED
  BY <1>1, <1>4, <1>5, <1>6, <1>7, <1>8 DEF PacksInv, PacksTyped, Writing, K!Idle

LEMMA PacksStep ==
  ASSUME PacksInv, [K!Next]_packs
  PROVE  PacksInv'
<1>1. CASE K!Next
  BY <1>1, EditKeeps, PinKeeps, StartKeeps, OpenKeeps, CopyKeeps, RemoveKeeps, MarkKeeps, CutKeeps DEF K!Next
<1>2. CASE UNCHANGED packs
  BY <1>2 DEF packs, PacksInv, PacksTyped, Hashed, Writing, Kept, Raced, Unmanaged
<1>3. QED
  BY <1>1, <1>2

(* A file of a marker that checks has what its revision or checkout says.   *)
LEMMA CheckedReviewed == PacksInv => K!CheckedIsReviewed
<1> SUFFICES ASSUME PacksInv, NEW s \in Source, K!Checks(s), NEW f \in K!File
             PROVE  \/ disk[s][f] = K!Reviewed(s, f)
                    \/ <<s, f>> \in ghost.raced
                    \/ s \in ghost.local /\ f \in Allowed[manifest[s]] /\ disk[s][f] = "local"
  BY DEF K!CheckedIsReviewed
<1>1. marker[s].revision = manifest[s] /\ K!Marked(marker[s])
  BY DEF K!Checks, K!Loads, K!Marked, PacksInv, PacksTyped
<1>2. /\ K!Managed(marker[s]) = Allowed[manifest[s]]
      /\ \A g \in K!Managed(marker[s]) : Kept(s, g, marker[s].hash[g], manifest[s], ghost.local)
  BY <1>1 DEF PacksInv, Hashed
<1>3. disk[s][f] = IF f \in K!Managed(marker[s]) THEN marker[s].hash[f] ELSE "absent"
  BY DEF K!Checks
<1>4. QED
  BY <1>2, <1>3 DEF K!Reviewed, Kept, Raced

(* What a sync replaces or removes was not edited before it.                *)
LEMMA SyncRespects ==
  ASSUME PacksInv, [K!Next]_packs, disk' # disk, used' = used,
         NEW s \in Source, NEW f \in K!File, disk[s][f] = "edited", disk'[s][f] # "edited"
  PROVE  Raced(s, f) \/ Unmanaged(s, f)
<1>1. K!Copy \/ K!Remove
  <2>1. used'.edits # used.edits \/ ~ K!Edit
    BY DEF K!Edit, PacksInv, PacksTyped
  <2>2. used'.kills # used.kills \/ ~ K!Cut
    BY DEF K!Cut, PacksInv, PacksTyped
  <2>3. QED
    BY <2>1, <2>2 DEF packs, K!Next, K!Pin, K!Start, K!Open, K!Mark
<1>2. CASE K!Copy
  <2>1. sync.at = "copy" /\ \E c \in K!Copied(sync.source) : disk' = [disk EXCEPT ![sync.source][K!Min(sync.todo)] = c]
    BY <1>2 DEF K!Copy
  <2>2. sync.source \in Source /\ K!Min(sync.todo) \in sync.todo /\ sync.todo \subseteq K!File
    BY <2>1, NextFile, WritingIs
  <2>3. s = sync.source /\ f = K!Min(sync.todo)
    BY <2>1, <2>2 DEF PacksInv, PacksTyped
  <2>4. QED
    BY <2>1, <2>2, <2>3 DEF PacksInv, Writing
<1>3. CASE K!Remove
  <2>1. /\ sync.at = "remove"
        /\ disk' = [disk EXCEPT ![sync.source] = [g \in K!File |-> IF g \in sync.old THEN "absent" ELSE disk[sync.source][g]]]
    BY <1>3 DEF K!Remove
  <2>2. s = sync.source /\ f \in sync.old
    BY <2>1 DEF PacksInv, PacksTyped
  <2>3. QED
    BY <2>1, <2>2 DEF PacksInv, Writing
<1>4. QED
  BY <1>1, <1>2, <1>3

(* A sync never replaces or removes an edit of a file it manages unless the *)
(* edit was made during a sync; and a destination that skills:check passes  *)
(* holds what the manifest pins, or the local checkout its last sync was    *)
(* given, but for files edited during a sync (skills/sync.ts): for any      *)
(* sources, revisions and allowlists, whatever is edited and pinned and     *)
(* wherever syncs are cut short.                                            *)
THEOREM EditsAreRespected == EitherSpec => EditsRespected
<1>1. EitherInit => PacksInv
  BY PacksBegin DEF EitherInit
<1>2. PacksInv /\ [EitherNext]_allVars => PacksInv'
  BY PacksStep, PacksSteps
<1>3. PacksInv => (part = "packs" => K!CheckedIsReviewed)
  BY CheckedReviewed
<1>4. ASSUME PacksInv, [EitherNext]_allVars, disk' # disk, used' = used,
             NEW s \in Source, NEW f \in K!File, disk[s][f] = "edited", disk'[s][f] # "edited"
      PROVE  <<s, f>> \in ghost.raced \/ (K!Marked(marker[s]) /\ f \notin K!Managed(marker[s]))
  BY <1>4, PacksSteps, SyncRespects DEF Raced, Unmanaged
<1>5. PacksInv /\ [EitherNext]_allVars =>
        [disk' # disk /\ used' = used =>
           \A s \in Source, f \in K!File :
             disk[s][f] = "edited" /\ disk'[s][f] # "edited" =>
               <<s, f>> \in ghost.raced \/ (K!Marked(marker[s]) /\ f \notin K!Managed(marker[s]))]_(K!vars)
  BY <1>4
<1>6. QED
  BY <1>1, <1>2, <1>3, <1>5, PTL DEF EitherSpec, EditsRespected, K!EditsRespected
-----------------------------------------------------------------------------
(* The plan of an issue.                                                    *)

HIDE StoresAssumption DEF K!SkillsAssumption

AnyPlan == Seq(L!Line)

LEMMA WrittenAre == (\A d \in Plans : d \in AnyPlan) /\ Fix \subseteq Name
BY StoresAssumption DEF L!PlanAssumption, AnyPlan

(* A line put into a plan.                                                  *)
LEMMA Inserted ==
  ASSUME NEW d \in AnyPlan, NEW e \in 1 .. Len(d) + 1, NEW x \in L!Line
  PROVE  /\ L!InsertAt(d, e, x) \in AnyPlan /\ Len(L!InsertAt(d, e, x)) = Len(d) + 1
         /\ \A k \in 1 .. Len(d) + 1 :
              L!InsertAt(d, e, x)[k] = IF k < e THEN d[k] ELSE IF k = e THEN x ELSE d[k - 1]
<1> DEFINE S == L!Line
<1>00. d \in Seq(S) /\ x \in S
  BY DEF AnyPlan
<1> HIDE DEF S
<1> DEFINE before == SubSeq(d, 1, e - 1)
           behind == SubSeq(d, e, Len(d))
<1>0. Len(d) \in Nat /\ e \in Nat
  BY <1>00
<1>1. /\ before \in Seq(S) /\ Len(before) = e - 1 /\ \A k \in 1 .. e - 1 : before[k] = d[k]
  BY <1>00
<1>2. /\ behind \in Seq(S) /\ Len(behind) = Len(d) - e + 1
      /\ \A k \in 1 .. Len(d) - e + 1 : behind[k] = d[k + e - 1]
  BY <1>00
<1> HIDE DEF before, behind
<1> DEFINE first == before \o <<x>>
<1>3. /\ first \in Seq(S) /\ Len(first) = e /\ first[e] = x
      /\ \A k \in 1 .. e - 1 : first[k] = d[k]
  BY <1>00, <1>1
<1> HIDE DEF first
<1>4. /\ first \o behind \in Seq(S) /\ Len(first \o behind) = Len(d) + 1
      /\ \A k \in 1 .. Len(d) + 1 : (first \o behind)[k] = IF k <= e THEN first[k] ELSE behind[k - e]
  <2>1. Len(first) + Len(behind) = Len(d) + 1
    BY <1>0, <1>2, <1>3
  <2>2. /\ first \o behind \in Seq(S) /\ Len(first \o behind) = Len(first) + Len(behind)
        /\ \A k \in 1 .. Len(first) + Len(behind) :
             (first \o behind)[k] = IF k <= Len(first) THEN first[k] ELSE behind[k - Len(first)]
    BY <1>2, <1>3, ConcatProperties
  <2>3. QED
    BY <1>3, <2>1, <2>2
<1>5. L!InsertAt(d, e, x) = first \o behind
  BY DEF L!InsertAt, first, before, behind
<1>6. ASSUME NEW k \in 1 .. Len(d) + 1
      PROVE  (first \o behind)[k] = IF k < e THEN d[k] ELSE IF k = e THEN x ELSE d[k - 1]
  <2>0. k < e \/ k = e \/ k > e
    BY <1>0
  <2>1. CASE k < e
    <3>1. k \in 1 .. e - 1 /\ k <= e
      BY <1>0, <2>1
    <3>2. QED
      BY <1>3, <1>4, <2>1, <3>1
  <2>2. CASE k = e
    BY <1>0, <1>3, <1>4, <2>2
  <2>3. CASE k > e
    <3>0. ~ k <= e /\ ~ k < e /\ k # e
      BY <1>0, <2>3
    <3>1. k - e \in 1 .. Len(d) - e + 1 /\ (k - e) + e - 1 = k - 1
      BY <1>0, <2>3
    <3>2. QED
      BY <1>2, <1>4, <3>0, <3>1
  <2>4. QED
    BY <2>0, <2>1, <2>2, <2>3
<1>7. QED
  BY <1>4, <1>5, <1>6 DEF S, AnyPlan

(* ... and taken out again.                                                 *)
LEMMA TakenOut ==
  ASSUME NEW d \in AnyPlan, NEW e \in 1 .. Len(d) + 1, NEW x \in L!Line
  PROVE  L!RemoveAt(L!InsertAt(d, e, x), e) = d
<1> DEFINE S == L!Line
<1>00. d \in Seq(S) /\ x \in S
  BY DEF AnyPlan
<1> DEFINE i == L!InsertAt(d, e, x)
           before == SubSeq(i, 1, e - 1)
           behind == SubSeq(i, e + 1, Len(i))
<1>0. Len(d) \in Nat /\ e \in Nat
  BY <1>00
<1>1. /\ i \in Seq(S) /\ Len(i) = Len(d) + 1
      /\ \A k \in 1 .. Len(d) + 1 : i[k] = IF k < e THEN d[k] ELSE IF k = e THEN x ELSE d[k - 1]
  <2>1. /\ i \in AnyPlan /\ Len(i) = Len(d) + 1
        /\ \A k \in 1 .. Len(d) + 1 : i[k] = IF k < e THEN d[k] ELSE IF k = e THEN x ELSE d[k - 1]
    BY Inserted
  <2> HIDE DEF i
  <2>2. QED
    BY <2>1 DEF AnyPlan
<1> HIDE DEF S, i
<1>2. /\ before \in Seq(S) /\ Len(before) = e - 1 /\ \A k \in 1 .. e - 1 : before[k] = i[k]
  BY <1>1
<1>3. /\ behind \in Seq(S) /\ Len(behind) = Len(d) - e + 1
      /\ \A k \in 1 .. Len(d) - e + 1 : behind[k] = i[k + e]
  BY <1>1
<1>4. L!RemoveAt(i, e) = before \o behind
  BY DEF L!RemoveAt
<1> HIDE DEF before, behind
<1>5. /\ before \o behind \in Seq(S) /\ Len(before \o behind) = Len(d)
      /\ \A k \in 1 .. Len(d) : (before \o behind)[k] = IF k < e THEN before[k] ELSE behind[k - e + 1]
  <2>0. \A k \in 1 .. Len(d) : k <= e - 1 <=> k < e
    BY <1>0
  <2>1. Len(before) + Len(behind) = Len(d)
    BY <1>0, <1>2, <1>3
  <2>2. /\ before \o behind \in Seq(S) /\ Len(before \o behind) = Len(before) + Len(behind)
        /\ \A k \in 1 .. Len(before) + Len(behind) :
             (before \o behind)[k] = IF k <= Len(before) THEN before[k] ELSE behind[k - Len(before)]
    BY <1>2, <1>3, ConcatProperties
  <2>3. \A k \in 1 .. Len(d) : k - (e - 1) = k - e + 1
    BY <1>0
  <2>4. Len(before) = e - 1
    BY <1>2
  <2>5. QED
    BY <2>0, <2>1, <2>2, <2>3, <2>4
<1>6. ASSUME NEW k \in 1 .. Len(d) PROVE (before \o behind)[k] = d[k]
  <2>0. k < e \/ k >= e
    BY <1>0
  <2>1. CASE k < e
    BY <1>1, <1>2, <1>5, <2>1
  <2>2. CASE k >= e
    <3>0. ~ k < e /\ ~ k + 1 < e /\ k + 1 # e /\ (k + 1) - 1 = k
      BY <1>0, <2>2
    <3>1. k - e + 1 \in 1 .. Len(d) - e + 1 /\ (k - e + 1) + e = k + 1 /\ k + 1 \in 1 .. Len(d) + 1
      BY <1>0, <2>2
    <3>2. behind[k - e + 1] = i[k + 1] /\ i[k + 1] = d[k]
      BY <1>1, <1>3, <3>0, <3>1
    <3>3. QED
      BY <1>5, <3>0, <3>2
  <2>3. QED
    BY <2>0, <2>1, <2>2
<1>7. before \o behind = d
  BY <1>00, <1>5, <1>6, SeqEqual
<1>8. QED
  BY <1>4, <1>7 DEF i

(* The first of some lines of a plan.                                       *)
LEMMA FirstIs ==
  ASSUME NEW S \in SUBSET Nat, NEW z
  PROVE  /\ S = {} => L!FirstFrom(S, z) = z
         /\ S # {} => L!FirstFrom(S, z) \in S /\ \A m \in S : L!FirstFrom(S, z) <= m
<1>1. S # {} => \E n \in S : \A m \in S : n <= m
  BY Least
<1>2. QED
  BY <1>1 DEF L!FirstFrom, L!Min


Later(d, s) == {j \in 1 .. Len(d) : d[j].kind = "heading" /\ j > s}

LEMMA EndIs ==
  ASSUME NEW d \in AnyPlan, NEW s \in Nat
  PROVE  /\ L!End(d, s) \in 1 .. Len(d) + 1
         /\ Later(d, s) = {} => L!End(d, s) = Len(d) + 1
         /\ Later(d, s) # {} => L!End(d, s) \in Later(d, s) /\ \A m \in Later(d, s) : L!End(d, s) <= m
<1>1. Len(d) \in Nat /\ DOMAIN d = 1 .. Len(d)
  BY DEF AnyPlan
<1>2. {j \in L!Indices(d, L!IsHeading) : j > s} = Later(d, s)
  BY <1>1 DEF L!Indices, L!IsHeading, Later
<1>3. L!End(d, s) = L!FirstFrom(Later(d, s), Len(d) + 1)
  BY <1>2 DEF L!End
<1>4. Later(d, s) \in SUBSET Nat /\ Later(d, s) \subseteq 1 .. Len(d)
  BY <1>1 DEF Later
<1>5. /\ Later(d, s) = {} => L!End(d, s) = Len(d) + 1
      /\ Later(d, s) # {} => L!End(d, s) \in Later(d, s) /\ \A m \in Later(d, s) : L!End(d, s) <= m
  <2> DEFINE S == Later(d, s)
             z == Len(d) + 1
  <2>1. S \in SUBSET Nat /\ L!End(d, s) = L!FirstFrom(S, z)
    BY <1>3, <1>4
  <2> HIDE DEF S, z
  <2>2. /\ S = {} => L!FirstFrom(S, z) = z
        /\ S # {} => L!FirstFrom(S, z) \in S /\ \A m \in S : L!FirstFrom(S, z) <= m
    BY <2>1, FirstIs
  <2>3. QED
    BY <2>1, <2>2 DEF S, z
<1>6. Len(d) + 1 \in 1 .. Len(d) + 1 /\ 1 .. Len(d) \subseteq 1 .. Len(d) + 1
  BY <1>1
<1>7. QED
  BY <1>4, <1>5, <1>6

Headings(d) == {j \in 1 .. Len(d) : d[j].kind = "heading" /\ d[j].name \in {"Tasks", "tasks"}}

LEMMA SectionIs ==
  ASSUME NEW d \in AnyPlan
  PROVE  /\ L!Section(d) \in 0 .. Len(d) /\ (L!Section(d) = 0 <=> Headings(d) = {})
         /\ (Headings(d) # {} => L!Section(d) \in Headings(d) /\ \A m \in Headings(d) : L!Section(d) <= m)
<1>1. Len(d) \in Nat /\ DOMAIN d = 1 .. Len(d)
  BY DEF AnyPlan
<1>2. L!Section(d) = L!FirstFrom(Headings(d), 0)
  BY <1>1 DEF L!Section, L!Indices, L!IsHeading, Headings
<1>3. Headings(d) \in SUBSET Nat /\ Headings(d) \subseteq 1 .. Len(d)
  BY <1>1 DEF Headings
<1>4. /\ Headings(d) = {} => L!Section(d) = 0
      /\ Headings(d) # {} => L!Section(d) \in Headings(d) /\ \A m \in Headings(d) : L!Section(d) <= m
  BY <1>2, <1>3, FirstIs
<1>5. QED
  BY <1>1, <1>3, <1>4

LEMMA FoundIs ==
  ASSUME NEW d \in AnyPlan
  PROVE  L!Found(d) \in 0 .. Len(d)
<1>1. Len(d) \in Nat /\ DOMAIN d = 1 .. Len(d)
  BY DEF AnyPlan
<1> DEFINE S == {j \in 1 .. Len(d) : d[j].kind # "box" /\ d[j].name = "Tasks"}
<1>2. L!Found(d) = L!FirstFrom(S, 0)
  BY <1>1 DEF L!Found, L!Indices
<1>3. S \in SUBSET Nat /\ S \subseteq 1 .. Len(d)
  BY <1>1
<1> HIDE DEF S
<1>4. L!Found(d) = 0 \/ L!Found(d) \in 1 .. Len(d)
  BY <1>2, <1>3, FirstIs
<1>5. QED
  BY <1>1, <1>4

(* The open tasks, and the one that is current.                             *)
LEMMA TasksAre ==
  ASSUME NEW d \in AnyPlan
  PROVE  /\ L!OpenTasks(d) \in SUBSET (1 .. Len(d))
         /\ L!CurrentTask(d) # 0 =>
              L!CurrentTask(d) \in L!OpenTasks(d) /\ \A m \in L!OpenTasks(d) : L!CurrentTask(d) <= m
         /\ L!OpenTasks(d) # {} => L!Section(d) # 0
<1>1. Len(d) \in Nat /\ L!Section(d) \in 0 .. Len(d) /\ L!Section(d) \in Nat
  BY SectionIs DEF AnyPlan
<1>2. L!End(d, L!Section(d)) \in 1 .. Len(d) + 1
  BY <1>1, EndIs
<1>3. L!OpenTasks(d) \in SUBSET (1 .. Len(d)) /\ (L!OpenTasks(d) # {} => L!Section(d) # 0)
  BY <1>1, <1>2 DEF L!OpenTasks
<1>4. L!OpenTasks(d) \in SUBSET Nat
  BY <1>1, <1>3
<1>5. QED
  BY <1>3, <1>4, FirstIs DEF L!CurrentTask

(* Where markDone finds the task, if the writers read the plan as the       *)
(* reader does and the current task has one of the names.                   *)
LEMMA MarksCurrent ==
  ASSUME NEW d \in AnyPlan, NEW M, L!Plain(d), L!CurrentTask(d) # 0, d[L!CurrentTask(d)].name \in M
  PROVE  L!Marked(d, M) = L!CurrentTask(d)
<1>1. /\ L!CurrentTask(d) \in L!OpenTasks(d) /\ \A m \in L!OpenTasks(d) : L!CurrentTask(d) <= m
      /\ L!OpenTasks(d) \in SUBSET (1 .. Len(d)) /\ L!Section(d) # 0 /\ Len(d) \in Nat
  BY TasksAre DEF AnyPlan
<1>2. L!Found(d) = L!Section(d)
  BY DEF L!Plain
<1> DEFINE S == {j \in L!Found(d) + 1 .. L!End(d, L!Found(d)) - 1 : d[j].kind = "box" /\ d[j].open /\ d[j].name \in M}
<1>3. S = {j \in L!OpenTasks(d) : d[j].name \in M}
  BY <1>1, <1>2 DEF L!OpenTasks
<1>4. L!Marked(d, M) = L!FirstFrom(S, 0)
  BY <1>1, <1>2 DEF L!Marked
<1>5. S \in SUBSET Nat /\ L!CurrentTask(d) \in S /\ S \subseteq L!OpenTasks(d)
  BY <1>1, <1>3
<1> HIDE DEF S
<1>6. L!FirstFrom(S, 0) \in S /\ L!FirstFrom(S, 0) <= L!CurrentTask(d)
  BY <1>5, FirstIs
<1>7. L!FirstFrom(S, 0) \in Nat /\ L!CurrentTask(d) \in Nat /\ L!CurrentTask(d) <= L!FirstFrom(S, 0)
  BY <1>1, <1>5, <1>6
<1>8. QED
  BY <1>4, <1>6, <1>7

(* What markDone finds is an open box.                                      *)
LEMMA MarkedIs ==
  ASSUME NEW d \in AnyPlan, NEW M, L!Marked(d, M) # 0
  PROVE  L!Marked(d, M) \in 1 .. Len(d) /\ d[L!Marked(d, M)].kind = "box"
<1>1. Len(d) \in Nat /\ L!Found(d) \in 0 .. Len(d) /\ L!Found(d) \in Nat
  BY FoundIs DEF AnyPlan
<1>2. L!End(d, L!Found(d)) \in 1 .. Len(d) + 1
  BY <1>1, EndIs
<1> DEFINE S == {j \in L!Found(d) + 1 .. L!End(d, L!Found(d)) - 1 : d[j].kind = "box" /\ d[j].open /\ d[j].name \in M}
<1>3. L!Marked(d, M) = L!FirstFrom(S, 0)
  BY DEF L!Marked
<1>4. S \in SUBSET Nat /\ S \subseteq 1 .. Len(d) /\ \A j \in S : d[j].kind = "box"
  BY <1>1, <1>2
<1> HIDE DEF S
<1>5. QED
  BY <1>3, <1>4, FirstIs

(* What appendFix adds is an open task, and taking it out gives the plan    *)
(* that was.                                                                *)
LEMMA FixIsTask ==
  ASSUME NEW d \in AnyPlan, NEW n \in Name, L!Plain(d), Headings(d) # {}
  PROVE  \E j \in L!OpenTasks(L!Appended(d, n)) :
           L!Appended(d, n)[j].name = n /\ L!RemoveAt(L!Appended(d, n), j) = d
<1> DEFINE s == L!Section(d)
           e == L!End(d, s)
           p == L!Appended(d, n)
<1>1. /\ s \in 1 .. Len(d) /\ s \in Headings(d) /\ \A m \in Headings(d) : s <= m
      /\ Len(d) \in Nat /\ s \in Nat
  BY SectionIs DEF AnyPlan
<1>2. /\ e \in 1 .. Len(d) + 1 /\ e > s
      /\ e <= Len(d) => d[e].kind = "heading"
      /\ \A j \in 1 .. Len(d) : j > s /\ d[j].kind = "heading" => e <= j
  <2> HIDE DEF s
  <2>1. /\ e \in 1 .. Len(d) + 1
        /\ Later(d, s) = {} => e = Len(d) + 1
        /\ Later(d, s) # {} => e \in Later(d, s) /\ \A m \in Later(d, s) : e <= m
    BY <1>1, EndIs
  <2> HIDE DEF e
  <2>2. CASE Later(d, s) = {}
    BY <1>1, <2>1, <2>2 DEF Later
  <2>3. CASE Later(d, s) # {}
    BY <1>1, <2>1, <2>3 DEF Later
  <2>4. QED
    BY <2>2, <2>3
<1>3. p = L!InsertAt(d, e, L!Open(n)) /\ L!Open(n) \in L!Line
  BY DEF L!Appended, L!Plain, L!Open, L!Line
<1> HIDE DEF e, s, p
<1>4. /\ p \in AnyPlan /\ Len(p) = Len(d) + 1
      /\ \A k \in 1 .. Len(d) + 1 : p[k] = IF k < e THEN d[k] ELSE IF k = e THEN L!Open(n) ELSE d[k - 1]
  <2> DEFINE x == L!Open(n)
  <2>1. x \in L!Line /\ p = L!InsertAt(d, e, x) /\ e \in 1 .. Len(d) + 1
    BY <1>2, <1>3
  <2> HIDE DEF x
  <2>2. /\ L!InsertAt(d, e, x) \in AnyPlan /\ Len(L!InsertAt(d, e, x)) = Len(d) + 1
        /\ \A k \in 1 .. Len(d) + 1 :
             L!InsertAt(d, e, x)[k] = IF k < e THEN d[k] ELSE IF k = e THEN x ELSE d[k - 1]
    BY <2>1, Inserted
  <2>3. QED
    BY <2>1, <2>2 DEF x
<1>5. p[s] = d[s] /\ p[e] = L!Open(n) /\ (e <= Len(d) => p[e + 1] = d[e])
  BY <1>1, <1>2, <1>4
<1>6. ASSUME NEW k \in 1 .. Len(d) + 1, p[k].kind = "heading"
      PROVE  (k < e /\ k \in 1 .. Len(d) /\ p[k] = d[k]) \/ (k > e /\ k - 1 \in 1 .. Len(d) /\ p[k] = d[k - 1])
  <2>1. k # e
    BY <1>5, <1>6 DEF L!Open
  <2>2. k \in Nat /\ e \in Nat /\ (k < e \/ k > e)
    BY <1>1, <1>2, <2>1
  <2>3. QED
    BY <1>1, <1>2, <1>4, <2>1, <2>2
<1>7. L!Section(p) = s
  <2>1. s \in Headings(p)
    BY <1>1, <1>4, <1>5 DEF Headings
  <2>2. ASSUME NEW m \in Headings(p) PROVE s <= m
    <3>1. m \in 1 .. Len(d) + 1 /\ p[m].kind = "heading" /\ p[m].name \in {"Tasks", "tasks"}
      BY <1>4 DEF Headings
    <3>2. CASE m \in 1 .. Len(d) /\ p[m] = d[m]
      BY <1>1, <3>1, <3>2 DEF Headings
    <3>3. CASE m - 1 \in 1 .. Len(d) /\ p[m] = d[m - 1]
      <4>1. s <= m - 1
        BY <1>1, <3>1, <3>3 DEF Headings
      <4>2. QED
        BY <1>1, <3>1, <4>1
    <3>4. QED
      BY <1>6, <3>1, <3>2, <3>3
  <2>3. L!Section(p) \in Headings(p) /\ L!Section(p) <= s
    BY <1>4, <2>1, SectionIs
  <2>4. L!Section(p) \in Nat
    BY <1>4, SectionIs DEF AnyPlan
  <2>5. QED
    BY <1>1, <2>2, <2>3, <2>4
<1>8. L!End(p, s) > e
  <2>1. /\ Later(p, s) = {} => L!End(p, s) = Len(p) + 1
        /\ Later(p, s) # {} => L!End(p, s) \in Later(p, s)
    BY <1>1, <1>4, EndIs
  <2>2. ASSUME NEW j \in Later(p, s) PROVE j > e
    <3>1. j \in 1 .. Len(d) + 1 /\ p[j].kind = "heading" /\ j > s
      BY <1>4 DEF Later
    <3>2. CASE j < e /\ j \in 1 .. Len(d) /\ p[j] = d[j]
      BY <1>1, <1>2, <3>1, <3>2
    <3>3. QED
      BY <1>6, <3>1, <3>2
  <2>3. QED
    BY <1>1, <1>2, <1>4, <2>1, <2>2
<1>9. e \in L!OpenTasks(p)
  <2>1. L!End(p, s) \in Nat /\ s # 0
    <3>1. L!End(p, s) \in 1 .. Len(p) + 1
      BY <1>1, <1>4, EndIs
    <3>2. QED
      BY <1>1, <3>1
  <2>2. e \in s + 1 .. L!End(p, s) - 1
    BY <1>1, <1>2, <1>8, <2>1
  <2>3. p[e].kind = "box" /\ p[e].open
    BY <1>5 DEF L!Open
  <2>4. QED
    BY <1>7, <2>1, <2>2, <2>3 DEF L!OpenTasks
<1>10. p[e].name = n /\ L!RemoveAt(p, e) = d
  BY <1>2, <1>3, <1>5, TakenOut DEF L!Open, AnyPlan
<1>11. QED
  BY <1>9, <1>10 DEF p


(* The boxes of a plan that are closed, and what keeps them.                *)
LEMMA ClosedAre ==
  ASSUME NEW d \in AnyPlan
  PROVE  L!ClosedIn(d) = {d[k].name : k \in {m \in 1 .. Len(d) : d[m].kind = "box" /\ ~ d[m].open}}
<1>1. DOMAIN d = 1 .. Len(d)
  BY DEF AnyPlan
<1>2. L!ToSet(d) = {d[k] : k \in 1 .. Len(d)}
  BY <1>1 DEF L!ToSet
<1>3. QED
  BY <1>2 DEF L!ClosedIn

LEMMA NoneClosed == L!ClosedIn(<<>>) = {} /\ Headings(<<>>) = {} /\ <<>> \in AnyPlan
<1>1. <<>> \in AnyPlan /\ Len(<<>>) = 0
  BY EmptySeq DEF AnyPlan
<1>2. QED
  BY <1>1, ClosedAre DEF Headings

LEMMA Grown ==
  ASSUME NEW d \in AnyPlan, NEW p \in AnyPlan, \A k \in 1 .. Len(d) : \E m \in 1 .. Len(p) : p[m] = d[k]
  PROVE  L!ClosedIn(d) \subseteq L!ClosedIn(p) /\ (Headings(d) # {} => Headings(p) # {})
<1>1. ASSUME NEW n \in L!ClosedIn(d) PROVE n \in L!ClosedIn(p)
  <2>1. PICK k \in 1 .. Len(d) : d[k].kind = "box" /\ ~ d[k].open /\ d[k].name = n
    BY ClosedAre
  <2>2. PICK m \in 1 .. Len(p) : p[m] = d[k]
    OBVIOUS
  <2>3. QED
    BY <2>1, <2>2, ClosedAre
<1>2. QED
  BY <1>1 DEF Headings

LEMMA MarkedKeeps ==
  ASSUME NEW d \in AnyPlan, NEW j \in 1 .. Len(d), d[j].kind = "box"
  PROVE  LET p == [d EXCEPT ![j].open = FALSE] IN
         /\ p \in AnyPlan /\ L!ClosedIn(d) \cup {d[j].name} \subseteq L!ClosedIn(p)
         /\ Headings(d) # {} => Headings(p) # {}
<1> DEFINE l == [d[j] EXCEPT !.open = FALSE]
           p == [d EXCEPT ![j] = l]
<1>0. DOMAIN d = 1 .. Len(d) /\ Len(d) \in Nat /\ d[j] \in L!Line
  BY DEF AnyPlan
<1>1. l \in L!Line /\ l.kind = "box" /\ ~ l.open /\ l.name = d[j].name
  BY <1>0 DEF L!Line
<1> HIDE DEF l
<1>2. p \in AnyPlan /\ Len(p) = Len(d) /\ \A k \in 1 .. Len(d) : p[k] = IF k = j THEN l ELSE d[k]
  BY <1>1, ExceptSeq DEF AnyPlan
<1> HIDE DEF p
<1>3. ASSUME NEW n \in L!ClosedIn(d) PROVE n \in L!ClosedIn(p)
  <2>1. PICK k \in 1 .. Len(d) : d[k].kind = "box" /\ ~ d[k].open /\ d[k].name = n
    BY ClosedAre
  <2>2. k \in 1 .. Len(p) /\ p[k].kind = "box" /\ ~ p[k].open /\ p[k].name = n
    BY <1>1, <1>2, <2>1
  <2>3. QED
    BY <1>2, <2>2, ClosedAre
<1>4. d[j].name \in L!ClosedIn(p)
  BY <1>1, <1>2, ClosedAre
<1>5. Headings(d) # {} => Headings(p) # {}
  BY <1>2 DEF Headings
<1>6. p = [d EXCEPT ![j].open = FALSE]
  BY DEF p, l
<1>7. QED
  BY <1>2, <1>3, <1>4, <1>5, <1>6

LEMMA AppendedKeeps ==
  ASSUME NEW d \in AnyPlan, NEW n \in Name
  PROVE  /\ L!Appended(d, n) \in AnyPlan /\ L!ClosedIn(d) \subseteq L!ClosedIn(L!Appended(d, n))
         /\ Headings(d) # {} => Headings(L!Appended(d, n)) # {}
<1> DEFINE e == L!End(d, L!Found(d))
           x == L!Open(n)
           p == L!Appended(d, n)
<1>1. Len(d) \in Nat /\ L!Found(d) \in Nat
  BY FoundIs DEF AnyPlan
<1>2. e \in 1 .. Len(d) + 1
  BY <1>1, EndIs
<1>3. p = L!InsertAt(d, e, x) /\ x \in L!Line
  BY DEF L!Appended, L!Open, L!Line
<1> HIDE DEF e, x, p
<1>4. /\ p \in AnyPlan /\ Len(p) = Len(d) + 1
      /\ \A k \in 1 .. Len(d) + 1 : p[k] = IF k < e THEN d[k] ELSE IF k = e THEN x ELSE d[k - 1]
  <2>1. /\ L!InsertAt(d, e, x) \in AnyPlan /\ Len(L!InsertAt(d, e, x)) = Len(d) + 1
        /\ \A k \in 1 .. Len(d) + 1 :
             L!InsertAt(d, e, x)[k] = IF k < e THEN d[k] ELSE IF k = e THEN x ELSE d[k - 1]
    BY <1>2, <1>3, Inserted
  <2>2. QED
    BY <1>3, <2>1
<1>5. ASSUME NEW k \in 1 .. Len(d) PROVE \E m \in 1 .. Len(p) : p[m] = d[k]
  <2>1. k \in Nat /\ e \in Nat /\ (k < e \/ k >= e)
    BY <1>1, <1>2
  <2>2. CASE k < e
    <3>1. k \in 1 .. Len(d) + 1 /\ p[k] = d[k]
      BY <1>1, <1>4, <2>1, <2>2
    <3>2. QED
      BY <1>4, <3>1
  <2>3. CASE k >= e
    <3>1. k + 1 \in 1 .. Len(d) + 1 /\ ~ k + 1 < e /\ k + 1 # e /\ (k + 1) - 1 = k
      BY <1>1, <2>1, <2>3
    <3>2. p[k + 1] = d[k]
      BY <1>4, <3>1
    <3>3. QED
      BY <1>4, <3>1, <3>2
  <2>4. QED
    BY <2>1, <2>2, <2>3
<1>6. QED
  BY <1>4, <1>5, Grown DEF p

LEMMA ReasonedKeeps ==
  ASSUME NEW d \in AnyPlan
  PROVE  /\ L!Reasoned(d) \in AnyPlan /\ L!ClosedIn(d) \subseteq L!ClosedIn(L!Reasoned(d))
         /\ Headings(d) # {} => Headings(L!Reasoned(d)) # {}
<1> DEFINE x == L!Heading("Deferred")
           p == L!Reasoned(d)
<1>1. x \in L!Line /\ p = d \o <<x>> /\ Len(d) \in Nat
  BY DEF L!Reasoned, L!Heading, L!Line, AnyPlan
<1> HIDE DEF x, p
<1>2. /\ p \in AnyPlan /\ Len(p) = Len(d) + 1
      /\ \A k \in 1 .. Len(d) : p[k] = d[k]
  BY <1>1 DEF AnyPlan
<1>3. \A k \in 1 .. Len(d) : k \in 1 .. Len(p)
  BY <1>1, <1>2
<1>4. QED
  BY <1>2, <1>3, Grown DEF p


PlanFiles == [plan : AnyPlan, parked : AnyPlan]
PlanTyped ==
  /\ file \in PlanFiles /\ index \in PlanFiles
  /\ commit \in [plan : AnyPlan, parked : AnyPlan, archived : BOOLEAN]
  /\ call \in [tool : {"none", "defer", "result"}, outcome : L!Outcomes,
               at : {"boundary", "write", "move", "commit", "after", "issue", "main", "record"}]

(* What is parked is lost when another plan is parked: its marks are in     *)
(* some commit by then.                                                     *)
Deferring == call.tool = "defer" /\ call.at \in {"write", "move"}
Parked ==
  /\ L!ClosedIn(commit.parked) \subseteq logged
  /\ Deferring => L!ClosedIn(file.parked) \subseteq logged

(* A plan that is written has its tasks, and keeps them; only such a plan   *)
(* is deferred.                                                             *)
Deferrable == call.tool = "defer" /\ call.at \in {"boundary", "write"}
Sectioned ==
  /\ file.plan # <<>> => Headings(file.plan) # {}
  /\ Deferrable => file.plan # <<>>

(* What was seen on the way to the record of an archived issue.             *)
Earned ==
  call.tool = "result" /\ call.at \in {"issue", "main"} =>
    /\ call.outcome = "archived" /\ {"clean", "unmarked", "no plan"} \subseteq was
    /\ call.at = "main" => "closed" \in was

DocsInv == PlanTyped /\ L!MarksKept /\ Parked /\ Sectioned
PlanInv == DocsInv /\ Earned /\ L!ResultEarned

LEMMA PlanSteps == [EitherNext]_allVars => [L!Next]_tools
BY DEF EitherNext, allVars, text

LEMMA PlanBegin == L!Init => PlanInv
<1> SUFFICES ASSUME L!Init PROVE PlanInv
  OBVIOUS
<1>1. PlanTyped
  BY NoneClosed DEF L!Init, PlanTyped, PlanFiles, L!NoCall, L!Outcomes
<1>2. L!MarksKept /\ Parked /\ Sectioned
  BY NoneClosed DEF L!Init, L!MarksKept, Parked, Deferring, Sectioned, Deferrable, L!NoCall
<1>3. Earned /\ L!ResultEarned
  BY DEF L!Init, Earned, L!ResultEarned, L!At, L!NoCall
<1>4. QED
  BY <1>1, <1>2, <1>3 DEF PlanInv, DocsInv

(* Where a call goes.                                                       *)
CallTyped == call' \in [tool : {"none", "defer", "result"}, outcome : L!Outcomes,
                        at : {"boundary", "write", "move", "commit", "after", "issue", "main", "record"}]

LEMMA CallGoes ==
  ASSUME PlanTyped, L!Step
  PROVE  CallTyped
<1>1. L!NoCall \in [tool : {"none", "defer", "result"}, outcome : L!Outcomes,
                    at : {"boundary", "write", "move", "commit", "after", "issue", "main", "record"}]
  BY DEF L!NoCall, L!Outcomes
<1>2. \A s \in {"boundary", "write", "move", "commit", "after", "issue", "main", "record"} :
        L!Goto(s) => CallTyped
  BY DEF L!Goto, PlanTyped, CallTyped
<1>3. L!Throws => CallTyped
  BY <1>1 DEF L!Throws, CallTyped
<1>4. call' = call => CallTyped
  BY DEF PlanTyped, CallTyped
<1>5. ASSUME NEW t \in {"none", "defer", "result"}, NEW o \in L!Outcomes, L!Begin(t, o) PROVE CallTyped
  BY <1>5 DEF L!Begin, CallTyped
<1>6. L!WritePlan \/ L!MarkDone \/ L!AppendFix \/ L!Work \/ L!Commit(FALSE) \/ L!Archive \/ L!Publish \/ L!Edit => CallTyped
  BY <1>4 DEF L!WritePlan, L!MarkDone, L!AppendFix, L!Work, L!Commit, L!Archive, L!Publish, L!Edit
<1>7. L!Defer \/ L!DeferBoundary \/ L!DeferWrite \/ L!DeferMove \/ L!DeferCommit \/ L!DeferAfter => CallTyped
  <2> HIDE DEF CallTyped
  <2>1. QED
    BY <1>2, <1>3, <1>5 DEF L!Defer, L!DeferBoundary, L!DeferWrite, L!DeferMove, L!DeferCommit, L!DeferAfter, L!Outcomes
<1>8. L!Result \/ L!ResultBoundary \/ L!ResultIssue \/ L!ResultMain \/ L!Record \/ L!Cut => CallTyped
  BY <1>2, <1>3, <1>5 DEF L!Result, L!ResultBoundary, L!ResultIssue, L!ResultMain, L!Record, L!Cut
<1>9. QED
  BY <1>6, <1>7, <1>8 DEF L!Step

(* A call that leaves the files alone.                                      *)
LEMMA QuietKeeps ==
  ASSUME DocsInv, CallTyped, UNCHANGED <<file, index, commit, logged, done>>,
         Deferring' => Deferring \/ L!Clean, Deferrable' => Deferrable \/ file.plan # <<>>
  PROVE  DocsInv'
<1>1. PlanTyped'
  BY DEF DocsInv, PlanTyped, CallTyped
<1>2. L!MarksKept' /\ Sectioned'
  BY DEF DocsInv, L!MarksKept, Sectioned
<1>3. Parked'
  <2>1. L!Clean => file.parked = commit.parked
    BY DEF L!Clean
  <2>2. QED
    BY <2>1 DEF DocsInv, Parked
<1>4. QED
  BY <1>1, <1>2, <1>3 DEF DocsInv

(* An edit of the plan between calls, which keeps what it closed.           *)
LEMMA EditedKeeps ==
  ASSUME DocsInv, L!Idle \/ call' = [call EXCEPT !.at = "move"], NEW p \in AnyPlan, file' = [file EXCEPT !.plan = p],
         UNCHANGED <<index, commit, logged>>, CallTyped,
         Deferring' => Deferring, ~ Deferrable',
         done' \subseteq done \cup L!ClosedIn(p), L!ClosedIn(file.plan) \subseteq L!ClosedIn(p),
         p # <<>> => Headings(p) # {}
  PROVE  DocsInv'
<1>1. file' \in PlanFiles /\ file'.plan = p /\ file'.parked = file.parked
  BY DEF DocsInv, PlanTyped, PlanFiles
<1>2. PlanTyped'
  BY <1>1 DEF DocsInv, PlanTyped, CallTyped
<1>3. L!MarksKept'
  BY <1>1 DEF DocsInv, L!MarksKept
<1>4. Parked' /\ Sectioned'
  BY <1>1 DEF DocsInv, Parked, Sectioned
<1>5. QED
  BY <1>2, <1>3, <1>4 DEF DocsInv

LEMMA NotDeferring == L!Idle => ~ Deferring
BY DEF L!Idle, L!NoCall, Deferring

LEMMA PlansAre ==
  ASSUME DocsInv
  PROVE  /\ file.plan \in AnyPlan /\ file.parked \in AnyPlan /\ index.parked \in AnyPlan
         /\ (file.plan # <<>> => Headings(file.plan) # {})
BY DEF DocsInv, PlanTyped, PlanFiles, Sectioned

LEMMA WritePlanKeeps ==
  ASSUME DocsInv, CallTyped, L!WritePlan
  PROVE  DocsInv'
<1>1. PICK d \in Plans : L!Valid(d) /\ file' = [file EXCEPT !.plan = d]
  BY DEF L!WritePlan
<1>2. d \in AnyPlan
  BY WrittenAre
<1>3. Headings(d) # {}
  BY <1>1, <1>2, SectionIs DEF L!Valid
<1>4. /\ L!Idle /\ file.plan = <<>> /\ UNCHANGED <<index, commit, logged, done, call>>
  BY DEF L!WritePlan
<1>5. L!ClosedIn(file.plan) = {}
  BY <1>4, NoneClosed
<1>6. Deferring' => Deferring
  BY <1>4 DEF Deferring
<1>7. ~ Deferrable'
  BY <1>4 DEF Deferrable, L!Idle, L!NoCall
<1>8. QED
  BY <1>1, <1>2, <1>3, <1>4, <1>5, <1>6, <1>7, EditedKeeps

LEMMA MarkDoneKeeps ==
  ASSUME DocsInv, CallTyped, L!MarkDone
  PROVE  DocsInv'
<1> DEFINE d == file.plan
<1>1. L!Idle /\ d # <<>> /\ UNCHANGED <<index, commit, logged, call>>
  BY DEF L!MarkDone
<1>2. PICK M \in SUBSET Name :
        /\ L!Marked(d, M) # 0 /\ file' = [file EXCEPT !.plan[L!Marked(d, M)].open = FALSE]
        /\ done' = done \cup {d[L!Marked(d, M)].name}
  BY DEF L!MarkDone
<1>3. PICK j : j = L!Marked(d, M)
  OBVIOUS
<1>4. d \in AnyPlan /\ Headings(d) # {} /\ j \in 1 .. Len(d) /\ d[j].kind = "box"
  BY <1>1, <1>2, <1>3, PlansAre, MarkedIs
<1>5. PICK p : p = [d EXCEPT ![j].open = FALSE]
  OBVIOUS
<1>6. p \in AnyPlan /\ L!ClosedIn(d) \cup {d[j].name} \subseteq L!ClosedIn(p) /\ Headings(p) # {}
  BY <1>4, <1>5, MarkedKeeps
<1>7. file' = [file EXCEPT !.plan = p]
  BY <1>2, <1>3, <1>5
<1>8. Deferring' => Deferring
  BY <1>1 DEF Deferring
<1>9. ~ Deferrable'
  BY <1>1 DEF Deferrable, L!Idle, L!NoCall
<1>10. QED
  BY <1>1, <1>2, <1>3, <1>6, <1>7, <1>8, <1>9, EditedKeeps

LEMMA AppendFixKeeps ==
  ASSUME DocsInv, CallTyped, L!AppendFix
  PROVE  DocsInv'
<1>1. L!Idle /\ file.plan # <<>> /\ UNCHANGED <<index, commit, logged, done, call>>
  BY DEF L!AppendFix
<1>2. PICK n \in Name : file' = [file EXCEPT !.plan = L!Appended(file.plan, n)]
  BY WrittenAre DEF L!AppendFix
<1> DEFINE p == L!Appended(file.plan, n)
<1>3. p \in AnyPlan /\ L!ClosedIn(file.plan) \subseteq L!ClosedIn(p) /\ Headings(p) # {}
  BY <1>1, <1>2, PlansAre, AppendedKeeps
<1> HIDE DEF p
<1>4. Deferring' => Deferring
  BY <1>1 DEF Deferring
<1>5. ~ Deferrable'
  BY <1>1 DEF Deferrable, L!Idle, L!NoCall
<1>6. QED
  BY <1>1, <1>2, <1>3, <1>4, <1>5, EditedKeeps DEF p

LEMMA DeferWriteKeeps ==
  ASSUME DocsInv, CallTyped, L!DeferWrite
  PROVE  DocsInv'
<1>1. /\ call.tool = "defer" /\ call.at = "write" /\ call' = [call EXCEPT !.at = "move"]
      /\ UNCHANGED <<index, commit, logged, done>>
  BY DEF L!DeferWrite, L!At, L!Goto
<1>2. PICK p : p = L!Reasoned(file.plan) /\ file' = [file EXCEPT !.plan = p]
  BY DEF L!DeferWrite
<1>3. p \in AnyPlan /\ L!ClosedIn(file.plan) \subseteq L!ClosedIn(p) /\ Headings(p) # {}
  <2>1. file.plan # <<>>
    BY <1>1 DEF DocsInv, Sectioned, Deferrable
  <2>2. QED
    BY <1>2, <2>1, PlansAre, ReasonedKeeps
<1>4. Deferring /\ ~ Deferrable'
  BY <1>1 DEF DocsInv, PlanTyped, Deferring, Deferrable
<1>5. QED
  BY <1>1, <1>2, <1>3, <1>4, EditedKeeps


LEMMA CommitKeeps ==
  ASSUME DocsInv, CallTyped, NEW a \in BOOLEAN, L!Commit(a)
  PROVE  DocsInv'
<1> DEFINE next == IF a THEN [file EXCEPT !.plan = <<>>] ELSE file
<1>1. /\ L!Idle /\ call' = call /\ done' = done /\ file' = next /\ index' = next
      /\ commit' = [plan |-> next.plan, parked |-> next.parked, archived |-> a]
      /\ logged' = logged \cup L!ClosedIn(file.plan) \cup L!ClosedIn(file.parked)
  BY DEF L!Commit
<1>2. next \in PlanFiles /\ next.parked = file.parked /\ next.plan \in {<<>>, file.plan}
  BY NoneClosed DEF DocsInv, PlanTyped, PlanFiles
<1> HIDE DEF next
<1>3. PlanTyped'
  BY <1>1, <1>2 DEF PlanTyped, PlanFiles, CallTyped
<1>4. L!MarksKept'
  BY <1>1 DEF DocsInv, L!MarksKept
<1>5. Parked' /\ Sectioned'
  BY <1>1, <1>2, NotDeferring DEF DocsInv, Parked, Deferring, Sectioned, Deferrable, L!Idle, L!NoCall
<1>6. QED
  BY <1>3, <1>4, <1>5 DEF DocsInv

LEMMA DeferMoveKeeps ==
  ASSUME DocsInv, CallTyped, L!DeferMove
  PROVE  DocsInv'
<1>1. /\ Deferring /\ UNCHANGED <<commit, logged, done>> /\ call' = [call EXCEPT !.at = "commit"]
      /\ file' = [plan |-> <<>>, parked |-> file.plan] /\ index' = [plan |-> <<>>, parked |-> index.plan]
  BY DEF L!DeferMove, L!At, L!Goto, L!Moved, Deferring
<1>2. /\ PlanTyped' /\ ~ Deferring' /\ ~ Deferrable'
  BY <1>1, NoneClosed DEF DocsInv, PlanTyped, PlanFiles, CallTyped, Deferring, Deferrable
<1>3. L!MarksKept'
  BY <1>1 DEF DocsInv, L!MarksKept, Parked
<1>4. Parked' /\ Sectioned'
  BY <1>1, <1>2 DEF DocsInv, Parked, Sectioned
<1>5. QED
  BY <1>2, <1>3, <1>4 DEF DocsInv

LEMMA DeferCommitKeeps ==
  ASSUME DocsInv, CallTyped, L!DeferCommit
  PROVE  DocsInv'
<1>1. /\ UNCHANGED <<file, index, done>> /\ call' = [call EXCEPT !.at = "after"]
      /\ commit' = [plan |-> index.plan, parked |-> index.parked, archived |-> FALSE]
      /\ logged' = logged \cup L!ClosedIn(index.parked)
  BY DEF L!DeferCommit, L!Goto
<1>2. /\ PlanTyped' /\ ~ Deferring' /\ ~ Deferrable'
  BY <1>1 DEF DocsInv, PlanTyped, PlanFiles, CallTyped, Deferring, Deferrable
<1>3. L!MarksKept'
  BY <1>1 DEF DocsInv, L!MarksKept
<1>4. Parked' /\ Sectioned'
  BY <1>1, <1>2 DEF DocsInv, Parked, Sectioned
<1>5. QED
  BY <1>2, <1>3, <1>4 DEF DocsInv

LEMMA OthersKeep ==
  ASSUME DocsInv, CallTyped,
         \/ L!Work \/ L!Publish \/ L!Edit \/ L!Defer \/ L!DeferBoundary \/ L!DeferAfter
         \/ L!Result \/ L!ResultBoundary \/ L!ResultIssue \/ L!ResultMain \/ L!Record \/ L!Cut
  PROVE  DocsInv'
<1>1. UNCHANGED <<file, index, commit, logged, done>>
  BY DEF L!Files, L!Work, L!Publish, L!Edit, L!Defer, L!DeferBoundary, L!DeferAfter, L!Begin,
         L!Result, L!ResultBoundary, L!ResultIssue, L!ResultMain, L!Record, L!Cut
<1>2. (Deferring' => Deferring \/ L!Clean) /\ (Deferrable' => Deferrable \/ file.plan # <<>>)
  <2>1. CASE L!Work \/ L!Publish \/ L!Edit
    BY <2>1 DEF L!Work, L!Publish, L!Edit, Deferring, Deferrable
  <2>2. CASE L!Defer
    BY <2>2 DEF L!Defer, L!Begin, Deferring, Deferrable
  <2>3. CASE L!DeferBoundary
    BY <2>3 DEF L!DeferBoundary, L!At, L!Goto, L!Throws, L!NoCall, DocsInv, PlanTyped, Deferring, Deferrable
  <2>4. CASE L!DeferAfter \/ L!Record \/ L!Cut
    BY <2>4 DEF L!DeferAfter, L!Record, L!Cut, L!Throws, L!NoCall, Deferring, Deferrable
  <2>5. CASE L!Result
    BY <2>5 DEF L!Result, L!Begin, Deferring, Deferrable
  <2>6. CASE L!ResultBoundary \/ L!ResultIssue \/ L!ResultMain
    <3>1. call.tool = "result" /\ (call' = L!NoCall \/ \E s \in {"record", "issue", "main"} : call' = [call EXCEPT !.at = s])
      BY <2>6 DEF L!ResultBoundary, L!ResultIssue, L!ResultMain, L!At, L!Goto, L!Throws
    <3>2. QED
      BY <3>1 DEF DocsInv, PlanTyped, L!NoCall, Deferring, Deferrable
  <2>7. QED
    BY <2>1, <2>2, <2>3, <2>4, <2>5, <2>6
<1>3. QED
  BY <1>1, <1>2, QuietKeeps

LEMMA DocsStep ==
  ASSUME DocsInv, L!Step
  PROVE  DocsInv'
<1>1. CallTyped
  BY CallGoes DEF DocsInv
<1>2. L!Archive => L!Commit(TRUE)
  BY DEF L!Archive
<1>3. QED
  BY <1>1, <1>2, WritePlanKeeps, MarkDoneKeeps, AppendFixKeeps, CommitKeeps, DeferWriteKeeps, DeferMoveKeeps,
     DeferCommitKeeps, OthersKeep DEF L!Step

(* What a report has seen.                                                  *)
LEMMA SeenIs ==
  /\ L!Clean => "clean" \in L!Now
  /\ ~ continuation => "unmarked" \in L!Now
  /\ file.plan = <<>> => "no plan" \in L!Now
  /\ world.closed => "closed" \in L!Now
  /\ world.published => "published" \in L!Now
  /\ ~ commit.archived => "no archive" \in L!Now
BY DEF L!Now, L!Conditions

LEMMA ReportStep ==
  ASSUME PlanInv, L!Next
  PROVE  Earned' /\ L!ResultEarned'
<1>1. PlanTyped
  BY DEF PlanInv, DocsInv
<1>2. CASE call.tool = "result"
  <2>1. was' = was \cup L!Now
    BY <1>2 DEF L!Next
  <2>2. L!NoCall.tool = "none"
    BY DEF L!NoCall
  <2>3. CASE call' = call
    BY <2>1, <2>3 DEF PlanInv, Earned, L!ResultEarned, L!At
  <2>4. CASE call' = L!NoCall
    BY <2>2, <2>4 DEF Earned, L!ResultEarned, L!At
  <2>5. CASE L!ResultBoundary /\ call' # L!NoCall
    <3>1. PICK s \in {"record", "issue"} :
            /\ call' = [call EXCEPT !.at = s]
            /\ call.outcome # "failed" => {"clean", "unmarked"} \subseteq was'
            /\ call.outcome = "archived" => "no plan" \in was' /\ (s = "record" => "no archive" \in was')
            /\ s = "issue" => call.outcome = "archived"
      BY <2>1, <2>5, SeenIs DEF L!ResultBoundary, L!Goto, L!Throws
    <3>2. call'.at = s /\ call'.outcome = call.outcome /\ call'.tool = call.tool
      BY <1>1, <3>1 DEF PlanTyped
    <3>3. QED
      BY <3>1, <3>2 DEF Earned, L!ResultEarned, L!At
  <2>6. CASE L!ResultIssue /\ call' # L!NoCall
    <3>1. call.at = "issue" /\ world.closed /\ call' = [call EXCEPT !.at = "main"]
      BY <2>6 DEF L!ResultIssue, L!At, L!Goto, L!Throws, L!Closed
    <3>2. call'.at = "main" /\ call'.outcome = call.outcome /\ call'.tool = call.tool /\ "closed" \in was'
      BY <1>1, <2>1, <3>1, SeenIs DEF PlanTyped
    <3>3. QED
      BY <1>2, <2>1, <3>1, <3>2 DEF PlanInv, Earned, L!ResultEarned, L!At
  <2>7. CASE L!ResultMain /\ call' # L!NoCall
    <3>1. call.at = "main" /\ world.published /\ call' = [call EXCEPT !.at = "record"]
      BY <2>7 DEF L!ResultMain, L!At, L!Goto, L!Throws
    <3>2. call'.at = "record" /\ call'.outcome = call.outcome /\ call'.tool = call.tool /\ "published" \in was'
      BY <1>1, <2>1, <3>1, SeenIs DEF PlanTyped
    <3>3. QED
      BY <1>2, <2>1, <3>1, <3>2 DEF PlanInv, Earned, L!ResultEarned, L!At
  <2>8. call' = call \/ call' = L!NoCall \/ L!ResultBoundary \/ L!ResultIssue \/ L!ResultMain
    <3>1. ~ L!Idle
      BY <1>2, <2>2 DEF L!Idle
    <3>2. QED
      BY <1>2, <3>1 DEF L!Next, L!Step, L!WritePlan, L!MarkDone, L!AppendFix, L!Work, L!Commit, L!Archive, L!Publish, L!Edit,
         L!Defer, L!Begin, L!DeferBoundary, L!DeferWrite, L!DeferMove, L!DeferCommit, L!DeferAfter, L!At, L!Result,
         L!Record, L!Cut, L!Throws
  <2>9. QED
    BY <2>3, <2>4, <2>5, <2>6, <2>7, <2>8
<1>3. CASE call.tool # "result"
  <2>1. ~ (call'.tool = "result" /\ call'.at # "boundary")
    <3>1. L!NoCall.tool = "none"
      BY DEF L!NoCall
    <3>2. \A s : L!Goto(s) => call'.tool = call.tool
      BY <1>1 DEF L!Goto, PlanTyped
    <3>3. \A t, o : L!Begin(t, o) => call'.at = "boundary"
      BY DEF L!Begin
    <3>4. L!Throws => call'.tool = "none"
      BY <3>1 DEF L!Throws
    <3>5. CASE L!WritePlan \/ L!MarkDone \/ L!AppendFix \/ L!Work \/ L!Commit(FALSE) \/ L!Archive \/ L!Publish \/ L!Edit
      <4>1. call' = call
        BY <3>5 DEF L!WritePlan, L!MarkDone, L!AppendFix, L!Work, L!Commit, L!Archive, L!Publish, L!Edit
      <4>2. QED
        BY <1>3, <4>1
    <3>6. CASE L!Defer \/ L!DeferBoundary \/ L!DeferWrite \/ L!DeferMove \/ L!DeferCommit \/ L!DeferAfter
      BY <1>3, <3>2, <3>3, <3>4, <3>6 DEF L!Defer, L!DeferBoundary, L!DeferWrite, L!DeferMove, L!DeferCommit, L!DeferAfter
    <3>7. CASE L!Result \/ L!ResultBoundary \/ L!ResultIssue \/ L!ResultMain \/ L!Record \/ L!Cut
      BY <1>3, <3>3, <3>4, <3>7 DEF L!Result, L!ResultBoundary, L!ResultIssue, L!ResultMain, L!At, L!Record, L!Cut
    <3>8. QED
      BY <3>5, <3>6, <3>7 DEF L!Next, L!Step
  <2>2. QED
    BY <2>1 DEF Earned, L!ResultEarned, L!At
<1>4. QED
  BY <1>2, <1>3

LEMMA PlanStep ==
  ASSUME PlanInv, [L!Next]_tools
  PROVE  PlanInv'
<1>1. CASE L!Next
  BY <1>1, DocsStep, ReportStep DEF PlanInv, L!Next
<1>2. CASE UNCHANGED tools
  BY <1>2 DEF tools, PlanInv, DocsInv, PlanTyped, L!MarksKept, Parked, Deferring, Sectioned, Deferrable, Earned, L!ResultEarned, L!At
<1>3. QED
  BY <1>1, <1>2

LEMMA InOrderHere == DocsInv => L!InOrder
<1> SUFFICES ASSUME DocsInv, L!MarkDone \/ L!AppendFix, L!Plain(file.plan)
             PROVE  L!InOrder
  BY DEF L!InOrder
<1>1. CASE L!MarkDone
  <2> DEFINE d == file.plan
  <2>1. PICK M \in SUBSET Name :
          /\ L!CurrentTask(d) # 0 /\ d[L!CurrentTask(d)].name \in M
          /\ file' = [file EXCEPT !.plan[L!Marked(d, M)].open = FALSE]
    BY <1>1 DEF L!MarkDone
  <2>2. L!Marked(d, M) = L!CurrentTask(d)
    BY <2>1, PlansAre, MarksCurrent
  <2>3. file'.plan = [d EXCEPT ![L!CurrentTask(d)].open = FALSE]
    BY <2>1, <2>2 DEF DocsInv, PlanTyped, PlanFiles
  <2>4. QED
    BY <2>1, <2>3 DEF L!InOrder
<1>2. CASE L!AppendFix
  <2>1. PICK n \in Fix : file.plan # <<>> /\ file' = [file EXCEPT !.plan = L!Appended(file.plan, n)]
    BY <1>2 DEF L!AppendFix
  <2>2. \E j \in L!OpenTasks(L!Appended(file.plan, n)) :
           L!Appended(file.plan, n)[j].name = n /\ L!RemoveAt(L!Appended(file.plan, n), j) = file.plan
    BY <2>1, PlansAre, WrittenAre, FixIsTask
  <2>3. file'.plan = L!Appended(file.plan, n)
    BY <2>1 DEF DocsInv, PlanTyped, PlanFiles
  <2>4. QED
    BY <2>2, <2>3 DEF L!InOrder
<1>3. QED
  BY <1>1, <1>2

(* Tasks are marked in their order, a fix becomes a task to be done, a task *)
(* that was marked stays marked in the worktree or in a commit wherever a   *)
(* deferral or an archive is cut short, and an outcome other than a failure *)
(* is recorded only of a step that was seen fit for it (tools-update.ts,    *)
(* tools-inspect.ts, plan-write.ts): for any plans, names, fixes and        *)
(* commits.                                                                 *)
THEOREM PlanProgresses == EitherSpec => PlanProgress
<1>1. EitherInit => PlanInv
  BY PlanBegin DEF EitherInit
<1>2. PlanInv /\ [EitherNext]_allVars => PlanInv'
  BY PlanStep, PlanSteps
<1>3. PlanInv => L!MarksKept /\ L!ResultEarned
  BY DEF PlanInv, DocsInv
<1>4. PlanInv /\ [EitherNext]_allVars => [L!InOrder]_(L!vars)
  BY InOrderHere DEF PlanInv
<1>5. QED
  BY <1>1, <1>2, <1>3, <1>4, PTL DEF EitherSpec, PlanProgress, L!PlanProgress
=============================================================================

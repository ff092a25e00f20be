--------------------------- MODULE Processes_proof ---------------------------
(* Theorems of the parts of MCProcesses that are proved in no module of     *)
(* their own, for any values of their constants: Setup (checks that passed  *)
(* are grounded), Status (what is told of the runs is true), the lock file  *)
(* (one contender at a time while somebody survives), Worker (only what was *)
(* shown to end well is completed), Config (what is accepted can be used)   *)
(* and Dispatch (what passed was reviewed).                                 *)
EXTENDS MCProcesses, Sequences, FiniteSetTheorems, TLAPS

-----------------------------------------------------------------------------
(* Setup.                                                                   *)

(* A step of the system is one of the installation, or does not touch it.   *)
LEMMA SetupSteps == [EitherNext]_allVars => [S!Next]_setup
  BY DEF EitherNext, allVars, others, setup

(* What a run remembers, by where it is: the inputs it took, the            *)
(* installation in progress, the checks that exited 0.                      *)
RunShaped ==
  \/ run = S!Idle
  \/ run \in [at : {"validate"}, took : Version, of : {S!Begun}, repaired : BOOLEAN]
  \/ run \in [at : {"install"}, took : Version, of : Version \cup {S!Begun}, repaired : BOOLEAN]
  \/ run \in [at : {"work"}, took : Version \cup {"none"}, repaired : BOOLEAN]
  \/ run \in [at : {"checks", "repair", "pass", "fail"}, took : Version \cup {"none"}, repaired : BOOLEAN, passed : Nat]

HistoryShaped ==
  ghost \in [seen : SUBSET (Version \cup {"none"}), disturbed : BOOLEAN, proven : SUBSET Nat]

(* Every check of the list up to the last that passed exited 0.             *)
ChecksCounted ==
  /\ S!At("checks") => ghost.proven = 1 .. run.passed
  /\ S!At("pass") => ghost.proven = Check

(* While a run goes on nobody but its own installer works unnoticed, and    *)
(* what it installs are inputs the run has seen.                            *)
InputsSeen ==
  ~ S!At("idle") =>
    /\ inputs \in ghost.seen
    /\ ~ ghost.disturbed => orphans = {}
    /\ S!At("install") /\ run.of # S!Begun => run.of \in ghost.seen

InstalledSeen ==
  run.at \in {"work", "checks", "repair", "pass", "fail"} /\ run.took # "none" /\ ~ ghost.disturbed
    => modules.holds \in ghost.seen

SetupInv ==
  /\ inputs \in Version \cup {"none"}
  /\ modules \in [holds : Version \cup {"nothing", "partial", "linked"}, record : Version \cup {"none"}]
  /\ orphans \subseteq Version \cup {S!Begun}
  /\ RunShaped /\ HistoryShaped /\ ChecksCounted /\ InputsSeen /\ InstalledSeen

USE DEF S!At, S!Idle, S!Begun

(* Every behaviour of the installation begins with the invariant.           *)
LEMMA SetupBegins == S!Init => SetupInv
  BY DEF S!Init, SetupInv, RunShaped, HistoryShaped, ChecksCounted, InputsSeen, InstalledSeen, S!Fresh

(* Every action of the installation keeps it.                               *)
LEMMA SetupStep == SetupInv /\ [S!Next]_setup => SetupInv'
<1> SUFFICES ASSUME SetupInv, [S!Next]_setup PROVE SetupInv'
  OBVIOUS
<1> USE DEF SetupInv, RunShaped, HistoryShaped, ChecksCounted, InputsSeen, InstalledSeen
<1>1. CASE UNCHANGED setup
  BY <1>1 DEF setup
<1>2. CASE S!Edit
  BY <1>2 DEF S!Edit
<1>3. CASE S!Prepare
  BY <1>3 DEF S!Prepare, S!Fresh
<1>4. CASE S!Validate
  <2> DEFINE recorded == [modules EXCEPT !.record = run.took]
  <2>1. /\ S!At("validate") /\ run.took \in Version /\ UNCHANGED <<inputs, orphans, used, ghost>>
        /\ run \in [at : {"validate"}, took : Version, of : {S!Begun}, repaired : BOOLEAN]
    BY <1>4 DEF S!Validate
  <2>2. CASE modules.holds = inputs /\ run' = S!Ready /\ modules' \in {modules, recorded}
    <3>1. modules'.holds = inputs /\ modules' \in [holds : Version \cup {"nothing", "partial", "linked"},
                                                  record : Version \cup {"none"}]
      BY <2>1, <2>2
    <3>2. QED BY <2>1, <2>2, <3>1 DEF S!Ready
  <2>3. CASE run' = [run EXCEPT !.at = "install"] /\ UNCHANGED modules
    BY <2>1, <2>3
  <2>4. QED BY <1>4, <2>2, <2>3 DEF S!Validate, S!Validated, S!Recorded
<1>5. CASE S!Replace
  BY <1>5 DEF S!Replace, S!Replaced
<1>6. CASE S!Install
  <2> DEFINE done == [modules EXCEPT !.holds = run.of]
             recorded == [done EXCEPT !.record = run.took]
             Typed(m) == m \in [holds : Version \cup {"nothing", "partial", "linked"},
                                record : Version \cup {"none"}]
  <2>1. /\ S!At("install") /\ run.took \in Version /\ UNCHANGED <<inputs, orphans, used, ghost>>
        /\ run.of \in Version \cup {S!Begun}
    BY <1>6 DEF S!Install
  <2>2. CASE run.of # S!Begun /\ run' = S!Ready /\ modules' \in {done, recorded}
    <3>1. Typed(done) /\ done.holds = run.of
      BY <2>1, <2>2
    <3>2. Typed(recorded) /\ recorded.holds = run.of
      BY <2>1, <3>1
    <3>3. modules'.holds = run.of /\ Typed(modules')
      BY <2>2, <3>1, <3>2
    <3>4. QED BY <2>1, <2>2, <3>3 DEF S!Ready
  <2>3. CASE run' = S!Idle /\ UNCHANGED modules
    BY <2>1, <2>3
  <2>4. QED BY <1>6, <2>2, <2>3 DEF S!Install, S!Installed, S!Recorded
<1>7. CASE S!WorkerInstalls
  BY <1>7 DEF S!WorkerInstalls, S!Replaced
<1>8. CASE S!Begin
  BY <1>8 DEF S!Begin
<1>9. CASE S!RunCheck
  <2>1. /\ S!At("checks") /\ UNCHANGED <<inputs, modules, orphans, used>> /\ ghost.proven = 1 .. run.passed
        /\ run \in [at : {"checks", "repair", "pass", "fail"}, took : Version \cup {"none"},
                    repaired : BOOLEAN, passed : Nat]
    BY <1>9 DEF S!RunCheck
  <2>2. PICK passed \in Nat :
          /\ ghost' = [ghost EXCEPT !.proven = 1 .. passed]
          /\ \/ run' = [run EXCEPT !.passed = passed]
             \/ run' = [run EXCEPT !.at = "pass"] /\ Check = 1 .. passed
             \/ run' \in {[run EXCEPT !.at = "fail"], [run EXCEPT !.at = "repair"]}
    <3>1. PICK exit \in S!Exit :
            LET passed == IF exit = 0 THEN run.passed + 1 ELSE run.passed
                stops == exit # 0 \/ passed \notin Check \/ passed + 1 \notin Check IN
            /\ ghost' = [ghost EXCEPT !.proven = IF exit = 0 THEN @ \cup {passed} ELSE @]
            /\ IF ~ stops THEN run' = [run EXCEPT !.passed = passed]
               ELSE run' \in IF S!MechanicalPass(passed) THEN {[run EXCEPT !.at = "pass"]}
                             ELSE {[run EXCEPT !.at = "fail"]} \cup
                                  (IF run.repaired THEN {} ELSE {[run EXCEPT !.at = "repair"]})
      BY <1>9 DEF S!RunCheck
    <3> DEFINE passed == IF exit = 0 THEN run.passed + 1 ELSE run.passed
    <3>2. passed \in Nat /\ 1 .. passed = IF exit = 0 THEN ghost.proven \cup {passed} ELSE ghost.proven
      <4>1. run.passed \in Nat
        BY <2>1
      <4>2. 1 .. run.passed + 1 = (1 .. run.passed) \cup {run.passed + 1}
        BY <4>1
      <4>3. CASE exit = 0
        BY <2>1, <4>1, <4>2, <4>3
      <4>4. CASE exit # 0
        BY <2>1, <4>1, <4>4
      <4>5. QED BY <4>3, <4>4
    <3>3. ghost' = [ghost EXCEPT !.proven = 1 .. passed]
      BY <3>1, <3>2
    <3>4. \/ run' = [run EXCEPT !.passed = passed]
          \/ run' = [run EXCEPT !.at = "pass"] /\ Check = 1 .. passed
          \/ run' \in {[run EXCEPT !.at = "fail"], [run EXCEPT !.at = "repair"]}
      BY <3>1 DEF S!MechanicalPass
    <3> HIDE DEF passed
    <3>5. QED BY <3>2, <3>3, <3>4
  <2>3. 1 .. passed \in SUBSET Nat
    OBVIOUS
  <2>4. /\ ghost'.proven = 1 .. passed /\ ghost'.seen = ghost.seen /\ ghost'.disturbed = ghost.disturbed
        /\ HistoryShaped'
    BY <2>2, <2>3
  <2>5. CASE run' = [run EXCEPT !.passed = passed]
    BY <2>1, <2>4, <2>5
  <2>6. CASE run' = [run EXCEPT !.at = "pass"] /\ Check = 1 .. passed
    BY <2>1, <2>4, <2>6
  <2>7. CASE run' \in {[run EXCEPT !.at = "fail"], [run EXCEPT !.at = "repair"]}
    BY <2>1, <2>4, <2>7
  <2>8. QED BY <2>2, <2>5, <2>6, <2>7
<1>10. CASE S!Return
  BY <1>10 DEF S!Return
<1>11. CASE S!Kill
  BY <1>11 DEF S!Kill
<1>12. CASE S!OrphanReplaces
  BY <1>12 DEF S!OrphanReplaces, S!Replaced
<1>13. CASE S!OrphanEnds
  <2>1. PICK v \in orphans :
          /\ orphans' = orphans \ {v} /\ UNCHANGED <<inputs, run, used, ghost>>
          /\ modules' = modules \/ (v # S!Begun /\ modules' = [modules EXCEPT !.holds = v])
    BY <1>13 DEF S!OrphanEnds
  <2>2. modules' \in [holds : Version \cup {"nothing", "partial", "linked"}, record : Version \cup {"none"}]
    BY <2>1
  <2>3. S!At("idle") \/ ghost.disturbed
    BY <2>1
  <2>4. QED BY <2>1, <2>2, <2>3
<1>14. QED
  BY <1>1, <1>2, <1>3, <1>4, <1>5, <1>6, <1>7, <1>8, <1>9, <1>10, <1>11, <1>12, <1>13 DEF S!Next

(* A mechanical pass rests on every check of the list and, unless an        *)
(* installer of an earlier run was at work, on inputs the run has seen.     *)
THEOREM Grounded == EitherSpec => []PassGrounded
<1>1. EitherInit => SetupInv
  BY SetupBegins DEF EitherInit
<1>2. SetupInv /\ [EitherNext]_allVars => SetupInv'
  BY SetupStep, SetupSteps
<1>3. SetupInv => PassGrounded
  BY DEF SetupInv, ChecksCounted, InstalledSeen, PassGrounded, S!PassGrounded
<1>4. QED
  BY <1>1, <1>2, <1>3, PTL DEF EitherSpec

-----------------------------------------------------------------------------
(* Status.                                                                  *)

(* A step of the system is one of the runs or of a command, or touches      *)
(* neither.                                                                 *)
LEMMA StatusSteps == [EitherNext]_allVars => [R!Next]_status
  BY DEF EitherNext, allVars, others, status

RecordOf == R!Records({"running"} \cup R!Ended)

RunsTyped ==
  /\ \A r \in Run : records[r] = R!NoRecord \/ records[r] \in RecordOf
  /\ \A r \in Legacy : records[r] # R!NoRecord /\ records[r].issue \in Issue
  /\ DOMAIN records = Run
  /\ lock \in [Run -> {"absent", "foreign", "dead", "alive"}]
  /\ lease \in [Issue -> Run \cup {Nobody}]

(* A command that is looking has seen every owner since it began.           *)
Looking == command.at \in {"status", "auto"}

OwnersSeen == Looking => R!Owners \subseteq owned

Ranks == \E i \in Issue : <<command.auth, i>> \in owned

StatusCommand ==
  /\ command \in [at : {"status"}, session : Session \cup {Nobody}, named : Run \cup {Nobody},
                  auth : Run \cup {Nobody}, todo : SUBSET [run : Run, issue : Issue]]
  /\ command.auth = Nobody \/ Ranks

Answered ==
  /\ command \in [at : {"answered"}, session : Session \cup {Nobody}, named : Run \cup {Nobody},
                  current : SUBSET Run, ambiguous : BOOLEAN, authoritative : SUBSET Run, mismatch : BOOLEAN]
  /\ command.current \subseteq R!Listed
  /\ R!StatusTrue

(* What is listed of a run is its record of then; a lease that was read is  *)
(* one that was owned.                                                      *)
AutoCommand ==
  /\ command \in [at : {"auto"}, todo : SUBSET [run : Legacy, copy : RecordOf], cache : {command.cache}]
  /\ \A t \in command.todo : t.copy.issue \in Issue
  /\ DOMAIN command.cache \subseteq Issue
  /\ \A i \in DOMAIN command.cache : command.cache[i] = Nobody \/ <<command.cache[i], i>> \in owned

Blocked ==
  /\ command \in [at : {"blocked"}, run : Legacy, lock : {"absent", "foreign", "dead", "alive"}, copy : RecordOf]
  /\ R!StatusTrue

StatusInv ==
  /\ RunsTyped /\ OwnersSeen
  /\ command = R!Idle \/ StatusCommand \/ Answered \/ AutoCommand \/ Blocked

(* The module that is instantiated counts as this one does.                 *)
LEMMA Counts ==
  ASSUME NEW X
  PROVE  R!Cardinality(X) = Cardinality(X) /\ R!IsFiniteSet(X) = IsFiniteSet(X)
  BY DEF R!Cardinality, Cardinality, R!IsFiniteSet, IsFiniteSet

USE ProcessesAssumption DEF ProcessesAssumption

(* A step of the runs, as a command sees it.                                *)
RunMoves ==
  \/ \E r \in Run : R!Start(r) \/ R!End(r) \/ R!Stop(r) \/ R!Die(r) \/ \E i \in Issue : R!Claim(r, i) \/ R!Project(r, i)
  \/ \E i \in Issue : R!Release(i)

(* What one step of a run does to its record.                               *)
LEMMA RecordMoves ==
  ASSUME RunsTyped, NEW r \in Run, NEW x \in RecordOf, records' = [records EXCEPT ![r] = x],
         records[r] = R!NoRecord \/ (x.session = records[r].session /\ (x.status \in R!Ended \/ x.status = records[r].status)),
         r \in Legacy => x.issue \in Issue,
         UNCHANGED <<lock, lease>>
  PROVE  /\ RunsTyped'
         /\ \A q \in R!Listed : q \in R!Listed' /\ records'[q].session = records[q].session
         /\ \A q \in Legacy : records[q].status \in R!Ended => records'[q].status \in R!Ended
<1>1. x # R!NoRecord
  BY DEF RecordOf, R!Records, R!Ended, R!NoRecord
<1>2. /\ records'[r] = x /\ DOMAIN records' = Run
      /\ \A q \in Run : q # r => records'[q] = records[q]
  BY DEF RunsTyped
<1>3. Legacy \subseteq Run
  BY DEF R!StatusAssumption
<1>4. RunsTyped'
  BY <1>1, <1>2, <1>3 DEF RunsTyped
<1>5. \A q \in R!Listed : q \in R!Listed' /\ records'[q].session = records[q].session
  BY <1>1, <1>2 DEF R!Listed
<1>6. \A q \in Legacy : records[q].status \in R!Ended => records'[q].status \in R!Ended
  BY <1>2, <1>3 DEF R!Ended, RunsTyped
<1>7. QED BY <1>4, <1>5, <1>6

(* No step of a run takes back what a command has seen: who owned a lease,  *)
(* what is listed, what has ended.                                          *)
LEMMA MovesKeep ==
  ASSUME RunsTyped, RunMoves
  PROVE  /\ RunsTyped' /\ UNCHANGED command
         /\ owned \subseteq owned' /\ (~ Looking => owned' = owned)
         /\ OwnersSeen => OwnersSeen'
         /\ \A q \in R!Listed : q \in R!Listed' /\ records'[q].session = records[q].session
         /\ \A q \in Legacy : records[q].status \in R!Ended => records'[q].status \in R!Ended
<1> DEFINE Kept ==
      /\ RunsTyped' /\ UNCHANGED command
      /\ owned \subseteq owned' /\ (~ Looking => owned' = owned)
      /\ OwnersSeen => OwnersSeen'
      /\ \A q \in R!Listed : q \in R!Listed' /\ records'[q].session = records[q].session
      /\ \A q \in Legacy : records[q].status \in R!Ended => records'[q].status \in R!Ended
<1>1. ASSUME NEW r \in Run, NEW x \in RecordOf, records' = [records EXCEPT ![r] = x],
             records[r] = R!NoRecord \/ (x.session = records[r].session /\ (x.status \in R!Ended \/ x.status = records[r].status)),
             r \in Legacy => x.issue \in Issue,
             UNCHANGED <<lock, lease, command, owned>>
      PROVE  Kept
  <2>1. R!Owners' = R!Owners
    BY <1>1 DEF R!Owners
  <2>2. OwnersSeen => OwnersSeen'
    BY <1>1, <2>1 DEF OwnersSeen, Looking
  <2>3. QED BY <1>1, <2>2, RecordMoves
<1>2. ASSUME UNCHANGED <<records, command, owned>>, RunsTyped', R!Owners' \subseteq R!Owners
      PROVE  Kept
  BY <1>2 DEF OwnersSeen, Looking, R!Listed
<1>3. \A r \in Run : records[r].status \in {"running"} \cup R!Ended => records[r] \in RecordOf
  BY DEF RunsTyped, R!NoRecord, R!Ended
<1>4. ASSUME NEW r \in Run, R!Start(r) PROVE Kept
  <2>1. PICK s \in Session :
          records' = [records EXCEPT ![r] = [status |-> "running", session |-> s, issue |-> 0, blocked |-> FALSE]]
    BY <1>4 DEF R!Start
  <2> DEFINE x == [status |-> "running", session |-> s, issue |-> 0, blocked |-> FALSE]
  <2>2. x \in RecordOf
    BY DEF RecordOf, R!Records
  <2>3. r \notin Legacy /\ records[r] = R!NoRecord /\ UNCHANGED <<lock, lease, command, owned>>
    BY <1>4 DEF R!Start, RunsTyped
  <2> HIDE DEF x, Kept
  <2>4. QED BY <1>1, <2>1, <2>2, <2>3 DEF x
<1>5. ASSUME NEW r \in Run, R!End(r) \/ R!Stop(r) PROVE Kept
  <2>1. PICK s \in {"completed", "stopped"} : records' = [records EXCEPT ![r].status = s]
    BY <1>5 DEF R!End, R!Stop
  <2> DEFINE x == [records[r] EXCEPT !.status = s]
  <2>2. records[r] \in RecordOf
    BY <1>3, <1>5 DEF R!End, R!Stop
  <2>3. x \in RecordOf /\ x.session = records[r].session /\ x.status \in R!Ended /\ x.issue = records[r].issue
    BY <2>2 DEF RecordOf, R!Records, R!Ended
  <2>4. records' = [records EXCEPT ![r] = x] /\ UNCHANGED <<lock, lease, command, owned>>
    BY <1>5, <2>1 DEF R!End, R!Stop
  <2>5. r \in Legacy => x.issue \in Issue
    BY <2>3 DEF RunsTyped
  <2> HIDE DEF x, Kept
  <2>6. QED BY <1>1, <2>3, <2>4, <2>5
<1>6. ASSUME NEW r \in Run, NEW i \in Issue, R!Project(r, i) PROVE Kept
  <2> DEFINE x == [records[r] EXCEPT !.issue = i]
  <2>2. records[r] \in RecordOf
    BY <1>3, <1>6 DEF R!Project
  <2>3. x \in RecordOf /\ x.session = records[r].session /\ x.status = records[r].status /\ x.issue = i
    BY <2>2 DEF RecordOf, R!Records
  <2>4. records' = [records EXCEPT ![r] = x] /\ UNCHANGED <<lock, lease, command, owned>>
    BY <1>6 DEF R!Project
  <2> HIDE DEF x, Kept
  <2>6. QED BY <1>1, <2>3, <2>4
<1>7. ASSUME NEW r \in Run, R!Die(r) PROVE Kept
  <2>1. RunsTyped' /\ R!Owners' = R!Owners
    BY <1>7 DEF R!Die, RunsTyped, R!Owners
  <2>2. QED BY <1>2, <1>7, <2>1 DEF R!Die
<1>8. ASSUME NEW r \in Run, NEW i \in Issue, R!Claim(r, i) PROVE Kept
  <2>1. lease' = [lease EXCEPT ![i] = r] /\ UNCHANGED <<records, lock, command>>
    BY <1>8 DEF R!Claim
  <2>2. RunsTyped'
    BY <2>1 DEF RunsTyped
  <2>3. owned' = IF Looking THEN owned \cup {<<r, i>>} ELSE owned
    BY <1>8 DEF R!Claim, Looking
  <2>4. R!Owners' \subseteq R!Owners \cup {<<r, i>>}
    BY <2>1 DEF R!Owners, RunsTyped
  <2>5. OwnersSeen => OwnersSeen'
    BY <2>1, <2>3, <2>4 DEF OwnersSeen, Looking
  <2>6. QED BY <2>1, <2>2, <2>3, <2>5 DEF R!Listed
<1>9. ASSUME NEW i \in Issue, R!Release(i) PROVE Kept
  <2>1. RunsTyped' /\ R!Owners' \subseteq R!Owners
    BY <1>9 DEF R!Release, RunsTyped, R!Owners
  <2>2. QED BY <1>2, <1>9, <2>1 DEF R!Release
<1> HIDE DEF Kept
<1>10. Kept
  BY <1>4, <1>5, <1>6, <1>7, <1>8, <1>9 DEF RunMoves
<1>11. QED BY <1>10 DEF Kept

(* The runs leave a command as it is, and its answer true.                  *)
LEMMA MovesKeepInv == StatusInv /\ RunMoves => StatusInv'
<1> SUFFICES ASSUME StatusInv, RunMoves PROVE StatusInv'
  OBVIOUS
<1>1. /\ RunsTyped' /\ OwnersSeen' /\ UNCHANGED command
      /\ owned \subseteq owned' /\ (~ Looking => owned' = owned)
      /\ \A q \in R!Listed : q \in R!Listed' /\ records'[q].session = records[q].session
      /\ \A q \in Legacy : records[q].status \in R!Ended => records'[q].status \in R!Ended
  BY MovesKeep DEF StatusInv
<1>2. CASE command = R!Idle
  BY <1>1, <1>2 DEF StatusInv
<1>3. CASE StatusCommand
  <2>1. StatusCommand'
    BY <1>1, <1>3 DEF StatusCommand, Ranks
  <2>2. QED BY <1>1, <2>1 DEF StatusInv
<1>4. CASE AutoCommand
  <2>1. AutoCommand'
    BY <1>1, <1>4 DEF AutoCommand
  <2>2. QED BY <1>1, <2>1 DEF StatusInv
<1>5. CASE Answered
  <2>1. command.at = "answered" /\ owned' = owned
    BY <1>1, <1>5 DEF Answered, Looking
  <2>2. command.current \subseteq R!Listed'
    BY <1>1, <1>5 DEF Answered
  <2>3. \A r \in command.current : command.named = Nobody /\ command.session # Nobody
                                    => records'[r].session = command.session
    BY <1>1, <1>5, <2>1 DEF Answered, R!StatusTrue
  <2>4. command.ambiguous => R!Cardinality(R!Candidates(command.session)') > 1
    <3> DEFINE now == R!Candidates(command.session)
               next == R!Candidates(command.session)'
    <3>1. now \subseteq next
      BY <1>1 DEF R!Candidates
    <3>2. next \subseteq Run /\ IsFiniteSet(Run)
      BY Counts DEF R!Candidates, R!Listed, R!StatusAssumption
    <3>3. command.ambiguous => Cardinality(now) > 1
      BY <1>5, <2>1, Counts DEF Answered, R!StatusTrue
    <3> HIDE DEF now, next
    <3>4. IsFiniteSet(next)
      BY <3>2, FS_Subset
    <3>5. Cardinality(now) <= Cardinality(next) /\ Cardinality(now) \in Nat /\ Cardinality(next) \in Nat
      BY <3>1, <3>4, FS_Subset, FS_CardinalityType
    <3>6. command.ambiguous => Cardinality(next) > 1
      BY <3>3, <3>5
    <3>7. QED BY <3>6, Counts DEF next
  <2>5. R!StatusTrue'
    BY <1>1, <1>5, <2>1, <2>3, <2>4 DEF Answered, R!StatusTrue
  <2>6. Answered'
    BY <1>1, <1>5, <2>2, <2>5 DEF Answered
  <2>7. QED BY <1>1, <2>6 DEF StatusInv
<1>6. CASE Blocked
  <2>1. R!StatusTrue'
    BY <1>1, <1>6 DEF Blocked, R!StatusTrue, Looking
  <2>2. Blocked'
    BY <1>1, <1>6, <2>1 DEF Blocked
  <2>3. QED BY <1>1, <2>2 DEF StatusInv
<1>7. QED BY <1>2, <1>3, <1>4, <1>5, <1>6 DEF StatusInv

(* The status command.                                                      *)
LEMMA AskKeeps == StatusInv /\ R!Ask => StatusInv'
<1> SUFFICES ASSUME StatusInv, R!Ask PROVE StatusInv'
  OBVIOUS
<1> DEFINE listed == {[run |-> r, issue |-> records[r].issue] : r \in {q \in R!Listed : records[q].issue # 0}}
<1>1. PICK s \in Session \cup {Nobody}, named \in R!Listed \cup {Nobody} :
        command' = [at |-> "status", session |-> s, named |-> named, auth |-> Nobody, todo |-> listed]
  BY DEF R!Ask
<1>2. owned' = R!Owners /\ UNCHANGED <<records, lock, lease>>
  BY DEF R!Ask
<1>3. listed \in SUBSET [run : Run, issue : Issue] /\ R!Listed \subseteq Run
  BY DEF R!Listed, StatusInv, RunsTyped, RecordOf, R!Records, R!NoRecord
<1> HIDE DEF listed
<1>4. StatusCommand'
  BY <1>1, <1>3 DEF StatusCommand
<1>5. RunsTyped' /\ OwnersSeen'
  BY <1>2 DEF StatusInv, RunsTyped, OwnersSeen, R!Owners
<1>6. QED BY <1>4, <1>5 DEF StatusInv

(* The status command reads the session, the current run and the leases.    *)
LEMMA ReadKeeps == StatusInv /\ R!ReadStatus => StatusInv'
<1> SUFFICES ASSUME StatusInv, R!ReadStatus PROVE StatusInv'
  OBVIOUS
<1>1. StatusCommand /\ command.at = "status" /\ UNCHANGED <<records, lock, lease, owned>>
  BY DEF StatusInv, R!ReadStatus, R!Idle, Answered, AutoCommand, Blocked
<1>2. PICK t \in command.todo :
        \/ command' = [command EXCEPT !.todo = @ \ {t}]
        \/ R!Matches(t.run, t.issue) /\ command' = [command EXCEPT !.todo = {}, !.auth = t.run]
  BY DEF R!ReadStatus
<1>3. t.run \in Run /\ t.issue \in Issue
  BY <1>1 DEF StatusCommand
<1>4. CASE command' = [command EXCEPT !.todo = @ \ {t}]
  BY <1>1, <1>4 DEF StatusCommand, Ranks, StatusInv, RunsTyped, OwnersSeen, Looking, R!Owners
<1>5. CASE R!Matches(t.run, t.issue) /\ command' = [command EXCEPT !.todo = {}, !.auth = t.run]
  <2>1. <<t.run, t.issue>> \in R!Owners
    BY <1>3, <1>5 DEF R!Matches, R!Owners, R!StatusAssumption
  <2>2. <<t.run, t.issue>> \in owned
    BY <1>1, <2>1 DEF StatusInv, OwnersSeen, Looking
  <2>3. StatusCommand'
    BY <1>1, <1>3, <1>5, <2>2 DEF StatusCommand, Ranks
  <2>4. RunsTyped' /\ OwnersSeen'
    BY <1>1 DEF StatusInv, RunsTyped, OwnersSeen, Looking, R!Owners
  <2>5. QED BY <2>3, <2>4 DEF StatusInv
<1>6. QED BY <1>2, <1>4, <1>5

(* What it then answers of the runs is true.                                *)
LEMMA RenderKeeps == StatusInv /\ R!Render => StatusInv'
<1> SUFFICES ASSUME StatusInv, R!Render PROVE StatusInv'
  OBVIOUS
<1>1. StatusCommand /\ command.at = "status" /\ UNCHANGED <<records, lock, lease, owned>>
  BY DEF StatusInv, R!Render, R!Idle, Answered, AutoCommand, Blocked
<1> DEFINE first == R!Selected(command.named, command.session)
           chosen == IF first = {} /\ command.auth \in R!Listed /\ R!OfSession(command.auth, command.session)
                     THEN {command.auth} ELSE first
           unclear == chosen = {} /\ R!Ambiguous(command.named, command.session)
           foreign == {command.auth} \ (chosen \cup {Nobody})
           wrong == chosen # {} /\ command.auth \notin chosen \cup {Nobody}
<1>2. command' = [at |-> "answered", session |-> command.session, named |-> command.named, current |-> chosen,
                  ambiguous |-> unclear, authoritative |-> foreign, mismatch |-> wrong]
  BY DEF R!Render
<1>3. /\ chosen \subseteq R!Listed
      /\ \A r \in chosen : command.named = Nobody /\ command.session # Nobody => records[r].session = command.session
  BY DEF R!Selected, R!Candidates, R!Listed, R!OfSession
<1>4. foreign \subseteq Run /\ \A r \in foreign : \E i \in Issue : <<r, i>> \in owned
  BY <1>1 DEF StatusCommand, Ranks
<1>5. unclear => R!Cardinality(R!Candidates(command.session)) > 1
  BY DEF R!Ambiguous
<1>6. unclear \in BOOLEAN /\ wrong \in BOOLEAN /\ R!Listed \subseteq Run
  BY DEF R!Listed
<1>7. RunsTyped' /\ R!Listed' = R!Listed
  BY <1>1 DEF StatusInv, RunsTyped, R!Listed
<1> HIDE DEF chosen, unclear, foreign, wrong
<1>9. /\ command'.at = "answered" /\ command'.session = command.session /\ command'.named = command.named
      /\ command'.current = chosen /\ command'.ambiguous = unclear /\ command'.authoritative = foreign
  BY <1>2
<1>10. R!StatusTrue'
  <2>1. R!Candidates(command.session)' = R!Candidates(command.session)
    BY <1>1, <1>7, <1>9 DEF R!Candidates
  <2>2. QED BY <1>1, <1>3, <1>4, <1>5, <1>9, <2>1 DEF R!StatusTrue
<1>11. Answered'
  <2>1. command.session \in Session \cup {Nobody} /\ command.named \in Run \cup {Nobody}
    BY <1>1 DEF StatusCommand
  <2>2. QED BY <1>2, <1>3, <1>4, <1>6, <1>7, <1>9, <1>10, <2>1 DEF Answered
<1>12. OwnersSeen'
  BY <1>9 DEF OwnersSeen, Looking
<1>13. QED BY <1>7, <1>11, <1>12 DEF StatusInv

(* The auto command.                                                        *)
LEMMA AutoKeeps == StatusInv /\ R!Auto => StatusInv'
<1> SUFFICES ASSUME StatusInv, R!Auto PROVE StatusInv'
  OBVIOUS
<1> DEFINE listed == {[run |-> r, copy |-> records[r]] : r \in R!Recoverable}
           nothing == [i \in {} |-> Nobody]
<1>1. command' = [at |-> "auto", todo |-> listed, cache |-> nothing]
  BY DEF R!Auto
<1>2. owned' = R!Owners /\ UNCHANGED <<records, lock, lease>>
  BY DEF R!Auto
<1>3. listed \in SUBSET [run : Legacy, copy : RecordOf] /\ \A t \in listed : t.copy.issue \in Issue
  BY DEF R!Recoverable, R!Listed, StatusInv, RunsTyped
<1>4. DOMAIN nothing = {}
  OBVIOUS
<1> HIDE DEF listed, nothing
<1>5. AutoCommand'
  BY <1>1, <1>3, <1>4 DEF AutoCommand
<1>6. RunsTyped' /\ OwnersSeen'
  BY <1>2 DEF StatusInv, RunsTyped, OwnersSeen, R!Owners
<1>7. QED BY <1>5, <1>6 DEF StatusInv

(* A lease in the cache, or read now, is one that was owned.                *)
LEMMA CachedOwned ==
  ASSUME StatusInv, AutoCommand, NEW i \in Issue
  PROVE  R!Cached(i) = Nobody \/ <<R!Cached(i), i>> \in owned
<1>1. CASE i \in DOMAIN command.cache
  BY <1>1 DEF AutoCommand, R!Cached
<1>2. CASE i \notin DOMAIN command.cache /\ lease[i] # Nobody
  <2>1. <<lease[i], i>> \in R!Owners
    BY <1>2 DEF R!Owners
  <2>2. Looking
    BY DEF AutoCommand, Looking
  <2>3. QED BY <1>2, <2>1, <2>2 DEF StatusInv, OwnersSeen, R!Cached
<1>3. QED BY <1>1, <1>2 DEF R!Cached

(* The auto command passes over a run that is not abandoned, or has cached  *)
(* its lease.                                                               *)
LEMMA PassKeeps == StatusInv /\ R!PassOver => StatusInv'
<1> SUFFICES ASSUME StatusInv, R!PassOver PROVE StatusInv'
  OBVIOUS
<1>1. AutoCommand /\ UNCHANGED <<records, lock, lease, owned>>
  BY DEF StatusInv, R!PassOver, R!Idle, Answered, StatusCommand, Blocked
<1>2. PICK t \in command.todo :
        command' = [command EXCEPT !.todo = @ \ {t},
                                   !.cache = [i \in DOMAIN @ \cup {t.copy.issue} |-> R!Cached(i)]]
  BY DEF R!PassOver
<1> DEFINE cache == [i \in DOMAIN command.cache \cup {t.copy.issue} |-> R!Cached(i)]
<1>3. t.copy.issue \in Issue /\ DOMAIN command.cache \subseteq Issue
  BY <1>1 DEF AutoCommand
<1>4. \A j \in DOMAIN cache : j \in Issue /\ (cache[j] = Nobody \/ <<cache[j], j>> \in owned)
  BY <1>1, <1>3, CachedOwned
<1>5. command' = [command EXCEPT !.todo = @ \ {t}, !.cache = cache]
  BY <1>2
<1> HIDE DEF cache
<1>6. AutoCommand'
  BY <1>1, <1>4, <1>5 DEF AutoCommand
<1>7. RunsTyped' /\ OwnersSeen'
  BY <1>1, <1>6 DEF StatusInv, RunsTyped, OwnersSeen, R!Owners, Looking, AutoCommand
<1>8. QED BY <1>6, <1>7 DEF StatusInv

(* What it takes for abandoned is.                                          *)
LEMMA DecideKeeps == StatusInv /\ R!Decide => StatusInv'
<1> SUFFICES ASSUME StatusInv, R!Decide PROVE StatusInv'
  OBVIOUS
<1>1. AutoCommand /\ Looking /\ UNCHANGED <<lock, lease, owned>>
  BY DEF StatusInv, R!Decide, R!Idle, Answered, StatusCommand, Blocked, AutoCommand, Looking
<1>2. PICK t \in command.todo :
        /\ R!Cached(t.copy.issue) = t.run
        /\ IF R!Abandoned(t.copy, lock[t.run])
           THEN /\ records' = [records EXCEPT ![t.run] = [t.copy EXCEPT !.blocked = TRUE]]
                /\ command' = [at |-> "blocked", run |-> t.run, lock |-> lock[t.run], copy |-> t.copy]
           ELSE command' = R!Idle /\ UNCHANGED records
  BY DEF R!Decide
<1>3. t.run \in Legacy /\ t.copy \in RecordOf /\ t.copy.issue \in Issue /\ Legacy \subseteq Run /\ Nobody \notin Run
  BY <1>1 DEF AutoCommand, R!StatusAssumption
<1>4. <<t.run, t.copy.issue>> \in owned
  BY <1>1, <1>2, <1>3, CachedOwned
<1>5. CASE command' = R!Idle /\ UNCHANGED records
  BY <1>1, <1>5 DEF StatusInv, RunsTyped, OwnersSeen, Looking, R!Idle
<1>6. CASE /\ R!Abandoned(t.copy, lock[t.run])
           /\ records' = [records EXCEPT ![t.run] = [t.copy EXCEPT !.blocked = TRUE]]
           /\ command' = [at |-> "blocked", run |-> t.run, lock |-> lock[t.run], copy |-> t.copy]
  <2> DEFINE x == [t.copy EXCEPT !.blocked = TRUE]
  <2>1. x \in RecordOf /\ x.status = t.copy.status /\ x.issue = t.copy.issue /\ x # R!NoRecord
    BY <1>3 DEF RecordOf, R!Records, R!NoRecord, R!Ended
  <2>2. records' = [records EXCEPT ![t.run] = x]
    BY <1>6
  <2> HIDE DEF x
  <2>3. RunsTyped' /\ records'[t.run] = x
    BY <1>1, <1>3, <2>1, <2>2 DEF StatusInv, RunsTyped
  <2>4. lock[t.run] \in {"absent", "foreign", "dead", "alive"}
    BY <1>3 DEF StatusInv, RunsTyped
  <2>5. lock[t.run] = "dead" \/ (lock[t.run] # "alive" /\ x.status \in R!Ended)
    BY <1>6, <2>1, <2>4 DEF R!Abandoned, R!Ended
  <2>6. /\ command'.at = "blocked" /\ command'.run = t.run /\ command'.lock = lock[t.run] /\ command'.copy = t.copy
    BY <1>6
  <2>7. R!StatusTrue'
    BY <1>1, <1>4, <2>3, <2>5, <2>6 DEF R!StatusTrue
  <2>8. Blocked'
    BY <1>3, <1>6, <2>4, <2>7 DEF Blocked
  <2>9. OwnersSeen'
    BY <2>6 DEF OwnersSeen, Looking
  <2>10. QED BY <2>3, <2>8, <2>9 DEF StatusInv
<1>7. QED BY <1>2, <1>5, <1>6

(* It goes on to the next run, or is free again.                            *)
LEMMA GoesOnKeeps == StatusInv /\ R!GoesOn => StatusInv'
  BY DEF StatusInv, R!GoesOn, RunsTyped, OwnersSeen, Looking, R!Idle

(* Every behaviour of the runs and commands begins with the invariant.      *)
LEMMA StatusBegins == R!Init => StatusInv
<1> SUFFICES ASSUME R!Init PROVE StatusInv
  OBVIOUS
<1>1. \A r \in Run : records[r] = R!NoRecord \/ records[r] \in RecordOf
  BY DEF R!Init, RecordOf, R!Records, R!Ended
<1>2. \A r \in Legacy : records[r] # R!NoRecord /\ records[r].issue \in Issue
  BY <1>1 DEF R!Init, RecordOf, R!Records, R!StatusAssumption
<1>3. RunsTyped
  BY <1>1, <1>2 DEF RunsTyped, R!Init, R!StatusAssumption
<1>4. QED BY <1>3 DEF StatusInv, R!Init, OwnersSeen, Looking, R!Idle

(* What is told of the runs of a checkout is true of them.                  *)
THEOREM StatusIsTrue == EitherSpec => []StatusTrue
<1>1. EitherInit => StatusInv
  BY StatusBegins DEF EitherInit
<1>2. StatusInv /\ [EitherNext]_allVars => StatusInv'
  <2> SUFFICES ASSUME StatusInv, [R!Next]_status PROVE StatusInv'
    BY StatusSteps
  <2>1. CASE UNCHANGED status
    BY <2>1 DEF status, StatusInv, RunsTyped, OwnersSeen, Looking, R!Owners, StatusCommand, Ranks, Answered,
                AutoCommand, Blocked, R!StatusTrue, R!Candidates, R!Listed
  <2>2. CASE R!Next
    BY <2>2, MovesKeepInv, AskKeeps, ReadKeeps, RenderKeeps, AutoKeeps, PassKeeps, DecideKeeps, GoesOnKeeps
       DEF R!Next, RunMoves
  <2>3. QED BY <2>1, <2>2
<1>3. StatusInv => StatusTrue
  BY DEF StatusInv, StatusTrue, R!StatusTrue, R!Idle, StatusCommand, Answered, AutoCommand, Blocked
<1>4. QED
  BY <1>1, <1>2, <1>3, PTL DEF EitherSpec

-----------------------------------------------------------------------------
(* The lock file.                                                           *)

(* A step of the system is one of a contender, or does not touch the lock   *)
(* file.                                                                    *)
LEMMA FileSteps == [EitherNext]_allVars => [K!Next]_lockFile
  BY DEF EitherNext, allVars, others, lockFile

(* Types of the lock file's variables, whoever dies.                        *)
LEMMA FileTyped ==
  ASSUME K!TypeOK, [K!Next]_lockFile
  PROVE  K!TypeOK'
<1> USE ProcessesAssumption DEF K!LockAssumption
<1>1. CASE UNCHANGED lockFile
  BY <1>1 DEF K!TypeOK, lockFile
<1>2. ASSUME NEW p \in Proc, K!Begin(p) \/ K!Acquire(p) \/ K!Release(p) \/ K!Die(p)
      PROVE  K!TypeOK'
  <2> USE DEF K!TypeOK, K!Steps, K!Goto, K!Remove, K!Retry, K!LastAttempt
  <2>1. CASE K!Begin(p) \/ K!Release(p) \/ K!Die(p)
    BY <2>1 DEF K!Begin, K!Release, K!Die
  <2>2. CASE K!Open(p) \/ K!Write(p)
    BY <2>2 DEF K!Open, K!Write
  <2>3. CASE K!Read(p) \/ K!Unlink(p)
    BY <2>3 DEF K!Read, K!Unlink
  <2>4. CASE K!Probe(p)
    BY <2>4 DEF K!Probe, K!Alive
  <2>5. QED
    BY <1>2, <2>1, <2>2, <2>3, <2>4 DEF K!Acquire
<1>3. QED
  BY <1>1, <1>2 DEF K!Next

(* One step of a contender keeps the invariant until somebody dies.         *)
LEMMA StepKeepsLockInv ==
  ASSUME K!TypeOK, K!LockInv, NEW p \in Proc, K!Begin(p) \/ K!Acquire(p) \/ K!Release(p)
  PROVE  K!LockInv'
<1> USE ProcessesAssumption DEF K!LockAssumption, K!TypeOK, K!LockInv, K!Goto, K!Retry
<1>1. CASE K!Begin(p)
  BY <1>1 DEF K!Begin
<1>2. CASE K!Open(p)
  BY <1>2 DEF K!Open
<1>3. CASE K!Write(p)
  BY <1>3 DEF K!Write
<1>4. CASE K!Read(p)
  BY <1>4 DEF K!Read
<1>5. CASE K!Probe(p)
  <2>1. K!Alive(read[p])
    BY <1>5 DEF K!Probe, K!Alive
  <2>2. QED
    BY <1>5, <2>1 DEF K!Probe
<1>6. CASE K!Unlink(p)
  BY <1>6 DEF K!Unlink
<1>7. CASE K!Release(p)
  BY <1>7 DEF K!Release, K!Remove
<1>8. QED
  BY <1>1, <1>2, <1>3, <1>4, <1>5, <1>6, <1>7 DEF K!Acquire

(* The file belongs to the contender inside until somebody dies, and only   *)
(* those die that may; the dead stay dead.                                  *)
FileUntilDeath ==
  /\ (\A p \in Proc : at[p] # "dead") => K!LockInv
  /\ \A p \in Proc : at[p] = "dead" => p \in Mortal

(* A step keeps it.                                                         *)
LEMMA FileOwned ==
  ASSUME K!TypeOK, FileUntilDeath, [K!Next]_lockFile
  PROVE  FileUntilDeath'
<1>1. CASE UNCHANGED lockFile
  BY <1>1 DEF FileUntilDeath, K!LockInv, lockFile
<1>2. ASSUME NEW p \in Proc, K!Begin(p) \/ K!Acquire(p) \/ K!Release(p)
      PROVE  FileUntilDeath'
  <2>1. \A q \in Proc : at[q] = "dead" <=> at'[q] = "dead"
    BY <1>2 DEF K!TypeOK, K!Begin, K!Acquire, K!Open, K!Write, K!Read, K!Probe, K!Unlink,
       K!Release, K!Retry, K!Goto
  <2>2. K!LockInv => K!LockInv'
    BY <1>2, StepKeepsLockInv
  <2>3. QED
    BY <2>1, <2>2 DEF FileUntilDeath
<1>3. ASSUME NEW p \in Proc, K!Die(p)
      PROVE  FileUntilDeath'
  BY <1>3 DEF FileUntilDeath, K!Die, K!Goto, K!TypeOK
<1>4. QED
  BY <1>1, <1>2, <1>3 DEF K!Next

(* The inductive invariant behind mutual exclusion, whoever dies, for any   *)
(* number of contenders and rounds.                                         *)
THEOREM FileInvariant == EitherSpec => [](K!TypeOK /\ FileUntilDeath)
<1>1. EitherInit => K!TypeOK /\ FileUntilDeath
  BY ProcessesAssumption
     DEF EitherInit, K!Init, K!TypeOK, K!Steps, FileUntilDeath, K!LockInv, K!LockAssumption
<1>2. K!TypeOK /\ FileUntilDeath /\ [EitherNext]_allVars => (K!TypeOK /\ FileUntilDeath)'
  BY FileSteps, FileTyped, FileOwned
<1>3. QED
  BY <1>1, <1>2, PTL DEF EitherSpec

(* Who dies leaves at most one contender behind: nobody dies, or there are  *)
(* no more than two.                                                        *)
OneSurvivor == \A d \in Mortal : \A p, q \in Proc \ {d} : p = q

(* No two contenders are in the section acquireFinalizeLock guards, neither *)
(* before a death nor when the one survivor recovers the file.              *)
THEOREM ExclusiveSection ==
  ASSUME OneSurvivor
  PROVE  EitherSpec => []MutualExclusion
<1>1. FileUntilDeath => MutualExclusion
  <2> SUFFICES ASSUME FileUntilDeath, NEW p \in Proc, NEW q \in Proc, at[p] = "held", at[q] = "held"
               PROVE  p = q
    BY DEF MutualExclusion, K!MutualExclusion
  <2>1. CASE \A d \in Proc : at[d] # "dead"
    BY <2>1 DEF FileUntilDeath, K!LockInv
  <2>2. ASSUME NEW d \in Proc, at[d] = "dead"
        PROVE  p = q
    BY <2>2 DEF FileUntilDeath, OneSurvivor
  <2>3. QED
    BY <2>1, <2>2
<1>2. QED
  BY <1>1, FileInvariant, PTL

-----------------------------------------------------------------------------
(* The workers.                                                             *)

(* A step of the system is one of the workers, or does not touch them.      *)
LEMMA WorkerSteps == [EitherNext]_allVars => [W!Next]_worker
  BY DEF EitherNext, allVars, others, worker

(* What is assumed of a worker's constants, spelled out.                    *)
LEMMA WorkerNumbers ==
  /\ SoftIdle \in Nat /\ HardIdle \in Nat /\ HardWall \in Nat /\ Grace \in Nat /\ Warn \in Nat
  /\ Hard \in Nat /\ Budget \in Nat /\ MaxTokens \in Nat /\ MaxTurns \in Nat /\ W!End \in Nat
  /\ Child \subseteq Attempt /\ "none" \notin Attempt
  BY ProcessesAssumption DEF W!WorkerAssumption, W!End

(* A child as it was, but for what a signal or output changes of it.        *)
Same(d, c) == d.pc = c.pc /\ d.code = c.code /\ (c.pc # "settled" => d.late = c.late)

(* A signal leaves a child's type and its end alone.                        *)
LEMMA Terminated ==
  ASSUME NEW c \in W!ChildState, NEW s \in {"SIGTERM", "SIGKILL"}
  PROVE  W!Terminate(c, s) \in W!ChildState /\ Same(W!Terminate(c, s), c)
  BY DEF W!Terminate, W!Settled, W!ChildState, Same

(* So does the escalation from one signal to the next.                      *)
LEMMA Escalated ==
  ASSUME NEW c \in W!ChildState
  PROVE  W!Escalate(c) \in W!ChildState /\ Same(W!Escalate(c), c)
<1> DEFINE d == W!Terminate(c, "SIGTERM")
           k == IF c.wall + Grace < W!End THEN c.wall + Grace ELSE W!End
<1>1. d \in W!ChildState /\ Same(d, c)
  BY Terminated
<1>2. k \in 0 .. W!End
  BY WorkerNumbers DEF W!ChildState
<1>3. W!Escalate(c) = [d EXCEPT !.kills = @ \cup {k}]
  BY DEF W!Escalate
<1> HIDE DEF d, k
<1>4. QED
  BY <1>1, <1>2, <1>3 DEF W!ChildState, Same

(* So does the charge of the tokens a turn took.                            *)
LEMMA ChargedAlike ==
  ASSUME NEW c \in W!ChildState, NEW t \in 0 .. MaxTokens
  PROVE  W!Charged(c, t) \in W!ChildState /\ Same(W!Charged(c, t), c)
<1> DEFINE warning == t >= Warn /\ ~ c.warned
           ending == t >= Hard /\ ~ c.over
           event == IF ending THEN "worker_timeout" ELSE IF warning THEN "suspected_stall" ELSE c.event
           warned == c.warned \/ warning
           over == c.over \/ ending
           noted == [c EXCEPT !.idle = 0, !.tokens = t,
                             !.warned = warned, !.over = over, !.event = event]
<1>1. event \in {"none", "suspected_stall", "worker_timeout"}
  BY DEF W!ChildState
<1>2. warned \in BOOLEAN /\ over \in BOOLEAN
  OBVIOUS
<1>3. W!Charged(c, t) = IF ending THEN W!Escalate(noted) ELSE noted
  BY Zenon DEF W!Charged
<1> HIDE DEF event, warning, ending, warned, over
<1>4. noted \in W!ChildState /\ Same(noted, c)
  <2>1. 0 \in 0 .. HardIdle
    BY WorkerNumbers
  <2> USE DEF W!ChildState
  <2>2. Same(noted, c)
    BY DEF Same
  <2>3. noted \in W!ChildState
    BY <1>1, <1>2, <2>1
  <2>4. QED
    BY <2>2, <2>3
<1> HIDE DEF noted
<1>5. W!Escalate(noted) \in W!ChildState /\ Same(W!Escalate(noted), noted)
  BY <1>4, Escalated
<1>6. QED
  BY <1>3, <1>4, <1>5 DEF Same

(* What an attempt is reported as is final and was earned: until it is      *)
(* reported it is the one that runs; what a session is taken for is what    *)
(* its model last did.                                                      *)
EvidenceIsLast ==
  \A a \in Attempt \ Child :
    /\ evidence[a] = model[a].ended
    /\ evidence[a] = "none" <=> model[a].turns = 0

WorkerInv ==
  /\ W!TypeOK
  /\ \A a \in Attempt : session = a => report[a] = "none"
  /\ EvidenceIsLast
  /\ W!CompletedProven
  /\ W!NoSignalAfterClose

(* Every behaviour of the workers begins with the invariant.                *)
LEMMA WorkerBegins == W!Init => WorkerInv
<1> SUFFICES ASSUME W!Init PROVE WorkerInv
  OBVIOUS
<1>1. child \in [Child -> W!ChildState]
  BY WorkerNumbers DEF W!Init, W!ChildState
<1>2. stopped \in BOOLEAN
  BY DEF W!Init
<1>3. W!TypeOK
  BY <1>1, <1>2, WorkerNumbers DEF W!Init, W!TypeOK, W!Disposition, W!Outcome, W!Fact
<1>4. QED
  BY <1>3, WorkerNumbers DEF W!Init, WorkerInv, EvidenceIsLast, W!CompletedProven, W!NoSignalAfterClose

(* A step that reports nothing as completed: the children change, if they   *)
(* do, without ending or being signalled late, and what the models did      *)
(* stays.                                                                   *)
Meanwhile ==
  /\ W!TypeOK'
  /\ \A a \in Child : child[a].pc = "settled" => child'[a].pc = "settled" /\ child'[a].code = child[a].code
  /\ \A a \in Child : child'[a].late => child[a].late
  /\ UNCHANGED <<evidence, model>>
  /\ \A a \in Attempt : report'[a] = report[a] \/ (session = a /\ session' = "none" /\ report'[a] # "completed")
  /\ \A a \in Attempt : session' = a => session = a \/ report[a] = "none"

(* What happens meanwhile keeps it.                                         *)
LEMMA MeanwhileKeeps == WorkerInv /\ Meanwhile => WorkerInv'
<1> SUFFICES ASSUME WorkerInv, Meanwhile PROVE WorkerInv'
  OBVIOUS
<1> USE WorkerNumbers DEF WorkerInv, Meanwhile
<1>1. \A a \in Attempt : session' = a => report'[a] = "none"
  BY DEF W!TypeOK
<1>2. EvidenceIsLast'
  BY DEF EvidenceIsLast
<1>3. (W!CompletedProven)'
  BY DEF W!CompletedProven, W!Settled
<1>4. (W!NoSignalAfterClose)'
  BY DEF W!NoSignalAfterClose
<1>5. QED
  BY <1>1, <1>2, <1>3, <1>4

(* A child is a record of its fields.                                       *)
LEMMA ChildTyped == WorkerInv => \A a \in Child : child[a] \in W!ChildState /\ DOMAIN child = Child
  BY DEF WorkerInv, W!TypeOK

(* A run that returns without a result, and stops its child if it has one.  *)
LEMMA StoppedMeanwhile ==
  ASSUME WorkerInv, NEW a \in Attempt, session = a, NEW d \in {"failed", "timed_out", "cancelled"},
         child' = child \/ child' = W!Aborted(a), W!Return(a, d), UNCHANGED <<stopped, evidence, model, journal>>
  PROVE  Meanwhile
<1> USE DEF WorkerInv, W!TypeOK
<1>1. child' \in [Child -> W!ChildState]
      /\ \A b \in Child : child'[b] = child[b] \/ (Same(child'[b], child[b]) /\ child[b].pc # "settled")
  <2>1. CASE a \in Child /\ ~ W!Settled(child[a]) /\ child' = W!Aborted(a)
    <3>1. W!Terminate(child[a], "SIGTERM") \in W!ChildState /\ Same(W!Terminate(child[a], "SIGTERM"), child[a])
      BY <2>1, Terminated
    <3>2. QED
      BY <2>1, <3>1 DEF W!Aborted, W!Settled
  <2>2. QED
    BY <2>1 DEF W!Aborted
<1>2. W!TypeOK'
  BY <1>1 DEF W!Return, W!Disposition
<1>3. QED
  BY <1>1, <1>2, WorkerNumbers DEF Meanwhile, W!Return, Same

(* A step of one child that does not end it, and that reports nothing.      *)
LEMMA ChildMeanwhile ==
  ASSUME WorkerInv, NEW a \in Child, NEW d \in W!ChildState,
         d.pc = child[a].pc \/ child[a].pc # "settled",
         child[a].pc = "settled" => d.code = child[a].code, d.late => child[a].late,
         child' = [child EXCEPT ![a] = d], UNCHANGED <<session, report, stopped, evidence, model, journal>>
  PROVE  Meanwhile
<1>1. W!TypeOK'
  BY DEF WorkerInv, W!TypeOK
<1>2. QED
  BY <1>1, WorkerNumbers DEF WorkerInv, W!TypeOK, Meanwhile

(* Every action of the workers keeps it.                                    *)
LEMMA WorkerStep == WorkerInv /\ [W!Next]_worker => WorkerInv'
<1> SUFFICES ASSUME WorkerInv, [W!Next]_worker PROVE WorkerInv'
  OBVIOUS
<1> USE WorkerNumbers
<1>1. CASE UNCHANGED worker
  BY <1>1 DEF worker, WorkerInv, W!TypeOK, EvidenceIsLast, W!CompletedProven, W!NoSignalAfterClose, W!Settled
<1>2. CASE W!Stop
  <2>1. W!TypeOK'
    BY <1>2 DEF W!Stop, WorkerInv, W!TypeOK
  <2>2. QED
    BY <1>2, <2>1, MeanwhileKeeps DEF W!Stop, Meanwhile, WorkerInv
<1>3. CASE W!Tick
  <2>1. child' \in [Child -> W!ChildState]
        /\ \A b \in Child : child'[b].pc = child[b].pc /\ child'[b].code = child[b].code /\ child'[b].late = child[b].late
    <3>1. ASSUME NEW b \in Child
          PROVE  child'[b] \in W!ChildState /\ child'[b].pc = child[b].pc /\ child'[b].code = child[b].code
                 /\ child'[b].late = child[b].late
      <4>1. child[b] \in W!ChildState
        BY ChildTyped
      <4> DEFINE wall == child[b].wall + 1
                 idle == IF child[b].idle < HardIdle THEN child[b].idle + 1 ELSE child[b].idle
      <4>2. child'[b] = child[b] \/
              (child[b].wall < W!End /\ child'[b] = [child[b] EXCEPT !.wall = wall, !.idle = idle])
        BY <1>3 DEF W!Tick
      <4>3. child[b].wall < W!End => wall \in 0 .. W!End
        BY <4>1 DEF W!ChildState
      <4>4. idle \in 0 .. HardIdle
        BY <4>1 DEF W!ChildState
      <4> HIDE DEF wall, idle
      <4>5. QED
        BY <4>1, <4>2, <4>3, <4>4 DEF W!ChildState
    <3>2. child' = [b \in Child |-> child'[b]]
      BY <1>3 DEF W!Tick
    <3>3. QED
      BY <3>1, <3>2
  <2>2. W!TypeOK'
    BY <1>3, <2>1 DEF W!Tick, WorkerInv, W!TypeOK
  <2>3. QED
    BY <1>3, <2>1, <2>2, MeanwhileKeeps DEF W!Tick, Meanwhile, WorkerInv
<1>4. ASSUME NEW a \in Attempt, W!Start(a)
      PROVE  WorkerInv'
  <2>1. CASE a \in Child
    <3> DEFINE d == W!Spawned(child[a])
    <3>1. d \in W!ChildState /\ d.late = child[a].late /\ d.pc = "alive"
      <4> DEFINE c == child[a]
                 sent == IF stopped THEN {"SIGTERM"} ELSE {}
      <4>1. c \in W!ChildState /\ sent \in SUBSET {"SIGTERM", "SIGKILL"}
        BY <2>1, ChildTyped
      <4>2. d = [c EXCEPT !.pc = "alive", !.sent = sent]
        BY DEF W!Spawned
      <4> HIDE DEF c, d, sent
      <4>3. d \in W!ChildState /\ d.late = c.late /\ d.pc = "alive"
        BY <4>1, <4>2 DEF W!ChildState
      <4>4. QED
        BY <4>3 DEF c
    <3>3. child' = [child EXCEPT ![a] = d]
      BY <1>4, <2>1 DEF W!Start
    <3> HIDE DEF d
    <3>4. W!TypeOK'
      BY <1>4, <2>1, <3>1, <3>3 DEF W!Start, WorkerInv, W!TypeOK, W!Fact
    <3>5. QED
      BY <1>4, <2>1, <3>1, <3>3, <3>4
         DEF W!Start, WorkerInv, W!TypeOK, EvidenceIsLast, W!CompletedProven, W!NoSignalAfterClose, W!Settled
  <2>2. CASE a \notin Child
    <3>1. W!TypeOK'
      BY <1>4, <2>2 DEF W!Start, WorkerInv, W!TypeOK
    <3>2. QED
      BY <1>4, <2>2, <3>1, MeanwhileKeeps DEF W!Start, Meanwhile, WorkerInv
  <2>3. QED
    BY <2>1, <2>2
<1>5. ASSUME NEW a \in Attempt, W!Cancelled(a) \/ W!TimedOut(a) \/ W!Rejects(a) \/ W!OverBudget(a)
      PROVE  WorkerInv'
  BY <1>5, StoppedMeanwhile, MeanwhileKeeps DEF W!Cancelled, W!TimedOut, W!Rejects, W!OverBudget
<1>6. ASSUME NEW a \in Attempt, W!Resolves(a)
      PROVE  WorkerInv'
  <2>1. W!TypeOK'
    BY <1>6 DEF W!Resolves, W!Return, WorkerInv, W!TypeOK, W!Disposition
  <2>2. QED
    BY <1>6, <2>1
       DEF W!Resolves, W!Return, W!Proven, WorkerInv, W!TypeOK, EvidenceIsLast, W!CompletedProven, W!NoSignalAfterClose,
           W!Settled
<1>7. ASSUME NEW a \in Attempt, W!TurnEnds(a) \/ W!ProviderError(a) \/ W!AgentEnds(a)
      PROVE  WorkerInv'
  <2>1. W!TypeOK'
    <3> USE DEF WorkerInv, W!TypeOK, W!Outcome
    <3>1. CASE W!TurnEnds(a)
      BY <3>1 DEF W!TurnEnds
    <3>2. CASE W!ProviderError(a)
      BY <3>2 DEF W!ProviderError
    <3>3. CASE W!AgentEnds(a)
      BY <3>3 DEF W!AgentEnds, W!FromAgentEnd
    <3>4. QED
      BY <1>7, <3>1, <3>2, <3>3
  <2>2. EvidenceIsLast'
    <3> USE DEF WorkerInv, W!TypeOK, W!Outcome, EvidenceIsLast
    <3>1. CASE W!TurnEnds(a)
      BY <3>1 DEF W!TurnEnds
    <3>2. CASE W!ProviderError(a)
      BY <3>2 DEF W!ProviderError
    <3>3. CASE W!AgentEnds(a)
      BY <3>3 DEF W!AgentEnds, W!FromAgentEnd
    <3>4. QED
      BY <1>7, <3>1, <3>2, <3>3
  <2>3. /\ UNCHANGED <<session, report, child>>
        /\ session = a /\ a \notin Child
        /\ \A b \in Attempt \ {a} : model'[b] = model[b]
    BY <1>7 DEF W!TurnEnds, W!ProviderError, W!AgentEnds, WorkerInv, W!TypeOK
  <2>4. QED
    BY <2>1, <2>2, <2>3 DEF WorkerInv, W!CompletedProven, W!NoSignalAfterClose, W!Settled
<1>8. ASSUME NEW a \in Child, W!Output(a)
      PROVE  WorkerInv'
  <2>1. child[a] \in W!ChildState /\ child[a].pc = "alive"
    BY <1>8 DEF W!Output, W!Alive, WorkerInv, W!TypeOK
  <2>2. PICK t \in child[a].tokens .. MaxTokens :
          LET c == W!Charged(child[a], t) IN
          IF session = a /\ Budget > 0 /\ t >= Budget
          THEN child' = [child EXCEPT ![a] = W!Terminate(c, "SIGTERM")] /\ W!Return(a, "cancelled")
          ELSE c # child[a] /\ child' = [child EXCEPT ![a] = c] /\ UNCHANGED <<session, report>>
    BY <1>8 DEF W!Output
  <2>3. t \in 0 .. MaxTokens
    BY <2>1, <2>2 DEF W!ChildState
  <2> DEFINE c == W!Charged(child[a], t)
  <2>4. c \in W!ChildState /\ Same(c, child[a])
    BY <2>1, <2>3, ChargedAlike
  <2>5. W!Terminate(c, "SIGTERM") \in W!ChildState /\ Same(W!Terminate(c, "SIGTERM"), c)
    BY <2>4, Terminated
  <2>6. \E d \in W!ChildState : child' = [child EXCEPT ![a] = d] /\ Same(d, child[a])
    BY <2>2, <2>4, <2>5 DEF Same
  <2>7. \/ UNCHANGED <<session, report>>
        \/ session = a /\ W!Return(a, "cancelled")
    BY <2>2
  <2>8. W!TypeOK'
    BY <1>8, <2>6, <2>7 DEF W!Output, W!Return, WorkerInv, W!TypeOK, W!Disposition
  <2>9. QED
    BY <1>8, <2>1, <2>6, <2>7, <2>8, MeanwhileKeeps DEF W!Output, W!Return, Meanwhile, WorkerInv, W!TypeOK, Same
<1>9. ASSUME NEW a \in Child, W!Suspect(a) \/ W!Ends(a) \/ W!Dies(a)
      PROVE  WorkerInv'
  <2>1. PICK d \in W!ChildState :
          child' = [child EXCEPT ![a] = d] /\ child[a].pc # "settled" /\ d.late = child[a].late
    <3>1. child[a] \in W!ChildState /\ DOMAIN child = Child
      BY ChildTyped
    <3>2. CASE W!Suspect(a)
      <4>1. [child[a] EXCEPT !.event = "suspected_stall"] \in W!ChildState
        BY <3>1 DEF W!ChildState
      <4>2. QED
        BY <3>1, <3>2, <4>1 DEF W!Suspect, W!Settled, W!ChildState
    <3>3. ASSUME NEW code \in {"ok", "bad", "signal"}, child[a].pc = "alive",
                 child' = [child EXCEPT ![a].pc = "exited", ![a].code = code]
          PROVE  \E d \in W!ChildState :
                   child' = [child EXCEPT ![a] = d] /\ child[a].pc # "settled" /\ d.late = child[a].late
      <4>1. [child[a] EXCEPT !.pc = "exited", !.code = code] \in W!ChildState
        BY <3>1 DEF W!ChildState
      <4>2. child' = [child EXCEPT ![a] = [child[a] EXCEPT !.pc = "exited", !.code = code]]
        BY <3>1, <3>3
      <4>3. QED
        BY <3>1, <3>3, <4>1, <4>2 DEF W!ChildState
    <3>4. QED
      BY <1>9, <3>2, <3>3 DEF W!Ends, W!Dies, W!Alive
  <2>2. QED
    BY <1>9, <2>1, ChildMeanwhile, MeanwhileKeeps DEF W!Suspect, W!Ends, W!Dies
<1>10. ASSUME NEW a \in Child, W!Expire(a)
       PROVE  WorkerInv'
  <2> DEFINE c == [child[a] EXCEPT !.event = "worker_timeout"]
  <2>1. c \in W!ChildState /\ Same(c, child[a]) /\ child[a].pc # "settled"
    BY <1>10, ChildTyped DEF W!Expire, W!Settled, W!ChildState, Same
  <2>2. child' = [child EXCEPT ![a] = W!Escalate(c)]
    BY <1>10 DEF W!Expire
  <2> HIDE DEF c
  <2>3. W!Escalate(c) \in W!ChildState /\ Same(W!Escalate(c), c)
    BY <2>1, Escalated
  <2>4. PICK d \in W!ChildState : d = W!Escalate(c) /\ Same(d, child[a])
    BY <2>1, <2>3 DEF Same
  <2>5. UNCHANGED <<session, report, stopped, evidence, model, journal>>
    BY <1>10 DEF W!Expire
  <2>6. Meanwhile
    BY <2>1, <2>2, <2>4, <2>5, ChildMeanwhile DEF Same
  <2>7. QED
    BY <2>6, MeanwhileKeeps
<1>11. ASSUME NEW a \in Child, W!Kill(a)
       PROVE  WorkerInv'
  <2> DEFINE c == IF W!MayKill(child[a]) THEN W!Terminate(child[a], "SIGKILL") ELSE child[a]
  <2>1. PICK t \in child[a].kills : child' = [child EXCEPT ![a] = [c EXCEPT !.kills = @ \ {t}]]
    BY <1>11 DEF W!Kill
  <2>2. child[a] \in W!ChildState
    BY ChildTyped
  <2>3. c \in W!ChildState /\ Same(c, child[a]) /\ c.late = child[a].late
    BY <2>2, Terminated DEF Same, W!Settled, W!MayKill
  <2> HIDE DEF c
  <2>5. [c EXCEPT !.kills = @ \ {t}] \in W!ChildState /\ Same([c EXCEPT !.kills = @ \ {t}], c)
    BY <2>3 DEF W!ChildState, Same
  <2>6. [c EXCEPT !.kills = @ \ {t}].late = c.late
    BY <2>3 DEF W!ChildState
  <2>7. QED
    BY <1>11, <2>1, <2>3, <2>5, <2>6, ChildMeanwhile, MeanwhileKeeps DEF W!Kill, Same
<1>12. ASSUME NEW a \in Child, W!Close(a)
       PROVE  WorkerInv'
  <2> DEFINE d == [child[a] EXCEPT !.pc = "settled", !.kills = @ \ W!Latest(@)]
  <2>1. d \in W!ChildState /\ d.pc = "settled" /\ d.code = child[a].code /\ d.late = child[a].late
    <3> DEFINE c == child[a]
               kills == c.kills \ W!Latest(c.kills)
    <3>1. c \in W!ChildState /\ kills \subseteq c.kills
      BY ChildTyped
    <3>2. d = [c EXCEPT !.pc = "settled", !.kills = kills]
      OBVIOUS
    <3> HIDE DEF c, d, kills
    <3>3. d \in W!ChildState /\ d.pc = "settled" /\ d.code = c.code /\ d.late = c.late
      BY <3>1, <3>2 DEF W!ChildState
    <3>4. QED
      BY <3>3 DEF c
  <2>2. child' = [child EXCEPT ![a] = d]
    BY <1>12, ChildTyped DEF W!Close
  <2> HIDE DEF d
  <2>3. journal' \in [Child -> SUBSET W!Fact]
    BY <1>12 DEF W!Close, W!Recorded, W!Fact, WorkerInv, W!TypeOK
  <2>4. W!TypeOK'
    <3> USE DEF WorkerInv, W!TypeOK
    <3>1. child' \in [Child -> W!ChildState]
      BY <2>1, <2>2
    <3>2. UNCHANGED <<stopped, model>>
      BY <1>12 DEF W!Close
    <3>3. /\ session' \in Attempt \cup {"none"}
          /\ report' \in [Attempt -> W!Disposition]
          /\ evidence' \in [Attempt -> W!Outcome]
      <4>1. W!Told(child[a]) \in W!Outcome /\ a \in Attempt
        BY WorkerNumbers DEF W!Told, W!Outcome
      <4>2. \/ UNCHANGED <<session, report, evidence>>
            \/ /\ evidence' = [evidence EXCEPT ![a] = W!Told(child[a])]
               /\ \E x \in W!Disposition : W!Return(a, x)
        BY <1>12 DEF W!Close, W!Disposition
      <4>3. QED
        BY <4>1, <4>2 DEF W!Return
    <3>4. QED
      BY <2>3, <3>1, <3>2, <3>3
  <2>5. EvidenceIsLast'
    BY <1>12 DEF W!Close, WorkerInv, W!TypeOK, EvidenceIsLast
  <2>6. (W!NoSignalAfterClose)'
    BY <2>1, <2>2 DEF WorkerInv, W!TypeOK, W!NoSignalAfterClose
  <2>7. (W!CompletedProven)'
    BY <1>12, <2>1, <2>2
       DEF W!Close, W!Return, W!Ok, W!Settled, WorkerInv, W!TypeOK, W!CompletedProven
  <2>8. \A b \in Attempt : session' = b => report'[b] = "none"
    BY <1>12 DEF W!Close, W!Return, WorkerInv, W!TypeOK
  <2>9. QED
    BY <2>4, <2>5, <2>6, <2>7, <2>8 DEF WorkerInv
<1>13. QED
  BY <1>1, <1>2, <1>3, <1>4, <1>5, <1>6, <1>7, <1>8, <1>9, <1>10, <1>11, <1>12 DEF W!Next

(* Only a worker that was shown to end well is reported completed, and no   *)
(* signal goes to a child that has settled, for any number of attempts and  *)
(* any policy of the watchdog.                                              *)
THEOREM CompletedIsProven == EitherSpec => []CompletedProven
<1>1. EitherInit => WorkerInv
  BY WorkerBegins DEF EitherInit
<1>2. WorkerInv /\ [EitherNext]_allVars => WorkerInv'
  BY WorkerSteps, WorkerStep
<1>3. WorkerInv => CompletedProven
  BY DEF WorkerInv, CompletedProven
<1>4. QED
  BY <1>1, <1>2, <1>3, PTL DEF EitherSpec

-----------------------------------------------------------------------------
(* The configuration.                                                       *)

(* A step of the system is one of the configuration, or does not touch it.  *)
LEMMA SettingsSteps == [EitherNext]_allVars => [C!Next]_settings
  BY DEF EitherNext, allVars, others, settings

(* A section that says everything is not changed by its defaults.           *)
LEMMA NothingToFill ==
  ASSUME NEW g, NEW d, g = [x \in DOMAIN d |-> g[x]]
  PROVE  C!Effective(g, d) = g
<1>1. DOMAIN g = DOMAIN d
  OBVIOUS
<1>2. QED
  BY <1>1 DEF C!Effective

(* What a file can mean: each section is there, whole and in its bounds.    *)
Limits3 == DOMAIN C!Defaults.watchdog.default

MeantChoices(c) ==
  /\ c.status \notin {"absent", "partly"} /\ c.provider \in {"builtin", "helper with path"}
  /\ c.models \subseteq Roles /\ C!Within(c.escalations, 0, 3)
  /\ {"enabled", "rounds"} \subseteq DOMAIN c.review /\ C!Within(c.review.rounds, 1, 2)

MeantBudgets(c) ==
  /\ c.convergence = [b \in C!Bound |-> c.convergence[b]]
  /\ \A b \in C!Bound : IF b \in C!SoftBound THEN C!Within(c.convergence[b], 1, 3) ELSE C!Within(c.convergence[b], 2, 4)
  /\ \A b \in Limits : c.convergence[b[2]] > c.convergence[b[1]]

MeantWatch(c) ==
  /\ c.watchdog = [default |-> c.watchdog.default, roles |-> c.watchdog.roles]
  /\ c.watchdog.default = [l \in Limits3 |-> c.watchdog.default[l]] /\ C!Ordered(c.watchdog.default)
  /\ c.watchdog.roles = [r \in DOMAIN c.watchdog.roles |-> c.watchdog.roles[r]]
  /\ \A r \in DOMAIN c.watchdog.roles :
       c.watchdog.roles[r] = [l \in Limits3 |-> c.watchdog.roles[r][l]] /\ C!Ordered(c.watchdog.roles[r])

MeantRest(c) ==
  /\ c.monitor = [p \in C!Pace |-> c.monitor[p]]
  /\ (\A p \in C!Pace : C!Within(c.monitor[p], 1, 4)) /\ c.monitor.backoff >= c.monitor.poll
  /\ c.incidents = [a \in {"auto"} |-> c.incidents[a]] /\ c.incidents.auto \in {"yes", "no"}
  /\ c.assessment = [a \in {"threshold", "held"} |-> c.assessment[a]] /\ C!Within(c.assessment.threshold, 1, 3)

Meant(c) ==
  /\ c = [status |-> c.status, provider |-> c.provider, models |-> c.models, escalations |-> c.escalations,
          review |-> c.review, convergence |-> c.convergence, watchdog |-> c.watchdog, monitor |-> c.monitor,
          incidents |-> c.incidents, assessment |-> c.assessment]
  /\ MeantChoices(c) /\ MeantBudgets(c) /\ MeantWatch(c) /\ MeantRest(c)

(* The shapes of the defaults, where a proof needs no more of them.         *)
LEMMA DefaultShapes ==
  /\ Limits3 = C!Limit
  /\ DOMAIN C!Defaults.convergence = C!Bound
  /\ DOMAIN C!Defaults.monitor = C!Pace
  /\ DOMAIN C!Defaults.incidents = {"auto"}
  /\ DOMAIN C!Defaults.assessment = {"threshold", "held"}
  /\ "absent" \notin C!Bound
<1>1. Limits3 = C!Limit
  BY DEF Limits3, C!Defaults, C!Limit
<1>2. DOMAIN C!Defaults.convergence = C!Bound
  BY DEF C!Defaults
<1>3. DOMAIN C!Defaults.monitor = C!Pace
  BY DEF C!Defaults, C!Pace
<1>4. DOMAIN C!Defaults.incidents = {"auto"} /\ DOMAIN C!Defaults.assessment = {"threshold", "held"}
  BY DEF C!Defaults
<1>5. "absent" \notin C!Bound
  BY ProcessesAssumption DEF C!ConfigAssumption, C!Bound, C!SoftBound, C!HardBound
<1>6. QED
  BY <1>1, <1>2, <1>3, <1>4, <1>5

(* The defaults are such a meaning.                                         *)
LEMMA DefaultsMeant == Meant(C!Defaults)
<1> DEFINE c == C!Defaults
<1>1. MeantChoices(c)
  BY DEF MeantChoices, C!Defaults, C!Within
<1>2. MeantBudgets(c)
  <2>1. c.convergence = [b \in C!Bound |-> IF b \in C!SoftBound THEN 2 ELSE 3]
    BY DEF C!Defaults
  <2>2. \A b \in Limits : b[1] \in C!SoftBound /\ b[2] \in C!Bound /\ b[2] \notin C!SoftBound /\ b[1] \in C!Bound
    BY ProcessesAssumption DEF C!ConfigAssumption, C!Bound, C!SoftBound, C!HardBound
  <2> HIDE DEF c
  <2>3. QED
    BY <2>1, <2>2 DEF MeantBudgets, C!Within
<1>3. MeantWatch(c)
  BY DefaultShapes DEF MeantWatch, C!Defaults, C!Ordered, C!Within, C!Limit
<1>4. MeantRest(c)
  <2>1. c.monitor = [poll |-> 2, backoff |-> 3] /\ c.incidents = [auto |-> "no"]
        /\ c.assessment = [threshold |-> 2, held |-> "one state"]
    BY DEF C!Defaults
  <2>2. c.monitor.poll = 2 /\ c.monitor.backoff = 3 /\ c.incidents.auto = "no" /\ c.assessment.threshold = 2
    BY DEF C!Defaults
  <2> HIDE DEF c
  <2>3. c.monitor = [p \in C!Pace |-> c.monitor[p]]
    BY <2>1 DEF C!Pace
  <2>4. c.incidents = [a \in {"auto"} |-> c.incidents[a]]
    BY <2>1
  <2>5. c.assessment = [a \in {"threshold", "held"} |-> c.assessment[a]]
    BY <2>1
  <2>6. QED
    BY <2>2, <2>3, <2>4, <2>5 DEF MeantRest, C!Pace, C!Within
<1>5. QED
  BY <1>1, <1>2, <1>3, <1>4 DEF Meant, C!Defaults

(* So is what an accepted file means.                                       *)
LEMMA AcceptedMeant ==
  ASSUME NEW f, C!Accepted(f)
  PROVE  Meant(C!Meaning(f))
<1> DEFINE c == C!Meaning(f)
<1>1. MeantChoices(c)
  BY DEF MeantChoices, C!Meaning, C!Accepted, C!Statuses, C!Provides, C!Dispatches, C!Reviews, C!Defaults
<1>2. MeantBudgets(c)
  <2>1. c.convergence = C!Convergence(f)
    BY DEF C!Meaning
  <2>2. C!Convergence(f) = [b \in C!Bound |-> C!Convergence(f)[b]]
    BY DefaultShapes DEF C!Convergence, C!Effective
  <2> HIDE DEF c
  <2>3. QED
    BY <2>1, <2>2 DEF MeantBudgets, C!Accepted, C!InBounds, C!Budgets
<1>3. MeantWatch(c)
  <2>1. CASE f.watchdog = C!None
    <3>1. c.watchdog = C!Defaults.watchdog
      BY <2>1 DEF C!Meaning
    <3> HIDE DEF c
    <3>2. QED
      BY <3>1, DefaultsMeant DEF Meant, MeantWatch
  <2>2. CASE f.watchdog # C!None
    <3>1. c.watchdog = [default |-> C!Base(f), roles |-> C!RolePolicies(f)]
      BY <2>2 DEF C!Meaning
    <3>2. C!Base(f) = [l \in Limits3 |-> C!Base(f)[l]]
      BY DefaultsMeant DEF Meant, MeantWatch, C!Base, C!Effective, Limits3
    <3>3. C!RolePolicies(f) = [r \in DOMAIN C!RolePolicies(f) |-> C!RolePolicies(f)[r]]
          /\ \A r \in DOMAIN C!RolePolicies(f) : C!RolePolicies(f)[r] = [l \in Limits3 |-> C!RolePolicies(f)[r][l]]
      <4>1. DOMAIN C!Base(f) = Limits3
        BY <3>2
      <4>2. C!RolePolicies(f) = [r \in DOMAIN f.watchdog.roles |-> C!Effective(f.watchdog.roles[r], C!Base(f))]
        BY <2>2 DEF C!RolePolicies
      <4>3. QED
        BY <4>1, <4>2 DEF C!Effective
    <3> HIDE DEF c
    <3>4. QED
      BY <3>1, <3>2, <3>3 DEF MeantWatch, C!Accepted, C!Watched
  <2>3. QED
    BY <2>1, <2>2
<1>4. MeantRest(c)
  <2>1. c.monitor = C!Monitor(f) /\ c.incidents = C!Incidents(f) /\ c.assessment = C!Assessment(f)
    BY DEF C!Meaning
  <2>2. C!Monitor(f) = [p \in C!Pace |-> C!Monitor(f)[p]]
    BY DefaultShapes DEF C!Monitor, C!Effective
  <2>3. C!Incidents(f) = [a \in {"auto"} |-> C!Incidents(f)[a]]
    BY DefaultShapes DEF C!Incidents, C!Effective
  <2>4. C!Assessment(f) = [a \in {"threshold", "held"} |-> C!Assessment(f)[a]]
    BY DefaultsMeant DEF C!Assessment, C!Effective, Meant, MeantRest
  <2> HIDE DEF c
  <2>5. QED
    BY <2>1, <2>2, <2>3, <2>4 DEF MeantRest, C!Accepted, C!Paced, C!Reports, C!Assesses
<1>5. c = [status |-> c.status, provider |-> c.provider, models |-> c.models, escalations |-> c.escalations,
           review |-> c.review, convergence |-> c.convergence, watchdog |-> c.watchdog, monitor |-> c.monitor,
           incidents |-> c.incidents, assessment |-> c.assessment]
  BY DEF C!Meaning
<1>6. QED
  BY <1>1, <1>2, <1>3, <1>4, <1>5 DEF Meant

(* Spelled out in the file, such a meaning is accepted and is the same.     *)
LEMMA WrittenBack ==
  ASSUME NEW c, Meant(c)
  PROVE  C!Load(C!Written(c)) = c
<1> DEFINE f == C!Written(c)
<1>1. /\ f.there /\ f.required /\ ~ f.unknown /\ f.status = c.status /\ f.provider = c.provider
      /\ f.dispatch = [models |-> c.models, escalations |-> c.escalations] /\ f.review = c.review
      /\ f.convergence = c.convergence /\ f.watchdog = c.watchdog /\ f.monitor = c.monitor
      /\ f.incidents = c.incidents /\ f.assessment = c.assessment
  BY DEF C!Written
<1> HIDE DEF f
<1>2. C!Models(f) = c.models /\ C!Escalations(f) = c.escalations
  <2>1. f.dispatch # C!None /\ "models" \in DOMAIN f.dispatch
    BY <1>1 DEF C!None
  <2>2. C!Effective(f.dispatch, [models |-> {}, escalations |-> C!Defaults.escalations]).escalations = c.escalations
    BY <1>1 DEF C!Effective
  <2>3. QED
    BY <1>1, <2>1, <2>2 DEF C!Models, C!Escalations
<1>3. C!Review(f) = c.review
  <2>1. c.review # C!None
    BY DEF Meant, MeantChoices, C!None
  <2>2. QED
    BY <1>1, <2>1 DEF C!Review
<1>4. C!Convergence(f) = c.convergence
  <2>1. c.convergence = [b \in DOMAIN C!Defaults.convergence |-> c.convergence[b]] /\ c.convergence # C!None
    BY DefaultShapes DEF Meant, MeantBudgets, C!None
  <2>2. QED
    BY <1>1, <2>1, NothingToFill DEF C!Convergence, C!Given
<1>5. C!Base(f) = c.watchdog.default /\ C!RolePolicies(f) = c.watchdog.roles /\ f.watchdog # C!None
  <2> USE DEF Meant, MeantWatch
  <2>1. c.watchdog # C!None
    BY DEF C!None
  <2>2. c.watchdog.default = [l \in Limits3 |-> c.watchdog.default[l]]
    OBVIOUS
  <2>3. c.watchdog.default # C!None
    BY <2>2, DefaultShapes DEF C!None, C!Limit
  <2>4. C!Base(f) = c.watchdog.default
    BY <1>1, <2>1, <2>2, <2>3, NothingToFill DEF C!Base, Limits3
  <2>5. ASSUME NEW r \in DOMAIN c.watchdog.roles
        PROVE  C!Effective(c.watchdog.roles[r], C!Base(f)) = c.watchdog.roles[r]
    <3>1. DOMAIN C!Base(f) = Limits3
      BY <2>2, <2>4
    <3>2. c.watchdog.roles[r] = [l \in DOMAIN C!Base(f) |-> c.watchdog.roles[r][l]]
      BY <3>1
    <3>3. QED
      BY <3>2, NothingToFill
  <2>6. C!RolePolicies(f) = [r \in DOMAIN c.watchdog.roles |-> C!Effective(c.watchdog.roles[r], C!Base(f))]
    BY <1>1, <2>1 DEF C!RolePolicies
  <2>7. QED
    BY <1>1, <2>1, <2>4, <2>5, <2>6
<1>6. C!Monitor(f) = c.monitor /\ C!Incidents(f) = c.incidents /\ C!Assessment(f) = c.assessment
  <2> USE DEF Meant, MeantRest
  <2>1. c.monitor = [p \in DOMAIN C!Defaults.monitor |-> c.monitor[p]] /\ c.monitor # C!None
    BY DefaultShapes DEF C!None, C!Pace
  <2>2. c.incidents = [a \in DOMAIN C!Defaults.incidents |-> c.incidents[a]] /\ c.incidents # C!None
    BY DefaultShapes DEF C!None
  <2> DEFINE d == [threshold |-> 2, held |-> "two states"]
  <2>3. c.assessment = [a \in DOMAIN d |-> c.assessment[a]] /\ c.assessment # C!None
    BY DEF C!None
  <2>4. C!Monitor(f) = c.monitor
    BY <1>1, <2>1, NothingToFill DEF C!Monitor, C!Given
  <2>5. C!Incidents(f) = c.incidents
    BY <1>1, <2>2, NothingToFill DEF C!Incidents, C!Given
  <2>6. C!Assessment(f) = c.assessment
    <3>1. f.assessment # C!None => C!Assessment(f) = C!Effective(f.assessment, d)
      BY DEF C!Assessment
    <3> HIDE DEF d
    <3>2. C!Effective(c.assessment, d) = c.assessment
      BY <2>3, NothingToFill
    <3>3. QED
      BY <1>1, <2>3, <3>1, <3>2
  <2>7. QED
    BY <2>4, <2>5, <2>6
<1>7. C!Accepted(f)
  <2>1. C!Shaped(f) /\ C!Statuses(f) /\ C!Provides(f) /\ C!Dispatches(f) /\ C!Reviews(f)
    BY <1>1, <1>2, <1>3
       DEF Meant, MeantChoices, C!Shaped, C!Statuses, C!Provides, C!Dispatches, C!Reviews
  <2>2. C!InBounds(f) /\ C!Budgets(f)
    BY <1>4 DEF Meant, MeantBudgets, C!InBounds, C!Budgets
  <2>3. C!Watched(f)
    BY <1>5 DEF Meant, MeantWatch, C!Watched
  <2>4. C!Paced(f) /\ C!Reports(f) /\ C!Assesses(f)
    BY <1>6 DEF Meant, MeantRest, C!Paced, C!Reports, C!Assesses
  <2>5. QED
    BY <2>1, <2>2, <2>3, <2>4 DEF C!Accepted
<1>8. C!Meaning(f) = c
  <2>1. C!Meaning(f).watchdog = c.watchdog
    BY <1>5 DEF C!Meaning, Meant, MeantWatch
  <2>2. C!Meaning(f).status = c.status /\ C!Meaning(f).provider = c.provider
    BY <1>1 DEF C!Meaning, Meant, MeantChoices
  <2>3. C!Meaning(f) = [status |-> C!Meaning(f).status, provider |-> C!Meaning(f).provider, models |-> c.models,
                        escalations |-> c.escalations, review |-> c.review, convergence |-> c.convergence,
                        watchdog |-> C!Meaning(f).watchdog, monitor |-> c.monitor,
                        incidents |-> c.incidents, assessment |-> c.assessment]
    BY <1>2, <1>3, <1>4, <1>6 DEF C!Meaning
  <2>4. QED
    BY <2>1, <2>2, <2>3 DEF Meant
<1>9. QED
  BY <1>1, <1>7, <1>8 DEF C!Load, f

(* Such a meaning can be used: what warns comes before what stops.          *)
LEMMA MeantUsable ==
  ASSUME NEW c, Meant(c)
  PROVE  C!Usable(c) /\ c # C!Refused /\ c # C!Unread
<1>1. c # C!Refused /\ c # C!Unread
  BY DEF Meant, C!Refused, C!Unread
<1>2. ASSUME NEW r \in Roles
      PROVE  C!Ordered(C!PolicyOf(c, r))
  BY <1>1 DEF Meant, MeantWatch, C!PolicyOf
<1>3. QED
  BY <1>1, <1>2 DEF Meant, MeantBudgets, MeantRest, C!Usable, C!Ordered

(* Every configuration that is loaded is usable, whatever the file says,    *)
(* and spelled out in the file it is accepted with the same meaning: no     *)
(* default depends on what is left out.                                     *)
THEOREM LoadedIsUsable == EitherSpec => []ConfigUsable
<1> DEFINE Inv == C!ConfigUsable
<1>1. EitherInit => Inv
  BY DEF EitherInit, C!Init, C!ConfigUsable
<1>2. ASSUME NEW f
      PROVE  C!Usable(C!Load(f)) /\ (C!Load(f) # C!Refused => C!Load(C!Written(C!Load(f))) = C!Load(f))
  <2>1. CASE ~ f.there
    BY <2>1, DefaultsMeant, MeantUsable, WrittenBack DEF C!Load
  <2>2. CASE f.there /\ C!Accepted(f)
    BY <2>2, AcceptedMeant, MeantUsable, WrittenBack DEF C!Load
  <2>3. CASE f.there /\ ~ C!Accepted(f)
    <3>1. C!Load(f) = C!Refused
      BY <2>3 DEF C!Load
    <3>2. C!Ordered(C!Defaults.watchdog.default)
      BY DefaultsMeant DEF Meant, MeantWatch
    <3>3. QED
      BY <3>1, <3>2 DEF C!Usable, C!PolicyOf, C!Ordered
  <2>4. QED
    BY <2>1, <2>2, <2>3
<1>3. Inv /\ [C!Next]_settings => Inv'
  <2> SUFFICES ASSUME Inv, [C!Next]_settings PROVE Inv'
    OBVIOUS
  <2> USE DEF C!ConfigUsable
  <2>1. CASE UNCHANGED settings
    BY <2>1 DEF settings
  <2>2. CASE C!Edit
    BY <2>2 DEF C!Edit
  <2>3. CASE C!Use
    BY <2>3, <1>2 DEF C!Use
  <2>4. CASE C!Save
    BY <2>4 DEF C!Save
  <2>5. QED
    BY <2>1, <2>2, <2>3, <2>4 DEF C!Next
<1>4. Inv => ConfigUsable
  BY DEF ConfigUsable
<1> HIDE DEF Inv
<1>5. QED
  BY <1>1, <1>3, <1>4, SettingsSteps, PTL DEF EitherSpec

-----------------------------------------------------------------------------
(* The dispatches.                                                          *)

(* A step of the system is one of the dispatches, or does not touch them.   *)
LEMMA DispatchSteps == [EitherNext]_allVars => [D!Next]_dispatch
  BY DEF EitherNext, allVars, others, dispatch

(* The rules of the default policy that apply whatever the task, one by     *)
(* one.                                                                     *)
LEMMA DefaultRules ==
  /\ D!Default.mandatory = <<>>
  /\ D!Rules(D!Default) = D!Default.automatic
  /\ DOMAIN D!Default.automatic = 1 .. 8
  /\ D!Default.automatic \in Seq(D!Range(D!Default.automatic))
  /\ D!Default.automatic[1] = D!Ruled("codebase-design", {"planning"}, {"high", "critical"}, "any")
  /\ D!Default.automatic[2] = D!Ruled("tdd", {"implementation"}, {}, "behavior")
  /\ D!Default.automatic[3] = D!Ruled("diagnosing-bugs", {"repair"}, {}, "any")
  /\ D!Default.automatic[4] = D!Ruled("tdd", {"repair"}, {}, "behavior")
  /\ D!Default.automatic[5] = D!Ruled("code-review-spec", {"review-spec"}, {}, "any")
  /\ D!Default.automatic[6] = D!Ruled("code-review-standards", {"review-standards"}, {}, "any")
  /\ D!Default.automatic[7] = D!Ruled("codebase-design", {"review-standards"}, {"normal", "high", "critical"}, "any")
  /\ D!Default.automatic[8] = D!Ruled("performance-telemetry", {"maintenance"}, {}, "any")
<1> DEFINE a == <<D!Ruled("codebase-design", {"planning"}, {"high", "critical"}, "any"),
                  D!Ruled("tdd", {"implementation"}, {}, "behavior"),
                  D!Ruled("diagnosing-bugs", {"repair"}, {}, "any"),
                  D!Ruled("tdd", {"repair"}, {}, "behavior"),
                  D!Ruled("code-review-spec", {"review-spec"}, {}, "any"),
                  D!Ruled("code-review-standards", {"review-standards"}, {}, "any"),
                  D!Ruled("codebase-design", {"review-standards"}, {"normal", "high", "critical"}, "any"),
                  D!Ruled("performance-telemetry", {"maintenance"}, {}, "any")>>
<1>1. D!Default.automatic = a /\ D!Default.mandatory = <<>>
  BY DEF D!Default
<1>2. DOMAIN a = 1 .. 8 /\ Len(a) = 8 /\ a \in Seq({a[i] : i \in 1 .. 8})
  OBVIOUS
<1>3. <<>> \o a = a
  BY <1>2
<1>4. {a[i] : i \in 1 .. 8} = D!Range(a)
  BY <1>2, Zenon DEF D!Range
<1>5. a \in Seq(D!Range(a))
  BY <1>2, <1>4
<1>6. QED
  BY <1>1, <1>2, <1>3, <1>5 DEF D!Rules

(* What the package declares of a skill.                                    *)
Declares(id, category, roles, bound) ==
  LET e == D!Entry(id)
  IN /\ e.category = category /\ e.roles = roles /\ e.bound = bound
     /\ ~ e.owner /\ e.reviewed /\ ~ e.attended
     /\ e.profiles = {D!Profile(r) : r \in roles}

(* The skills those rules name, as the package declares them.               *)
LEMMA Entries ==
  /\ Declares("code-review-spec", "code-review-spec", {"review-spec"}, D!Exact \cup {"specEvidence"})
  /\ Declares("code-review-standards", "code-review-standards", {"review-standards"}, D!Exact \cup {"standardsSources"})
  /\ Declares("codebase-design", "design", {"planning", "review-standards"}, {})
  /\ Declares("diagnosing-bugs", "debugging", {"repair"}, {})
<1>1. D!Entry("code-review-spec") =
        D!Declared("code-review-spec", "code-review", TRUE, {"review-spec"}, D!Exact \cup {"specEvidence"})
  BY DEF D!Entry, D!Known, D!BuiltIn
<1>2. D!Entry("code-review-standards") =
        D!Declared("code-review-standards", "code-review", TRUE, {"review-standards"}, D!Exact \cup {"standardsSources"})
  BY DEF D!Entry, D!Known, D!BuiltIn
<1>3. D!Entry("codebase-design") =
        D!Declared("design", "codebase-design", FALSE, {"planning", "review-standards"}, {})
  BY DEF D!Entry, D!Known, D!BuiltIn
<1>4. D!Entry("diagnosing-bugs") = D!Declared("debugging", "diagnosing-bugs", FALSE, {"repair"}, {})
  BY DEF D!Entry, D!Known, D!BuiltIn
<1>5. Declares("code-review-spec", "code-review-spec", {"review-spec"}, D!Exact \cup {"specEvidence"})
  BY <1>1 DEF Declares, D!Declared
<1>6. Declares("code-review-standards", "code-review-standards", {"review-standards"}, D!Exact \cup {"standardsSources"})
  BY <1>2 DEF Declares, D!Declared
<1>7. Declares("codebase-design", "design", {"planning", "review-standards"}, {})
  BY <1>3 DEF Declares, D!Declared
<1>8. Declares("diagnosing-bugs", "debugging", {"repair"}, {})
  BY <1>4 DEF Declares, D!Declared
<1>9. QED
  BY <1>5, <1>6, <1>7, <1>8

(* A declared skill is not refused to a worker of a role it is declared     *)
(* for, with its inputs bound.                                              *)
LEMMA DeclaredSuits ==
  ASSUME NEW id, NEW category, NEW roles, NEW bound, NEW in,
         Declares(id, category, roles, bound), D!RoleOf(in) \in roles, bound \subseteq in.bound
  PROVE  ~ D!Refused(id, in)
  BY DEF Declares, D!Refused

(* Which rule of the default policy applies to a worker of each role.       *)
LEMMA DefaultMatches ==
  ASSUME NEW in, NEW i \in 1 .. 8, D!Matches(D!Default.automatic[i], in),
         D!RoleOf(in) \in {"planning", "implementation", "repair", "review-spec", "review-standards"}
  PROVE  \/ i = 1 /\ D!RoleOf(in) = "planning" /\ in.risk \in {"high", "critical"}
         \/ i = 3 /\ D!RoleOf(in) = "repair"
         \/ i = 5 /\ D!RoleOf(in) = "review-spec"
         \/ i \in {6, 7} /\ D!RoleOf(in) = "review-standards"
<1> DEFINE r == D!Default.automatic[i]
<1>1. (r.roles = {} \/ D!RoleOf(in) \in r.roles) /\ (r.risk = {} \/ in.risk \in r.risk) /\ r.on = "any"
  BY DEF D!Matches
<1>2. CASE i = 1
  <2>1. r = D!Ruled("codebase-design", {"planning"}, {"high", "critical"}, "any")
    BY <1>2, DefaultRules
  <2> HIDE DEF r
  <2>2. QED
    BY <1>1, <1>2, <2>1 DEF D!Ruled
<1>3. CASE i = 2
  <2>1. r = D!Ruled("tdd", {"implementation"}, {}, "behavior")
    BY <1>3, DefaultRules
  <2> HIDE DEF r
  <2>2. QED
    BY <1>1, <1>3, <2>1 DEF D!Ruled
<1>4. CASE i = 3
  <2>1. r = D!Ruled("diagnosing-bugs", {"repair"}, {}, "any")
    BY <1>4, DefaultRules
  <2> HIDE DEF r
  <2>2. QED
    BY <1>1, <1>4, <2>1 DEF D!Ruled
<1>5. CASE i = 4
  <2>1. r = D!Ruled("tdd", {"repair"}, {}, "behavior")
    BY <1>5, DefaultRules
  <2> HIDE DEF r
  <2>2. QED
    BY <1>1, <1>5, <2>1 DEF D!Ruled
<1>6. CASE i = 5
  <2>1. r = D!Ruled("code-review-spec", {"review-spec"}, {}, "any")
    BY <1>6, DefaultRules
  <2> HIDE DEF r
  <2>2. QED
    BY <1>1, <1>6, <2>1 DEF D!Ruled
<1>7. CASE i = 6
  <2>1. r = D!Ruled("code-review-standards", {"review-standards"}, {}, "any")
    BY <1>7, DefaultRules
  <2> HIDE DEF r
  <2>2. QED
    BY <1>1, <1>7, <2>1 DEF D!Ruled
<1>8. CASE i = 7
  <2>1. r = D!Ruled("codebase-design", {"review-standards"}, {"normal", "high", "critical"}, "any")
    BY <1>8, DefaultRules
  <2> HIDE DEF r
  <2>2. QED
    BY <1>1, <1>8, <2>1 DEF D!Ruled
<1>9. CASE i = 8
  <2>1. r = D!Ruled("performance-telemetry", {"maintenance"}, {}, "any")
    BY <1>9, DefaultRules
  <2> HIDE DEF r
  <2>2. QED
    BY <1>1, <1>9, <2>1 DEF D!Ruled
<1>10. QED
  BY <1>2, <1>3, <1>4, <1>5, <1>6, <1>7, <1>8, <1>9

(* No dispatch under the default policy fails, whatever is installed, if    *)
(* the inputs of a review are bound.                                        *)
LEMMA DefaultResolves ==
  ASSUME NEW packs, NEW in,
         D!RoleOf(in) \in {"planning", "implementation", "repair", "review-spec", "review-standards"},
         D!RoleOf(in) = "review-spec" => D!Exact \cup {"specEvidence"} \subseteq in.bound,
         D!RoleOf(in) = "review-standards" => D!Exact \cup {"standardsSources"} \subseteq in.bound
  PROVE  ~ D!Resolve(D!Default, packs, in).failed
<1>1. ASSUME NEW i \in D!Claiming(D!Default, packs, in)
      PROVE  ~ D!Refused(D!Rules(D!Default)[i].skill, in)
  <2>1. i \in 1 .. 8 /\ D!Matches(D!Default.automatic[i], in)
    BY <1>1, DefaultRules DEF D!Claiming
  <2>2. D!Rules(D!Default)[i].skill = D!Default.automatic[i].skill
    BY DefaultRules
  <2>3. CASE i = 1 \/ i = 7
    <3>1. D!Default.automatic[i].skill = "codebase-design"
      BY <2>3, DefaultRules DEF D!Ruled
    <3>2. D!RoleOf(in) \in {"planning", "review-standards"} /\ {} \subseteq in.bound
      BY <2>1, <2>3, DefaultMatches
    <3>3. QED
      BY <2>2, <3>1, <3>2, Entries, DeclaredSuits
  <2>4. CASE i = 3
    <3>1. D!Default.automatic[i].skill = "diagnosing-bugs"
      BY <2>4, DefaultRules DEF D!Ruled
    <3>2. D!RoleOf(in) \in {"repair"} /\ {} \subseteq in.bound
      BY <2>1, <2>4, DefaultMatches
    <3>3. QED
      BY <2>2, <3>1, <3>2, Entries, DeclaredSuits
  <2>5. CASE i = 5
    <3>1. D!Default.automatic[i].skill = "code-review-spec"
      BY <2>5, DefaultRules DEF D!Ruled
    <3>2. D!RoleOf(in) \in {"review-spec"}
      BY <2>1, <2>5, DefaultMatches
    <3>3. QED
      BY <2>2, <3>1, <3>2, Entries, DeclaredSuits
  <2>6. CASE i = 6
    <3>1. D!Default.automatic[i].skill = "code-review-standards"
      BY <2>6, DefaultRules DEF D!Ruled
    <3>2. D!RoleOf(in) \in {"review-standards"}
      BY <2>1, <2>6, DefaultMatches
    <3>3. QED
      BY <2>2, <3>1, <3>2, Entries, DeclaredSuits
  <2>7. QED
    BY <2>1, <2>3, <2>4, <2>5, <2>6, DefaultMatches
<1>2. QED
  BY <1>1 DEF D!Resolve

(* The reviewer of an axis: read-only, with the methodology of the axis.    *)
Reviewer(d, axis) ==
  axis \in {"spec", "standards"} => d.profile = "read-only-reviewer" /\ D!Discipline(axis) \in d.skills

(* The gate's dispatches do not fail, and are of such reviewers.            *)
LEMMA GateDispatches ==
  ASSUME NEW packs, NEW risk, NEW axis \in {"spec", "standards", "risk"}
  PROVE  LET d == D!Dispatched("gate", D!Default, packs, D!Input(D!ReviewOf(axis), risk, D!Bound(axis)))
         IN d.at = "done" /\ Reviewer(d, axis)
<1> DEFINE in == D!Input(D!ReviewOf(axis), risk, D!Bound(axis))
           claiming == D!Claiming(D!Default, packs, in)
<1>1. in.bound = D!Bound(axis) /\ in.risk = risk /\ in.phase = D!ReviewOf(axis)
  BY DEF D!Input
<1>2. D!RoleOf(in) = IF axis = "spec" THEN "review-spec" ELSE IF axis = "standards" THEN "review-standards" ELSE "planning"
  BY <1>1 DEF D!RoleOf, D!ReviewOf, D!Role
<1>3. /\ axis = "spec" => in.bound = D!Exact \cup {"specEvidence"}
      /\ axis = "standards" => in.bound = D!Exact \cup {"standardsSources"}
  BY <1>1 DEF D!Bound
<1> HIDE DEF in
<1>4. ~ D!Resolve(D!Default, packs, in).failed
  BY <1>2, <1>3, DefaultResolves
<1>5. ASSUME axis \in {"spec", "standards"}
      PROVE  D!Discipline(axis) \in D!Resolve(D!Default, packs, in).skills
  <2> DEFINE k == IF axis = "spec" THEN 5 ELSE 6
             r == D!Default.automatic
  <2>1. k \in 1 .. 8 /\ D!Rules(D!Default) = r /\ DOMAIN r = 1 .. 8
    BY DefaultRules
  <2>2. r[k] = D!Ruled(D!Discipline(axis), {D!RoleOf(in)}, {}, "any")
    BY <1>2, <1>5, DefaultRules DEF D!Discipline
  <2>3. D!Matches(r[k], in) /\ r[k].skill = D!Discipline(axis)
    BY <2>2 DEF D!Matches, D!Ruled
  <2>4. D!Discipline(axis) \in D!Available(packs)
    BY <1>5 DEF D!Discipline, D!Available, D!Known, D!BuiltIn, D!Declared
  <2>5. ASSUME NEW j \in 1 .. 8, D!Matches(r[j], in), D!Entry(r[j].skill).category = D!Entry(r[k].skill).category
        PROVE  k <= j
    <3>1. j \in {5, 6, 7} /\ (axis = "spec" => j = 5)
      BY <1>2, <1>5, <2>5, DefaultMatches
    <3>2. CASE j = 7
      <4>1. r[7].skill = "codebase-design"
        BY DefaultRules DEF D!Ruled
      <4>2. QED
        BY <1>5, <2>3, <2>5, <3>2, <4>1, Entries DEF Declares, D!Discipline
    <3>3. QED
      BY <1>5, <3>1, <3>2, <1>2, <2>5, DefaultMatches
  <2> HIDE DEF k, r
  <2>6. k \in claiming
    BY <2>1, <2>3, <2>4, <2>5 DEF D!Claiming
  <2>7. QED
    BY <2>1, <2>3, <2>6 DEF D!Resolve
<1>6. axis \in {"spec", "standards"} => D!Profile(D!RoleOf(in)) = "read-only-reviewer"
  BY <1>2 DEF D!Profile
<1>7. QED
  BY <1>4, <1>5, <1>6 DEF D!Dispatched, Reviewer, in

(* A policy that was accepted when the configuration was read, or that is   *)
(* the default.                                                             *)
Lawful(policy, packs) ==
  policy = D!Default \/ (policy \in D!Policy /\ D!Accepted(policy, packs))

(* An accepted policy is two sequences of rules.                            *)
LEMMA PolicyShape ==
  ASSUME NEW policy \in D!Policy
  PROVE  LET m == policy.mandatory
             a == policy.automatic
         IN /\ m \in Seq(D!Rule) /\ Len(m) \in 0 .. 2
            /\ D!Rules(policy) = m \o a /\ a \in Seq(D!Range(a))
<1> DEFINE m == policy.mandatory
           a == policy.automatic
<1>1. PICK n \in 0 .. 2 : m \in [1 .. n -> D!Rule]
  BY DEF D!Policy
<1>2. m \in Seq(D!Rule) /\ Len(m) = n
  BY <1>1
<1>3. a = <<>> \/ a = D!Default.automatic
  BY DEF D!Policy
<1>4. a \in Seq(D!Range(a))
  <2>1. CASE a = <<>>
    BY <2>1 DEF D!Range
  <2>2. CASE a = D!Default.automatic
    BY <2>2, DefaultRules
  <2>3. QED
    BY <1>3, <2>1, <2>2
<1>5. QED
  BY <1>2, <1>4 DEF D!Rules

(* A rule that fits whoever it is for, and is for planning, is not refused  *)
(* to a planner.                                                            *)
LEMMA FittingSuits ==
  ASSUME NEW rule, NEW packs, NEW in, D!Fits(rule, packs), D!Matches(rule, in), D!RoleOf(in) = "planning"
  PROVE  ~ D!Refused(rule.skill, in)
<1> DEFINE e == D!Entry(rule.skill)
<1>1. ~ e.owner /\ e.reviewed /\ ~ e.attended /\ "planning" \in e.roles
  BY DEF D!Fits, D!Matches, D!Role
<1>2. rule.skill \in D!Known
  BY <1>1 DEF D!Entry, D!Unreviewed
<1>3. e = D!BuiltIn(rule.skill)
  BY <1>2 DEF D!Entry
<1>4. rule.skill = "codebase-design"
  <2>1. rule.skill # "code-review"
    BY <1>1, <1>3 DEF D!BuiltIn, D!Declared
  <2>2. rule.skill # "code-review-spec"
    <3>1. D!BuiltIn("code-review-spec") = D!Declared("code-review-spec", "code-review", TRUE, {"review-spec"}, D!Exact \cup {"specEvidence"})
      BY DEF D!BuiltIn
    <3>2. "planning" \notin D!BuiltIn("code-review-spec").roles
      BY <3>1 DEF D!Declared
    <3>3. QED
      BY <1>1, <1>3, <3>2
  <2>3. rule.skill # "code-review-standards"
    <3>1. D!BuiltIn("code-review-standards") = D!Declared("code-review-standards", "code-review", TRUE, {"review-standards"}, D!Exact \cup {"standardsSources"})
      BY DEF D!BuiltIn
    <3>2. "planning" \notin D!BuiltIn("code-review-standards").roles
      BY <3>1 DEF D!Declared
    <3>3. QED
      BY <1>1, <1>3, <3>2
  <2>4. rule.skill # "tdd"
    <3>1. D!BuiltIn("tdd") = D!Declared("tdd", "tdd", TRUE, {"implementation", "repair"}, {})
      BY DEF D!BuiltIn
    <3>2. "planning" \notin D!BuiltIn("tdd").roles
      BY <3>1 DEF D!Declared
    <3>3. QED
      BY <1>1, <1>3, <3>2
  <2>5. rule.skill # "diagnosing-bugs"
    <3>1. D!BuiltIn("diagnosing-bugs") = D!Declared("debugging", "diagnosing-bugs", FALSE, {"repair"}, {})
      BY DEF D!BuiltIn
    <3>2. "planning" \notin D!BuiltIn("diagnosing-bugs").roles
      BY <3>1 DEF D!Declared
    <3>3. QED
      BY <1>1, <1>3, <3>2
  <2>6. rule.skill # "performance-telemetry"
    <3>1. D!BuiltIn("performance-telemetry").roles = {"maintenance"}
      BY DEF D!BuiltIn, D!Declared
    <3>2. "planning" \notin D!BuiltIn("performance-telemetry").roles
      BY <3>1
    <3>3. QED
      BY <1>1, <1>3, <3>2
  <2>7. rule.skill # "verification-before-completion"
    <3>1. D!BuiltIn("verification-before-completion").roles = {"verification"}
      BY DEF D!BuiltIn, D!Declared
    <3>2. "planning" \notin D!BuiltIn("verification-before-completion").roles
      BY <3>1
    <3>3. QED
      BY <1>1, <1>3, <3>2
  <2>8. QED
    BY <1>2, <2>1, <2>2, <2>3, <2>4, <2>5, <2>6, <2>7 DEF D!Known
<1>5. QED
  BY <1>4, Entries, DeclaredSuits

(* What a prompt is dispatched with, whichever packs were synced after its  *)
(* configuration was read: nothing that refuses it, and all that the policy *)
(* makes mandatory for it unless a pack went.                               *)
LEMMA PromptDispatches ==
  ASSUME NEW policy, NEW packs, NEW now, Lawful(policy, packs)
  PROVE  LET in == D!Input("planning", "none", {})
             found == D!Resolve(policy, now, in)
         IN /\ ~ found.failed
            /\ packs \subseteq now =>
                 \A r \in D!Range(policy.mandatory) : D!Matches(r, in) => r.skill \in found.skills
<1> DEFINE in == D!Input("planning", "none", {})
           found == D!Resolve(policy, now, in)
           m == policy.mandatory
           a == policy.automatic
<1>1. D!RoleOf(in) = "planning"
  BY DEF D!Input, D!RoleOf, D!Role
<1> HIDE DEF in
<1>2. CASE policy = D!Default
  <2>1. ~ found.failed
    BY <1>1, <1>2, DefaultResolves
  <2>2. D!Range(m) = {}
    <3>1. m = <<>>
      BY <1>2, DefaultRules
    <3> HIDE DEF m
    <3>2. QED
      BY <3>1 DEF D!Range
  <2>3. QED
    BY <2>1, <2>2 DEF in
<1>3. CASE policy \in D!Policy /\ D!Accepted(policy, packs)
  <2>1. /\ m \in Seq(D!Rule) /\ Len(m) \in 0 .. 2
        /\ D!Rules(policy) = m \o a /\ a \in Seq(D!Range(a))
    BY <1>3, PolicyShape
  <2>2. \A r \in D!Range(m) \cup D!Range(a) : D!Fits(r, packs)
    BY <1>3 DEF D!Accepted
  <2> HIDE DEF m, a
  <2>3. /\ DOMAIN D!Rules(policy) = 1 .. Len(m) + Len(a)
        /\ \A i \in 1 .. Len(m) + Len(a) : D!Rules(policy)[i] = IF i <= Len(m) THEN m[i] ELSE a[i - Len(m)]
    BY <2>1
  <2>4. \A i \in 1 .. Len(m) : m[i] \in D!Range(m)
    BY <2>1 DEF D!Range
  <2>5. \A i \in DOMAIN D!Rules(policy) : D!Rules(policy)[i] \in D!Range(m) \cup D!Range(a)
    <3>1. \A i \in 1 .. Len(a) : a[i] \in D!Range(a)
      BY <2>1 DEF D!Range
    <3>2. QED
      BY <2>1, <2>3, <2>4, <3>1
  <2>6. ~ found.failed
    <3>1. ASSUME NEW i \in D!Claiming(policy, now, in)
          PROVE  ~ D!Refused(D!Rules(policy)[i].skill, in)
      <4>1. i \in DOMAIN D!Rules(policy) /\ D!Matches(D!Rules(policy)[i], in)
        BY <3>1 DEF D!Claiming
      <4>2. D!Fits(D!Rules(policy)[i], packs)
        BY <2>2, <2>5, <4>1
      <4>3. QED
        BY <1>1, <4>1, <4>2, FittingSuits
    <3>2. QED
      BY <3>1 DEF D!Resolve
  <2>7. ASSUME packs \subseteq now, NEW r \in D!Range(m), D!Matches(r, in)
        PROVE  r.skill \in found.skills
    <3>1. PICK k \in 1 .. Len(m) : r = m[k]
      BY <2>1 DEF D!Range
    <3> DEFINE Considered(i) == i \in 1 .. Len(m) /\ D!Matches(m[i], in)
                                /\ D!Entry(m[i].skill).category = D!Entry(r.skill).category
    <3>2. \E i \in 1 .. 2 : Considered(i) /\ \A j \in 1 .. 2 : Considered(j) => i <= j
      <4>1. k \in 1 .. 2 /\ Considered(k)
        BY <2>1, <2>7, <3>1
      <4> HIDE DEF Considered
      <4>2. QED
        BY <4>1
    <3>3. PICK i \in 1 .. Len(m) : Considered(i) /\ \A j \in 1 .. 2 : Considered(j) => i <= j
      BY <3>2
    <3>4. m[i].skill = r.skill
      BY <1>3, <2>4, <2>7, <3>3 DEF D!Accepted, D!Competing, m
    <3>5. m[i].skill \in D!Available(now)
      BY <2>2, <2>4, <2>7 DEF D!Fits, D!Available
    <3>6. i \in DOMAIN D!Rules(policy) /\ D!Rules(policy)[i] = m[i]
      BY <2>1, <2>3
    <3>7. ASSUME NEW j \in DOMAIN D!Rules(policy), D!Matches(D!Rules(policy)[j], in),
                 D!Entry(D!Rules(policy)[j].skill).category = D!Entry(D!Rules(policy)[i].skill).category
          PROVE  i <= j
      <4>1. CASE j <= Len(m)
        <5>1. D!Rules(policy)[j] = m[j] /\ j \in 1 .. 2 /\ j \in 1 .. Len(m)
          BY <2>1, <2>3, <3>7, <4>1
        <5>2. Considered(j)
          BY <3>4, <3>6, <3>7, <5>1
        <5> HIDE DEF Considered
        <5>3. QED
          BY <3>3, <5>1, <5>2
      <4>2. CASE ~ j <= Len(m)
        BY <2>1, <2>3, <3>7, <4>2
      <4>3. QED
        BY <4>1, <4>2
    <3>8. i \in D!Claiming(policy, now, in)
      BY <3>3, <3>5, <3>6, <3>7 DEF D!Claiming
    <3>9. QED
      BY <3>4, <3>6, <3>8 DEF D!Resolve
  <2>8. QED
    BY <2>6, <2>7 DEF in, m
<1>4. QED
  BY <1>2, <1>3 DEF Lawful, in

(* The call that runs, and how the last one ended: a prompt goes on with    *)
(* what was lawful when it was read; a review has a report of a reviewer of *)
(* each axis so far, in their order.                                        *)
Judged(r, axis) ==
  /\ r.axis = axis /\ r.ended \in {"pass", "remarks", "blocking", "dead", "silent"}
  /\ Reviewer(r.by, axis)

AxesKept(axes) == axes \in Seq({"spec", "standards", "risk"}) /\ Len(axes) > 0

ReviewShaped ==
  /\ AxesKept(call.axes) /\ DOMAIN call.reports = 1 .. Len(call.reports)
  /\ call.reports \in Seq({call.reports[i] : i \in 1 .. Len(call.reports)})
  /\ Len(call.reports) <= Len(call.axes)
  /\ \A i \in 1 .. Len(call.reports) : Judged(call.reports[i], call.axes[i])

CallShaped ==
  /\ call.at \in {"idle", "thrown", "bypassed", "blocked", "loaded", "done", "review", "asked", "passed"}
  /\ call.at = "loaded" => Lawful(call.policy, call.packs)
  /\ call.at = "done" => D!Routed
  /\ call.at \in {"review", "asked"} => ReviewShaped /\ Len(call.reports) < Len(call.axes)
  /\ call.at = "asked" => Reviewer(call.to, call.axes[Len(call.reports) + 1])
  /\ call.at = "passed" =>
       /\ ReviewShaped /\ Len(call.reports) = Len(call.axes)
       /\ \A i \in 1 .. Len(call.reports) : ~ D!Blocks(call.reports[i].ended)

DispatchInv ==
  /\ config = [file |-> config.file, skills |-> config.skills, enabled |-> config.enabled, axes |-> config.axes,
               required |-> config.required]
  /\ config.skills = D!Default \/ (config.file /\ config.skills \in D!Policy)
  /\ AxesKept(config.axes)
  /\ CallShaped

(* Every behaviour of the dispatches begins with the invariant.             *)
LEMMA DispatchBegins == D!Init => DispatchInv
<1> SUFFICES ASSUME D!Init PROVE DispatchInv
  OBVIOUS
<1>1. config.skills = D!Default /\ config.axes = <<"spec", "standards">> /\ call = [at |-> "idle"]
  BY DEF D!Init
<1>2. AxesKept(<<"spec", "standards">>)
  BY DEF AxesKept
<1>3. config = [file |-> config.file, skills |-> config.skills, enabled |-> config.enabled, axes |-> config.axes,
                required |-> config.required]
  BY DEF D!Init
<1>4. QED
  BY <1>1, <1>2, <1>3 DEF DispatchInv, CallShaped

(* Every action of the dispatches keeps it.                                 *)
LEMMA DispatchStep == DispatchInv /\ [D!Next]_dispatch => DispatchInv'
<1> SUFFICES ASSUME DispatchInv, [D!Next]_dispatch PROVE DispatchInv'
  OBVIOUS
<1>1. CASE UNCHANGED dispatch
  BY <1>1, Zenon DEF dispatch, DispatchInv, CallShaped, ReviewShaped, D!Routed
<1>2. ASSUME UNCHANGED call,
             config' = [file |-> config'.file, skills |-> config'.skills, enabled |-> config'.enabled,
                        axes |-> config'.axes, required |-> config'.required],
             config'.skills = D!Default \/ (config'.file /\ config'.skills \in D!Policy), AxesKept(config'.axes)
      PROVE  DispatchInv'
  BY <1>2, Zenon DEF DispatchInv, CallShaped, ReviewShaped, D!Routed
<1>3. CASE D!Sync
  BY <1>2, <1>3 DEF D!Sync, DispatchInv
<1>4. CASE D!Configure
  <2> DEFINE c == [file |-> config.file, skills |-> config.skills, enabled |-> config.enabled, axes |-> config.axes,
                   required |-> config.required]
  <2>1. config = c
    BY DEF DispatchInv
  <2>2. ASSUME NEW p \in D!Policy, config' = [config EXCEPT !.file = TRUE, !.skills = p]
        PROVE  DispatchInv'
    <3>1. config' = [file |-> TRUE, skills |-> p, enabled |-> config.enabled, axes |-> config.axes,
                     required |-> config.required]
      BY <2>1, <2>2
    <3>2. QED
      BY <1>2, <1>4, <3>1 DEF D!Configure, DispatchInv
  <2>3. ASSUME NEW a \in Axes, NEW e \in BOOLEAN, NEW r \in {"high", "critical"},
               config' = [config EXCEPT !.file = TRUE, !.enabled = e, !.axes = a, !.required = r]
        PROVE  DispatchInv'
    <3>1. config' = [file |-> TRUE, skills |-> config.skills, enabled |-> e, axes |-> a, required |-> r]
      BY <2>1, <2>3
    <3>2. AxesKept(a)
      BY ProcessesAssumption DEF D!DispatchAssumption, AxesKept
    <3>3. QED
      BY <1>2, <1>4, <3>1, <3>2 DEF D!Configure, DispatchInv
  <2> DEFINE One == \E p \in D!Policy : config' = [config EXCEPT !.file = TRUE, !.skills = p]
             Other == \E a \in Axes, e \in BOOLEAN, r \in {"high", "critical"} :
                        config' = [config EXCEPT !.file = TRUE, !.enabled = e, !.axes = a, !.required = r]
  <2>4. One \/ Other
    BY <1>4, Zenon DEF D!Configure
  <2> HIDE DEF One, Other
  <2>5. CASE One
    BY <2>2, <2>5, Zenon DEF One
  <2>6. CASE Other
    BY <2>3, <2>6, Zenon DEF Other
  <2>7. QED
    BY <2>4, <2>5, <2>6
<1>5. ASSUME UNCHANGED config, CallShaped' PROVE DispatchInv'
  BY <1>5, Zenon DEF DispatchInv
<1>6. ASSUME UNCHANGED config, call' \in {[at |-> "thrown"], [at |-> "bypassed"]} PROVE DispatchInv'
  BY <1>5, <1>6 DEF CallShaped
<1>7. CASE D!Prompt
  <2>1. CASE D!Loads
    <3>1. call' = [at |-> "loaded", policy |-> config.skills, packs |-> manifest.packs] /\ UNCHANGED config
      BY <1>7, <2>1 DEF D!Prompt, D!Goes
    <3>2. Lawful(config.skills, manifest.packs)
      BY <2>1, Zenon DEF D!Loads, DispatchInv, Lawful
    <3>3. /\ call'.at = "loaded" /\ call'.policy = config.skills /\ call'.packs = manifest.packs
      BY <3>1
    <3>4. CallShaped'
      BY <3>2, <3>3 DEF CallShaped
    <3>5. QED
      BY <1>5, <3>1, <3>4
  <2>2. CASE ~ D!Loads
    BY <1>6, <1>7, <2>2 DEF D!Prompt, D!Goes, D!Thrown
  <2>3. QED
    BY <2>1, <2>2
<1>8. CASE D!Build
  <2> DEFINE in == D!Input("planning", "none", {})
             d == D!Dispatched("prompt", call.policy, manifest.packs, in)
             found == D!Resolve(call.policy, manifest.packs, in)
             wanted == IF call.packs \subseteq manifest.packs THEN call.policy.mandatory ELSE <<>>
  <2>1. call.at = "loaded" /\ Lawful(call.policy, call.packs) /\ UNCHANGED config
    BY <1>8 DEF D!Build, D!Goes, DispatchInv, CallShaped
  <2>2. /\ ~ found.failed
        /\ call.packs \subseteq manifest.packs =>
             \A r \in D!Range(call.policy.mandatory) : D!Matches(r, in) => r.skill \in found.skills
    BY <2>1, PromptDispatches
  <2>3. CASE ~ manifest.reviewed
    BY <1>6, <1>8, <2>1, <2>3 DEF D!Build, D!Goes, D!Thrown
  <2>4. CASE manifest.reviewed
    <3>1. call' = [at |-> d.at, by |-> d.by, in |-> d.in, skills |-> d.skills, wanted |-> wanted]
      BY <1>8, <2>4, Zenon DEF D!Build, D!Goes
    <3>2. d.at = "done" /\ d.by = "prompt" /\ d.in = in /\ d.skills = found.skills
      BY <2>2 DEF D!Dispatched
    <3> HIDE DEF d, found, in
    <3>3. call'.at = "done" /\ call'.in = in /\ call'.skills = found.skills /\ call'.wanted = wanted
      BY <3>1, <3>2
    <3>4. ASSUME NEW r \in D!Range(wanted), D!Matches(r, in) PROVE r.skill \in found.skills
      <4>1. D!Range(<<>>) = {}
        BY DEF D!Range
      <4>2. QED
        BY <2>2, <3>4, <4>1
    <3> HIDE DEF wanted
    <3>5. D!Routed'
      BY <3>3, <3>4 DEF D!Routed
    <3>6. CallShaped'
      BY <3>3, <3>5 DEF CallShaped
    <3>7. QED
      BY <1>5, <2>1, <3>6
  <2>5. QED
    BY <2>3, <2>4
<1>9. CASE D!Work
  <2>1. PICK role \in {"implementation", "implementation-retry", "repair"} :
          D!Goes(IF ~ manifest.reviewed THEN D!Thrown
                 ELSE D!Dispatched("worker", D!Default, manifest.packs, D!Input(D!RolePhase(role), "none", {})))
    BY <1>9, Zenon DEF D!Work
  <2> DEFINE in == D!Input(D!RolePhase(role), "none", {})
             d == D!Dispatched("worker", D!Default, manifest.packs, in)
  <2>2. D!RoleOf(in) \in {"implementation", "repair"}
    BY DEF D!Input, D!RoleOf, D!RolePhase, D!Role
  <2> HIDE DEF in
  <2>3. ~ D!Resolve(D!Default, manifest.packs, in).failed
    BY <2>2, DefaultResolves
  <2>4. d.at = "done" /\ d.by = "worker"
    BY <2>3 DEF D!Dispatched
  <2>5. CASE ~ manifest.reviewed
    BY <1>6, <2>1, <2>5 DEF D!Goes, D!Thrown
  <2>6. CASE manifest.reviewed
    <3>1. call' = d /\ UNCHANGED config
      BY <2>1, <2>6, Zenon DEF D!Goes, in
    <3> HIDE DEF d
    <3>2. D!Routed' /\ CallShaped'
      BY <2>4, <3>1 DEF D!Routed, CallShaped
    <3>3. QED
      BY <1>5, <3>1, <3>2
  <2>7. QED
    BY <2>5, <2>6
<1>10. CASE D!Verify
  <2>1. PICK risk \in {"low", "normal", "high", "critical"} :
          D!Goes(IF ~ D!Loads THEN D!Thrown
                 ELSE IF ~ D!Required(risk) THEN [at |-> "bypassed"]
                 ELSE [at |-> "review", axes |-> config.axes, risk |-> risk, reports |-> <<>>])
    BY <1>10, Zenon DEF D!Verify
  <2>2. CASE ~ D!Loads \/ ~ D!Required(risk)
    BY <1>6, <2>1, <2>2 DEF D!Goes, D!Thrown
  <2>3. CASE D!Loads /\ D!Required(risk)
    <3>1. call' = [at |-> "review", axes |-> config.axes, risk |-> risk, reports |-> <<>>] /\ UNCHANGED config
      BY <2>1, <2>3, Zenon DEF D!Goes
    <3>2. call'.at = "review" /\ call'.axes = config.axes /\ call'.reports = <<>>
      BY <3>1
    <3>3. AxesKept(config.axes)
      BY DEF DispatchInv
    <3>4. ReviewShaped' /\ Len(call'.reports) < Len(call'.axes)
      BY <3>2, <3>3 DEF ReviewShaped, AxesKept
    <3>5. CallShaped'
      BY <3>2, <3>4 DEF CallShaped
    <3>6. QED
      BY <1>5, <3>1, <3>5
  <2>4. QED
    BY <2>2, <2>3
<1>11. CASE D!Ask
  <2> DEFINE n == Len(call.reports) + 1
             axis == call.axes[n]
             in == D!Input(D!ReviewOf(axis), call.risk, D!Bound(axis))
             d == D!Dispatched("gate", D!Default, manifest.packs, in)
  <2>1. call.at = "review" /\ ReviewShaped /\ Len(call.reports) < Len(call.axes) /\ UNCHANGED config
    BY <1>11 DEF D!Ask, D!Goes, DispatchInv, CallShaped
  <2>2. n \in 1 .. Len(call.axes) /\ axis \in {"spec", "standards", "risk"}
    BY <2>1 DEF ReviewShaped, AxesKept
  <2>3. d.at = "done" /\ Reviewer(d, axis)
    BY <2>2, GateDispatches
  <2>4. CASE ~ manifest.reviewed
    BY <1>6, <1>11, <2>1, <2>4 DEF D!Ask, D!Goes, D!Thrown
  <2>5. CASE manifest.reviewed
    <3>1. call' = [at |-> "asked", axes |-> call.axes, risk |-> call.risk, reports |-> call.reports, to |-> d]
      <4>1. d.at # "failed"
        BY <2>3
      <4>2. QED
        BY <1>11, <2>5, <4>1, Zenon DEF D!Ask, D!Goes
    <3> HIDE DEF d
    <3>2. /\ call'.at = "asked" /\ call'.axes = call.axes /\ call'.reports = call.reports /\ call'.to = d
      BY <3>1
    <3>3. ReviewShaped'
      BY <2>1, <3>2 DEF ReviewShaped
    <3>4. CallShaped'
      BY <2>1, <2>3, <3>2, <3>3 DEF CallShaped
    <3>5. QED
      BY <1>5, <2>1, <3>4
  <2>6. QED
    BY <2>4, <2>5
<1>12. CASE D!Answer
  <2> DEFINE n == Len(call.reports) + 1
  <2>1. /\ call.at = "asked" /\ ReviewShaped /\ Len(call.reports) < Len(call.axes)
        /\ Reviewer(call.to, call.axes[n]) /\ UNCHANGED config
    BY <1>12 DEF D!Answer, D!Goes, DispatchInv, CallShaped
  <2>2. PICK ended \in {"pass", "remarks", "blocking", "dead", "silent", "unreadable"} :
          LET reports == Append(call.reports, [axis |-> call.axes[n], by |-> call.to, ended |-> ended])
              end == IF Len(reports) < Len(call.axes) THEN "review"
                     ELSE IF \E r \in D!Range(reports) : D!Blocks(r.ended) THEN "blocked" ELSE "passed"
          IN D!Goes(IF ended = "unreadable" THEN D!Thrown
                    ELSE [at |-> end, axes |-> call.axes, risk |-> call.risk, reports |-> reports])
    BY <1>12, Zenon DEF D!Answer
  <2> DEFINE judgement == [axis |-> call.axes[n], by |-> call.to, ended |-> ended]
             reports == Append(call.reports, judgement)
             end == IF Len(reports) < Len(call.axes) THEN "review"
                    ELSE IF \E r \in D!Range(reports) : D!Blocks(r.ended) THEN "blocked" ELSE "passed"
  <2>3. CASE ended = "unreadable"
    BY <1>6, <2>1, <2>2, <2>3 DEF D!Goes, D!Thrown
  <2>4. CASE ended # "unreadable"
    <3>1. call' = [at |-> end, axes |-> call.axes, risk |-> call.risk, reports |-> reports]
      BY <2>2, <2>4, Zenon DEF D!Goes
    <3>2. Judged(judgement, call.axes[n])
      BY <2>1, <2>4 DEF Judged
    <3> HIDE DEF judgement
    <3>3. /\ call.reports \in Seq({call.reports[i] : i \in 1 .. Len(call.reports)})
          /\ Len(call.reports) \in Nat
      BY <2>1 DEF ReviewShaped
    <3>4. /\ Len(reports) = n /\ DOMAIN reports = 1 .. n /\ reports[n] = judgement
          /\ \A i \in 1 .. Len(call.reports) : reports[i] = call.reports[i]
      BY <3>3
    <3>5. reports \in Seq({reports[i] : i \in 1 .. Len(reports)})
      <4>1. reports = [i \in 1 .. n |-> reports[i]]
        BY <3>3, <3>4
      <4>2. n \in Nat
        BY <3>3
      <4> HIDE DEF reports, n
      <4>3. [i \in 1 .. n |-> reports[i]] \in Seq({reports[i] : i \in 1 .. n})
        BY <4>2
      <4>4. QED
        BY <3>4, <4>1, <4>3
    <3> HIDE DEF reports
    <3>6. \A i \in 1 .. Len(reports) : Judged(reports[i], call.axes[i])
      <4>1. ASSUME NEW i \in 1 .. Len(reports) PROVE i \in 1 .. Len(call.reports) \/ i = n
        BY <3>3, <3>4
      <4>2. QED
        BY <2>1, <3>2, <3>4, <4>1 DEF ReviewShaped
    <3>7. end = "passed" => Len(reports) = Len(call.axes) /\ \A i \in 1 .. Len(reports) : ~ D!Blocks(reports[i].ended)
      <4>1. \A i \in 1 .. Len(reports) : reports[i] \in D!Range(reports)
        BY <3>4 DEF D!Range
      <4>2. Len(call.axes) \in Nat
        BY <2>1 DEF ReviewShaped, AxesKept
      <4>3. QED
        BY <2>1, <3>3, <3>4, <4>1, <4>2
    <3>8. end \in {"review", "blocked", "passed"} /\ (end = "review" => Len(reports) < Len(call.axes))
      OBVIOUS
    <3> HIDE DEF end
    <3>9. call'.at = end /\ call'.axes = call.axes /\ call'.reports = reports
      BY <3>1
    <3>10. Len(reports) <= Len(call.axes)
      BY <2>1, <3>3, <3>4 DEF ReviewShaped, AxesKept
    <3>11. ReviewShaped'
      BY <2>1, <3>4, <3>5, <3>6, <3>9, <3>10 DEF ReviewShaped
    <3>12. CallShaped'
      BY <3>7, <3>8, <3>9, <3>11 DEF CallShaped
    <3>13. QED
      BY <1>5, <2>1, <3>12
  <2>5. QED
    BY <2>3, <2>4
<1>13. QED
  BY <1>1, <1>3, <1>4, <1>7, <1>8, <1>9, <1>10, <1>11, <1>12 DEF D!Next

(* No dispatch of a lawful policy fails, and a candidate that the gate let  *)
(* pass was given to a reviewer of each axis, none of whom blocked it.      *)
THEOREM ReviewedByReviewers == EitherSpec => []Reviewed
<1>1. EitherInit => DispatchInv
  BY DispatchBegins DEF EitherInit
<1>2. DispatchInv /\ [EitherNext]_allVars => DispatchInv'
  BY DispatchSteps, DispatchStep
<1>3. DispatchInv => Reviewed
  <2> SUFFICES ASSUME DispatchInv PROVE Reviewed
    OBVIOUS
  <2>1. D!Routed
    BY DEF DispatchInv, CallShaped, D!Routed
  <2>2. ASSUME call.at = "passed", NEW axis \in D!Range(call.axes) \ {"risk"}
        PROVE  \E r \in D!Range(call.reports) :
                 /\ r.axis = axis /\ r.ended \in {"pass", "remarks", "silent"}
                 /\ r.by.profile = "read-only-reviewer" /\ D!Discipline(axis) \in r.by.skills
    <3>1. /\ ReviewShaped /\ Len(call.reports) = Len(call.axes)
          /\ \A i \in 1 .. Len(call.reports) : ~ D!Blocks(call.reports[i].ended)
      BY <2>2 DEF DispatchInv, CallShaped
    <3>2. PICK i \in 1 .. Len(call.axes) : call.axes[i] = axis
      BY <2>2, <3>1 DEF ReviewShaped, AxesKept, D!Range
    <3>3. axis \in {"spec", "standards"}
      BY <2>2, <3>1, <3>2 DEF ReviewShaped, AxesKept
    <3>4. Judged(call.reports[i], axis) /\ call.reports[i] \in D!Range(call.reports)
      BY <3>1, <3>2 DEF ReviewShaped, D!Range
    <3>5. QED
      BY <3>1, <3>2, <3>3, <3>4 DEF Judged, Reviewer, D!Blocks
  <2>3. QED
    BY <2>1, <2>2 DEF Reviewed, D!Reviewed
<1>4. QED
  BY <1>1, <1>2, <1>3, PTL DEF EitherSpec

=============================================================================

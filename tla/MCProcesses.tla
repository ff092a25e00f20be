---------------------------- MODULE MCProcesses ----------------------------
(* What processes that end at any time leave behind: the lock of an issue's *)
(* lifecycle (LifecycleLock), the finalizer's lock file (LockFile) and,     *)
(* side by side with them for TLC, the worker processes a controller starts *)
(* (Worker), what they are given to work with (Dispatch), the dependencies  *)
(* they work on (Setup), the configuration (Config) and what is told of the *)
(* runs (Status).  They do not interact here: each behaviour is one of      *)
(* `part`, the others stay put.                                             *)
EXTENDS LifecycleLock, FiniteSets

CONSTANTS
  p1, p2, a1, a2,
  NoFile, Rounds,                                             \* of LockFile
  Attempt, Child, SoftIdle, HardIdle, HardWall, Grace,        \* of Worker
  Warn, Hard, Budget, MaxTokens, MaxTurns,
  Pack, RuleSkill, RuleRoles, Axes, MaxChanges,               \* of Dispatch
  Version, Cleans, Check, MaxInputEdits, MaxKills,            \* of Setup
  Limits, Roles, LongRole, MaxFileEdits,                      \* of Config
  Run, Legacy, Session, Issue, MaxMoves                       \* of Status

VARIABLES
  part,
  file, pid, at, read, attempt,
  session, report, stopped, child, evidence, model, journal,
  manifest, config, call, changes,
  inputs, modules, run, orphans, used, ghost,
  configFile, loaded, edits,
  records, lock, lease, command, moves, owned

worker == <<session, report, stopped, child, evidence, model, journal>>
lockFile == <<file, pid, at, read, attempt>>
dispatch == <<manifest, config, call, changes>>
setup == <<inputs, modules, run, orphans, used, ghost>>
settings == <<configFile, loaded, edits>>
status == <<records, lock, lease, command, moves, owned>>
allVars == <<part, vars, lockFile, worker, dispatch, setup, settings, status>>

(* The contenders are the processes of LifecycleLock.                       *)
K == INSTANCE LockFile WITH MaxAttempts <- Rounds, pc <- at, seen <- read

(* Worker processes and SDK sessions, what they are given to work with.     *)
W == INSTANCE Worker
D == INSTANCE Dispatch

(* Dependencies and checks, a configuration, the runs of a checkout.        *)
S == INSTANCE Setup WITH MaxEdits <- MaxInputEdits
C == INSTANCE Config WITH Budget <- Limits, Role <- Roles, MaxEdits <- MaxFileEdits, file <- configFile
R == INSTANCE Status WITH record <- records, call <- command

(* One pair of limits for the code's three; two orders of review axes.      *)
OnePair == {<<"softTransitions", "hardTransitions">>}
TwoOrders == {<<"spec", "standards">>, <<"standards", "risk">>}

ASSUME ProcessesAssumption ==
  /\ K!LockAssumption /\ W!WorkerAssumption /\ D!DispatchAssumption
  /\ S!SetupAssumption /\ C!ConfigAssumption /\ R!StatusAssumption

(* One state of the runs, of those they may begin in.                       *)
Quiescent ==
  /\ \A r \in Run : lock[r] = "absent"
  /\ \A i \in Issue : lease[i] = Nobody
  /\ \A r \in Legacy : records[r].status = "interrupted" /\ records[r].session = CHOOSE s \in Session : TRUE

EitherInit ==
  /\ part \in {"directory", "file", "worker", "turns", "dispatch", "setup", "settings", "status"}
  /\ Init /\ K!Init /\ W!Init /\ D!Init /\ S!Init /\ C!Init /\ R!Init
  /\ part # "setup" => inputs = "none" /\ modules.holds = "nothing"
  /\ part # "settings" => configFile = C!Missing
  /\ part # "status" => Quiescent

(* The processes of the first two parts, and all the rest.                  *)
others == <<dispatch, setup, settings, status>>

EitherNext ==
  /\ \/ part = "directory" /\ Next /\ UNCHANGED <<lockFile, worker, others>>
     \/ part = "file" /\ K!Next /\ UNCHANGED <<vars, worker, others>>
     \/ part = "worker" /\ W!Next /\ session' \in Child \cup {"none"} /\ UNCHANGED <<vars, lockFile, others>>
     \/ part = "turns" /\ W!Next /\ UNCHANGED <<vars, lockFile, child, others>>
     \/ /\ UNCHANGED <<vars, lockFile, worker>>
        /\ \/ part = "dispatch" /\ D!Next /\ UNCHANGED <<setup, settings, status>>
           \/ part = "setup" /\ S!Next /\ UNCHANGED <<dispatch, settings, status>>
           \/ part = "settings" /\ C!Next /\ UNCHANGED <<dispatch, setup, status>>
           \/ part = "status" /\ R!Next /\ UNCHANGED <<dispatch, setup, settings>>
  /\ UNCHANGED part

(* The fairness of each part, as its module states it.                      *)
Works(A) == part = "worker" /\ A /\ UNCHANGED <<part, vars, lockFile, others>>

EitherSpec ==
  /\ EitherInit /\ [][EitherNext]_allVars
  /\ \A p \in Proc : WF_allVars(part = "directory" /\ Goes(p) /\ UNCHANGED <<part, lockFile, worker, others>>)
  /\ \A p \in Proc : WF_allVars(part = "file" /\ K!Acquire(p) /\ UNCHANGED <<part, vars, worker, others>>)
  /\ WF_allVars(Works(W!Tick))
  /\ \A a \in Child :
       /\ WF_allVars(Works(W!Suspect(a))) /\ WF_allVars(Works(W!Expire(a))) /\ WF_allVars(Works(W!Kill(a)))
       /\ WF_allVars(Works("SIGKILL" \in child[a].sent /\ W!Dies(a))) /\ WF_allVars(Works(W!Close(a)))

(* The properties of the parts, stated and explained in their modules.      *)
(* One contender at a time is between acquiring the lock file and releasing it. *)
MutualExclusion == K!MutualExclusion
(* What a dead process leaves is recovered: its lock file, and the lock     *)
(* directory of its lifecycle.                                              *)
StaleLockRecovered == K!StaleLockRecovered /\ DeadOwnerRecovered
(* Only a worker that was shown to end well is reported completed, and no   *)
(* signal goes to a child that has settled.                                 *)
CompletedProven == W!CompletedProven /\ W!NoSignalAfterClose
(* Every child ends.                                                        *)
EveryChildEnds == W!EveryChildEnds
(* What passed the review was given to a reviewer of each axis, none of     *)
(* whom blocked it; and an accepted routing policy stops no dispatch and is *)
(* followed by prompts.                                                     *)
Reviewed == D!Reviewed /\ D!Routed
(* Checks that passed ran on dependencies that were asked for.              *)
PassGrounded == S!PassGrounded
(* A configuration that is accepted can be used, and means what it says.    *)
ConfigUsable == C!ConfigUsable
(* What is told of the runs, and what an auto command takes for abandoned.  *)
StatusTrue == R!StatusTrue
=============================================================================

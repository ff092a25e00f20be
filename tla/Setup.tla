------------------------------- MODULE Setup -------------------------------
(***************************************************************************)
(* The installation and the deterministic checks of a bootstrap run        *)
(* (src/bootstrap/dependencies.ts, command-runner.ts, verification.ts).    *)
(* The run of an issue installs what the lockfile of its worktree asks     *)
(* for, or validates what is there, before a worker starts; the checks     *)
(* that follow the worker decide whether its candidate is a mechanical     *)
(* pass.  Each command is a process group of its own, so an installer      *)
(* outlives a bootstrap that is killed and changes the worktree under the  *)
(* next one.                                                               *)
(*                                                                         *)
(* Assumed of the package managers: a validation that exits 0 has seen     *)
(* what package.json and the lockfile ask for, an installation that exits  *)
(* 0 has installed what it read there.                                     *)
(***************************************************************************)
EXTENDS Naturals, FiniteSets

CONSTANTS
  Version,  \* what package.json and the lockfile may ask for; a version names its manager
  Cleans,   \* the versions whose manager removes node_modules first (npm ci)
  Check,    \* the commands of CHECKS: 1 .. n
  MaxEdits, \* bound: changes of the inputs
  MaxKills  \* bound: bootstraps killed, installers cut short

(* What is assumed of the constants.                                        *)
SetupAssumption ==
  /\ Cleans \subseteq Version
  /\ {"none", "nothing", "partial", "linked"} \cap Version = {}
  /\ IsFiniteSet(Check) /\ Check = 1 .. Cardinality(Check)
  /\ {MaxEdits, MaxKills} \subseteq Nat

VARIABLES
  inputs,   \* what the worktree asks for, "none" without a lockfile
  modules,  \* what node_modules holds, and the state file in it
  run,      \* the bootstrap: its step, the inputs it took, the checks that passed
  orphans,  \* installers whose bootstrap is gone: what they install
  used,     \* edits and kills so far
  ghost     \* of this run: the inputs there were, was an orphan at work, the checks
            \* that exited 0 since the last worker

vars == <<inputs, modules, run, orphans, used, ghost>>

Idle == [at |-> "idle"]
At(step) == run.at = step

(* An installer that has not touched node_modules yet.                      *)
Begun == "begun"

TypeOK ==
  /\ inputs \in Version \cup {"none"}
  /\ modules \in [holds : Version \cup {"nothing", "partial", "linked"}, record : Version \cup {"none"}]
  /\ run.at \in {"idle", "validate", "install", "work", "checks", "repair", "pass", "fail"}
  /\ orphans \subseteq Version \cup {Begun}
  /\ ghost.seen \subseteq Version \cup {"none"} /\ ghost.proven \subseteq Check

Fresh == [seen |-> {}, disturbed |-> FALSE, proven |-> {}]

Init ==
  /\ inputs \in Version \cup {"none"}
  /\ modules \in [holds : {"nothing", "linked"}, record : {"none"}]
  /\ run = Idle
  /\ orphans = {}
  /\ used = [edits |-> 0, kills |-> 0]
  /\ ghost = Fresh

-----------------------------------------------------------------------------
(* Operators named X_Y are X with a plausible bug; no specification uses    *)
(* them.  They show that the properties below would notice.                 *)

(* Somebody, or the worker, changes package.json or the lockfile.           *)
Edit ==
  /\ used.edits < MaxEdits
  /\ \E v \in Version \cup {"none"} :
       /\ v # inputs /\ inputs' = v
       /\ ghost' = [ghost EXCEPT !.seen = @ \cup {v}]
  /\ used' = [used EXCEPT !.edits = @ + 1]
  /\ UNCHANGED <<modules, run, orphans>>

(* What a command ends with: its exit code, 1 when a signal ended it, 127   *)
(* when it could not start.  A timeout or an abort sends SIGTERM and waits  *)
(* on; which of them came is not looked at.                                 *)
Exit == {0, 1, 127}

(* node_modules is a directory, and not a link.                             *)
Reusable == modules.holds \notin {"nothing", "linked"}

(* Without a state file, or with one of the same inputs, the installation   *)
(* is worth a validation.                                                   *)
Plausible == Reusable /\ modules.record \in {"none", inputs}

(* prepareDependencies up to its first command: the lockfile selects the    *)
(* manager; without one nothing is required.                                *)
Prepare ==
  /\ At("idle")
  /\ run' = IF inputs = "none" THEN [at |-> "work", took |-> "none", repaired |-> FALSE]
            ELSE [at |-> IF Plausible THEN "validate" ELSE "install", took |-> inputs,
                  of |-> Begun, repaired |-> FALSE]
  /\ ghost' = [Fresh EXCEPT !.seen = {inputs}, !.disturbed = orphans # {}]
  /\ UNCHANGED <<inputs, modules, orphans, used>>

(* recordDependencyState, which may fail: the state is an optimization.     *)
Recorded(m) == {m, [m EXCEPT !.record = run.took]}

Ready == [at |-> "work", took |-> run.took, repaired |-> FALSE]

(* What a validation can find fit to use.                                   *)
Validated_Unasked(exit) == TRUE
Validated(exit) == exit = 0

Validate ==
  /\ At("validate")
  /\ \E exit \in Exit :
       /\ exit = 0 => modules.holds = inputs
       /\ IF Validated(exit) THEN run' = Ready /\ modules' \in Recorded(modules)
          ELSE run' = [run EXCEPT !.at = "install"] /\ UNCHANGED modules
  /\ UNCHANGED <<inputs, orphans, used, ghost>>

(* An installer reads the lockfile and begins to replace what is there; the *)
(* state file stays where the directory does.                               *)
Replaced == [holds |-> "partial",
             record |-> IF inputs \in Cleans \/ ~ Reusable THEN "none" ELSE modules.record]

Replace ==
  /\ At("install") /\ run.of = Begun /\ inputs # "none"
  /\ modules' = Replaced
  /\ run' = [run EXCEPT !.of = inputs]
  /\ UNCHANGED <<inputs, orphans, used, ghost>>

(* The installer ends; a failure ends the run with BootstrapSetupError.     *)
Installed_Anyhow(exit) == TRUE
Installed(exit) == exit = 0

Install ==
  /\ At("install")
  /\ \E exit \in Exit :
       LET done == IF exit = 0 THEN [modules EXCEPT !.holds = run.of] ELSE modules IN
       /\ exit = 0 => run.of # Begun
       /\ IF Installed(exit) THEN run' = Ready /\ modules' \in Recorded(done)
          ELSE run' = Idle /\ modules' = done
  /\ UNCHANGED <<inputs, orphans, used, ghost>>

-----------------------------------------------------------------------------
(* The worker installs something itself.                                    *)
WorkerInstalls ==
  /\ At("work") \/ At("repair")
  /\ inputs # "none" /\ modules.holds # inputs
  /\ modules' = [holds |-> inputs, record |-> Replaced.record]
  /\ UNCHANGED <<inputs, run, orphans, used, ghost>>

(* The worker has ended: runChecks begins with the first command.           *)
Begin ==
  /\ At("work") \/ At("repair")
  /\ run' = [at |-> "checks", took |-> run.took, repaired |-> At("repair") \/ run.repaired, passed |-> 0]
  /\ ghost' = [ghost EXCEPT !.proven = {}]
  /\ UNCHANGED <<inputs, modules, orphans, used>>

(* The verdict rests on all of CHECKS, not on those that ran.               *)
MechanicalPass_Some(passed) == passed > 0
MechanicalPass(passed) == Check = 1 .. passed

(* The next check ends; the first that fails is the last.                   *)
RunCheck ==
  /\ At("checks")
  /\ \E exit \in Exit :
       LET passed == IF exit = 0 THEN run.passed + 1 ELSE run.passed
           stopped == exit # 0 \/ passed \notin Check \/ passed + 1 \notin Check IN
       /\ ghost' = [ghost EXCEPT !.proven = IF exit = 0 THEN @ \cup {passed} ELSE @]
       /\ IF ~ stopped THEN run' = [run EXCEPT !.passed = passed]
          ELSE run' \in IF MechanicalPass(passed) THEN {[run EXCEPT !.at = "pass"]}
                        ELSE {[run EXCEPT !.at = "fail"]} \cup
                             (IF run.repaired THEN {} ELSE {[run EXCEPT !.at = "repair"]})
  /\ UNCHANGED <<inputs, modules, orphans, used>>

Return ==
  /\ At("pass") \/ At("fail")
  /\ run' = Idle
  /\ UNCHANGED <<inputs, modules, orphans, used, ghost>>

-----------------------------------------------------------------------------
(* The bootstrap is killed; an installer of its goes on.                    *)
Kill ==
  /\ ~ At("idle") /\ used.kills < MaxKills
  /\ run' = Idle
  /\ orphans' = IF At("install") THEN orphans \cup {run.of} ELSE orphans
  /\ used' = [used EXCEPT !.kills = @ + 1]
  /\ UNCHANGED <<inputs, modules, ghost>>

(* An installer nobody waits for begins, ends, or is cut short.             *)
OrphanReplaces ==
  /\ Begun \in orphans /\ inputs # "none"
  /\ modules' = Replaced
  /\ orphans' = (orphans \ {Begun}) \cup {inputs}
  /\ UNCHANGED <<inputs, run, used, ghost>>

OrphanEnds ==
  \E v \in orphans :
    /\ orphans' = orphans \ {v}
    /\ modules' \in {modules} \cup (IF v = Begun THEN {} ELSE {[modules EXCEPT !.holds = v]})
    /\ UNCHANGED <<inputs, run, used, ghost>>

-----------------------------------------------------------------------------
Next ==
  \/ Edit \/ Prepare \/ Validate \/ Replace \/ Install
  \/ WorkerInstalls \/ Begin \/ RunCheck \/ Return
  \/ Kill \/ OrphanReplaces \/ OrphanEnds

Spec == Init /\ [][Next]_vars

-----------------------------------------------------------------------------
(* What a mechanical pass rests on: every command of the list exited 0      *)
(* since the last worker of the run; and unless an installer an earlier     *)
(* bootstrap left behind was at work, the worker and the checks ran on a    *)
(* complete installation of inputs the run has seen, also after            *)
(* installations that were cut short and left their state file behind.     *)
PassGrounded ==
  /\ At("pass") => ghost.proven = Check
  /\ run.at \in {"work", "checks", "repair", "pass", "fail"} /\ run.took # "none" /\ ~ ghost.disturbed
       => modules.holds \in ghost.seen
=============================================================================

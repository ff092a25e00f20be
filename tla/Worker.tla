------------------------------- MODULE Worker -------------------------------
(***************************************************************************)
(* One worker after another in one worktree: runWorker                     *)
(* (src/bootstrap/worker-runner.ts) races the prompt against a timeout, a  *)
(* token budget and the operator's cancellation.  A worker is an SDK       *)
(* session of the model (src/bootstrap/worker-factory.ts), whose success   *)
(* is read from the events it ends with                                    *)
(* (src/coordination/worker-terminal-result.ts), or a Pi child process     *)
(* (extensions/pi-next: production-worker-factory.ts, pi-worker-adapter.ts,*)
(* runIssueWorker in util-core.ts) under a watchdog of its own.            *)
(*                                                                         *)
(* Time is counted in firings of the watchdog's interval, tokens in steps  *)
(* of the thresholds.                                                      *)
(***************************************************************************)
EXTENDS Naturals, FiniteSets

CONSTANTS
  Attempt,      \* workers the supervisor may run in the worktree, in any order
  Child,        \* those that are Pi child processes; the others are SDK sessions
  SoftIdle, HardIdle, HardWall, Grace,   \* the watchdog policy of a child
  Warn, Hard,   \* token thresholds of the child's watchdog
  Budget,       \* token threshold of runWorker; 0: none, the default
  MaxTokens,    \* bound: tokens of one child
  MaxTurns      \* bound: turns of one SDK session

(* What is assumed of the constants.                                        *)
WorkerAssumption ==
  /\ Child \subseteq Attempt /\ "none" \notin Attempt
  /\ {SoftIdle, HardIdle, HardWall, Grace, Warn, Hard, Budget, MaxTokens, MaxTurns} \subseteq Nat
  /\ SoftIdle <= HardIdle /\ Warn <= Hard

VARIABLES
  session,   \* the running runWorker: its attempt, or "none"
  report,    \* per attempt: the disposition returned, "none" before
  stopped,   \* the operator has cancelled the run
  child,     \* per child: the process and what runIssueWorker keeps of it
  evidence,  \* per session: the last terminal model result observed
  model,     \* per session: the last assistant message, how the model ended, turns taken
  journal    \* per child: the facts the adapter has recorded

vars == <<session, report, stopped, child, evidence, model, journal>>

(* The clock of a child stops here; what is due later is due then.          *)
End == HardWall + Grace

Disposition == {"none", "completed", "failed", "timed_out", "cancelled"}
Outcome == {"none", "ok", "error", "aborted", "unknown"}
Fact == {"worker_started", "worker_finished", "failure_recorded"}

ChildState ==
  [pc : {"none", "alive", "exited", "settled"}, code : {"none", "ok", "bad", "signal"},
   idle : 0 .. HardIdle, wall : 0 .. End, tokens : 0 .. MaxTokens,
   event : {"none", "suspected_stall", "worker_timeout"},
   warned : BOOLEAN, over : BOOLEAN, kills : SUBSET (0 .. End),
   sent : SUBSET {"SIGTERM", "SIGKILL"}, late : BOOLEAN]

TypeOK ==
  /\ session \in Attempt \cup {"none"}
  /\ report \in [Attempt -> Disposition]
  /\ stopped \in BOOLEAN
  /\ child \in [Child -> ChildState]
  /\ evidence \in [Attempt -> Outcome]
  /\ model \in [Attempt -> [message : Outcome, ended : Outcome, turns : 0 .. MaxTurns + 1]]
  /\ journal \in [Child -> SUBSET Fact]

Init ==
  /\ session = "none" /\ stopped = FALSE
  /\ report = [a \in Attempt |-> "none"]
  /\ child = [a \in Child |-> [pc |-> "none", code |-> "none", idle |-> 0, wall |-> 0, tokens |-> 0,
                               event |-> "none", warned |-> FALSE, over |-> FALSE, kills |-> {},
                               sent |-> {}, late |-> FALSE]]
  /\ evidence = [a \in Attempt |-> "none"]
  /\ model = [a \in Attempt |-> [message |-> "none", ended |-> "none", turns |-> 0]]
  /\ journal = [a \in Child |-> {}]

-----------------------------------------------------------------------------
(* Operators named X_Y are X with a plausible bug; no specification uses    *)
(* them.  They show that the properties below would notice.                 *)

Settled(c) == c.pc = "settled"

(* Signal the process group of the child.                                   *)
Terminate(c, signal) ==
  [c EXCEPT !.sent = IF c.pc = "alive" THEN @ \cup {signal} ELSE @, !.late = @ \/ Settled(c)]

(* SIGTERM now, SIGKILL when the grace is over.                             *)
Escalate_TermOnly(c) == Terminate(c, "SIGTERM")
Escalate(c) == [Terminate(c, "SIGTERM") EXCEPT !.kills = @ \cup {IF c.wall + Grace < End THEN c.wall + Grace ELSE End}]

(* The abort signal of the session reaches its child, until that settles.   *)
Aborted(a) ==
  IF a \in Child /\ ~ Settled(child[a])
  THEN [child EXCEPT ![a] = Terminate(@, "SIGTERM")] ELSE child

(* runWorker returns: the listener is gone and the session disposed of.     *)
Return(a, disposition) ==
  /\ report' = [report EXCEPT ![a] = disposition]
  /\ session' = "none"

Stop ==
  /\ ~ stopped
  /\ stopped' = TRUE
  /\ UNCHANGED <<session, report, child, evidence, model, journal>>

(* The process; if the run is cancelled already it gets SIGTERM at once.    *)
Spawned(c) == [c EXCEPT !.pc = "alive", !.sent = IF stopped THEN {"SIGTERM"} ELSE {}]

(* runWorker starts the prompt, which for a child spawns the process.       *)
Start(a) ==
  /\ session = "none" /\ report[a] = "none"
  /\ session' = a
  /\ IF a \in Child
     THEN /\ child' = [child EXCEPT ![a] = Spawned(@)]
          /\ journal' = [journal EXCEPT ![a] = {"worker_started"}]
     ELSE UNCHANGED <<child, journal>>
  /\ UNCHANGED <<report, stopped, evidence, model>>

(* The cancellation and the timeout lose nothing but the race: they do not  *)
(* wait for the child, and session.abort does nothing for one.              *)
Cancelled(a) ==
  /\ session = a /\ stopped
  /\ child' = Aborted(a)
  /\ Return(a, "cancelled")
  /\ UNCHANGED <<stopped, evidence, model, journal>>

TimedOut(a) ==
  /\ session = a
  /\ child' = Aborted(a)
  /\ Return(a, "timed_out")
  /\ UNCHANGED <<stopped, evidence, model, journal>>

(* classifyWorkerCompletion: only a terminal result that ended well.        *)
Proven(a) == evidence[a] = "ok"

(* The prompt resolves, or is rejected.                                     *)
Resolves(a) ==
  /\ session = a /\ a \notin Child
  /\ Return(a, IF Proven(a) THEN "completed" ELSE "failed")
  /\ UNCHANGED <<stopped, child, evidence, model, journal>>

Rejects(a) ==
  /\ session = a /\ a \notin Child
  /\ Return(a, "failed")
  /\ UNCHANGED <<stopped, child, evidence, model, journal>>

(* The tokens of a session reach the budget.                                *)
OverBudget(a) ==
  /\ session = a /\ a \notin Child /\ Budget > 0
  /\ Return(a, "cancelled")
  /\ UNCHANGED <<stopped, child, evidence, model, journal>>

-----------------------------------------------------------------------------
(* An SDK session: observeWorkerEvent.                                      *)

(* A message or turn ends: the last result counts.                          *)
TurnEnds(a) ==
  /\ session = a /\ a \notin Child /\ model[a].turns < MaxTurns
  /\ \E o \in Outcome \ {"none"} :
       /\ evidence' = [evidence EXCEPT ![a] = o]
       /\ model' = [model EXCEPT ![a] = [message |-> o, ended |-> o, turns |-> @.turns + 1]]
  /\ UNCHANGED <<session, report, stopped, child, journal>>

(* The provider fails, or the retries are exhausted: there is no message.   *)
ProviderError(a) ==
  /\ session = a /\ a \notin Child /\ model[a].turns < MaxTurns
  /\ evidence' = [evidence EXCEPT ![a] = "error"]
  /\ model' = [model EXCEPT ![a].ended = "error", ![a].turns = @ + 1]
  /\ UNCHANGED <<session, report, stopped, child, journal>>

(* The end of the agent brings the last assistant message: it counts only   *)
(* when nothing terminal was observed before.                               *)
FromAgentEnd_Always(a, message) == message
FromAgentEnd(a, message) == IF evidence[a] = "none" THEN message ELSE evidence[a]

AgentEnds(a) ==
  /\ session = a /\ a \notin Child
  /\ \E o \in Outcome \ {"none"} :
       /\ o = model[a].message \/ model[a].turns = 0
       /\ evidence' = [evidence EXCEPT ![a] = FromAgentEnd(a, o)]
       /\ model' = IF model[a].turns = 0
                   THEN [model EXCEPT ![a] = [message |-> o, ended |-> o, turns |-> 1]] ELSE model
  /\ UNCHANGED <<session, report, stopped, child, journal>>

-----------------------------------------------------------------------------
(* A child: runIssueWorker.                                                 *)

Alive(a) == child[a].pc = "alive"

(* A chunk of output: the child is not idle, and its tokens are compared    *)
(* with the two thresholds.  Crossing the first takes the place of whatever *)
(* the watchdog saw before.                                                 *)
Charged(c, tokens) ==
  LET warning == tokens >= Warn /\ ~ c.warned
      ending == tokens >= Hard /\ ~ c.over
      seen == [c EXCEPT !.idle = 0, !.tokens = tokens,
                        !.warned = @ \/ warning, !.over = @ \/ ending,
                        !.event = IF ending THEN "worker_timeout"
                                  ELSE IF warning THEN "suspected_stall" ELSE @]
  IN IF ending THEN Escalate(seen) ELSE seen

Output(a) ==
  /\ Alive(a)
  /\ \E t \in child[a].tokens .. MaxTokens :
       LET c == Charged(child[a], t) IN
       IF session = a /\ Budget > 0 /\ t >= Budget
       THEN /\ child' = [child EXCEPT ![a] = Terminate(c, "SIGTERM")]
            /\ Return(a, "cancelled")
       ELSE /\ c # child[a]
            /\ child' = [child EXCEPT ![a] = c]
            /\ UNCHANGED <<session, report>>
  /\ UNCHANGED <<stopped, evidence, model, journal>>

(* A second passes.                                                         *)
Tick ==
  /\ \E a \in Child : Alive(a) /\ child[a].wall < End
  /\ child' = [a \in Child |->
                 IF Alive(a) /\ child[a].wall < End
                 THEN [child[a] EXCEPT !.wall = @ + 1, !.idle = IF @ < HardIdle THEN @ + 1 ELSE @]
                 ELSE child[a]]
  /\ UNCHANGED <<session, report, stopped, evidence, model, journal>>

Expired(c) == c.idle >= HardIdle \/ c.wall >= HardWall

(* The interval of the watchdog.                                            *)
Suspect(a) ==
  /\ ~ Settled(child[a]) /\ child[a].pc # "none"
  /\ child[a].event = "none" /\ child[a].idle >= SoftIdle
  /\ child' = [child EXCEPT ![a].event = "suspected_stall"]
  /\ UNCHANGED <<session, report, stopped, evidence, model, journal>>

Expire(a) ==
  /\ ~ Settled(child[a]) /\ child[a].pc # "none"
  /\ child[a].event = "suspected_stall" \/ SoftIdle > child[a].idle
  /\ Expired(child[a]) /\ child[a].event # "worker_timeout"
  /\ child' = [child EXCEPT ![a] = Escalate([@ EXCEPT !.event = "worker_timeout"])]
  /\ UNCHANGED <<session, report, stopped, evidence, model, journal>>

(* The grace is over.  A timer that a later one has replaced is not cleared *)
(* with it, and finds the child settled.                                    *)
MayKill_Always(c) == TRUE
MayKill(c) == ~ Settled(c)

Kill(a) ==
  /\ \E t \in child[a].kills :
       /\ t <= child[a].wall \/ Settled(child[a])
       /\ LET c == IF MayKill(child[a]) THEN Terminate(child[a], "SIGKILL") ELSE child[a]
          IN child' = [child EXCEPT ![a] = [c EXCEPT !.kills = @ \ {t}]]
  /\ UNCHANGED <<session, report, stopped, evidence, model, journal>>

(* The process ends by itself, or by a signal.                              *)
Ends(a) ==
  /\ Alive(a)
  /\ \E code \in {"ok", "bad"} : child' = [child EXCEPT ![a].pc = "exited", ![a].code = code]
  /\ UNCHANGED <<session, report, stopped, evidence, model, journal>>

Dies(a) ==
  /\ Alive(a) /\ child[a].sent # {}
  /\ child' = [child EXCEPT ![a].pc = "exited", ![a].code = "signal"]
  /\ UNCHANGED <<session, report, stopped, evidence, model, journal>>

(* The pipes close: the result is resolved, the latest timer cleared, the   *)
(* outcome recorded, and if runWorker still waits it gets a terminal        *)
(* message that says so.                                                    *)
Ok(c) == c.code = "ok"

(* What the adapter records of the result, whoever still waits for it.      *)
Recorded(c) == {"worker_finished"} \cup IF Ok(c) THEN {} ELSE {"failure_recorded"}

(* What the session tells of it.                                            *)
Told(c) == IF Ok(c) THEN "ok" ELSE "error"

Latest(kills) == {t \in kills : \A u \in kills : u <= t}

Close(a) ==
  /\ child[a].pc = "exited"
  /\ LET c == child[a] IN
     /\ child' = [child EXCEPT ![a].pc = "settled", ![a].kills = @ \ Latest(@)]
     /\ journal' = [journal EXCEPT ![a] = @ \cup Recorded(c)]
     /\ IF session = a
        THEN /\ evidence' = [evidence EXCEPT ![a] = Told(c)]
             /\ Return(a, IF ~ Ok(c) THEN "failed"
                          ELSE IF Budget > 0 /\ c.tokens >= Budget THEN "cancelled" ELSE "completed")
        ELSE UNCHANGED <<session, report, evidence>>
  /\ UNCHANGED <<stopped, model>>

Next ==
  \/ Stop \/ Tick
  \/ \E a \in Attempt :
       \/ Start(a) \/ Cancelled(a) \/ TimedOut(a) \/ Resolves(a) \/ Rejects(a)
       \/ OverBudget(a) \/ TurnEnds(a) \/ ProviderError(a) \/ AgentEnds(a)
  \/ \E a \in Child :
       Output(a) \/ Suspect(a) \/ Expire(a) \/ Kill(a) \/ Ends(a) \/ Dies(a) \/ Close(a)

(* Time passes, timers fire, a process that is sent SIGKILL dies (SIGTERM   *)
(* it may ignore), and its close event arrives.  Nothing makes a worker or  *)
(* the model finish by itself.                                              *)
Fairness ==
  /\ WF_vars(Tick)
  /\ \A a \in Child : WF_vars(Suspect(a)) /\ WF_vars(Expire(a)) /\ WF_vars(Kill(a))
                      /\ WF_vars("SIGKILL" \in child[a].sent /\ Dies(a)) /\ WF_vars(Close(a))

Spec == Init /\ [][Next]_vars

FairSpec == Spec /\ Fairness

-----------------------------------------------------------------------------
(* A worker is reported completed only when it has been shown to end well:  *)
(* its process exited with code 0 and no signal, or the last thing its      *)
(* model did was to end a turn, not to fail after one.                      *)
CompletedProven ==
  \A a \in Attempt : report[a] = "completed" =>
    IF a \in Child THEN Settled(child[a]) /\ child[a].code = "ok" ELSE model[a].ended = "ok"

(* No signal goes to the process group of a child that has settled, whose   *)
(* number may be another process's by then: a kill timer left over from an  *)
(* earlier timeout does nothing.                                            *)
NoSignalAfterClose == \A a \in Child : ~ child[a].late

(* Every child ends: one that is silent, runs on, ignores SIGTERM or was    *)
(* left behind by a runWorker that returned is killed by the watchdog.      *)
EveryChildEnds == \A a \in Child : Alive(a) ~> Settled(child[a])
=============================================================================

-------------------------------- MODULE Auto --------------------------------
(***************************************************************************)
(* The runs of one checkout and who can stop them.  Pi hosts (processes)   *)
(* start, resume and stop auto runs (runPiNextLoop in                      *)
(* extensions/pi-next/loop.ts) and poll for work (monitor.ts); both        *)
(* execute runProductionLifecycleScheduler (production-lifecycle.ts),      *)
(* which keeps the run's state.json.  A run is aborted through the         *)
(* controllers its own process has registered (run-cancellation.ts).       *)
(*                                                                         *)
(* What an execution does with an issue is in Scheduler; here it starts    *)
(* one, settles it, returns or throws.                                     *)
(***************************************************************************)
EXTENDS Naturals, Sequences, FiniteSets

CONSTANT Setting   \* which processes, runs, failures and bounds there may be

VARIABLES
  setting,      \* what it is throughout
  file,         \* per run: its state.json
  exec,         \* the executions of the scheduler, and the commands that lead to them
  controllers,  \* per host and run: the execution that abortRun reaches, 0 if none
  monitor,      \* per host: its monitors, the last one being in the map of monitors
  stopping,     \* per host: what a stop command has read and not written yet
  faults,
  last,         \* history, per host and run: the execution registered last
  lost          \* history: runs whose state nobody will bring to an end

vars == <<setting, file, exec, controllers, monitor, stopping, faults, last, lost>>

Host == setting.hosts            \* Pi processes in the checkout
Run == setting.runs              \* run ids
Monitoring == setting.monitoring \* hosts whose user starts monitors
Mortal == setting.mortal         \* hosts that may be killed; a new one takes the place
Limit == setting.limit           \* issues asked for in one run
MaxExecs == setting.execs        \* bound: commands and wake-ups that run the scheduler
MaxMonitors == setting.monitors  \* bound: monitors of one host
MaxFaults == setting.faults      \* bound: failures of discovery, of a release or of a requery

(* What is assumed of them.                                                 *)
SettingOK(s) ==
  /\ s.monitoring \subseteq s.hosts /\ s.mortal \subseteq s.hosts
  /\ {s.limit, s.execs, s.monitors, s.faults} \subseteq Nat
AutoAssumption == \A s \in Setting : SettingOK(s)

Ending == {"completed", "idle", "budget-yield", "blocked", "cancelled"}
State == [status : {"none", "running"} \cup Ending, stop : BOOLEAN, left : 0 .. Limit]
NoState == [status |-> "none", stop |-> FALSE, left |-> 0]
Nobody == 0
Idle == [run |-> Nobody, copy |-> NoState]

Execs == 1 .. Len(exec)

TypeOK ==
  /\ setting \in Setting /\ file \in [Run -> State]
  /\ \A e \in Execs :
       exec[e] \in [at : {"waiting", "boundary", "working", "done", "dead"}, host : Host, run : Run \cup {Nobody},
                    want : {"auto", "named", "listed", "monitor"}, limit : 0 .. Limit, settled : 0 .. Limit,
                    aborted : BOOLEAN]
  /\ controllers \in [Host -> [Run -> 0 .. Len(exec)]]
  /\ \A h \in Host : \A k \in 1 .. Len(monitor[h]) :
       monitor[h][k] \in [running : BOOLEAN, shown : BOOLEAN, stopRequested : BOOLEAN, timer : BOOLEAN,
                          check : {"none", "listing", "working"}, exec : 0 .. Len(exec)]
  /\ stopping \in [Host -> [run : Run \cup {Nobody}, copy : State]]
  /\ faults \in 0 .. MaxFaults
  /\ last \in [Host -> [Run -> 0 .. Len(exec)]]
  /\ lost \subseteq Run

Init ==
  /\ setting \in Setting
  /\ file = [r \in Run |-> NoState]
  /\ exec = <<>>
  /\ controllers = [h \in Host |-> [r \in Run |-> Nobody]]
  /\ monitor = [h \in Host |-> <<>>]
  /\ stopping = [h \in Host |-> Idle]
  /\ faults = 0
  /\ last = [h \in Host |-> [r \in Run |-> Nobody]]
  /\ lost = {}

-----------------------------------------------------------------------------
(* Operators named X_Y are X with a plausible bug; no specification uses    *)
(* them.  They show that the properties below would notice.                 *)

(* The stop command neither awaits nor yields between read and write.       *)
Free(h) == stopping[h].run = Nobody
Live(e) == exec[e].at \in {"boundary", "working"}
Unused == {r \in Run : file[r].status = "none"}
Resumable(state) == state.status = "cancelled" /\ state.left > 0

Command(h, want, r, limit) ==
  [at |-> "waiting", host |-> h, run |-> r, want |-> want, limit |-> limit, settled |-> 0, aborted |-> FALSE]

Fresh(limit) == [status |-> "running", stop |-> FALSE, left |-> limit]

(* registerRunAbortController, and what unregisters it.                     *)
Register(h, r, e) ==
  /\ controllers' = [controllers EXCEPT ![h][r] = e]
  /\ last' = [last EXCEPT ![h][r] = e]

Unregistered_Always(e) == [controllers EXCEPT ![exec[e].host][exec[e].run] = Nobody]
Unregistered(e) ==
  [controllers EXCEPT ![exec[e].host][exec[e].run] = IF @ = e THEN Nobody ELSE @]

(* abortRun: the controller this process has registered for r, if any.      *)
Abort(h, r) ==
  LET e == controllers[h][r] IN
  exec' = IF e = Nobody THEN exec ELSE [exec EXCEPT ![e].aborted = TRUE]

-----------------------------------------------------------------------------
(* auto, and resume with a run id or without one: they await the preflight  *)
(* of the state provider and an idle host.  Without an id the run comes     *)
(* from the list read before that.                                          *)
Ask(h) ==
  /\ Free(h) /\ Len(exec) < MaxExecs
  /\ \/ exec' = Append(exec, Command(h, "auto", Nobody, Limit))
     \/ \E r \in Run : file[r].status # "none" /\ exec' = Append(exec, Command(h, "named", r, 0))
     \/ \E r \in Run :
          /\ {q \in Run : file[q].status = "cancelled"} = {r}
          /\ exec' = Append(exec, Command(h, "listed", r, file[r].left))
  /\ UNCHANGED <<file, controllers, monitor, stopping, faults, last, lost>>

(* runProductionLifecycleScheduler begins with a state of its own; the      *)
(* handler has registered the controller just before.                       *)
Launch(e, r, limit) ==
  /\ exec' = [exec EXCEPT ![e].at = "boundary", ![e].run = r, ![e].limit = limit]
  /\ file' = [file EXCEPT ![r] = Fresh(limit)]
  /\ Register(exec[e].host, r, e)

Proceed(e) ==
  /\ exec[e].at = "waiting" /\ Free(exec[e].host)
  /\ \/ exec[e].want = "auto" /\ \E r \in Unused : Launch(e, r, Limit)
     \/ exec[e].want = "named" /\ Resumable(file[exec[e].run]) /\ Launch(e, exec[e].run, file[exec[e].run].left)
     \/ exec[e].want = "listed" /\ exec[e].limit > 0 /\ Launch(e, exec[e].run, exec[e].limit)
  /\ UNCHANGED <<monitor, stopping, faults, lost>>

(* The preflight fails, or there is nothing to resume.                      *)
Refuse(e) ==
  /\ exec[e].at = "waiting" /\ Free(exec[e].host)
  /\ exec' = [exec EXCEPT ![e].at = "done"]
  /\ UNCHANGED <<file, controllers, monitor, stopping, faults, last, lost>>

-----------------------------------------------------------------------------
(* The scheduler of e, seen from here.                                      *)

Stopped(e) == exec[e].aborted

(* discover finds an issue, and the claim of it is granted.                 *)
Take(e) ==
  /\ exec[e].at = "boundary" /\ Free(exec[e].host)
  /\ ~ Stopped(e) /\ exec[e].settled < exec[e].limit
  /\ exec' = [exec EXCEPT ![e].at = "working"]
  /\ UNCHANGED <<file, controllers, monitor, stopping, faults, last, lost>>

(* updateProjectionState, for every projection but the terminal one.        *)
Report(e) ==
  /\ exec[e].at = "working" /\ Free(exec[e].host)
  /\ file[exec[e].run].status # "running"
  /\ file' = [file EXCEPT ![exec[e].run].status = "running"]
  /\ UNCHANGED <<exec, controllers, monitor, stopping, faults, last, lost>>

Settle(e) ==
  /\ exec[e].at = "working" /\ Free(exec[e].host)
  /\ exec' = [exec EXCEPT ![e].at = "boundary", ![e].settled = @ + 1]
  /\ UNCHANGED <<file, controllers, monitor, stopping, faults, last, lost>>

(* The check of a monitor goes on once its scheduler is back.               *)
NextCheck(m) ==
  IF m.running /\ ~ m.stopRequested THEN [m EXCEPT !.timer = TRUE, !.check = "none", !.exec = Nobody]
  ELSE [m EXCEPT !.shown = FALSE, !.check = "none", !.exec = Nobody]

Returned(m, aborted) ==
  IF aborted THEN NextCheck([m EXCEPT !.stopRequested = TRUE, !.running = FALSE])
  ELSE NextCheck(m)

(* The catch of checkNow: back off and try again, unless it was stopped.    *)
Thrown_Forgotten(m, aborted) == [m EXCEPT !.shown = m.shown /\ ~ (aborted \/ m.stopRequested), !.check = "none"]
Thrown(m, aborted) ==
  IF aborted \/ m.stopRequested THEN [m EXCEPT !.shown = FALSE, !.check = "none", !.exec = Nobody]
  ELSE [m EXCEPT !.timer = @ \/ m.running, !.check = "none"]

Back(e, threw) ==
  LET h == exec[e].host
      After(m) == IF threw THEN Thrown(m, Stopped(e)) ELSE Returned(m, Stopped(e)) IN
  monitor' = [monitor EXCEPT ![h] = [k \in 1 .. Len(@) |-> IF @[k].check = "working" /\ @[k].exec = e
                                                          THEN After(@[k]) ELSE @[k]]]

(* The final state, of what the file holds by now.                          *)
Final_NotAborted(e, d) ==
  [file[exec[e].run] EXCEPT !.status = IF Stopped(e) THEN @ ELSE d, !.left = exec[e].limit - exec[e].settled]
Final(e, d) ==
  [file[exec[e].run] EXCEPT !.status = d, !.left = exec[e].limit - exec[e].settled]

(* How an execution may end, see Scheduler; one that is stopped while it    *)
(* claims gives the issue back and ends as well.                            *)
Return(e) ==
  /\ Live(e) /\ Free(exec[e].host)
  /\ \E d \in Ending :
       /\ IF d = "cancelled" THEN Stopped(e) ELSE exec[e].at = "boundary"
       /\ d \in {"idle", "completed"} => ~ Stopped(e) /\ exec[e].settled < exec[e].limit
       /\ d = "idle" => exec[e].settled = 0
       /\ d \in {"completed", "blocked", "budget-yield"} => exec[e].settled > 0
       /\ file' = [file EXCEPT ![exec[e].run] = Final(e, d)]
  /\ exec' = [exec EXCEPT ![e].at = "done"]
  /\ controllers' = Unregistered(e)
  /\ Back(e, FALSE)
  /\ UNCHANGED <<stopping, faults, last, lost>>

(* A claim, a release or a requery fails for another reason than a lost     *)
(* race: the state stays as it is.                                          *)
Throw(e) ==
  /\ Live(e) /\ Free(exec[e].host) /\ faults < MaxFaults
  /\ faults' = faults + 1
  /\ exec' = [exec EXCEPT ![e].at = "done"]
  /\ lost' = lost \cup {exec[e].run}
  /\ controllers' = Unregistered(e)
  /\ Back(e, TRUE)
  /\ UNCHANGED <<file, stopping, last>>

-----------------------------------------------------------------------------
(* The stop command: it reads the states, rewrites the one it selects and   *)
(* aborts what this process executes of it.  Another process may write in   *)
(* between.                                                                 *)
StopReads(h) ==
  /\ Free(h)
  /\ \E r \in Run : /\ file[r].status = "running"
                    /\ stopping' = [stopping EXCEPT ![h] = [run |-> r, copy |-> file[r]]]
  /\ UNCHANGED <<file, exec, controllers, monitor, faults, last, lost>>

StopWrites(h) ==
  LET s == stopping[h] IN
  /\ ~ Free(h)
  /\ file' = [file EXCEPT ![s.run] = [s.copy EXCEPT !.stop = TRUE]]
  /\ Abort(h, s.run)
  /\ stopping' = [stopping EXCEPT ![h] = Idle]
  /\ lost' = IF file[s.run].status = "running" THEN lost ELSE lost \cup {s.run}
  /\ UNCHANGED <<controllers, monitor, faults, last>>

-----------------------------------------------------------------------------
(* The monitor of a host.                                                   *)

Current(h) == monitor[h][Len(monitor[h])]
NewMonitor ==
  [running |-> TRUE, shown |-> TRUE, stopRequested |-> FALSE, timer |-> TRUE, check |-> "none", exec |-> Nobody]

(* One that is not shown as running is replaced, whatever it still does.    *)
MonitorStart(h) ==
  /\ h \in Monitoring /\ Free(h) /\ Len(monitor[h]) < MaxMonitors
  /\ monitor[h] # <<>> => ~ Current(h).shown
  /\ monitor' = [monitor EXCEPT ![h] = Append(@, NewMonitor)]
  /\ UNCHANGED <<file, exec, controllers, stopping, faults, last, lost>>

MonitorStop(h) ==
  /\ Free(h) /\ monitor[h] # <<>>
  /\ monitor' = [monitor EXCEPT ![h][Len(monitor[h])] =
                   [@ EXCEPT !.running = FALSE, !.shown = FALSE, !.stopRequested = TRUE, !.timer = FALSE]]
  /\ IF Current(h).exec = Nobody THEN UNCHANGED exec ELSE Abort(h, exec[Current(h).exec].run)
  /\ UNCHANGED <<file, controllers, stopping, faults, last, lost>>

(* The timer fires: checkNow.                                               *)
Wake(h, k) ==
  LET m == monitor[h][k] IN
  /\ Free(h) /\ m.timer
  /\ monitor' = [monitor EXCEPT ![h][k] =
                   [m EXCEPT !.timer = FALSE, !.check = IF m.running /\ m.check = "none" THEN "listing" ELSE m.check]]
  /\ UNCHANGED <<file, exec, controllers, stopping, faults, last, lost>>

(* The shortlist is there, with a candidate or without.                     *)
MayLaunch(m) == ~ m.stopRequested

Listed(h, k) ==
  /\ Free(h) /\ monitor[h][k].check = "listing"
  /\ \/ /\ monitor' = [monitor EXCEPT ![h][k] = NextCheck(@)]
        /\ UNCHANGED <<file, exec, controllers, last>>
     \/ /\ MayLaunch(monitor[h][k]) /\ Len(exec) < MaxExecs
        /\ \E r \in Unused :
             /\ exec' = Append(exec, [Command(h, "monitor", r, Limit) EXCEPT !.at = "boundary"])
             /\ file' = [file EXCEPT ![r] = Fresh(Limit)]
             /\ Register(h, r, Len(exec) + 1)
        /\ monitor' = [monitor EXCEPT ![h][k] = [@ EXCEPT !.check = "working", !.exec = Len(exec) + 1]]
  /\ UNCHANGED <<stopping, faults, lost>>

ListingFails(h, k) ==
  /\ Free(h) /\ monitor[h][k].check = "listing" /\ faults < MaxFaults
  /\ faults' = faults + 1
  /\ monitor' = [monitor EXCEPT ![h][k] = Thrown(@, FALSE)]
  /\ UNCHANGED <<file, exec, controllers, stopping, last, lost>>

(* A host dies, with all it runs.                                           *)
Die(h) ==
  /\ h \in Mortal
  /\ \E e \in Execs : exec[e].host = h /\ exec[e].at \notin {"done", "dead"}
  /\ exec' = [e \in Execs |-> IF exec[e].host = h /\ exec[e].at # "done" THEN [exec[e] EXCEPT !.at = "dead"] ELSE exec[e]]
  /\ lost' = lost \cup {r \in Run : \E e \in Execs : exec[e].host = h /\ Live(e) /\ exec[e].run = r}
  /\ controllers' = [controllers EXCEPT ![h] = [r \in Run |-> Nobody]]
  /\ monitor' = [monitor EXCEPT ![h] = <<>>]
  /\ stopping' = [stopping EXCEPT ![h] = Idle]
  /\ UNCHANGED <<file, faults, last>>

Next ==
  /\ \/ \E e \in Execs : Proceed(e) \/ Refuse(e) \/ Take(e) \/ Report(e) \/ Settle(e) \/ Return(e) \/ Throw(e)
     \/ \E h \in Host :
          \/ Ask(h) \/ StopReads(h) \/ StopWrites(h) \/ MonitorStart(h) \/ MonitorStop(h) \/ Die(h)
          \/ \E k \in 1 .. Len(monitor[h]) : Wake(h, k) \/ Listed(h, k) \/ ListingFails(h, k)
  /\ UNCHANGED setting

Spec == Init /\ [][Next]_vars

-----------------------------------------------------------------------------
(* A monitor that is shown as running will look for work again, or is       *)
(* looking, or waits for the run it launched: no failure, stop or restart   *)
(* leaves it with neither timer nor check.                                  *)
ShownRunningPolls ==
  \A h \in Host : \A k \in 1 .. Len(monitor[h]) :
    monitor[h][k].shown => monitor[h][k].timer \/ monitor[h][k].check # "none"

(* While the execution that was registered last for a run goes on, its own  *)
(* process can abort it, whatever earlier executions of the run do.         *)
LatestReachable ==
  \A h \in Host, r \in Run :
    LET e == last[h][r] IN
    e # Nobody /\ Live(e) => controllers[h][r] = e

(* A run that its state calls running is being executed, unless its         *)
(* execution threw, died with its process, or ended between the read and    *)
(* the write of another process's stop command.                             *)
RunningExplained ==
  \A r \in Run : file[r].status = "running" =>
    r \in lost \/ \E e \in Execs : Live(e) /\ exec[e].run = r
=============================================================================

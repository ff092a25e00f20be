------------------------------ MODULE Display ------------------------------
(***************************************************************************)
(* The live panel of workers (WorkerDisplayController of                   *)
(* extensions/pi-next/worker-display.ts) with what feeds it: the records   *)
(* of a worker's stream that IncrementalWorkerActivityParser               *)
(* (worker-activity.ts) lets through, the watchdog and the end of an       *)
(* attempt (util-core.ts), and /pi-next-view (work-log.ts).  One row for a *)
(* worker (issue and run); a settled row stays for a while; a paint is put *)
(* off to a microtask; painting into a host that is going away may throw.  *)
(*                                                                         *)
(* Operations may come between the scheduling of a paint and the paint, as *)
(* the records of one chunk do.  runIssueWorker makes each of them on the  *)
(* display it is given; the commands of the extension give it none today   *)
(* and only pass activities on, so live text, the watchdog and settled     *)
(* rows are met in the tests alone.  Of a row its status and whether it    *)
(* has live text are kept; items, times, counters and layout are left out. *)
(***************************************************************************)
EXTENDS Naturals, FiniteSets

CONSTANT
  Panel       \* the panels there may be: [workers, summaries, events, retried, errors]

(* What is assumed of the constant.                                         *)
DisplayAssumption ==
  \A p \in Panel : p.retried \subseteq p.workers /\ {p.events, p.errors} \subseteq Nat

VARIABLES
  panel,      \* that of this host
  attempt,    \* each worker: its attempts, is one on, and what its parser keeps
  rows,       \* workers
  timers,     \* settledTimersByKey: workers whose settled row has a timer
  heartbeat, scheduled, disposed,
  attached,   \* hostContext
  controller, \* controllerLine
  view,       \* workerLogView: the workers that are shown
  painted,    \* what the host shows; nothing when widgetVisible is false
  errors,
  shownOnce   \* history: workers an attempt of which has shown activity since it began

vars == <<panel, attempt, rows, timers, heartbeat, scheduled, disposed, attached, controller, view, painted, errors, shownOnce>>

Worker == panel.workers     \* workers: an issue and a run
Summary == panel.summaries  \* what an activity may say
MaxEvents == panel.events   \* MAX_EVENTS_PER_WORKER (300 in the code)
Retried == panel.retried    \* workers with a second attempt
MaxErrors == panel.errors   \* bound: paints that throw

(* suspected_stall and timed_out are "stalled"; completed, failed and       *)
(* aborted are "settled".                                                   *)
Row == [status : {"running", "stalled", "settled"}, text : BOOLEAN]
NoKey == [kind |-> "none", summary |-> "none"]
Nothing == [rows |-> <<>>, controller |-> FALSE]
Quiet == [began |-> 0, on |-> FALSE, last |-> NoKey, events |-> 0]

TypeOK ==
  /\ \A w \in Worker : attempt[w].began \in 0 .. 2 /\ attempt[w].events \in 0 .. MaxEvents
  /\ DOMAIN rows \subseteq Worker /\ \A w \in DOMAIN rows : rows[w] \in Row
  /\ timers \subseteq Worker /\ {heartbeat, scheduled, disposed, attached, controller} \subseteq BOOLEAN
  /\ view \subseteq Worker /\ DOMAIN painted.rows \subseteq Worker /\ errors \in 0 .. MaxErrors
  /\ shownOnce \subseteq Worker

Init ==
  /\ panel \in Panel
  /\ attempt = [w \in Worker |-> Quiet]
  /\ rows = <<>> /\ timers = {} /\ view = Worker /\ painted = Nothing /\ errors = 0 /\ shownOnce = {}
  /\ heartbeat = FALSE /\ scheduled = FALSE /\ disposed = FALSE /\ attached = FALSE /\ controller = FALSE

-----------------------------------------------------------------------------
(* Operators named X_Y are X with a plausible bug; no specification uses    *)
(* them.  They show that the property below would notice.                   *)

Put(w, row) == [v \in DOMAIN rows \cup {w} |-> IF v = w THEN row ELSE rows[v]]
Without(w) == [v \in DOMAIN rows \ {w} |-> rows[v]]
Ensured(w) == IF w \in DOMAIN rows THEN rows[w] ELSE [status |-> "running", text |-> FALSE]

(* attachWorkerDisplay, for a host with a user interface.                   *)
Attach ==
  /\ ~ disposed /\ ~ attached
  /\ attached' = TRUE /\ scheduled' = TRUE
  /\ UNCHANGED <<attempt, rows, timers, heartbeat, disposed, controller, view, painted, errors, shownOnce>>

(* A worker process begins, with a parser of its own.                       *)
Begin(w) ==
  /\ ~ attempt[w].on /\ (attempt[w].began = 0 \/ (attempt[w].began = 1 /\ w \in Retried))
  /\ attempt' = [attempt EXCEPT ![w] = [Quiet EXCEPT !.began = attempt[w].began + 1, !.on = TRUE]]
  /\ shownOnce' = shownOnce \ {w}
  /\ UNCHANGED <<rows, timers, heartbeat, scheduled, disposed, attached, controller, view, painted, errors>>

(* Activity of a worker ends the wait of its settled row.                   *)
Revived_Not(w) == timers
Revived(w) == timers \ {w}

Shows(w, row) ==
  /\ rows' = Put(w, row) /\ timers' = Revived(w)
  /\ heartbeat' = (heartbeat \/ w \notin DOMAIN rows)
  /\ controller' = FALSE /\ scheduled' = TRUE
  /\ shownOnce' = shownOnce \cup {w}
  /\ UNCHANGED <<disposed, attached, view, painted, errors>>

(* parse and extractLiveTextDelta: a fragment of visible text.              *)
LiveDelta(w) ==
  /\ ~ disposed /\ attempt[w].on
  /\ Shows(w, [status |-> "running", text |-> TRUE])
  /\ UNCHANGED attempt

(* parse and normalizeWorkerStreamEvent: not the same activity twice in a   *)
(* row, and no more than so many.  A whole message replaces the live text.  *)
Activity(w) ==
  \E key \in [kind : {"assistant", "tool"}, summary : Summary] :
    /\ attempt[w].on /\ ~ disposed
    /\ key # attempt[w].last /\ attempt[w].events < MaxEvents
    /\ attempt' = [attempt EXCEPT ![w].last = key, ![w].events = @ + 1]
    /\ Shows(w, [status |-> "running", text |-> Ensured(w).text /\ key.kind # "assistant"])

(* The watchdog speaks long after a settled row is gone.                    *)
Watchdog(w) ==
  /\ ~ disposed /\ attempt[w].on /\ w \notin timers
  /\ rows' = Put(w, [Ensured(w) EXCEPT !.status = "stalled"])
  /\ heartbeat' = (heartbeat \/ w \notin DOMAIN rows)
  /\ controller' = FALSE /\ scheduled' = TRUE
  /\ UNCHANGED <<attempt, timers, disposed, attached, view, painted, errors, shownOnce>>

(* The worker process closes: finish.                                       *)
Finish(w) ==
  /\ attempt[w].on
  /\ attempt' = [attempt EXCEPT ![w].on = FALSE]
  /\ IF disposed \/ w \notin DOMAIN rows
     THEN UNCHANGED <<rows, timers, scheduled>>
     ELSE /\ rows' = Put(w, [status |-> "settled", text |-> FALSE])
          /\ timers' = timers \cup {w}
          /\ scheduled' = TRUE
  /\ UNCHANGED <<heartbeat, disposed, attached, controller, view, painted, errors, shownOnce>>

(* The timer of a settled row.                                              *)
Retire(w) ==
  /\ w \in timers
  /\ timers' = timers \ {w}
  /\ rows' = Without(w)
  /\ scheduled' = TRUE
  /\ UNCHANGED <<attempt, heartbeat, disposed, attached, controller, view, painted, errors, shownOnce>>

ControllerActivity ==
  /\ ~ disposed
  /\ controller' = TRUE /\ scheduled' = TRUE
  /\ UNCHANGED <<attempt, rows, timers, heartbeat, disposed, attached, view, painted, errors, shownOnce>>

Tick ==
  /\ heartbeat /\ ~ scheduled
  /\ scheduled' = TRUE
  /\ UNCHANGED <<attempt, rows, timers, heartbeat, disposed, attached, controller, view, painted, errors, shownOnce>>

(* /pi-next-view; it paints nothing itself.                                 *)
SetView ==
  /\ \E shown \in {Worker, {}} \cup {{w} : w \in Worker} : view' = shown
  /\ UNCHANGED <<attempt, rows, timers, heartbeat, scheduled, disposed, attached, controller, painted, errors, shownOnce>>

(* renderLines: the rows of the view, or else the line of the controller.   *)
Visible == DOMAIN rows \cap view
Lines == [rows |-> [w \in Visible |-> rows[w]], controller |-> controller /\ Visible = {}]

(* The microtask: flush.                                                    *)
Flush ==
  /\ scheduled /\ scheduled' = FALSE
  /\ heartbeat' = (heartbeat /\ (disposed \/ DOMAIN rows # {}))
  /\ \/ ~ (attached /\ ~ disposed /\ (Lines # Nothing \/ painted # Nothing)) /\ UNCHANGED <<painted, errors>>
     \/ attached /\ ~ disposed /\ (Lines # Nothing \/ painted # Nothing) /\ painted' = Lines /\ UNCHANGED errors
     \/ /\ attached /\ ~ disposed /\ (Lines # Nothing \/ painted # Nothing) /\ errors < MaxErrors
        /\ errors' = errors + 1 /\ UNCHANGED painted
  /\ UNCHANGED <<attempt, rows, timers, disposed, attached, controller, view, shownOnce>>

Dispose ==
  /\ ~ disposed /\ disposed' = TRUE
  /\ heartbeat' = FALSE /\ timers' = {} /\ rows' = <<>> /\ attached' = FALSE /\ controller' = FALSE
  /\ \/ painted' = Nothing /\ UNCHANGED errors
     \/ painted # Nothing /\ errors < MaxErrors /\ errors' = errors + 1 /\ UNCHANGED painted
  /\ UNCHANGED <<attempt, scheduled, view, shownOnce>>

Step ==
  \/ Attach \/ ControllerActivity \/ Tick \/ SetView \/ Flush \/ Dispose
  \/ \E w \in Worker :
       Begin(w) \/ LiveDelta(w) \/ Activity(w) \/ Watchdog(w) \/ Finish(w) \/ Retire(w)

Next == Step /\ UNCHANGED panel

Spec == Init /\ [][Next]_vars

-----------------------------------------------------------------------------
(* As long as no paint has failed the panel tells the truth: a worker that  *)
(* is at work and has been heard of has a row that does not call it ended,  *)
(* whatever attempts of it ended shortly before; when nothing is left to    *)
(* paint the host shows the rows there are (of the workers the view had or  *)
(* has, while there is a heartbeat to bring it up to date); and nothing is  *)
(* left of the panel once it is disposed, not even by a paint put off.      *)
PanelTrue ==
  errors = 0 =>
    /\ ~ disposed => \A w \in shownOnce : attempt[w].on =>
         w \in DOMAIN rows /\ rows[w].status # "settled"
    /\ disposed => painted = Nothing /\ ~ heartbeat /\ timers = {}
    /\ ~ disposed /\ ~ scheduled /\ attached =>
         /\ rows = <<>> => painted = [Nothing EXCEPT !.controller = controller]
         /\ rows # <<>> => heartbeat
         /\ \A w \in DOMAIN painted.rows : w \in DOMAIN rows /\ painted.rows[w] = rows[w]
=============================================================================

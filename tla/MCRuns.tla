------------------------------- MODULE MCRuns -------------------------------
(* Runs of a checkout, side by side for TLC: the bootstrap lifecycle of one *)
(* issue, run after run (Lifecycle), the runs of the Pi extension seen from *)
(* what starts and stops them (Auto), and the two ways a run finds its      *)
(* issue (Discovery, Roadmap).  They do not interact here: each behaviour   *)
(* is one of `part`, the others stay put.                                   *)
EXTENDS Lifecycle, FiniteSets

CONSTANTS
  h1, h2, q1, q2,
  Setting,                                           \* of Auto
  Priorities, Kind, Window, Concurrency, Exclusion, MaxMoves,  \* of Discovery
  RoadmapOrder, Text,                                      \* of Roadmap
  Number, MaxChanges                                   \* of both

VARIABLES
  part,
  setting, file, exec, controllers, monitor, stopping, faults, last, lost,
  item, held, here, selecting, listed, view, order, window, todo, leased, candidate, outcome, steady, chances, moves,
  live, walk, fetched, at, cache, selected, changes, was

auto == <<setting, file, exec, controllers, monitor, stopping, faults, last, lost>>
discovery == <<item, held, here, selecting, listed, view, order, window, todo, leased, candidate, outcome, steady, chances, moves>>
roadmap == <<live, walk, fetched, at, cache, selected, changes, was>>
choice == <<discovery, roadmap>>
allVars == <<part, vars, auto, choice>>

(* Two processes and three commands about one run, h2 may be killed; or one *)
(* process, its monitor stopped and started anew, and two failures.         *)
Processes == [hosts |-> {h1, h2}, runs |-> {q1}, monitoring |-> {}, mortal |-> {h2},
              limit |-> 1, execs |-> 3, monitors |-> 0, faults |-> 1]
Monitors == [hosts |-> {h1}, runs |-> {q1, q2}, monitoring |-> {h1}, mortal |-> {},
             limit |-> 1, execs |-> 2, monitors |-> 2, faults |-> 2]
Settings == {Processes, Monitors}
A == INSTANCE Auto

(* Three issues, of two priorities: ready, blocked, or labelled with a      *)
(* priority nobody configured; windows of two leases, read one by one.      *)
Ready(p, first) == [open |-> TRUE, labels |-> {"ready"}, listed |-> p, first |-> first]
Urgency == <<"high", "low">>
Kinds == {Ready("high", "high"), Ready("low", "odd"), [Ready("high", "high") EXCEPT !.labels = {"ready", "blocked"}]}
Exclusions == {[excluded |-> {}, parked |-> <<0, 0, 0>>], [excluded |-> {1}, parked |-> <<0, 1, 0>>]}
D == INSTANCE Discovery WITH Item <- Number, local <- here, phase <- selecting

(* Two issues of a roadmap and one outside it.                              *)
Order == <<2, 1>>
Texts == {[depends |-> {2, 3}, clear |-> TRUE], [depends |-> {}, clear |-> TRUE], [depends |-> {}, clear |-> FALSE]}
N == INSTANCE Roadmap WITH Issue <- Number, Listed <- RoadmapOrder, phase <- walk, seen <- was

ASSUME RunsAssumption == A!AutoAssumption /\ D!DiscoveryAssumption /\ N!RoadmapAssumption

(* The parts that do not move begin in one state.                           *)
EitherInit ==
  /\ part \in {"bootstrap", "runs", "discovery", "roadmap"}
  /\ Init /\ A!Init /\ D!Init /\ N!Init
  /\ part # "runs" => setting = Processes
  /\ part # "discovery" => held = {} /\ here.excluded = {} /\ \A i \in Number : item[i].kind = Ready("high", "high")
  /\ part # "roadmap" => \A i \in Number : live[i].open /\ live[i].text = [depends |-> {}, clear |-> TRUE]

EitherNext ==
  /\ \/ part = "bootstrap" /\ Next /\ UNCHANGED <<auto, choice>>
     \/ part = "runs" /\ A!Next /\ UNCHANGED <<vars, choice>>
     \/ part = "discovery" /\ D!Next /\ UNCHANGED <<vars, auto, roadmap>>
     \/ part = "roadmap" /\ N!Next /\ UNCHANGED <<vars, auto, discovery>>
  /\ UNCHANGED part

EitherSpec == EitherInit /\ [][EitherNext]_allVars

(* The properties of the parts, stated and explained in their modules.      *)
(* Auto: the latest execution of a run can be aborted by its process, a run *)
(* whose state says running is executed, or there is a cause, and a monitor *)
(* that is shown as running polls.                                          *)
LatestReachable == A!LatestReachable /\ A!RunningExplained /\ A!ShownRunningPolls
(* Discovery and Roadmap: by the shortlist no available issue is passed     *)
(* over for a less urgent one; by the roadmap the issue selected was ready  *)
(* and those before it were not.                                            *)
ChoiceJustified == D!NotPassedOver /\ N!NextIsReady
=============================================================================

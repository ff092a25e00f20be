------------------------------ MODULE MCTools ------------------------------
(* What runs, incident reports and the host's display leave for others,     *)
(* side by side for TLC: the journal that several processes append to       *)
(* (LifecycleJournal), the tools of a candidate (Candidate), the incident   *)
(* reports of two processes (Incident), the footer of a host with two       *)
(* sessions (Footer) and its panel of workers (Display).  They do not       *)
(* interact here: each behaviour is one of `part`, the others stay put.     *)
EXTENDS LifecycleJournal, FiniteSets

CONSTANTS
  p1, p2, s1, s2, m1, c1, x1,
  Setting,                                                    \* of Candidate
  Reporter, Failure, Mismatch, Upstream, Issue, Seen,         \* of Incident
  Mortal, MaxReports, MaxFaults, MaxClosed,                   \* of Incident too
  Session, Elsewhere, Run, MaxCommands, MaxContexts,          \* of Footer
  Panel                                                       \* of Display

VARIABLES
  part,
  setting, issue, plan, work, dirty, tip, quality, report, telemetry, request, tool, archived, closed, ghost,
  files, last, incidents, flight, reports, count, excused,
  opened, leaving, shown, state, saved, instance, bound, contexts, bindings, command,
  panel, worker, rows, timers, heartbeat, scheduled, disposed, attached, controller, view, painted, errors, shownOnce

candidate == <<setting, issue, plan, work, dirty, tip, quality, report, telemetry, request, tool, archived, closed, ghost>>
incident == <<files, last, incidents, flight, reports, count, excused>>
footer == <<opened, leaving, shown, state, saved, instance, bound, contexts, bindings, command>>
display == <<panel, worker, rows, timers, heartbeat, scheduled, disposed, attached, controller, view, painted, errors, shownOnce>>
allVars == <<part, vars, candidate, incident, footer, display>>

(* The tools of a candidate: a high-risk issue with a criterion that is a   *)
(* command, and corrections; quality evidence and the archive, with no      *)
(* bookkeeping commit allowed; an issue that is edited, an external         *)
(* criterion, a tool call cut short.                                        *)
Settings ==
  {[contents |-> {s1, s2}, criteria |-> {m1, c1}, mechanical |-> {c1}, external |-> {}, high |-> TRUE,
    levels |-> {}, limit |-> 2, edits |-> 0, commits |-> 3, kills |-> 0],
   [contents |-> {s1, s2}, criteria |-> {m1}, mechanical |-> {}, external |-> {}, high |-> FALSE,
    levels |-> {"full"}, limit |-> 0, edits |-> 0, commits |-> 3, kills |-> 0],
   [contents |-> {s1}, criteria |-> {m1, x1}, mechanical |-> {}, external |-> {x1}, high |-> FALSE,
    levels |-> {}, limit |-> 1, edits |-> 1, commits |-> 4, kills |-> 1]}

G == INSTANCE Candidate

(* Reports of failures and of mismatches.                                   *)
I == INSTANCE Incident WITH report <- reports

(* Two sessions, three contexts, one auto or loop command.                  *)
F == INSTANCE Footer

(* A panel of two workers; a panel of one with a second attempt, and a      *)
(* paint that fails.                                                        *)
Panels ==
  {[workers |-> {1, 2}, summaries |-> {s1}, events |-> 1, retried |-> {}, errors |-> 0],
   [workers |-> {1}, summaries |-> {s1}, events |-> 2, retried |-> {1}, errors |-> 1]}
D == INSTANCE Display WITH attempt <- worker

ASSUME ToolsAssumption ==
  /\ G!CandidateAssumption /\ I!IncidentAssumption /\ F!FooterAssumption /\ D!DisplayAssumption

(* The parts that do not move begin in one state.                           *)
EitherInit ==
  /\ part \in {"journal", "candidate", "incident", "footer", "display"}
  /\ Init /\ G!Init /\ I!Init /\ F!Init /\ D!Init
  /\ part # "candidate" => setting = CHOOSE s \in Setting : TRUE
  /\ part # "display" => panel = CHOOSE p \in Panel : TRUE
  /\ part # "footer" => opened = <<CHOOSE s \in Session : TRUE>> /\ state = [r \in Run |-> F!NoState]

EitherNext ==
  /\ \/ part = "journal" /\ Next /\ UNCHANGED <<candidate, incident, footer, display>>
     \/ part = "candidate" /\ G!Next /\ UNCHANGED <<vars, incident, footer, display>>
     \/ part = "incident" /\ I!Next /\ UNCHANGED <<vars, candidate, footer, display>>
     \/ part = "footer" /\ F!Next /\ UNCHANGED <<vars, candidate, incident, display>>
     \/ part = "display" /\ D!Next /\ UNCHANGED <<vars, candidate, incident, footer>>
  /\ UNCHANGED part

EitherSpec == EitherInit /\ [][EitherNext]_allVars

(* The properties of the parts, stated and explained in their modules.      *)
(* Candidate: a request names a commit that is verified for the issue, and  *)
(* bookkeeping commits are bounded.                                         *)
RequestProven == G!RequestProven /\ G!BudgetKept
(* Incident: a failure has one open incident and one file per issue.        *)
DuplicatesExplained == I!DuplicatesExplained
(* Display and Footer: the panel shows the workers there are, the footer    *)
(* follows the run of its session.                                          *)
DisplaysFollow == F!FollowsRun /\ [](part = "display" => D!PanelTrue)
=============================================================================

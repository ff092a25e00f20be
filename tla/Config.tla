------------------------------- MODULE Config -------------------------------
(***************************************************************************)
(* The configuration of a checkout (src/coordination/config.ts): what a    *)
(* file means after its defaults, which files are refused, and the limits  *)
(* a worker, an issue and the monitor get from it.  The file is read again *)
(* at each use and edited in between, one field at a time; somebody may    *)
(* also spell out in it what was loaded.                                   *)
(*                                                                         *)
(* A number is a level from 0, below every minimum, to 5, above every      *)
(* maximum; the levels of the defaults keep their order.  A section is the *)
(* function of the fields it gives.  The routing policy of the skills is   *)
(* modelled by Dispatch.                                                   *)
(***************************************************************************)
EXTENDS Naturals

CONSTANTS
  Budget,    \* the convergence limits: pairs of the names of a soft and a hard one
  Role,      \* worker roles
  LongRole,  \* the role with limits of its own in the defaults
  MaxEdits   \* bound: edits of the file

(* What is assumed of the constants.                                        *)
ConfigAssumption ==
  /\ \A b, d \in Budget : b[1] # d[2] /\ "absent" \notin {b[1], b[2]}
  /\ LongRole \in Role /\ MaxEdits \in Nat

VARIABLES
  file,    \* .pi-next/config.json: its sections, or that there is none
  loaded,  \* what the last use of it got
  edits    \* edits so far

vars == <<file, loaded, edits>>

Level == 0 .. 5
None == [absent |-> TRUE]
Missing == [there |-> FALSE]
Refused == [refused |-> TRUE]
Unread == [unread |-> TRUE]

Limit == {"softIdle", "hardIdle", "hardWall"}
Pace == {"poll", "backoff"}
SoftBound == {b[1] : b \in Budget}
HardBound == {b[2] : b \in Budget}
Bound == SoftBound \cup HardBound

(* DEFAULT_PI_NEXT_CONFIG, as far as it is modelled.                        *)
Defaults ==
  [status      |-> "default",
   provider    |-> "builtin",
   models      |-> {},
   escalations |-> 2,
   review      |-> [enabled |-> FALSE, rounds |-> 2],
   convergence |-> [b \in Bound |-> IF b \in SoftBound THEN 2 ELSE 3],
   watchdog    |-> [default |-> [softIdle |-> 1, hardIdle |-> 2, hardWall |-> 3],
                    roles   |-> [r \in {LongRole} |-> [softIdle |-> 2, hardIdle |-> 3, hardWall |-> 4]]],
   monitor     |-> [poll |-> 2, backoff |-> 3],
   incidents   |-> [auto |-> "no"],
   assessment  |-> [threshold |-> 2, held |-> "one state"]]

(* A file with the sections that must be there, and nothing else.           *)
Minimal ==
  [there |-> TRUE, required |-> TRUE, unknown |-> FALSE, status |-> "absent", provider |-> "absent",
   dispatch |-> None, review |-> None, convergence |-> None, watchdog |-> None,
   monitor |-> None, incidents |-> None, assessment |-> None]

Partial(field, value) == UNION {[f -> value] : f \in SUBSET field}
Watchdogs == Partial(Limit, Level)

TypeOK ==
  /\ edits \in 0 .. MaxEdits
  /\ file.there => file.convergence = None \/ file.convergence \in Partial(Bound, Level)
  /\ file.there => file.monitor = None \/ file.monitor \in Partial(Pace, Level)

Init == file \in {Missing, Minimal} /\ loaded = Unread /\ edits = 0

-----------------------------------------------------------------------------
(* Operators named X_Y are X with a plausible bug; no specification uses    *)
(* them.  They show that the properties below would notice.                 *)

(* A field that is not given takes the fallback.                            *)
Effective(given, fallback) ==
  [f \in DOMAIN fallback |-> IF f \in DOMAIN given THEN given[f] ELSE fallback[f]]

Given(section) == IF section = None THEN <<>> ELSE section

Within(value, low, high) == low <= value /\ value <= high

(* convergence: the hard budgets exceed the soft ones, defaults included.   *)
Convergence(f) == Effective(Given(f.convergence), Defaults.convergence)

Budgets_AsGiven(f) ==
  LET c == Given(f.convergence) IN
  \A b \in Budget : {b[1], b[2]} \subseteq DOMAIN c => c[b[2]] > c[b[1]]
Budgets(f) ==
  LET c == Convergence(f) IN \A b \in Budget : c[b[2]] > c[b[1]]

InBounds(f) ==
  LET c == Convergence(f) IN
  \A b \in Bound : IF b \in SoftBound THEN Within(c[b], 1, 3) ELSE Within(c[b], 2, 4)

(* workerWatchdog: a role takes what it does not say from the configured    *)
(* default; the roles of the defaults are there only without the section.   *)
Base(f) ==
  LET w == f.watchdog IN
  IF w = None \/ w.default = None THEN Defaults.watchdog.default
  ELSE Effective(w.default, Defaults.watchdog.default)

RolePolicies(f) ==
  IF f.watchdog = None THEN <<>>
  ELSE [r \in DOMAIN f.watchdog.roles |-> Effective(f.watchdog.roles[r], Base(f))]

Ordered(p) ==
  /\ Within(p.softIdle, 1, 3) /\ Within(p.hardIdle, 2, 4) /\ Within(p.hardWall, 2, 4)
  /\ p.hardIdle > p.softIdle /\ p.hardWall > p.softIdle

Watched(f) == Ordered(Base(f)) /\ \A r \in DOMAIN RolePolicies(f) : Ordered(RolePolicies(f)[r])

(* monitor: the backoff is at least the poll interval.                      *)
Monitor(f) == Effective(Given(f.monitor), Defaults.monitor)

Paced(f) ==
  LET m == Monitor(f) IN
  /\ \A p \in Pace : Within(m[p], 1, 4)
  /\ m.backoff >= m.poll

(* incidentReporting: whether incidents are created is a Boolean.           *)
Incidents(f) == Effective(Given(f.incidents), Defaults.incidents)
Reports(f) == Incidents(f).auto \in {"yes", "no"}

(* assessment: a section that does not say which issues are held means two  *)
(* states, no section means one.                                            *)
Assessment(f) ==
  IF f.assessment = None THEN Defaults.assessment
  ELSE Effective(f.assessment, [threshold |-> 2, held |-> "two states"])
Assesses(f) == Within(Assessment(f).threshold, 1, 3)

(* adversarialReview is given whole or not at all.                          *)
Review(f) == IF f.review = None THEN Defaults.review ELSE f.review
Reviews(f) == {"enabled", "rounds"} \subseteq DOMAIN Review(f) /\ Within(Review(f).rounds, 1, 2)

(* workerDispatch: the models by role, and how often they may escalate.     *)
Escalations(f) ==
  IF f.dispatch = None THEN Defaults.escalations
  ELSE Effective(f.dispatch, [models |-> {}, escalations |-> Defaults.escalations]).escalations
Models(f) == IF f.dispatch = None \/ "models" \notin DOMAIN f.dispatch THEN {} ELSE f.dispatch.models
Dispatches(f) == Within(Escalations(f), 0, 3) /\ Models(f) \subseteq Role

(* workflow.stateProvider: a path belongs to a helper, and to a helper only.*)
Provides(f) == f.provider \in {"absent", "builtin", "helper with path"}

(* authority.projectStatus is given whole or not at all.                    *)
Statuses(f) == f.status # "partly"

(* The sections without a default, and nothing the version does not know.   *)
Shaped(f) == f.required /\ ~ f.unknown

(* validatePiNextConfig                                                     *)
Accepted(f) ==
  /\ Shaped(f) /\ Statuses(f) /\ Provides(f) /\ Dispatches(f) /\ Reviews(f)
  /\ InBounds(f) /\ Budgets(f) /\ Watched(f) /\ Paced(f) /\ Reports(f) /\ Assesses(f)

Meaning(f) ==
  [status      |-> IF f.status = "absent" THEN Defaults.status ELSE f.status,
   provider    |-> IF f.provider = "absent" THEN Defaults.provider ELSE f.provider,
   models      |-> Models(f),
   escalations |-> Escalations(f),
   review      |-> Review(f),
   convergence |-> Convergence(f),
   watchdog    |-> IF f.watchdog = None THEN Defaults.watchdog
                   ELSE [default |-> Base(f), roles |-> RolePolicies(f)],
   monitor     |-> Monitor(f),
   incidents   |-> Incidents(f),
   assessment  |-> Assessment(f)]

(* loadPiNextConfig: no file is the defaults.                               *)
Load(f) == IF ~ f.there THEN Defaults ELSE IF Accepted(f) THEN Meaning(f) ELSE Refused

(* What is loaded, as a file: every section is given.                       *)
Written(c) ==
  [there |-> TRUE, required |-> TRUE, unknown |-> FALSE, status |-> c.status, provider |-> c.provider,
   dispatch |-> [models |-> c.models, escalations |-> c.escalations], review |-> c.review,
   convergence |-> c.convergence, watchdog |-> c.watchdog, monitor |-> c.monitor,
   incidents |-> c.incidents, assessment |-> c.assessment]

(* workerWatchdogPolicy: a worker whose configuration is refused gets       *)
(* limits that are written in the code.                                     *)
PolicyOf(c, role) ==
  IF c = Refused THEN Defaults.watchdog.default
  ELSE IF role \in DOMAIN c.watchdog.roles THEN c.watchdog.roles[role] ELSE c.watchdog.default

-----------------------------------------------------------------------------
Put(section, field, value) ==
  [f \in DOMAIN Given(section) \cup {field} |-> IF f = field THEN value ELSE section[f]]

(* Sections one edit away: one field given, or the section dropped.         *)
Sections(section, fields, values) ==
  {None, Given(section)} \cup {Put(section, f, v) : f \in fields, v \in values}

WatchdogSections(w) ==
  LET now == IF w = None THEN [default |-> None, roles |-> <<>>] ELSE w
      of(r) == IF r \in DOMAIN now.roles THEN now.roles[r] ELSE None
  IN {None} \cup {[now EXCEPT !.default = d] : d \in Sections(now.default, Limit, Level)}
            \cup {[now EXCEPT !.roles = Put(@, r, Put(of(r), l, v))] : r \in Role, l \in Limit, v \in Level}

(* Somebody edits the file.                                                 *)
Edited(f) ==
  {[f EXCEPT !.convergence = s] : s \in Sections(f.convergence, Bound, Level)}
  \cup {[f EXCEPT !.monitor = s] : s \in Sections(f.monitor, Pace, Level)}
  \cup {[f EXCEPT !.watchdog = s] : s \in WatchdogSections(f.watchdog)}
  \cup {[f EXCEPT !.review = s] : s \in {None} \cup [enabled : BOOLEAN, rounds : 0 .. 3] \cup [enabled : BOOLEAN]}
  \cup {[f EXCEPT !.dispatch = s] : s \in {None} \cup [escalations : {0, 3, 4}]
                                          \cup [models : {{}, {"worker"}, {LongRole}}, escalations : {2}]}
  \cup {[f EXCEPT !.status = s] : s \in {"absent", "partly", "default", "own"}}
  \cup {[f EXCEPT !.provider = s] : s \in {"absent", "builtin", "builtin with path", "helper", "helper with path"}}
  \cup {[f EXCEPT !.incidents = s] : s \in {None} \cup [auto : {"yes", "no", "other"}]}
  \cup {[f EXCEPT !.assessment = s] : s \in {None} \cup [threshold : {1, 4}] \cup [held : {"own states"}]}
  \cup {[f EXCEPT !.unknown = TRUE], [f EXCEPT !.required = FALSE]}

Edit ==
  /\ edits < MaxEdits
  /\ file' \in IF file.there THEN {Missing} \cup Edited(file) ELSE {Minimal}
  /\ edits' = edits + 1
  /\ loaded' = Unread

Use ==
  /\ loaded = Unread
  /\ loaded' = Load(file)
  /\ UNCHANGED <<file, edits>>

(* What was loaded is spelled out in the file.                              *)
Save ==
  /\ loaded \notin {Unread, Refused}
  /\ file' = Written(loaded)
  /\ UNCHANGED <<loaded, edits>>

Next == Edit \/ Use \/ Save

Spec == Init /\ [][Next]_vars

-----------------------------------------------------------------------------
(* Whatever file is accepted, and none: every worker is warned before it is *)
(* stopped, whichever role it has and whichever limits the file leaves to   *)
(* the defaults or to other sections; each budget of an issue warns before  *)
(* it ends; the monitor's backoff does not shorten its interval.            *)
Usable(c) ==
  /\ \A r \in Role : PolicyOf(c, r).softIdle < PolicyOf(c, r).hardIdle
                     /\ PolicyOf(c, r).softIdle < PolicyOf(c, r).hardWall
  /\ c # Refused => /\ \A b \in Budget : c.convergence[b[1]] < c.convergence[b[2]]
                    /\ c.monitor.poll <= c.monitor.backoff

(* Every loaded configuration is usable, and spelled out in the file it is  *)
(* accepted with the same meaning: no default depends on what is left out.  *)
ConfigUsable ==
  loaded # Unread => /\ Usable(loaded)
                     /\ loaded # Refused => Load(Written(loaded)) = loaded
=============================================================================

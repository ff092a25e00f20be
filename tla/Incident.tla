------------------------------ MODULE Incident ------------------------------
(***************************************************************************)
(* Incident reports (src/coordination/incident-reporting.ts): a failure of *)
(* the framework is kept as a file of the checkout and reported upstream,  *)
(* as a comment of the open incident with its fingerprint or as a new one. *)
(* Reports come from finalizers that are blocked (src/lifecycle/kernel.ts),*)
(* from status commands that see two runs in one place (loop.ts) and from  *)
(* the report command (cli.ts), in several processes that may be killed;   *)
(* calls of gh may fail, or time out and be carried out all the same, and  *)
(* the search index of GitHub may lag.                                     *)
(*                                                                         *)
(* A failure is its fingerprint.  What a bundle says beyond failure, issue *)
(* and run, and how it is rendered, is left out.                           *)
(***************************************************************************)
EXTENDS Naturals, Sequences, FiniteSets

CONSTANTS
  Reporter,      \* processes that report
  Failure,       \* fingerprints of lifecycle failures
  Mismatch,      \* the fingerprint of a controller identity mismatch
  Upstream,      \* the fingerprints that are reportable upstream
  Issue,         \* source issues
  Seen,          \* pairs of runs that contradict each other
  Mortal,        \* reporters that may be killed
  MaxReports,    \* bound: reports that are begun
  MaxFaults,     \* bound: calls of gh that fail or time out
  MaxClosed      \* bound: incidents an operator closes

(* What is assumed of the constants.                                        *)
IncidentAssumption ==
  /\ Upstream \subseteq Failure \cup {Mismatch} /\ Mortal \subseteq Reporter
  /\ {MaxReports, MaxFaults, MaxClosed} \subseteq Nat

VARIABLES
  files,      \* the incident files, oldest first
  last,       \* last.json: a bundle, torn or none
  incidents,  \* the incidents upstream
  flight,     \* incidents whose creation timed out and is still under way
  report,     \* what each reporter is doing
  count,      \* reports, faults and closings so far
  excused     \* history: what two reports did at once, or a late index hid

vars == <<files, last, incidents, flight, report, count, excused>>

Fingerprint == Failure \cup {Mismatch}
Bundle == [failure : Fingerprint, issue : Issue, seen : Seen \cup {0}]
Blank == [failure |-> Mismatch, issue |-> 0, seen |-> 0]
Torn == [Blank EXCEPT !.seen = 1]
Idle == [at |-> "idle", bundle |-> Blank, github |-> FALSE, matches |-> {}]

TypeOK ==
  /\ files \in Seq(Bundle \cup {Torn}) /\ last \in Bundle \cup {Blank, Torn}
  /\ incidents \in Seq([failure : Fingerprint, open : BOOLEAN, indexed : BOOLEAN, comments : Nat])
  /\ flight \subseteq Fingerprint
  /\ report \in [Reporter -> [at : {"idle", "looking", "writing", "marking", "searching", "posting", "dead"},
                              bundle : Bundle \cup {Blank}, github : BOOLEAN, matches : SUBSET (1 .. Len(incidents))]]
  /\ count \in [reports : 0 .. MaxReports, faults : 0 .. MaxFaults, closed : 0 .. MaxClosed]
  /\ excused \subseteq Fingerprint \X (Issue \cup {0})

Init ==
  /\ files = <<>> /\ last = Blank /\ incidents = <<>> /\ flight = {} /\ excused = {}
  /\ report = [p \in Reporter |-> Idle]
  /\ count = [reports |-> 0, faults |-> 0, closed |-> 0]

-----------------------------------------------------------------------------
(* Operators named X_Y are X with a plausible bug; no specification uses    *)
(* them.  They show that the property below would notice.                   *)

Begin(p, bundle) ==
  /\ report[p].at = "idle" /\ count.reports < MaxReports
  /\ count' = [count EXCEPT !.reports = @ + 1]
  /\ \E github \in BOOLEAN :
       report' = [report EXCEPT ![p] = [Idle EXCEPT !.at = "looking", !.bundle = bundle, !.github = github]]
  /\ UNCHANGED <<files, last, incidents, flight, excused>>

(* A lifecycle ends blocked: incidentBundleFromLifecycleResult.             *)
Blocked(p) == \E f \in Failure, i \in Issue : Begin(p, [failure |-> f, issue |-> i, seen |-> 0])

(* reportIdentityMismatch, at each status command that sees the mismatch:   *)
(* not again if last.json has the same one.                                 *)
Noticed(p) ==
  \E i \in Issue, s \in Seen :
    /\ last # Torn
    /\ ~ (last.failure = Mismatch /\ last.seen = s)
    /\ Begin(p, [failure |-> Mismatch, issue |-> i, seen |-> s])

(* report --last, and report --issue: the newest file of the issue, unless  *)
(* a file read on the way to it is torn.                                    *)
Newest(i) ==
  {k \in 1 .. Len(files) : /\ files[k] # Torn /\ files[k].issue = i
                           /\ \A j \in k + 1 .. Len(files) : files[j] # Torn /\ files[j].issue # i}

Asked(p) ==
  \/ last \in Bundle /\ Begin(p, last)
  \/ \E i \in Issue : \E k \in Newest(i) : Begin(p, files[k])

-----------------------------------------------------------------------------
(* persistIncidentBundle: one file for a failure of an issue.               *)
Same(a, b) == a # Torn /\ a.failure = b.failure /\ a.issue = b.issue
Equivalent(b) == {k \in 1 .. Len(files) : Same(files[k], b)}

Published(r) == IF r.github /\ r.bundle.failure \in Upstream THEN [r EXCEPT !.at = "searching"] ELSE Idle

Look(p) ==
  LET b == report[p].bundle
      others == {q \in Reporter : report[q].at = "writing" /\ Same(report[q].bundle, b)} IN
  /\ report[p].at = "looking"
  /\ IF Equivalent(b) # {}
     THEN /\ last' = IF last = Blank THEN files[CHOOSE k \in Equivalent(b) : \A j \in Equivalent(b) : k <= j] ELSE last
          /\ report' = [report EXCEPT ![p] = Published(@)]
          /\ UNCHANGED excused
     ELSE /\ report' = [report EXCEPT ![p].at = "writing"]
          /\ excused' = IF others = {} THEN excused ELSE excused \cup {<<b.failure, b.issue>>}
          /\ UNCHANGED last
  /\ UNCHANGED <<files, incidents, flight, count>>

WriteFile(p) ==
  /\ report[p].at = "writing"
  /\ files' = Append(files, report[p].bundle)
  /\ report' = [report EXCEPT ![p].at = "marking"]
  /\ UNCHANGED <<last, incidents, flight, count, excused>>

WriteLast(p) ==
  /\ report[p].at = "marking"
  /\ last' = report[p].bundle
  /\ report' = [report EXCEPT ![p] = Published(@)]
  /\ UNCHANGED <<files, incidents, flight, count, excused>>

(* The process is killed, at worst in the middle of a write.                *)
Die(p) ==
  /\ p \in Mortal /\ report[p].at \notin {"idle", "dead"}
  /\ report' = [report EXCEPT ![p] = [Idle EXCEPT !.at = "dead"]]
  /\ \/ report[p].at = "writing" /\ files' = Append(files, Torn) /\ UNCHANGED last
     \/ report[p].at = "marking" /\ last' = Torn /\ UNCHANGED files
     \/ UNCHANGED <<files, last>>
  /\ UNCHANGED <<incidents, flight, count, excused>>

-----------------------------------------------------------------------------
(* publishIncidentToGithub.                                                 *)

(* searchFingerprint, over what the index knows.  History: a report of the  *)
(* same failure that posts meanwhile, or an incident the index lacks.       *)
Hidden(p, f) ==
  \/ f \in flight
  \/ \E q \in Reporter \ {p} : report[q].at = "posting" /\ report[q].bundle.failure = f
  \/ \E k \in 1 .. Len(incidents) : incidents[k].failure = f /\ ~ incidents[k].indexed

Search(p) ==
  LET f == report[p].bundle.failure IN
  /\ report[p].at = "searching"
  /\ report' = [report EXCEPT ![p].at = "posting",
       ![p].matches = {k \in 1 .. Len(incidents) : incidents[k].failure = f /\ incidents[k].indexed}]
  /\ excused' = IF Hidden(p, f) THEN excused \cup {<<f, 0>>} ELSE excused
  /\ UNCHANGED <<files, last, incidents, flight, count>>

SearchFails(p) ==
  /\ report[p].at = "searching" /\ count.faults < MaxFaults
  /\ count' = [count EXCEPT !.faults = @ + 1]
  /\ report' = [report EXCEPT ![p] = Idle]
  /\ UNCHANGED <<files, last, incidents, flight, excused>>

(* GitHub answers states in capitals.                                       *)
Open_AsTyped(matches) == {}
Open(matches) == {k \in matches : incidents[k].open}

(* appendOccurrence.                                                        *)
Commented(k) == incidents' = [incidents EXCEPT ![k].comments = @ + 1]

(* createIssue, linked to the closed incident if there was one.             *)
Created(f) ==
  \E indexed \in BOOLEAN :
    incidents' = Append(incidents, [failure |-> f, open |-> TRUE, indexed |-> indexed, comments |-> 0])

Mutates(p) ==
  LET open == Open(report[p].matches)
      closed == report[p].matches \ open IN
  Cardinality(open) = 1 \/ (open = {} /\ Cardinality(closed) <= 1)

Post(p) ==
  LET open == Open(report[p].matches)
      f == report[p].bundle.failure IN
  /\ report[p].at = "posting"
  /\ report' = [report EXCEPT ![p] = Idle]
  /\ \/ /\ Mutates(p)
        /\ IF open # {} THEN \E k \in open : Commented(k) ELSE Created(f)
        /\ UNCHANGED <<flight, count>>
     \/ ~ Mutates(p) /\ UNCHANGED <<incidents, flight, count>>
     \/ /\ Mutates(p) /\ count.faults < MaxFaults
        /\ count' = [count EXCEPT !.faults = @ + 1]
        /\ flight' = IF open = {} THEN flight \cup {f} ELSE flight
        /\ UNCHANGED incidents
  /\ UNCHANGED <<files, last, excused>>

(* A creation that timed out is carried out, or was lost.                   *)
Land(f) ==
  /\ f \in flight
  /\ flight' = flight \ {f}
  /\ Created(f) \/ UNCHANGED incidents
  /\ UNCHANGED <<files, last, report, count, excused>>

Index(k) ==
  /\ ~ incidents[k].indexed
  /\ incidents' = [incidents EXCEPT ![k].indexed = TRUE]
  /\ UNCHANGED <<files, last, flight, report, count, excused>>

CloseIncident(k) ==
  /\ incidents[k].open /\ count.closed < MaxClosed
  /\ count' = [count EXCEPT !.closed = @ + 1]
  /\ incidents' = [incidents EXCEPT ![k].open = FALSE]
  /\ UNCHANGED <<files, last, flight, report, excused>>

Next ==
  \/ \E p \in Reporter :
       \/ Blocked(p) \/ Noticed(p) \/ Asked(p) \/ Look(p) \/ WriteFile(p) \/ WriteLast(p) \/ Die(p)
       \/ Search(p) \/ SearchFails(p) \/ Post(p)
  \/ \E f \in Fingerprint : Land(f)
  \/ \E k \in 1 .. Len(incidents) : Index(k) \/ CloseIncident(k)

Spec == Init /\ [][Next]_vars

-----------------------------------------------------------------------------
(* A failure has one open incident upstream, and one readable file for each *)
(* issue it struck, however often it is reported, whatever calls fail or    *)
(* are cut short and whoever closes incidents; unless two reports of it     *)
(* were at the same step at once, or a search came before an incident that  *)
(* was created was to be found.                                             *)
DuplicatesExplained ==
  \A f \in Fingerprint :
    /\ <<f, 0>> \notin excused =>
         Cardinality({k \in 1 .. Len(incidents) : incidents[k].failure = f /\ incidents[k].open}) <= 1
    /\ \A i \in Issue : <<f, i>> \notin excused =>
         Cardinality({k \in 1 .. Len(files) : files[k] # Torn /\ files[k].failure = f /\ files[k].issue = i}) <= 1
=============================================================================

------------------------------ MODULE Roadmap ------------------------------
(***************************************************************************)
(* The next issue of the roadmap (resolveNextIssue of                      *)
(* src/bootstrap/roadmap.ts, called by runBootstrapCli of                  *)
(* src/bootstrap/cli.ts): read the roadmap and its issues one by one, then *)
(* walk them in order and select the first that is open, carries no label  *)
(* against it and has every declared dependency closed.  Dependencies      *)
(* outside the roadmap are read on the way, once each.  Meanwhile people   *)
(* close, reopen, label and rewrite issues; a read may fail.               *)
(*                                                                         *)
(* Of an issue's text only what declaredDependencies finds in it is kept:  *)
(* a set of issues, or that it cannot be told.                             *)
(***************************************************************************)
EXTENDS Naturals, Sequences, SequencesExt

CONSTANTS
  Issue,       \* issue numbers
  Listed,      \* the issues of the roadmap, in its order
  Text,        \* what an issue may declare: [depends, clear]
  MaxChanges   \* bound: changes of issues

Outside == Issue \ ToSet(Listed)

(* What is assumed of the constants.                                        *)
RoadmapAssumption ==
  /\ Listed \in Seq(Issue) /\ Listed # <<>> /\ IsInjective(Listed)
  /\ \A t \in Text : t.depends \subseteq Issue /\ t.clear \in BOOLEAN
  /\ MaxChanges \in Nat

VARIABLES
  live,     \* the issues as they are: [open, held, text]
  phase,    \* where the command is
  fetched,  \* roadmap issues read so far, as they were read
  at,       \* the roadmap issue in hand
  cache,    \* dependencies outside the roadmap, as they were read
  selected, \* what the command selects, or what it ends with
  changes,
  seen      \* history: for each issue what it was at some moment of the command

vars == <<live, phase, fetched, at, cache, selected, changes, seen>>

State == [open : BOOLEAN, held : BOOLEAN, text : Text]
NoIssue == 0

TypeOK ==
  /\ live \in [Issue -> State] /\ phase \in {"idle", "reading", "walking", "done"}
  /\ Len(fetched) <= Len(Listed) /\ \A n \in DOMAIN fetched : fetched[n] \in State
  /\ at \in 1 .. Len(Listed) + 1
  /\ DOMAIN cache \subseteq Outside /\ \A d \in DOMAIN cache : cache[d] \in BOOLEAN
  /\ selected \in Issue \cup {NoIssue} /\ changes \in 0 .. MaxChanges
  /\ seen \in [Issue -> SUBSET State]

Init ==
  /\ live \in [Issue -> {s \in State : ~ s.held}]
  /\ phase = "idle" /\ fetched = <<>> /\ at = 1 /\ cache = <<>> /\ selected = NoIssue /\ changes = 0
  /\ seen = [i \in Issue |-> {}]

-----------------------------------------------------------------------------
(* Operators named X_Y are X with a plausible bug; no specification uses    *)
(* them.  They show that the property below would notice.                   *)

(* runBootstrapCli without --issue: discovering next work.                  *)
Begin ==
  /\ phase = "idle" /\ phase' = "reading"
  /\ seen' = [i \in Issue |-> {live[i]}]
  /\ UNCHANGED <<live, fetched, at, cache, selected, changes>>

(* fetchRoadmapIssues: the roadmap issue first, then each it lists.         *)
Fetch ==
  /\ phase = "reading"
  /\ IF Len(fetched) < Len(Listed)
     THEN fetched' = Append(fetched, live[Listed[Len(fetched) + 1]]) /\ UNCHANGED phase
     ELSE phase' = "walking" /\ UNCHANGED fetched
  /\ UNCHANGED <<live, at, cache, selected, changes, seen>>

(* A read fails, is ambiguous, or the command is stopped: nothing is        *)
(* selected.                                                                *)
Abandon ==
  /\ phase' = "done"
  /\ UNCHANGED <<live, fetched, at, cache, selected, changes, seen>>
Fails == phase \in {"reading", "walking"} /\ Abandon

Item == fetched[at]
(* declaredDependencies: an issue is no dependency of itself.               *)
Dependencies == Item.text.depends \ {Listed[at]}
Unread == (Dependencies \cap Outside) \ DOMAIN cache

(* openDependenciesForCandidate.                                            *)
Place(d) == CHOOSE n \in DOMAIN Listed : Listed[n] = d
Closed_Earlier(d) == IF d \in Outside THEN ~ cache[d] ELSE ~ fetched[Place(d)].open \/ Place(d) < at
Closed(d) == IF d \in Outside THEN ~ cache[d] ELSE ~ fetched[Place(d)].open

Walking == phase = "walking" /\ at <= Len(Listed)
Candidate == Walking /\ Item.open /\ ~ Item.held

(* An issue that is closed or labelled against.                             *)
Skip ==
  /\ Walking /\ ~ Candidate
  /\ at' = at + 1
  /\ UNCHANGED <<live, phase, fetched, cache, selected, changes, seen>>

Ambiguous == Candidate /\ ~ Item.text.clear /\ Abandon

(* dependencyAuthority, of a dependency outside the roadmap.                *)
Ask ==
  /\ Candidate /\ Item.text.clear
  /\ \E d \in Unread :
       /\ \A e \in Unread : d <= e
       /\ cache' = [e \in DOMAIN cache \cup {d} |-> IF e = d THEN live[d].open ELSE cache[e]]
  /\ UNCHANGED <<live, phase, fetched, at, selected, changes, seen>>

Judge ==
  /\ Candidate /\ Item.text.clear /\ Unread = {}
  /\ IF \A d \in Dependencies : Closed(d)
     THEN phase' = "done" /\ selected' = Listed[at] /\ UNCHANGED at
     ELSE at' = at + 1 /\ UNCHANGED <<phase, selected>>
  /\ UNCHANGED <<live, fetched, cache, changes, seen>>

(* NO_ELIGIBLE_ISSUE.                                                       *)
Nothing == phase = "walking" /\ at > Len(Listed) /\ Abandon

(* People and other agents.                                                 *)
Change(i) ==
  /\ changes < MaxChanges /\ phase \notin {"idle", "done"}
  /\ \E s \in State : live' = [live EXCEPT ![i] = s]
  /\ changes' = changes + 1
  /\ seen' = [seen EXCEPT ![i] = @ \cup {live'[i]}]
  /\ UNCHANGED <<phase, fetched, at, cache, selected>>

Next ==
  \/ Begin \/ Fetch \/ Fails \/ Skip \/ Ambiguous \/ Ask \/ Judge \/ Nothing
  \/ \E i \in Issue : Change(i)

Spec == Init /\ [][Next]_vars

-----------------------------------------------------------------------------
(* However issues change while the roadmap is read: the issue selected was  *)
(* at one moment open and not labelled against, with dependencies each of   *)
(* which was closed at some moment of the command, and every issue the      *)
(* roadmap has before it was passed over for a reason it had meanwhile.     *)
Reads(i, P(_)) == \E s \in seen[i] : P(s)
Reason(s, i) == ~ s.open \/ s.held \/ \E d \in s.text.depends \ {i} : Reads(d, LAMBDA t : t.open)
NextIsReady ==
  selected # NoIssue =>
    /\ Reads(selected, LAMBDA s : /\ s.open /\ ~ s.held /\ s.text.clear
                                  /\ \A d \in s.text.depends \ {selected} : Reads(d, LAMBDA t : ~ t.open))
    /\ \A n \in 1 .. Place(selected) - 1 : Reads(Listed[n], LAMBDA s : Reason(s, Listed[n]))
=============================================================================

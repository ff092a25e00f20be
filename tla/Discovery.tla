----------------------------- MODULE Discovery -----------------------------
(***************************************************************************)
(* The choice of the next issue (candidateShortlist of                     *)
(* extensions/pi-next/issue-candidates.ts, over GitHubWorkAuthority of     *)
(* src/coordination/work-authority.ts): refresh main, list the open issues *)
(* of one priority after the other, keep the eligible ones in order, and   *)
(* read their leases a window at a time until one of them is free.  All    *)
(* the while people edit issues and other runs take and leave leases; any  *)
(* call may fail, time out or exceed the deadline of the selection.        *)
(*                                                                         *)
(* An issue is what selection tells apart: whether it is open, its labels, *)
(* the configured priority it is listed under, its first priority label    *)
(* and when it was updated.  The text of the shortlist is left out, and so *)
(* are the limit of 100 issues of a query and the buckets of the text.     *)
(***************************************************************************)
EXTENDS Naturals, Sequences, FiniteSets, SequencesExt

CONSTANTS
  Item,        \* issue numbers
  Priorities,  \* the configured priorities, most urgent first
  Kind,        \* what an issue may be: [open, labels, listed, first]
  Window,      \* lease reads of a window (8 in the code)
  Concurrency, \* lease reads at once (3 in the code)
  Exclusion,   \* what this checkout and run may exclude: [excluded, parked]
  MaxChanges,  \* bound: edits of issues
  MaxMoves     \* bound: leases taken or left

NoItem == 0
Label == {"ready", "blocked", "deferred", "pending", "finding", "approved"}

(* What is assumed of the constants.                                        *)
DiscoveryAssumption ==
  /\ Item \subseteq Nat /\ IsFiniteSet(Item) /\ Priorities \in Seq(STRING)
  /\ \A k \in Kind : /\ k.open \in BOOLEAN /\ k.labels \subseteq Label
                     /\ k.listed \in ToSet(Priorities) /\ k.first \in STRING
  /\ \A x \in Exclusion : x.excluded \subseteq Item /\ x.parked \in [Item -> {NoItem, 1}]
  /\ {Window, Concurrency} \subseteq Nat \ {0} /\ {MaxChanges, MaxMoves} \subseteq Nat

VARIABLES
  item,     \* the issues as they are
  held,     \* issues with a fresh lease
  local,    \* exclusions known here: completed, deferred or skipped in this run, archived; parked: noted versions
  phase,    \* where the selection is
  listed,   \* priorities listed so far
  view,     \* the issues as they were listed
  order,    \* eligible issues of the view not yet in a window
  window,   \* the window
  todo,     \* issues of the window whose lease is still to be read
  leased,   \* leasedElsewhere
  candidate, outcome,
  steady,   \* history: issues nobody touched since the selection began
  chances,  \* history: issues that were eligible, or free, at some moment of it
  moves     \* edits and lease moves so far

vars == <<item, held, local, phase, listed, view, order, window, todo, leased, candidate, outcome, steady, chances, moves>>
world == <<item, held, local, moves>>
result == <<candidate, outcome>>
history == <<steady, chances>>

Phase == {"idle", "refreshing", "listing", "checking", "done"}

TypeOK ==
  /\ \A i \in Item : item[i].kind \in Kind /\ item[i].updated \in Nat
  /\ held \subseteq Item /\ phase \in Phase /\ listed \in 0 .. Len(Priorities)
  /\ DOMAIN view \subseteq Item /\ order \in Seq(Item) /\ window \in Seq(Item)
  /\ todo \subseteq ToSet(window) /\ leased \subseteq Item
  /\ candidate \in Item \cup {NoItem} /\ outcome \in {"none", "candidate", "exhausted", "unavailable"}
  /\ steady \subseteq Item /\ chances.eligible \subseteq Item /\ chances.free \subseteq Item

-----------------------------------------------------------------------------
(* Operators named X_Y are X with a plausible bug; no specification uses    *)
(* them.  They show that the property below would notice.                   *)

(* classifyAuthorityEligibility: the first class that fits.                 *)
Awaiting(k) == "pending" \in k.labels
HeldFinding(k) == "finding" \in k.labels /\ "approved" \notin k.labels
Disposition(k) ==
  CASE ~ k.open -> "closed"
    [] k.open /\ "blocked" \in k.labels -> "blocked"
    [] k.open /\ "blocked" \notin k.labels /\ (Awaiting(k) \/ HeldFinding(k) \/ "deferred" \in k.labels) -> "deferred"
    [] OTHER -> IF k.labels \cap {"ready", "finding"} # {} THEN "eligible" ELSE "not_ready"

Place(p) == IF \E n \in DOMAIN Priorities : Priorities[n] = p
            THEN CHOOSE n \in DOMAIN Priorities : Priorities[n] = p
            ELSE 0

(* The comparison of the sort; an unconfigured priority comes first.        *)
Rank(i, of) ==
  <<Place(of[i].kind.first), IF "ready" \in of[i].kind.labels THEN 0 ELSE 1>>
Before(i, j, of) ==
  LET a == Rank(i, of)
      b == Rank(j, of) IN
  \/ a[1] < b[1]
  \/ a[1] = b[1] /\ a[2] < b[2]
  \/ a = b /\ of[i].updated > of[j].updated
  \/ a = b /\ of[i].updated = of[j].updated /\ i < j

(* deferredIssueStillUnchanged, of the note of a parked issue.              *)
Unchanged(i, of) == local.parked[i] # NoItem /\ of[i].updated <= local.parked[i]

(* archivedIssueNumbers, and the issues this run has excluded.              *)
Excluded(i) == i \in local.excluded

Eligible(i, of) == Disposition(of[i].kind) = "eligible" /\ ~ Excluded(i) /\ ~ Unchanged(i, of)
Available(i) == Eligible(i, item) /\ i \notin held

Init ==
  /\ item \in [Item -> [kind : Kind, updated : {1}]]
  /\ held \in SUBSET Item
  /\ local \in Exclusion
  /\ phase = "idle" /\ listed = 0 /\ view = <<>> /\ order = <<>> /\ window = <<>> /\ todo = {} /\ leased = {}
  /\ candidate = NoItem /\ outcome = "none" /\ steady = {} /\ chances = [eligible |-> {}, free |-> {}]
  /\ moves = [edits |-> 0, leases |-> 0]

-----------------------------------------------------------------------------
(* candidateShortlist, its part before the query; without the refresh when  *)
(* another agent owns the checkout.                                         *)
Begin ==
  /\ phase = "idle"
  /\ phase' \in {"refreshing", "listing"}
  /\ steady' = Item
  /\ chances' = [eligible |-> {i \in Item : Eligible(i, item)}, free |-> Item \ held]
  /\ UNCHANGED <<world, listed, view, order, window, todo, leased, result>>

Refreshed ==
  /\ phase = "refreshing"
  /\ phase' = "listing"
  /\ UNCHANGED <<world, listed, view, order, window, todo, leased, result, history>>

(* A call fails or the deadline passes: nothing is known.                   *)
Unavailable ==
  /\ phase \in {"refreshing", "listing", "checking"}
  /\ phase' = "done" /\ outcome' = "unavailable"
  /\ UNCHANGED <<world, listed, view, order, window, todo, leased, candidate, history>>

(* listCandidates: the open issues of the next priority.  Of two answers an *)
(* issue is in, the later counts.                                           *)
List ==
  LET found == {i \in Item : /\ item[i].kind.open /\ item[i].kind.listed = Priorities[listed + 1]
                             /\ Disposition(item[i].kind) # "deferred"} IN
  /\ phase = "listing" /\ listed < Len(Priorities)
  /\ listed' = listed + 1
  /\ view' = [i \in found \cup DOMAIN view |-> IF i \in found THEN item[i] ELSE view[i]]
  /\ UNCHANGED <<world, phase, order, window, todo, leased, result, history>>

(* The eligible issues in the order of the comparison.                      *)
Sort ==
  LET found == {i \in DOMAIN view : Eligible(i, view)} IN
  CHOOSE s \in [1 .. Cardinality(found) -> found] : \A m, n \in DOMAIN s : m < n => Before(s[m], s[n], view)

(* The shortlist has a group for a priority with an issue not leased.       *)
Grouped == {i \in DOMAIN view : Eligible(i, view) /\ i \notin leased /\ Place(view[i].kind.first) # 0}

Outcome == IF Grouped = {} THEN "exhausted" ELSE "candidate"

Chop(s, n) == IF Len(s) <= n THEN s ELSE SubSeq(s, 1, n)
Rest(s, n) == SubSeq(s, n + 1, Len(s))

(* The windows of the eligible issues; a caller without a lease authority   *)
(* takes the first.                                                         *)
Check ==
  /\ phase = "listing" /\ listed = Len(Priorities)
  /\ \/ /\ phase' = "checking"
        /\ window' = Chop(Sort, Window) /\ order' = Rest(Sort, Window)
        /\ todo' = ToSet(Chop(window', Concurrency))
        /\ UNCHANGED result
     \/ /\ phase' = "done"
        /\ outcome' = Outcome
        /\ candidate' = IF Grouped = {} THEN NoItem ELSE Sort[1]
        /\ UNCHANGED <<window, order, todo>>
  /\ UNCHANGED <<world, listed, view, leased, history>>

(* One of the lease reads of a batch; when all have answered, the next      *)
(* batch is begun.                                                          *)
Read_Once(i) ==
  /\ phase = "checking" /\ i \in todo
  /\ leased' = IF i \in held THEN leased \cup {i} ELSE leased
  /\ todo' = todo \ {i}
  /\ UNCHANGED <<world, phase, listed, view, order, window, result, history>>
Batch(of, w) == ToSet(Chop(Rest(w, of), Concurrency))
Read(i) ==
  LET left == todo \ {i}
      at == CHOOSE n \in DOMAIN window : window[n] = i
      next == Concurrency * ((at - 1) \div Concurrency + 1) IN
  /\ phase = "checking" /\ i \in todo
  /\ leased' = IF i \in held THEN leased \cup {i} ELSE leased
  /\ todo' = IF left = {} THEN Batch(next, window) ELSE left
  /\ UNCHANGED <<world, phase, listed, view, order, window, result, history>>

Decide ==
  LET n == SelectInSeq(window, LAMBDA i : i \notin leased) IN
  /\ phase = "checking" /\ todo = {}
  /\ IF n = 0 /\ order # <<>>
     THEN /\ window' = Chop(order, Window) /\ order' = Rest(order, Window)
          /\ todo' = ToSet(Chop(window', Concurrency))
          /\ UNCHANGED <<phase, result>>
     ELSE /\ phase' = "done"
          /\ outcome' = Outcome
          /\ candidate' = IF n # 0 /\ Grouped # {} THEN window[n] ELSE NoItem
          /\ UNCHANGED <<window, order, todo>>
  /\ UNCHANGED <<world, listed, view, leased, history>>

-----------------------------------------------------------------------------
(* The others.                                                              *)
Moved(i) ==
  /\ phase \notin {"idle", "done"}
  /\ steady' = steady \ {i}
  /\ chances' = [eligible |-> IF Eligible(i, item') THEN chances.eligible \cup {i} ELSE chances.eligible,
                 free |-> IF i \in held' THEN chances.free ELSE chances.free \cup {i}]
  /\ UNCHANGED <<local, phase, listed, view, order, window, todo, leased, result>>

EditIssue(i) ==
  /\ moves.edits < MaxChanges
  /\ \E k \in Kind : item' = [item EXCEPT ![i] = [kind |-> k, updated |-> @.updated + 1]]
  /\ moves' = [moves EXCEPT !.edits = @ + 1]
  /\ UNCHANGED held
  /\ Moved(i)

LeaseMoves(i) ==
  /\ moves.leases < MaxMoves
  /\ held' = IF i \in held THEN held \ {i} ELSE held \cup {i}
  /\ moves' = [moves EXCEPT !.leases = @ + 1]
  /\ UNCHANGED item
  /\ Moved(i)

Next ==
  \/ Begin \/ Refreshed \/ Unavailable \/ List \/ Check \/ Decide
  \/ \E i \in Item : Read(i) \/ EditIssue(i) \/ LeaseMoves(i)

Spec == Init /\ [][Next]_vars

-----------------------------------------------------------------------------
(* Whatever others do to issues and leases while an issue is chosen: the    *)
(* issue that is chosen was eligible, and was free if leases were read, at  *)
(* some moment of the choice; and an issue with a configured priority that  *)
(* was available all along is not passed over, neither for a less urgent    *)
(* one that nobody touched nor by calling the queue exhausted.              *)
NotPassedOver ==
  phase = "done" =>
    /\ candidate # NoItem => candidate \in chances.eligible /\ (window # <<>> => candidate \in chances.free)
    /\ outcome # "unavailable" =>
         \A i \in steady : Available(i) /\ Place(item[i].kind.first) # 0 =>
           /\ outcome = "candidate"
           /\ candidate # i /\ candidate \in steady => Before(candidate, i, item)
=============================================================================

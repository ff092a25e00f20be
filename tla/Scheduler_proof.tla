-------------------------- MODULE Scheduler_proof --------------------------
(***************************************************************************)
(* Proofs about Scheduler, for any runs, issues, queue, budgets and bounds.*)
(***************************************************************************)
EXTENDS Scheduler, FiniteSetTheorems, SequenceTheorems, TLAPS

USE SchedulerAssumption DEF SchedulerAssumption, At, Stopped, Lives

-----------------------------------------------------------------------------
(* The inductive invariant.  Of each run: a result is there once; while it  *)
(* has a selection in hand there is budget for its result, and none yet.    *)
IssuesOf(results) == {results[k].issue : k \in DOMAIN results}

Fits(s, x) ==
  /\ x \in RunState
  /\ Len(x.results) <= MaxIssues[s]
  /\ Cardinality(x.skips) <= MaxSkips
  /\ \A j, k \in DOMAIN x.results : x.results[j].issue = x.results[k].issue => j = k
  /\ x.pc \in {"claim", "launch", "work", "release"} =>
       /\ x.selection \in Issue
       /\ x.selection \notin IssuesOf(x.results)
       /\ Len(x.results) < MaxIssues[s]

RunsFit == run \in [Run -> RunState] /\ \A s \in Run : Fits(s, run[s])

LeasesTyped ==
  /\ ready \subseteq Issue
  /\ lease \in [Issue -> [owner : Run \cup {Outside, NoOne}, fresh : {"yes", "no"}]]
  /\ lapsed \subseteq Run

(* Who owns a lease holds it, unless it could not give it back.             *)
Owned ==
  \A s \in Run, i \in Issue : lease[i].owner = s =>
    \/ Holds(s) /\ run[s].selection = i
    \/ At(s, "ended") /\ run[s].disposition = "thrown"
    \/ At(s, "dead")

(* Who holds a lease that did not run out owns it.                          *)
Covered ==
  \A s \in Run : Holds(s) /\ s \notin lapsed =>
    lease[run[s].selection].owner = s /\ Fresh(run[s].selection)

Inv == LeasesTyped /\ RunsFit /\ Owned /\ Covered

-----------------------------------------------------------------------------
(* What is remembered of skipped issues are issues, and not too many.       *)
LEMMA RememberTyped ==
  ASSUME NEW skips \in SUBSET Issue, NEW issues \in SUBSET Issue,
         NEW kept \in Remember(skips, issues)
  PROVE  kept \in SUBSET Issue /\ Cardinality(kept) <= MaxSkips
  BY DEF Remember

(* A run that is over fits.                                                 *)
LEMMA OverFits ==
  ASSUME NEW s \in Run, NEW step \in {"ended", "dead"}, NEW d \in Ending
  PROVE  Fits(s, Over(step, d))
<1>1. Cardinality({}) = 0
  BY FS_EmptySet
<1>2. <<>> \in Seq(Result) /\ Len(<<>>) = 0 /\ DOMAIN <<>> = {}
  OBVIOUS
<1>3. Over(step, d) \in RunState
  BY <1>2 DEF Over, RunState, Steps
<1>4. QED BY <1>1, <1>2, <1>3 DEF Over, Fits

(* The runs fit when the one that makes a step fits after it.               *)
LEMMA OneFits ==
  ASSUME RunsFit, NEW s \in Run, NEW x, Fits(s, x), run' = [run EXCEPT ![s] = x]
  PROVE  RunsFit'
  BY DEF RunsFit, Fits

(* What a run that returns leaves behind.                                   *)
LEMMA ReturnFits ==
  ASSUME RunsFit, NEW s \in Run, NEW d \in Ending, Returns(s, d)
  PROVE  RunsFit'
  BY OverFits, OneFits DEF Returns

(* A run moves on with the selection it has.                                *)
LEMMA MoveFits ==
  ASSUME RunsFit, NEW s \in Run, run[s].pc \in {"claim", "launch", "work"},
         NEW step \in {"launch", "work", "release"},
         NEW r \in Disposition \cup {"none", "cancelled", "thrown"},
         run' = [run EXCEPT ![s] = [run[s] EXCEPT !.pc = step, !.result = r]]
  PROVE  RunsFit'
<1> DEFINE x == [run[s] EXCEPT !.pc = step, !.result = r]
<1>1. Fits(s, run[s]) /\ run[s] \in RunState
  BY DEF RunsFit
<1>2. x \in RunState /\ x.results = run[s].results /\ x.skips = run[s].skips
      /\ x.selection = run[s].selection
  BY <1>1 DEF RunState, Steps
<1>3. Fits(s, x)
  BY <1>1, <1>2 DEF Fits
<1>4. QED BY <1>3, OneFits

(* A run goes on to its next selection, with the skips it remembers.        *)
LEMMA NextFits ==
  ASSUME RunsFit, NEW s \in Run, NEW skips \in SUBSET Issue, Cardinality(skips) <= MaxSkips,
         run' = [run EXCEPT ![s] = [NextIssue(s) EXCEPT !.skips = skips]]
  PROVE  RunsFit'
<1> DEFINE x == [NextIssue(s) EXCEPT !.skips = skips]
<1>1. Fits(s, run[s]) /\ run[s] \in RunState
  BY DEF RunsFit
<1>2. x \in RunState /\ x.results = run[s].results /\ x.skips = skips /\ x.pc = "select"
  BY <1>1 DEF RunState, Steps, NextIssue
<1>3. Fits(s, x)
  BY <1>1, <1>2 DEF Fits
<1>4. QED BY <1>3, OneFits

(* A run selects an eligible issue.                                         *)
LEMMA SelectionFits ==
  ASSUME RunsFit, NEW s \in Run, NEW k \in Eligible(s), Budget(s),
         NEW skips \in SUBSET Issue, Cardinality(skips) <= MaxSkips,
         run' = [run EXCEPT ![s].pc = "claim", ![s].selection = Queue[k], ![s].skips = skips]
  PROVE  RunsFit'
<1> DEFINE x == [run[s] EXCEPT !.pc = "claim", !.selection = Queue[k], !.skips = skips]
<1>1. Fits(s, run[s]) /\ run[s] \in RunState
  BY DEF RunsFit
<1>2. Queue[k] \in Issue /\ Queue[k] \notin IssuesOf(run[s].results)
  BY DEF Eligible, Settled, IssuesOf
<1>3. x \in RunState /\ x.results = run[s].results /\ x.skips = skips
      /\ x.selection = Queue[k]
  BY <1>1, <1>2 DEF RunState, Steps
<1>4. Fits(s, x)
  BY <1>1, <1>2, <1>3 DEF Fits, Budget
<1>5. run' = [run EXCEPT ![s] = x]
  BY DEF RunsFit
<1>6. QED BY <1>4, <1>5, OneFits

(* What Append does to the places of a sequence.                            *)
LEMMA Appended ==
  ASSUME NEW S, NEW q \in Seq(S), NEW n \in S
  PROVE  /\ Append(q, n) \in Seq(S) /\ Len(Append(q, n)) = Len(q) + 1
         /\ \A k \in DOMAIN Append(q, n) :
              \/ k \in DOMAIN q /\ Append(q, n)[k] = q[k]
              \/ k = Len(q) + 1 /\ Append(q, n)[k] = n
<1>1. DOMAIN Append(q, n) = 1 .. Len(q) + 1 /\ DOMAIN q = 1 .. Len(q) /\ Len(q) \in Nat
  BY AppendProperties, LenProperties
<1>2. QED BY <1>1, AppendProperties

(* A run records the result of the issue it has worked on.                  *)
LEMMA ResultFits ==
  ASSUME RunsFit, NEW s \in Run, At(s, "release"), NEW d \in Disposition,
         run' = [run EXCEPT ![s].pc = "requery",
                   ![s].results = Append(@, [issue |-> run[s].selection, disposition |-> d])]
  PROVE  RunsFit'
<1> DEFINE n == [issue |-> run[s].selection, disposition |-> d]
           all == Append(run[s].results, n)
           x == [run[s] EXCEPT !.pc = "requery", !.results = all]
<1>1. Fits(s, run[s]) /\ run[s] \in RunState
  BY DEF RunsFit
<1>2. run[s].results \in Seq(Result) /\ n \in Result
  BY <1>1 DEF Fits, RunState, Result
<1>3. /\ all \in Seq(Result) /\ Len(all) = Len(run[s].results) + 1
      /\ \A k \in DOMAIN all : \/ k \in DOMAIN run[s].results /\ all[k] = run[s].results[k]
                               \/ k = Len(run[s].results) + 1 /\ all[k] = n
  BY <1>2, Appended
<1>4. x \in RunState /\ x.results = all /\ x.skips = run[s].skips /\ x.pc = "requery"
  BY <1>1, <1>3 DEF RunState, Steps
<1>5. \A j, k \in DOMAIN all : all[j].issue = all[k].issue => j = k
  BY <1>1, <1>3 DEF Fits, IssuesOf
<1>6. x.selection = run[s].selection
  BY <1>1 DEF RunState
<1>7. run' = [run EXCEPT ![s] = x]
  BY DEF RunsFit
<1> HIDE DEF x, all, n
<1>8. Fits(s, x)
  BY <1>1, <1>3, <1>4, <1>5, <1>6 DEF Fits
<1>9. QED BY <1>7, <1>8, OneFits
-----------------------------------------------------------------------------
(* Every step leaves the runs as they should be.                            *)
LEMMA RunsFitStep == RunsFit /\ LeasesTyped /\ Next => RunsFit'
<1> SUFFICES ASSUME RunsFit, LeasesTyped, Next PROVE RunsFit'
  OBVIOUS
<1> USE DEF Ending
<1>1. ASSUME NEW s \in Run, Stops(s) PROVE RunsFit'
  BY <1>1, ReturnFits DEF Stops
<1>2. ASSUME NEW s \in Run, NoCandidate(s) PROVE RunsFit'
  <2>1. (IF run[s].results = <<>> THEN "idle" ELSE "completed") \in Ending
    OBVIOUS
  <2>2. QED BY <1>2, <2>1, ReturnFits DEF NoCandidate
<1>3. ASSUME NEW s \in Run, Discover(s) PROVE RunsFit'
  <2>1. CASE NoCandidate(s)
    BY <2>1, <1>2
  <2>2. ASSUME NEW k \in Available(s), NEW skips \in Remember(run[s].skips, LeasedElsewhere(s)),
               run' = [run EXCEPT ![s].pc = "claim", ![s].selection = Queue[k], ![s].skips = skips]
        PROVE  RunsFit'
    <3>1. LeasedElsewhere(s) \in SUBSET Issue /\ run[s].skips \in SUBSET Issue
      BY DEF LeasedElsewhere, Inspected, Eligible, RunsFit, RunState
    <3>2. k \in Eligible(s)
      BY DEF Available, Inspected
    <3>3. Budget(s)
      BY <1>3 DEF Discover, Selects
    <3>4. QED BY <2>2, <3>1, <3>2, <3>3, RememberTyped, SelectionFits
  <2>3. QED BY <1>3, <2>1, <2>2 DEF Discover
<1>4. ASSUME NEW s \in Run, DiscoverFails(s) PROVE RunsFit'
  BY <1>2, <1>4 DEF DiscoverFails
<1>5. ASSUME NEW s \in Run, Claim(s) \/ Launch(s) PROVE RunsFit'
  <2>1. run[s].result \in Disposition \cup {"none", "cancelled", "thrown"} /\ run[s] \in RunState
    BY DEF RunsFit, RunState
  <2>2. CASE Claim(s)
    <3>1. run' = [run EXCEPT ![s] = [run[s] EXCEPT !.pc = "launch", !.result = run[s].result]]
      BY <2>1, <2>2 DEF Claim, RunState
    <3>2. QED BY <2>1, <2>2, <3>1, MoveFits DEF Claim
  <2>3. CASE Launch(s) /\ Goto(s, "work")
    <3>1. run' = [run EXCEPT ![s] = [run[s] EXCEPT !.pc = "work", !.result = run[s].result]]
      BY <2>1, <2>3 DEF Goto, RunState
    <3>2. QED BY <2>1, <2>3, <3>1, MoveFits DEF Launch
  <2>4. CASE Launch(s) /\ Cancels(s)
    <3>1. run' = [run EXCEPT ![s] = [run[s] EXCEPT !.pc = "release", !.result = "cancelled"]]
      BY <2>4 DEF Cancels
    <3>2. QED BY <2>4, <3>1, MoveFits DEF Launch
  <2>5. QED BY <1>5, <2>2, <2>3, <2>4 DEF Launch
<1>6. ASSUME NEW s \in Run, ClaimConflicts(s) PROVE RunsFit'
  <2>1. run[s].skips \in SUBSET Issue /\ {run[s].selection} \in SUBSET Issue
    BY <1>6 DEF ClaimConflicts, RunsFit, Fits, RunState
  <2>2. QED BY <1>6, <2>1, RememberTyped, NextFits DEF ClaimConflicts
<1>7. ASSUME NEW s \in Run, ClaimFails(s) \/ ClaimStopped(s) \/ RequeryFails(s) PROVE RunsFit'
  BY <1>7, ReturnFits DEF ClaimFails, ClaimStopped, RequeryFails
<1>8. ASSUME NEW s \in Run, Work(s) PROVE RunsFit'
  <2>1. PICK d \in Disposition \cup {"thrown"} :
          run' = [run EXCEPT ![s] = [run[s] EXCEPT !.pc = "release", !.result = d]]
    <3>1. PICK d \in Disposition \cup {"thrown"} :
            run' = [run EXCEPT ![s].pc = "release", ![s].result = d]
      BY <1>8 DEF Work
    <3>2. run' = [run EXCEPT ![s] = [run[s] EXCEPT !.pc = "release", !.result = d]]
      BY <3>1
    <3>3. QED BY <3>2
  <2>2. QED BY <1>8, <2>1, MoveFits DEF Work
<1>9. ASSUME NEW s \in Run, Release(s) \/ ReleaseFails(s) PROVE RunsFit'
  <2>1. CASE ReleaseFails(s)
    BY <2>1, ReturnFits DEF ReleaseFails
  <2>2. CASE Release(s) /\ run[s].result \in {"cancelled", "thrown"} /\ Returns(s, run[s].result)
    BY <2>2, ReturnFits
  <2>3. CASE Release(s) /\ run[s].result \in Disposition /\ run' = [run EXCEPT ![s].pc = "requery",
             ![s].results = Append(@, [issue |-> run[s].selection, disposition |-> run[s].result])]
    BY <2>3, ResultFits DEF Release
  <2>4. QED BY <1>9, <2>1, <2>2, <2>3 DEF Release
<1>10. ASSUME NEW s \in Run, Requery(s) PROVE RunsFit'
  <2>1. CASE run' = [run EXCEPT ![s] = NextIssue(s)]
    <3>1. Fits(s, run[s]) /\ run[s].skips \in SUBSET Issue /\ Cardinality(run[s].skips) <= MaxSkips
          /\ run[s] \in RunState
      BY DEF RunsFit, Fits, RunState
    <3>2. NextIssue(s) = [NextIssue(s) EXCEPT !.skips = run[s].skips]
      BY <3>1 DEF NextIssue, RunState
    <3>3. QED BY <2>1, <3>1, <3>2, NextFits
  <2>2. QED BY <1>10, <2>1, ReturnFits DEF Requery
<1>11. ASSUME NEW s \in Run, Abort(s) PROVE RunsFit'
  <2> DEFINE x == [run[s] EXCEPT !.aborted = "yes"]
  <2>1. Fits(s, run[s]) /\ run[s] \in RunState
    BY DEF RunsFit
  <2>2. x \in RunState /\ x.results = run[s].results /\ x.skips = run[s].skips
        /\ x.selection = run[s].selection /\ x.pc = run[s].pc
    BY <2>1 DEF RunState
  <2>3. Fits(s, x)
    BY <2>1, <2>2 DEF Fits
  <2>4. run' = [run EXCEPT ![s] = x]
    BY <1>11 DEF Abort
  <2>5. QED BY <2>3, <2>4, OneFits
<1>12. ASSUME NEW s \in Run, Die(s) PROVE RunsFit'
  BY <1>12, OverFits, OneFits DEF Die
<1>13. CASE UNCHANGED run
  BY <1>13 DEF RunsFit
<1>14. QED
  BY <1>1, <1>3, <1>4, <1>5, <1>6, <1>7, <1>8, <1>9, <1>10, <1>11, <1>12, <1>13
     DEF Next, Continues, Beat, Expire, OutsideClaims, OutsideReleases, AuthorityChanges
-----------------------------------------------------------------------------
(* Leases keep their type.                                                  *)
LEMMA LeasesTypedStep == RunsFit /\ LeasesTyped /\ Next => LeasesTyped'
<1> SUFFICES ASSUME RunsFit, LeasesTyped, Next PROVE LeasesTyped'
  OBVIOUS
<1> USE DEF LeasesTyped
<1>1. ASSUME NEW i \in Issue, NEW o \in Run \cup {Outside}, Take(i, o)
      PROVE  lease' \in [Issue -> [owner : Run \cup {Outside, NoOne}, fresh : {"yes", "no"}]]
  BY <1>1 DEF Take
<1>2. ASSUME NEW s \in Run, GivesUp(s)
      PROVE  lease' \in [Issue -> [owner : Run \cup {Outside, NoOne}, fresh : {"yes", "no"}]]
  BY <1>2 DEF GivesUp
<1>3. ASSUME NEW s \in Run, Claim(s) \/ ClaimFails(s) PROVE LeasesTyped'
  <2>1. run[s].selection \in Issue
    BY <1>3 DEF Claim, ClaimFails, RunsFit, Fits
  <2>2. QED BY <1>1, <1>3, <2>1 DEF Claim, ClaimFails
<1>4. ASSUME NEW s \in Run, Release(s) \/ ReleaseFails(s) PROVE LeasesTyped'
  BY <1>2, <1>4 DEF Release, ReleaseFails
<1>5. ASSUME NEW s \in Run, Work(s) PROVE LeasesTyped'
  BY <1>5 DEF Work
<1>6. ASSUME NEW s \in Run, Stops(s) \/ Discover(s) \/ DiscoverFails(s) \/ ClaimConflicts(s)
               \/ ClaimStopped(s) \/ Launch(s) \/ Requery(s) \/ RequeryFails(s) \/ Abort(s)
      PROVE  LeasesTyped'
  BY <1>6 DEF Stops, Discover, DiscoverFails, ClaimConflicts, ClaimStopped, Launch, Requery,
              RequeryFails, Abort
<1>7. ASSUME NEW s \in Run, Beat(s) \/ Die(s) PROVE LeasesTyped'
  BY <1>7 DEF Beat, Die
<1>8. ASSUME NEW i \in Issue, Expire(i) PROVE LeasesTyped'
  BY <1>8 DEF Expire
<1>9. ASSUME NEW i \in Contested, OutsideClaims(i) \/ OutsideReleases(i) \/ AuthorityChanges(i)
      PROVE  LeasesTyped'
  BY <1>1, <1>9 DEF OutsideClaims, OutsideReleases, AuthorityChanges
<1>10. QED
  BY <1>3, <1>4, <1>5, <1>6, <1>7, <1>8, <1>9 DEF Next, Continues

(* A claim is at the expense of a lease that ran out, and of no other.      *)
LEMMA Taken ==
  ASSUME LeasesTyped, NEW i \in Issue, NEW o, Take(i, o)
  PROVE  /\ ~Fresh(i)
         /\ lease'[i].owner = o /\ lease'[i].fresh = "yes"
         /\ \A j \in Issue : j # i => lease'[j] = lease[j]
  BY DEF Take, LeasesTyped

(* A run at work stays at it, with its selection.                           *)
LEMMA StaysAtWork ==
  ASSUME RunsFit, NEW s \in Run, Launch(s) \/ Work(s) \/ Abort(s)
  PROVE  /\ \A t \in Run : t # s => run'[t] = run[t]
         /\ run'[s].selection = run[s].selection
         /\ run'[s].disposition = run[s].disposition
         /\ run'[s].pc = run[s].pc
              \/ (run[s].pc \in {"launch", "work"} /\ run'[s].pc \in {"work", "release"})
<1>1. run \in [Run -> RunState]
  BY DEF RunsFit
<1>2. CASE Launch(s)
  BY <1>1, <1>2 DEF Launch, Cancels, Goto, RunState
<1>3. CASE Work(s)
  <2>1. PICK d : run' = [run EXCEPT ![s] = [run[s] EXCEPT !.pc = "release", !.result = d]]
    BY <1>1, <1>3 DEF Work
  <2>2. run[s] \in RunState /\ run[s].pc = "work"
    BY <1>1, <1>3 DEF Work
  <2>3. QED BY <1>1, <2>1, <2>2 DEF RunState
<1>4. CASE Abort(s)
  <2>1. run' = [run EXCEPT ![s] = [run[s] EXCEPT !.aborted = "yes"]]
    BY <1>1, <1>4 DEF Abort
  <2>2. run[s] \in RunState
    BY <1>1
  <2>3. run'[s] = [run[s] EXCEPT !.aborted = "yes"] /\ \A t \in Run : t # s => run'[t] = run[t]
    BY <1>1, <2>1
  <2>4. run'[s].pc = run[s].pc /\ run'[s].selection = run[s].selection
        /\ run'[s].disposition = run[s].disposition
    BY <2>2, <2>3 DEF RunState
  <2>5. QED BY <2>3, <2>4
<1>5. QED BY <1>2, <1>3, <1>4

(* A run that is at none of these steps after its own holds nothing.        *)
LEMMA HoldsNothing ==
  ASSUME RunsFit, NEW s \in Run,
         Stops(s) \/ Discover(s) \/ DiscoverFails(s) \/ ClaimConflicts(s) \/ ClaimStopped(s)
           \/ Requery(s) \/ RequeryFails(s) \/ Release(s) \/ ReleaseFails(s) \/ Die(s)
  PROVE  /\ \A t \in Run : t # s => run'[t] = run[t]
         /\ run'[s].pc \in {"select", "claim", "requery", "ended", "dead"}
<1>1. run \in [Run -> RunState]
  BY DEF RunsFit
<1> USE DEF Returns, Over, RunState
<1>2. CASE Stops(s) \/ ClaimStopped(s) \/ RequeryFails(s) \/ ReleaseFails(s) \/ Die(s)
  BY <1>1, <1>2 DEF Stops, ClaimStopped, RequeryFails, ReleaseFails, Die
<1>3. CASE Discover(s) \/ DiscoverFails(s)
  <2>1. CASE NoCandidate(s)
    BY <1>1, <2>1 DEF NoCandidate
  <2>2. ASSUME NEW q, NEW skips,
               run' = [run EXCEPT ![s].pc = "claim", ![s].selection = q, ![s].skips = skips]
        PROVE  (\A t \in Run : t # s => run'[t] = run[t]) /\ run'[s].pc = "claim"
    BY <1>1, <2>2
  <2>3. QED BY <1>3, <2>1, <2>2 DEF Discover, DiscoverFails
<1>4. CASE ClaimConflicts(s) \/ Requery(s)
  <2>1. ASSUME NEW skips, run' = [run EXCEPT ![s] = [NextIssue(s) EXCEPT !.skips = skips]]
        PROVE  (\A t \in Run : t # s => run'[t] = run[t]) /\ run'[s].pc = "select"
    BY <1>1, <2>1 DEF NextIssue
  <2>2. CASE ClaimConflicts(s)
    BY <2>1, <2>2 DEF ClaimConflicts
  <2>3. CASE run' = [run EXCEPT ![s] = NextIssue(s)]
    BY <1>1, <2>3 DEF NextIssue
  <2>4. ASSUME NEW d, Returns(s, d)
        PROVE  (\A t \in Run : t # s => run'[t] = run[t]) /\ run'[s].pc = "ended"
    BY <1>1, <2>4
  <2>5. QED BY <1>4, <2>2, <2>3, <2>4 DEF Requery
<1>5. CASE Release(s)
  BY <1>1, <1>5 DEF Release
<1>6. QED BY <1>2, <1>3, <1>4, <1>5

(* Nobody is left owning a lease it does not hold, unless an error or a     *)
(* kill was in the way.                                                     *)
LEMMA OwnedStep == RunsFit /\ LeasesTyped /\ Owned /\ Next => Owned'
<1> SUFFICES ASSUME RunsFit, LeasesTyped, Owned, Next PROVE Owned'
  OBVIOUS
<1>0. run \in [Run -> RunState] /\ RunsFit
  BY DEF RunsFit
<1> USE DEF LeasesTyped, Owned, Holds, RunState, Over, Returns
<1>1. ASSUME NEW s \in Run, Claim(s) \/ ClaimFails(s) PROVE Owned'
  <2>1. run[s].selection \in Issue
    BY <1>1 DEF Claim, ClaimFails, RunsFit, Fits
  <2>2. \A i \in Issue : lease[i].owner # s
    BY <1>1 DEF Claim, ClaimFails
  <2>3. CASE UNCHANGED lease
    BY <1>0, <1>1, <2>2, <2>3 DEF Claim, ClaimFails
  <2>4. CASE Take(run[s].selection, s)
    <3> DEFINE q == run[s].selection
    <3>1. \A t \in Run : t # s => run'[t] = run[t]
      BY <1>0, <1>1 DEF Claim, ClaimFails
    <3>2. \/ run'[s].pc = "launch" /\ run'[s].selection = q
          \/ run'[s].pc = "ended" /\ run'[s].disposition = "thrown"
      BY <1>0, <1>1 DEF Claim, ClaimFails
    <3>3. lease'[q].owner = s /\ \A j \in Issue : j # q => lease'[j] = lease[j]
      BY <2>1, <2>4, Taken
    <3>4. ASSUME NEW t \in Run, NEW i \in Issue, lease'[i].owner = t
          PROVE  \/ run'[t].pc \in {"launch", "work", "release"} /\ run'[t].selection = i
                 \/ run'[t].pc = "ended" /\ run'[t].disposition = "thrown"
                 \/ run'[t].pc = "dead"
      <4>1. CASE i = q
        BY <3>2, <3>3, <3>4, <4>1
      <4>2. CASE i # q
        <5>1. lease[i].owner = t /\ t # s
          BY <2>2, <3>3, <3>4, <4>2
        <5>2. QED BY <3>1, <5>1
      <4>3. QED BY <4>1, <4>2
    <3>5. QED BY <3>4
  <2>5. QED BY <1>1, <2>3, <2>4 DEF Claim, ClaimFails
<1>2. ASSUME NEW s \in Run, Release(s) \/ ReleaseFails(s) PROVE Owned'
  <2>1. \A i \in Issue : lease[i].owner = s => run[s].selection = i
    BY <1>2 DEF Release, ReleaseFails
  <2>2. CASE GivesUp(s)
    <3>1. \A i \in Issue : lease'[i].owner # s /\ (lease'[i].owner = lease[i].owner \/ lease'[i].owner = NoOne)
      BY <1>2, <2>1, <2>2 DEF GivesUp
    <3>2. \A t \in Run : t # s => run'[t] = run[t]
      BY <1>0, <1>2 DEF Release, ReleaseFails
    <3>3. QED BY <3>1, <3>2
  <2>3. CASE ReleaseFails(s) /\ UNCHANGED lease
    BY <1>0, <2>3 DEF ReleaseFails
  <2>4. QED BY <1>2, <2>2, <2>3 DEF Release, ReleaseFails
<1>3. ASSUME NEW s \in Run, Stops(s) \/ Discover(s) \/ DiscoverFails(s) \/ ClaimConflicts(s)
               \/ ClaimStopped(s) \/ Requery(s) \/ RequeryFails(s)
      PROVE  Owned'
  <2>1. \A i \in Issue : lease[i].owner # s
    BY <1>3 DEF Stops, Discover, DiscoverFails, ClaimConflicts, ClaimStopped, Requery,
                RequeryFails, Selects
  <2>2. \A t \in Run : t # s => run'[t] = run[t]
    BY <1>0, <1>3 DEF Stops, Discover, DiscoverFails, ClaimConflicts, ClaimStopped, Requery,
                RequeryFails, NoCandidate
  <2>3. UNCHANGED lease
    BY <1>3 DEF Stops, Discover, DiscoverFails, ClaimConflicts, ClaimStopped, Requery,
                RequeryFails
  <2>4. QED BY <2>1, <2>2, <2>3
<1>4. ASSUME NEW s \in Run, Launch(s) \/ Work(s) PROVE Owned'
  <2>1. UNCHANGED lease
    BY <1>4 DEF Launch, Work
  <2>2. QED BY <1>4, <2>1, StaysAtWork
<1>5. ASSUME NEW s \in Run, Abort(s) \/ Die(s) PROVE Owned'
  <2>1. UNCHANGED lease
    BY <1>5 DEF Abort, Die
  <2>2. CASE Abort(s)
    BY <2>1, <2>2, StaysAtWork
  <2>3. CASE Die(s)
    BY <1>0, <2>1, <2>3 DEF Die
  <2>4. QED BY <1>5, <2>2, <2>3
<1>6. ASSUME NEW s \in Run, Beat(s) PROVE Owned'
  BY <1>6 DEF Beat
<1>7. ASSUME NEW i \in Issue, Expire(i) PROVE Owned'
  BY <1>7 DEF Expire
<1>8. ASSUME NEW i \in Contested, OutsideClaims(i) \/ OutsideReleases(i) \/ AuthorityChanges(i)
      PROVE  Owned'
  <2>1. CASE OutsideClaims(i)
    BY <2>1, Taken DEF OutsideClaims
  <2>2. CASE OutsideReleases(i) \/ AuthorityChanges(i)
    BY <2>2 DEF OutsideReleases, AuthorityChanges
  <2>3. QED BY <1>8, <2>1, <2>2
<1>9. QED
  BY <1>1, <1>2, <1>3, <1>4, <1>5, <1>6, <1>7, <1>8 DEF Next, Continues

(* Only expiry takes a lease from under the run that holds it.              *)
LEMMA CoveredStep == RunsFit /\ LeasesTyped /\ Owned /\ Covered /\ Next => Covered'
<1> SUFFICES ASSUME RunsFit, LeasesTyped, Owned, Covered, Next PROVE Covered'
  OBVIOUS
<1>0. run \in [Run -> RunState] /\ RunsFit
  BY DEF RunsFit
<1>a. \A s \in Run : Holds(s) => run[s].selection \in Issue
  BY DEF RunsFit, Fits, Holds
<1> USE DEF LeasesTyped, Covered, Holds, RunState, Over, Returns, Fresh
<1>1. ASSUME NEW s \in Run, Claim(s) \/ ClaimFails(s) PROVE Covered'
  <2>1. run[s].selection \in Issue
    BY <1>1 DEF Claim, ClaimFails, RunsFit, Fits
  <2>2. /\ \A t \in Run : t # s => run'[t] = run[t]
        /\ run'[s].pc = "ended" \/ (Claim(s) /\ run'[s].selection = run[s].selection)
    <3>1. CASE Claim(s)
      BY <1>0, <3>1 DEF Claim
    <3>2. CASE ClaimFails(s)
      <4>1. Returns(s, "thrown")
        BY <3>2 DEF ClaimFails
      <4>2. run'[s].pc = "ended" /\ \A t \in Run : t # s => run'[t] = run[t]
        BY <1>0, <4>1
      <4>3. QED BY <4>2
    <3>3. QED BY <1>1, <3>1, <3>2
  <2>3. UNCHANGED lapsed
    BY <1>1 DEF Claim, ClaimFails
  <2>4. CASE Take(run[s].selection, s)
    <3> DEFINE i == run[s].selection
    <3>1. /\ ~Fresh(i) /\ lease'[i].owner = s /\ lease'[i].fresh = "yes"
          /\ \A j \in Issue : j # i => lease'[j] = lease[j]
      BY <2>1, <2>4, Taken
    <3>2. ASSUME NEW t \in Run, t # s, Holds(t), t \notin lapsed
          PROVE  lease'[run'[t].selection].owner = t /\ lease'[run'[t].selection].fresh = "yes"
      <4>1. run[t].selection \in Issue /\ run[t].selection # i
        BY <1>a, <3>1, <3>2
      <4>2. run'[t] = run[t]
        BY <2>2, <3>2
      <4>3. QED BY <3>1, <3>2, <4>1, <4>2
    <3>3. Holds(s)' => run'[s].selection = i
      BY <2>2
    <3>4. \A t \in Run : t # s /\ Holds(t)' => Holds(t)
      BY <2>2
    <3>5. QED BY <2>3, <3>1, <3>2, <3>3, <3>4
  <2>5. CASE UNCHANGED lease
    <3>1. run'[s].pc = "ended" \/ ~Holds(s)'
      BY <1>1, <2>1, <2>2, <2>5, Taken DEF Claim
    <3>2. QED BY <1>a, <2>2, <2>3, <2>5, <3>1
  <2>6. QED BY <1>1, <2>4, <2>5 DEF Claim, ClaimFails
<1>2. ASSUME NEW s \in Run, Release(s) \/ ReleaseFails(s) PROVE Covered'
  <2>1. \A t \in Run : t # s => (t \in lapsed' <=> t \in lapsed)
    BY <1>2 DEF Release, ReleaseFails
  <2>2. \A i \in Issue : lease[i].owner # s => lease'[i] = lease[i]
    BY <1>2 DEF Release, ReleaseFails, GivesUp
  <2>3. QED BY <1>a, <1>2, <2>1, <2>2, HoldsNothing
<1>3. ASSUME NEW s \in Run, Stops(s) \/ Discover(s) \/ DiscoverFails(s) \/ ClaimConflicts(s)
               \/ ClaimStopped(s) \/ Requery(s) \/ RequeryFails(s)
      PROVE  Covered'
  <2>1. UNCHANGED <<lease, lapsed>>
    BY <1>3 DEF Stops, Discover, DiscoverFails, ClaimConflicts, ClaimStopped, Requery,
                RequeryFails
  <2>2. QED BY <1>3, <2>1, HoldsNothing
<1>4. ASSUME NEW s \in Run, Launch(s) \/ Work(s) \/ Abort(s) PROVE Covered'
  <2>1. UNCHANGED <<lease, lapsed>>
    BY <1>4 DEF Launch, Work, Abort
  <2>2. QED BY <1>4, <2>1, StaysAtWork
<1>5. ASSUME NEW s \in Run, Die(s) PROVE Covered'
  <2>1. UNCHANGED lease /\ \A t \in Run : t # s => (t \in lapsed' <=> t \in lapsed)
    BY <1>5 DEF Die
  <2>2. QED BY <1>5, <2>1, HoldsNothing
<1>6. ASSUME NEW s \in Run, Beat(s) PROVE Covered'
  BY <1>a, <1>6 DEF Beat
<1>7. ASSUME NEW i \in Issue, Expire(i) PROVE Covered'
  BY <1>a, <1>7 DEF Expire
<1>8. ASSUME NEW i \in Contested, OutsideClaims(i) \/ OutsideReleases(i) \/ AuthorityChanges(i)
      PROVE  Covered'
  <2>1. CASE OutsideClaims(i)
    <3>1. i \in Issue
      OBVIOUS
    <3>2. UNCHANGED <<run, lapsed>> /\ Take(i, Outside)
      BY <2>1 DEF OutsideClaims
    <3>3. QED BY <1>a, <3>1, <3>2, Taken
  <2>2. CASE OutsideReleases(i) \/ AuthorityChanges(i)
    BY <1>a, <2>2 DEF OutsideReleases, AuthorityChanges
  <2>3. QED BY <1>8, <2>1, <2>2
<1>9. QED
  BY <1>1, <1>2, <1>3, <1>4, <1>5, <1>6, <1>7, <1>8 DEF Next, Continues

-----------------------------------------------------------------------------
(* The invariant holds in every behaviour.                                  *)
THEOREM Invariance == Spec => []Inv
<1>1. Init => Inv
  <2> SUFFICES ASSUME Init PROVE Inv
    OBVIOUS
  <2>1. Cardinality({}) = 0
    BY FS_EmptySet
  <2>2. <<>> \in Seq(Result) /\ Len(<<>>) = 0 /\ DOMAIN <<>> = {}
    OBVIOUS
  <2>3. run \in [Run -> RunState]
    BY <2>2 DEF Init, RunState, Steps, Ending
  <2>4. \A s \in Run : Fits(s, run[s])
    <3> TAKE s \in Run
    <3>1. run[s].results = <<>> /\ run[s].skips = {} /\ run[s].pc = "select"
      BY DEF Init
    <3>2. QED BY <2>1, <2>2, <2>3, <3>1 DEF Fits
  <2>5. LeasesTyped /\ Owned /\ Covered
    BY DEF Init, LeasesTyped, Owned, Covered, Holds
  <2>6. QED BY <2>3, <2>4, <2>5 DEF Inv, RunsFit
<1>2. Inv /\ [Next]_vars => Inv'
  <2>1. CASE Next
    BY <2>1, RunsFitStep, LeasesTypedStep, OwnedStep, CoveredStep DEF Inv
  <2>2. CASE UNCHANGED vars
    BY <2>2 DEF vars, Inv, RunsFit, LeasesTyped, Owned, Covered, Holds, Fresh
  <2>3. QED BY <2>1, <2>2
<1>3. QED BY <1>1, <1>2, PTL DEF Spec

(* Type correctness, with the budget of results and the bound on skips.     *)
THEOREM TypeCorrect == Spec => []TypeOK
<1>1. Inv => TypeOK
  BY DEF Inv, RunsFit, Fits, LeasesTyped, TypeOK
<1>2. QED BY <1>1, Invariance, PTL

(* Two runs work on one issue only while the lease of one has run out.      *)
THEOREM Exclusive == Spec => []ExclusiveWork
<1>1. Inv => ExclusiveWork
  BY DEF Inv, RunsFit, Covered, Holds, ExclusiveWork
<1>2. QED BY <1>1, Invariance, PTL

(* A run that returns has no lease left.                                    *)
THEOREM NothingHeld == Spec => []ReturnedHoldsNothing
<1>1. Inv => ReturnedHoldsNothing
  BY DEF Inv, Owned, Holds, ReturnedHoldsNothing
<1>2. QED BY <1>1, Invariance, PTL

(* A run works on an issue once.                                            *)
THEOREM WorkedOnOnce == Spec => []OncePerRun
<1>1. Inv => OncePerRun
  BY DEF Inv, RunsFit, Fits, OncePerRun
<1>2. QED BY <1>1, Invariance, PTL

=============================================================================

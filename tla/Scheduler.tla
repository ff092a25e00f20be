----------------------------- MODULE Scheduler -----------------------------
(***************************************************************************)
(* runLifecycleScheduler (src/lifecycle/scheduler.ts) as the production    *)
(* adapter instantiates it (extensions/pi-next/production-lifecycle.ts):   *)
(* runs that discover, claim, work on and release one issue after another, *)
(* among themselves and with an owner outside.                             *)
(*                                                                         *)
(* A lease is what LeaseContract promises of it, with `fresh' for its      *)
(* expiry: a claim is granted when it is not fresh, and a claim or release *)
(* that fails may have taken effect all the same.  The lifecycle of an     *)
(* issue is the disposition it ends with: pass stands for already-satisfied*)
(* too, no-change for every failure local to the issue, authority-failure  *)
(* for every other one.                                                    *)
(***************************************************************************)
EXTENDS Naturals, Sequences, FiniteSets

CONSTANTS
  Run,         \* scheduler runs
  Outside,     \* an owner that is none of them
  NoOne,       \* the owner of a lease that was released
  Issue,
  Queue,       \* the issues by configured priority
  MaxIssues,   \* policy.maxIssues of each run
  ReadWindow,  \* DEFAULT_LEASE_READ_WINDOW
  MaxSkips,    \* skips that are remembered, 100
  Contested,   \* issues that Outside may claim and the work authority may change
  Mortal       \* runs whose process may be killed

ASSUME SchedulerAssumption ==
  /\ Outside \notin Run /\ NoOne \notin Run /\ NoOne # Outside
  /\ Queue \in Seq(Issue)
  /\ \A j, k \in DOMAIN Queue : Queue[j] = Queue[k] => j = k
  /\ MaxIssues \in [Run -> Nat]
  /\ ReadWindow \in Nat \ {0}
  /\ MaxSkips \in Nat \ {0}
  /\ Contested \subseteq Issue
  /\ Mortal \subseteq Run

VARIABLES
  ready,     \* issues that the work authority lists as eligible
  lease,     \* per issue: its owner, and whether it is fresh
  run,       \* per run: where it is and what it has
  lapsed     \* history: runs whose lease ran out, and was not renewed, while they hold it

vars == <<ready, lease, run, lapsed>>

Disposition == {"pass", "no-change", "authority-failure", "budget-yield"}

Result == [issue : Issue, disposition : Disposition]

Steps == {"select", "claim", "launch", "work", "release", "requery", "ended", "dead"}

Ending == {"none", "idle", "completed", "budget-yield", "blocked", "cancelled", "thrown"}

RunState ==
  [pc : Steps, selection : Issue \cup {NoOne}, results : Seq(Result), skips : SUBSET Issue,
   result : Disposition \cup {"none", "cancelled", "thrown"}, aborted : {"yes", "no"},
   disposition : Ending]

TypeOK ==
  /\ ready \subseteq Issue
  /\ lease \in [Issue -> [owner : Run \cup {Outside, NoOne}, fresh : {"yes", "no"}]]
  /\ run \in [Run -> RunState]
  /\ \A s \in Run : Len(run[s].results) <= MaxIssues[s] /\ Cardinality(run[s].skips) <= MaxSkips
  /\ lapsed \subseteq Run

Init ==
  /\ ready \in SUBSET Issue
  /\ lease = [i \in Issue |-> [owner |-> NoOne, fresh |-> "no"]]
  /\ run = [s \in Run |->
       [pc |-> "select", selection |-> NoOne, results |-> <<>>, skips |-> {},
        result |-> "none", aborted |-> "no", disposition |-> "none"]]
  /\ lapsed = {}

-----------------------------------------------------------------------------
(* Operators named X_Y are X with a plausible bug; no specification uses    *)
(* them.  They show that the properties below would notice.                 *)

Budget(s) == Len(run[s].results) < MaxIssues[s]

Fresh_Never(i) == FALSE
Fresh(i) == lease[i].fresh = "yes"

(* Issues settled in this run: completedIssues and deferredIssues.          *)
Settled_OnlyPassed(s) ==
  {run[s].results[k].issue : k \in {n \in DOMAIN run[s].results : run[s].results[n].disposition = "pass"}}
Settled(s) == {run[s].results[k].issue : k \in DOMAIN run[s].results}

(* recordSchedulerSkipState: the latest skips.  Which of the older ones are *)
(* forgotten is left open.                                                  *)
Remember_Nothing(skips, issues) == {skips}
Remember(skips, issues) ==
  {kept \in SUBSET (skips \cup issues) :
     /\ Cardinality(kept) <= MaxSkips
     /\ kept # skips \cup issues =>
          Cardinality(kept) = MaxSkips /\ (kept \subseteq issues \/ issues \subseteq kept)}

(* candidateShortlist: the eligible issues, by their place in the queue;    *)
(* those whose leases are read, which is window by window up to one with an *)
(* issue that is not leased; and among these the leased and the others.     *)
Eligible(s) == {k \in DOMAIN Queue : Queue[k] \in ready \ (Settled(s) \cup run[s].skips)}

WindowOf(s, k) == Cardinality({j \in Eligible(s) : j < k}) \div ReadWindow

Inspected(s) ==
  {k \in Eligible(s) :
     \A j \in Eligible(s) : WindowOf(s, j) < WindowOf(s, k) => Fresh(Queue[j])}

Available(s) == {k \in Inspected(s) : ~Fresh(Queue[k])}

LeasedElsewhere(s) == {Queue[k] : k \in Inspected(s) \ Available(s)}

At(s, step) == run[s].pc = step
Goto(s, step) == run' = [run EXCEPT ![s].pc = step]

NextIssue(s) == [run[s] EXCEPT !.pc = "select", !.selection = NoOne, !.result = "none"]

Over(step, disposition) ==
  [pc |-> step, selection |-> NoOne, results |-> <<>>, skips |-> {},
   result |-> "none", aborted |-> "no", disposition |-> disposition]

(* A run that is over keeps its disposition only.                           *)
Returns(s, disposition) == run' = [run EXCEPT ![s] = Over("ended", disposition)]

Lives(s) == run[s].pc \notin {"ended", "dead"}

Stopped(s) == run[s].aborted = "yes"

(* A run that is stopped while it claims must give the lease back.          *)
Cancels_Unreleased(s) == Returns(s, "cancelled")
Cancels(s) == run' = [run EXCEPT ![s].pc = "release", ![s].result = "cancelled"]

-----------------------------------------------------------------------------
(* The head of the loop.                                                    *)
Stops(s) ==
  /\ At(s, "select")
  /\ \/ Budget(s) /\ Stopped(s) /\ Returns(s, "cancelled")
     \/ ~Budget(s) /\ Returns(s, "budget-yield")
  /\ UNCHANGED <<ready, lease, lapsed>>

Selects(s) == At(s, "select") /\ Budget(s) /\ ~Stopped(s)

(* Without a candidate the run is over.                                     *)
NoCandidate(s) == Returns(s, IF run[s].results = <<>> THEN "idle" ELSE "completed")

Discover(s) ==
  /\ Selects(s)
  /\ \/ Available(s) = {} /\ NoCandidate(s)
     \/ \E k \in Available(s), skips \in Remember(run[s].skips, LeasedElsewhere(s)) :
          /\ \A j \in Available(s) : k <= j
          /\ run' = [run EXCEPT ![s].pc = "claim", ![s].selection = Queue[k], ![s].skips = skips]
  /\ UNCHANGED <<ready, lease, lapsed>>

(* The shortlist is unavailable: a refresh, query or lease read failed, or  *)
(* the deadline passed.  To the scheduler that is no candidate either.      *)
DiscoverFails(s) ==
  /\ Selects(s)
  /\ NoCandidate(s)
  /\ UNCHANGED <<ready, lease, lapsed>>

(* i becomes leased by o, which may be at the expense of another run.       *)
Take(i, o) ==
  /\ ~Fresh(i)
  /\ lease' = [lease EXCEPT ![i] = [owner |-> o, fresh |-> "yes"]]

(* s believes to hold the lease of its selection.                           *)
Holds(s) == run[s].pc \in {"launch", "work", "release"}

Claim(s) ==
  LET i == run[s].selection IN
  /\ At(s, "claim")
  /\ ~Stopped(s)
  /\ Take(i, s)
  /\ run' = [run EXCEPT ![s].pc = "launch"]
  /\ UNCHANGED <<ready, lapsed>>

ClaimConflicts(s) ==
  LET i == run[s].selection IN
  /\ At(s, "claim")
  /\ ~Stopped(s)
  /\ Fresh(i)
  /\ \E skips \in Remember(run[s].skips, {i}) :
       run' = [run EXCEPT ![s] = [NextIssue(s) EXCEPT !.skips = skips]]
  /\ UNCHANGED <<ready, lease, lapsed>>

(* Any other error ends the run; the claim may have been granted.           *)
ClaimFails(s) ==
  /\ At(s, "claim")
  /\ ~Stopped(s)
  /\ Take(run[s].selection, s) \/ UNCHANGED lease
  /\ Returns(s, "thrown")
  /\ UNCHANGED <<ready, lapsed>>

ClaimStopped(s) ==
  /\ At(s, "claim")
  /\ Stopped(s)
  /\ Returns(s, "cancelled")
  /\ UNCHANGED <<ready, lease, lapsed>>

Launch(s) ==
  /\ At(s, "launch")
  /\ \/ ~Stopped(s) /\ Goto(s, "work")
     \/ Stopped(s) /\ Cancels(s)
  /\ UNCHANGED <<ready, lease, lapsed>>

(* runSingleIssueLifecycle returns, or throws.                              *)
Work(s) ==
  /\ At(s, "work")
  /\ \E d \in Disposition \cup {"thrown"} :
       /\ run' = [run EXCEPT ![s].pc = "release", ![s].result = d]
       /\ ready' \in {ready} \cup (IF d = "pass" THEN {ready \ {run[s].selection}} ELSE {})
  /\ UNCHANGED <<lease, lapsed>>

GivesUp(s) ==
  LET i == run[s].selection IN
  lease' = IF lease[i].owner = s THEN [lease EXCEPT ![i] = [owner |-> NoOne, fresh |-> "no"]]
           ELSE lease

(* The heartbeat stops first.  What follows depends on why the lease is     *)
(* given back.                                                              *)
Release(s) ==
  /\ At(s, "release")
  /\ GivesUp(s)
  /\ \/ /\ run[s].result \in {"cancelled", "thrown"}
        /\ Returns(s, run[s].result)
     \/ /\ run[s].result \in Disposition
        /\ run' = [run EXCEPT ![s].pc = "requery",
             ![s].results = Append(@, [issue |-> run[s].selection, disposition |-> run[s].result])]
  /\ lapsed' = lapsed \ {s}
  /\ UNCHANGED ready

(* An error of the release is the run's, whatever the lifecycle returned.   *)
ReleaseFails(s) ==
  /\ At(s, "release")
  /\ GivesUp(s) \/ UNCHANGED lease
  /\ Returns(s, "thrown")
  /\ lapsed' = lapsed \ {s}
  /\ UNCHANGED ready

(* policy.continueAfterIssueLocalFailure is always set.                     *)
Continuable(d) == d \in {"pass", "no-change"}

Requery(s) ==
  /\ At(s, "requery")
  /\ LET d == run[s].result IN
     \/ d = "budget-yield" /\ Returns(s, "budget-yield")
     \/ d = "authority-failure" /\ Returns(s, "blocked")
     \/ Continuable(d) /\ Stopped(s) /\ Returns(s, "cancelled")
     \/ Continuable(d) /\ ~Stopped(s) /\ run' = [run EXCEPT ![s] = NextIssue(s)]
  /\ UNCHANGED <<ready, lease, lapsed>>

RequeryFails(s) ==
  /\ At(s, "requery")
  /\ Returns(s, "thrown")
  /\ UNCHANGED <<ready, lease, lapsed>>

-----------------------------------------------------------------------------
(* The heartbeat.  One that was stopped, by the signal, by a renewal that    *)
(* failed or by the release, is one that does not beat.                     *)
Beat(s) ==
  LET i == run[s].selection IN
  /\ Holds(s)
  /\ lease[i].owner = s
  /\ lease' = [lease EXCEPT ![i].fresh = "yes"]
  /\ lapsed' = lapsed \ {s}
  /\ UNCHANGED <<ready, run>>

Abort(s) ==
  /\ Lives(s)
  /\ ~Stopped(s)
  /\ run' = [run EXCEPT ![s].aborted = "yes"]
  /\ UNCHANGED <<ready, lease, lapsed>>

Die(s) ==
  /\ s \in Mortal
  /\ Lives(s)
  /\ run' = [run EXCEPT ![s] = Over("dead", "none")]
  /\ lapsed' = lapsed \ {s}
  /\ UNCHANGED <<ready, lease>>

-----------------------------------------------------------------------------
(* The environment.                                                         *)
Expire(i) ==
  /\ Fresh(i)
  /\ lease' = [lease EXCEPT ![i].fresh = "no"]
  /\ lapsed' = lapsed \cup {s \in Run : lease[i].owner = s /\ Holds(s) /\ run[s].selection = i}
  /\ UNCHANGED <<ready, run>>

OutsideClaims(i) ==
  /\ Take(i, Outside)
  /\ UNCHANGED <<ready, run, lapsed>>

OutsideReleases(i) ==
  /\ lease[i].owner = Outside
  /\ lease' = [lease EXCEPT ![i] = [owner |-> NoOne, fresh |-> "no"]]
  /\ UNCHANGED <<ready, run, lapsed>>

AuthorityChanges(i) ==
  /\ ready' = IF i \in ready THEN ready \ {i} ELSE ready \cup {i}
  /\ UNCHANGED <<lease, run, lapsed>>

-----------------------------------------------------------------------------
Continues(s) ==
  \/ Stops(s) \/ Discover(s) \/ DiscoverFails(s)
  \/ Claim(s) \/ ClaimConflicts(s) \/ ClaimFails(s) \/ ClaimStopped(s)
  \/ Launch(s) \/ Work(s) \/ Release(s) \/ ReleaseFails(s)
  \/ Requery(s) \/ RequeryFails(s)

Next ==
  \/ \E s \in Run : Continues(s) \/ Beat(s) \/ Abort(s) \/ Die(s)
  \/ \E i \in Issue : Expire(i)
  \/ \E i \in Contested : OutsideClaims(i) \/ OutsideReleases(i) \/ AuthorityChanges(i)

Spec == Init /\ [][Next]_vars

(* A run goes on with what it is doing: every call it waits for has a       *)
(* timeout, workers have one too.                                           *)
FairSpec == Spec /\ \A s \in Run : WF_vars(Continues(s))

-----------------------------------------------------------------------------
(* Properties.                                                              *)

(* "Never two fresh owners", at the work itself: two runs work on one issue *)
(* only while the lease of one of them has run out under it.                *)
ExclusiveWork ==
  \A s, t \in Run :
    s # t /\ At(s, "work") /\ At(t, "work") /\ run[s].selection = run[t].selection
      => s \in lapsed \/ t \in lapsed

(* A run that returns holds no lease, whatever it was doing when it was     *)
(* stopped; one that throws may leave its last lease to expire.             *)
ReturnedHoldsNothing ==
  \A s \in Run : At(s, "ended") /\ run[s].disposition # "thrown" => \A i \in Issue : lease[i].owner # s

(* An issue is worked on once in a run, also when it stays open and ready.  *)
OncePerRun ==
  \A s \in Run : \A j, k \in DOMAIN run[s].results :
    run[s].results[j].issue = run[s].results[k].issue => j = k

(* A run ends, however many claims it loses and however often the issues it *)
(* lost become free again.                                                  *)
RunEnds ==
  \A s \in Run : At(s, "select") ~> run[s].pc \in {"ended", "dead"}
=============================================================================

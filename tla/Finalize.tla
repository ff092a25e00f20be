------------------------------ MODULE Finalize ------------------------------
(***************************************************************************)
(* finalizeIssue (src/coordination/finalize.ts) under its recovery wrapper *)
(* finalizeWithPostIntegrationReverification, with what it shares: the     *)
(* local main checkout of a clone (the coordination root), origin/main,    *)
(* the work item and its lease, and the main refresh of another controller *)
(* in the same clone (extensions/pi-next/main-refresh.ts).                 *)
(*                                                                         *)
(* Commits are numbered as they are made; anc[c] is c with its ancestors,  *)
(* and the tree of c is the set of non-merge commits among them (merges    *)
(* that succeed add nothing of their own).  Each git or authority command  *)
(* is one step; a step reads or writes one shared thing, except that a     *)
(* fetch and the reads that follow it are taken together.                  *)
(***************************************************************************)
EXTENDS Naturals, FiniteSets

CONSTANTS
  Finalizer,   \* runs that finalize
  Root,        \* clones, each with one coordination root
  Issue,
  RootOf,      \* the clone a finalizer runs in
  IssueOf,     \* the issue it finalizes
  NoOne,       \* no lock holder, no lease owner
  Candidate,   \* the first commit of each issue's branch
  Shared,      \* clones that more than one controller works in; in the others
               \* a controller refreshes main only between its finalizations
  Refreshing,  \* clones whose controller refreshes main
  Operated,    \* clones whose operator edits tracked files of the root
  Diagnosing,  \* clones in whose root incident diagnostics are left
  SelfOwned,   \* finalizers over an always-fresh lease of their own
  Pending,     \* issues that await an external verification
  Discussed,   \* issues that others edit
  Mortal,      \* finalizers whose process may die
  MaxPromotionAttempts,
  MaxReverifications,  \* maxReverificationAttempts
  MaxVersion,  \* bound: edits of an issue by others
  MaxCommit,   \* bound: number of the last commit
  MaxForeign   \* bound: commits made by others than finalizers

ASSUME FinalizeAssumption ==
  /\ RootOf \in [Finalizer -> Root]
  /\ IssueOf \in [Finalizer -> Issue]
  /\ \A i \in Issue : \E f \in Finalizer : IssueOf[f] = i
  /\ NoOne \notin Finalizer
  /\ IsFiniteSet(Issue)
  /\ Candidate \in [Issue -> 1 .. Cardinality(Issue)]
  /\ \A i, j \in Issue : Candidate[i] = Candidate[j] => i = j
  /\ Shared \subseteq Root /\ Refreshing \subseteq Root
  /\ Operated \subseteq Root /\ Diagnosing \subseteq Root
  /\ SelfOwned \subseteq Finalizer /\ Mortal \subseteq Finalizer
  /\ Pending \subseteq Issue /\ Discussed \subseteq Issue
  /\ MaxPromotionAttempts \in Nat \ {0}
  /\ MaxReverifications \in Nat
  /\ MaxVersion \in Nat /\ MaxCommit \in Nat /\ Cardinality(Issue) <= MaxCommit /\ MaxForeign \in Nat

VARIABLES
  anc,       \* the commits made so far, each with its ancestors
  merges,    \* the merge commits among them
  origin,    \* origin's main
  root,      \* per clone: local main, tracking ref, finalize lock, state of the tree
  tip,       \* per clone and issue: the tip of its agent/issue-N
  issue,     \* per issue: state, version, lease owner and what was written to it
  lost,      \* runs whose lease is gone for good
  verified,  \* trees on which the required checks have passed
  proof,     \* per clone and issue: the durable verified-integrated-main proof
  fin,       \* the state of each finalizer
  lawful     \* history: those that held the lease, over an unchanged issue,
             \* when their candidate was proven to be on main

commits == <<anc, merges>>

vars == <<anc, merges, origin, root, tip, issue, lost, verified, proof, fin, lawful>>

Commit == 0 .. MaxCommit

Idle == [pc |-> "idle", cand |-> 0, fp |-> 0, vim |-> 0, base |-> 0, ibase |-> 0,
         local |-> 0, merge |-> 0, attempt |-> 0, tries |-> 0, requires |-> "no"]

Locked == {"fetch", "sync", "base", "merge", "push", "undo", "reach"}

Steps == {"idle", "incidents", "report", "lease", "lock", "recheck", "get", "mark", "close",
          "reverify", "checks", "confirm"} \cup Locked

TypeOK ==
  /\ DOMAIN anc \subseteq Commit /\ \A c \in DOMAIN anc : c \in anc[c] /\ anc[c] \subseteq DOMAIN anc
  /\ merges \subseteq DOMAIN anc
  /\ origin \in DOMAIN anc
  /\ root \in [Root -> [head : DOMAIN anc, tracking : DOMAIN anc,
                        lock : Finalizer \cup {NoOne}, dirt : SUBSET {"edits", "conflict", "incidents"},
                        refresh : {"idle", "publish", "forward"}]]
  /\ tip \in [Root \X Issue -> DOMAIN anc]
  /\ issue \in [Issue -> [state : {"open", "closed"}, version : Nat,
                          owner : Finalizer \cup {NoOne}, closings : Nat,
                          claims : SUBSET (Commit \X Commit), marks : SUBSET Commit]]
  /\ lost \subseteq Finalizer
  /\ verified \subseteq SUBSET Commit
  /\ proof \in [Root \X Issue -> Commit \X Commit]
  /\ fin \in [Finalizer -> [pc : Steps, cand : Commit, fp : Nat, vim : Commit,
                            base : Commit, ibase : Commit, local : Commit, merge : Commit,
                            attempt : 0 .. MaxPromotionAttempts,
                            tries : 0 .. MaxReverifications,
                            requires : {"no", "yes"}]]
  /\ lawful \subseteq Finalizer

Runs(i) == {f \in Finalizer : IssueOf[f] = i}

(* The run that claimed the issue.                                          *)
FirstRun(i) == CHOOSE f \in Runs(i) : TRUE

Init ==
  /\ anc = [c \in {0} \cup {Candidate[i] : i \in Issue} |-> {0, c}]
  /\ merges = {}
  /\ origin = 0
  /\ root = [r \in Root |-> [head |-> 0, tracking |-> 0, lock |-> NoOne, dirt |-> {},
                             refresh |-> "idle"]]
  /\ tip = [b \in Root \X Issue |-> Candidate[b[2]]]
  /\ issue = [i \in Issue |-> [state |-> "open", version |-> 0, owner |-> FirstRun(i),
                              closings |-> 0, claims |-> {}, marks |-> {}]]
  /\ lost = {}
  /\ verified = {}
  /\ proof = [b \in Root \X Issue |-> <<0, 0>>]
  /\ fin = [f \in Finalizer |-> Idle]
  /\ lawful = {}

-----------------------------------------------------------------------------
(* Operators named X_Y are X with a plausible bug; no specification uses    *)
(* them.  They show that the properties below would notice.                 *)

Tree(c) == anc[c] \ merges

Contains(c, a) == a \in anc[c]

NewCommit == Cardinality(DOMAIN anc)

Room == NewCommit \in Commit

(* A commit on top of the commits of `parents'.                             *)
AddCommit(parents) ==
  anc' = [c \in DOMAIN anc \cup {NewCommit} |->
            IF c = NewCommit THEN {c} \cup UNION {anc[p] : p \in parents} ELSE anc[c]]

MergeBase(a, b) ==
  CHOOSE c \in anc[a] \cap anc[b] : anc[a] \cap anc[b] \subseteq anc[c]

(* origin/main accepts only what contains it: nothing is force-pushed.      *)
Accepts(c) == Contains(c, origin)

-----------------------------------------------------------------------------
(* A finalizer and what it works on.                                        *)

At(f, step) == fin[f].pc = step
R(f) == RootOf[f]
I(f) == IssueOf[f]
Branch(f) == <<RootOf[f], IssueOf[f]>>

(* assertOwnedFreshLease; the lease of bootstrap is its own and always      *)
(* fresh (SelfOwnedLeaseAuthority).                                         *)
Owns(f) == f \in SelfOwned \/ issue[I(f)].owner = f

(* The candidate is still the exact tip of agent/issue-N.                   *)
TipUnmoved(f) == tip[Branch(f)] = fin[f].cand

(* The live fingerprint against the one verification was bound to.          *)
Unchanged_Ignored(f) == TRUE
Unchanged(f) == issue[I(f)].version = fin[f].fp

(* "a genuine 3-way integration ... apart from a no-op/fast-forward one"    *)
ThreeWay_Never(f) == FALSE
ThreeWay(f) == fin[f].ibase # fin[f].base

(* Candidate reachability alone proves nothing of the current main.         *)
Unproven(f, main) == fin[f].vim # main

LastAttempt(f) == fin[f].attempt = MaxPromotionAttempts

NextAttempt_Stuck(f) == fin[f].attempt
NextAttempt(f) == fin[f].attempt + 1

NextTry(f) == fin[f].tries + 1

(* git reset --hard localMain: all but the untracked incident files goes.   *)
HardReset_Forgotten(r, main) == root[r]
HardReset(r, main) == [root[r] EXCEPT !.head = main, !.dirt = @ \cap {"incidents"}]

Goto(f, step) == fin' = [fin EXCEPT ![f].pc = step]

Ends(f) ==
  /\ fin' = [fin EXCEPT ![f] = Idle]
  /\ lawful' = lawful \ {f}

(* A lock whose holder died is recovered (LockFile).                        *)
Free(r) == root[r].lock \notin {f \in Finalizer : fin[f].pc \in Locked}

Unlocked(r) == [root[r] EXCEPT !.lock = NoOne]

Quiet(r) == \A f \in Finalizer : R(f) = r => At(f, "idle")

-----------------------------------------------------------------------------
(* finalizeIssue up to the lock.                                            *)

(* The required checks have passed on the candidate, and the work item was  *)
(* read for its fingerprint.  A root dirty with nothing but incident        *)
(* diagnostics, and level with origin, is cleaned by committing them.       *)
Start(f) ==
  /\ At(f, "idle")
  /\ R(f) \in Shared \/ (Quiet(R(f)) /\ root[R(f)].refresh = "idle")
  /\ verified' = verified \cup {Tree(tip[Branch(f)])}
  /\ fin' = [fin EXCEPT ![f] =
               [Idle EXCEPT !.pc = IF Owns(f) /\ root[R(f)].dirt = {"incidents"}
                                   THEN "incidents" ELSE "lease",
                            !.cand = tip[Branch(f)],
                            !.fp = issue[I(f)].version]]
  /\ UNCHANGED <<commits, origin, root, tip, issue, lost, proof, lawful>>

CommitIncidents(f) ==
  LET level == root[R(f)].head = origin IN
  /\ At(f, "incidents")
  /\ \/ /\ level /\ Room
        /\ AddCommit({origin})
        /\ root' = [root EXCEPT ![R(f)].head = NewCommit, ![R(f)].tracking = origin,
                                ![R(f)].dirt = @ \ {"incidents"}]
        /\ Goto(f, "report")
     \/ /\ ~level
        /\ root' = [root EXCEPT ![R(f)].tracking = origin]
        /\ Goto(f, "lease")
        /\ UNCHANGED anc
  /\ UNCHANGED <<merges, origin, tip, issue, lost, verified, proof, lawful>>

(* If this push fails the commit stays, unpublished (Fails).                *)
PushIncidents(f) ==
  LET head == root[R(f)].head IN
  /\ At(f, "report")
  /\ Accepts(head)
  /\ origin' = head
  /\ root' = [root EXCEPT ![R(f)].tracking = head]
  /\ Goto(f, "lease")
  /\ UNCHANGED <<commits, tip, issue, lost, verified, proof, lawful>>

(* LEASE_LOST and CANDIDATE_STALE are failures (Fails).                     *)
CheckLease(f) ==
  /\ At(f, "lease")
  /\ Owns(f)
  /\ TipUnmoved(f)
  /\ Goto(f, "lock")
  /\ UNCHANGED <<commits, origin, root, tip, issue, lost, verified, proof, lawful>>

Lock(f) ==
  /\ At(f, "lock")
  /\ Free(R(f))
  /\ root' = [root EXCEPT ![R(f)].lock = f]
  /\ Goto(f, "fetch")
  /\ UNCHANGED <<commits, origin, tip, issue, lost, verified, proof, lawful>>

-----------------------------------------------------------------------------
(* Under the lock.                                                          *)

(* What follows the finally block: reverification, or the second lease read.*)
(* The variables of the promotion are out of scope.                         *)
Integrated(f, main, unproven) ==
  /\ root' = [root EXCEPT ![R(f)] = [Unlocked(R(f)) EXCEPT !.tracking = origin]]
  /\ fin' = [fin EXCEPT ![f] =
               [Idle EXCEPT !.cand = fin[f].cand, !.fp = fin[f].fp, !.tries = fin[f].tries,
                            !.merge = main,
                            !.requires = IF unproven THEN "yes" ELSE "no",
                            !.pc = IF unproven /\ I(f) \notin Pending THEN "reverify"
                                   ELSE "recheck"]]
  /\ lawful' = IF f \notin lost /\ issue[I(f)].version = fin[f].fp
               THEN lawful \cup {f} ELSE lawful \ {f}

(* Either the candidate is on main already, or the base it was verified     *)
(* against is noted; a dirty root is ROOT_BUSY (Fails).                     *)
Fetch(f) ==
  /\ At(f, "fetch")
  /\ \/ /\ Contains(origin, fin[f].cand)
        /\ TipUnmoved(f)
        /\ Integrated(f, origin, Unproven(f, origin))
     \/ /\ ~Contains(origin, fin[f].cand)
        /\ root[R(f)].dirt = {}
        /\ root' = [root EXCEPT ![R(f)].tracking = origin]
        /\ fin' = [fin EXCEPT ![f].pc = "sync", ![f].attempt = 1,
                              ![f].base = MergeBase(fin[f].cand, origin)]
        /\ UNCHANGED lawful
  /\ UNCHANGED <<commits, origin, tip, issue, lost, verified, proof>>

(* Fast-forward local main; unpublished commits are UNSAFE_ROOT (Fails).    *)
SyncMain(f) ==
  /\ At(f, "sync")
  /\ Contains(origin, root[R(f)].head)
  /\ root' = [root EXCEPT ![R(f)].tracking = origin, ![R(f)].head = origin]
  /\ fin' = [fin EXCEPT ![f].pc = "base", ![f].local = root[R(f)].head]
  /\ UNCHANGED <<commits, origin, tip, issue, lost, verified, proof, lawful>>

NoteBase(f) ==
  /\ At(f, "base")
  /\ TipUnmoved(f)
  /\ fin' = [fin EXCEPT ![f].pc = "merge", ![f].ibase = root[R(f)].head]
  /\ UNCHANGED <<commits, origin, root, tip, issue, lost, verified, proof, lawful>>

(* merge --no-ff of the candidate into whatever HEAD is now.                *)
Merge(f) ==
  LET head == root[R(f)].head IN
  /\ At(f, "merge")
  /\ "conflict" \notin root[R(f)].dirt
  /\ \/ /\ Contains(head, fin[f].cand)
        /\ UNCHANGED <<commits, root>>
     \/ /\ ~Contains(head, fin[f].cand)
        /\ Room
        /\ AddCommit({head, fin[f].cand})
        /\ merges' = merges \cup {NewCommit}
        /\ root' = [root EXCEPT ![R(f)].head = NewCommit]
  /\ Goto(f, "push")
  /\ UNCHANGED <<origin, tip, issue, lost, verified, proof, lawful>>

(* A conflicting merge throws, and nothing aborts it.                       *)
MergeConflicts(f) ==
  /\ At(f, "merge")
  /\ ~Contains(fin[f].cand, root[R(f)].head)
  /\ ~Contains(root[R(f)].head, fin[f].cand)
  /\ root' = [root EXCEPT ![R(f)] = [Unlocked(R(f)) EXCEPT !.dirt = @ \cup {"conflict"}]]
  /\ Ends(f)
  /\ UNCHANGED <<commits, origin, tip, issue, lost, verified, proof>>

(* The push lands and says so, lands and seems to fail, or fails.           *)
Push(f) ==
  LET head == root[R(f)].head IN
  /\ At(f, "push")
  /\ \/ /\ Accepts(head)
        /\ origin' = head
        /\ root' = [root EXCEPT ![R(f)].tracking = head]
        /\ Goto(f, "reach")
     \/ /\ Accepts(head)
        /\ origin' = head
        /\ Goto(f, "undo")
        /\ UNCHANGED root
     \/ /\ Goto(f, "undo")
        /\ UNCHANGED <<origin, root>>
  /\ UNCHANGED <<commits, tip, issue, lost, verified, proof, lawful>>

(* "Another promotion won the race": reset and try again, or PROMOTION_RACE.*)
(* The reset is taken to work.                                              *)
Undo(f) ==
  LET reset == HardReset(R(f), fin[f].local) IN
  /\ At(f, "undo")
  /\ \/ /\ ~LastAttempt(f)
        /\ root' = [root EXCEPT ![R(f)] = reset]
        /\ fin' = [fin EXCEPT ![f].pc = "sync", ![f].attempt = NextAttempt(f),
                              ![f].local = 0, ![f].ibase = 0]
        /\ UNCHANGED lawful
     \/ /\ LastAttempt(f)
        /\ root' = [root EXCEPT ![R(f)] = [reset EXCEPT !.lock = NoOne]]
        /\ Ends(f)
  /\ UNCHANGED <<commits, origin, tip, issue, lost, verified, proof>>

(* The pushed revision is HEAD; main fetched again contains the candidate.  *)
Reach(f) ==
  /\ At(f, "reach")
  /\ Contains(origin, fin[f].cand)
  /\ Integrated(f, root[R(f)].head, ThreeWay(f))
  /\ UNCHANGED <<commits, origin, tip, issue, lost, verified, proof>>

-----------------------------------------------------------------------------
(* After the lock: "nothing below may undo it".                             *)

(* A lease that is not the caller's any more leaves the issue open.         *)
Recheck(f) ==
  /\ At(f, "recheck")
  /\ Owns(f)
  /\ Goto(f, "get")
  /\ UNCHANGED <<commits, origin, root, tip, issue, lost, verified, proof, lawful>>

(* finalizeIssue reports the issue closed at fin[f].merge.                  *)
Claimed(f) == [issue[I(f)] EXCEPT !.claims = @ \cup {<<fin[f].cand, fin[f].merge>>}]

(* A closed item is not closed again: its comment would be repeated.        *)
StillOpen_Assumed(item) == TRUE
StillOpen(item) == item.state = "open"

(* The fresh read immediately before close; other than here the issue stays *)
(* open (authorityChanged).  An issue that is closed already, with our      *)
(* close comment if it changed since verification, is reported closed.      *)
Get(f) ==
  LET item == issue[I(f)] IN
  /\ At(f, "get")
  /\ \/ /\ Unchanged(f)
        /\ I(f) \in Pending
        /\ Goto(f, "mark")
        /\ UNCHANGED <<issue, lawful>>
     \/ /\ Unchanged(f)
        /\ I(f) \notin Pending
        /\ StillOpen(item)
        /\ Goto(f, "close")
        /\ UNCHANGED <<issue, lawful>>
     \/ /\ ~StillOpen(item)
        /\ \/ Unchanged(f) /\ I(f) \notin Pending
           \/ ~Unchanged(f) /\ item.closings > 0
        /\ issue' = [issue EXCEPT ![I(f)] = Claimed(f)]
        /\ Ends(f)
  /\ UNCHANGED <<commits, origin, root, tip, lost, verified, proof>>

(* close(): it takes effect at once or not at all, also when the call       *)
(* fails.                                                                   *)
Close(f) ==
  /\ At(f, "close")
  /\ issue' = [issue EXCEPT ![I(f)] =
                 [Claimed(f) EXCEPT !.state = "closed", !.version = @ + 1,
                                    !.closings = @ + 1]]
  /\ Ends(f)
  /\ UNCHANGED <<commits, origin, root, tip, lost, verified, proof>>

(* markPendingVerification comments once per integrated revision; a result  *)
(* that still requires reverification goes on to it.  The call may fail     *)
(* although it takes effect.                                                *)
Mark(f) ==
  LET item == issue[I(f)] IN
  /\ At(f, "mark")
  /\ issue' = [issue EXCEPT ![I(f)].marks = @ \cup {fin[f].merge},
                            ![I(f)].version = IF fin[f].merge \in item.marks THEN @ ELSE @ + 1]
  /\ \/ /\ fin[f].requires = "yes"
        /\ Goto(f, "reverify")
        /\ UNCHANGED lawful
     \/ Ends(f)
  /\ UNCHANGED <<commits, origin, root, tip, lost, verified, proof>>

-----------------------------------------------------------------------------
(* finalizeWithPostIntegrationReverification and                            *)
(* reverifyExactIntegratedMain, outside the lock.                           *)

(* finalizeIssue again, for the exact main that was verified.               *)
Again(f) ==
  fin' = [fin EXCEPT ![f] = [Idle EXCEPT !.pc = "lease", !.cand = fin[f].cand,
                              !.fp = fin[f].fp, !.vim = fin[f].merge, !.tries = NextTry(f)]]

(* main-advanced: the revision to verify is the one that is there now.      *)
Advanced(f) ==
  fin' = [fin EXCEPT ![f].pc = "reverify", ![f].merge = origin, ![f].tries = NextTry(f)]

Fetched(f) == root' = [root EXCEPT ![R(f)].tracking = origin]

Reverify(f) ==
  /\ At(f, "reverify")
  /\ \/ /\ fin[f].tries = MaxReverifications
        /\ Ends(f)
        /\ UNCHANGED root
     \/ /\ fin[f].tries < MaxReverifications
        /\ Fetched(f)
        /\ \/ origin # fin[f].merge /\ Advanced(f)
           \/ /\ origin = fin[f].merge
              /\ proof[Branch(f)] = <<fin[f].cand, origin>>
              /\ Again(f)
           \/ /\ origin = fin[f].merge
              /\ proof[Branch(f)] # <<fin[f].cand, origin>>
              /\ Goto(f, "checks")
        /\ UNCHANGED lawful
  /\ UNCHANGED <<commits, origin, tip, issue, lost, verified, proof>>

(* The required checks pass in a worktree of that exact revision.           *)
Checks(f) ==
  /\ At(f, "checks")
  /\ verified' = verified \cup {Tree(fin[f].merge)}
  /\ Goto(f, "confirm")
  /\ UNCHANGED <<commits, origin, root, tip, issue, lost, proof, lawful>>

(* The proof is written only if that revision is still main.                *)
Confirm(f) ==
  /\ At(f, "confirm")
  /\ Fetched(f)
  /\ \/ /\ origin = fin[f].merge
        /\ proof' = [proof EXCEPT ![Branch(f)] = <<fin[f].cand, origin>>]
        /\ Again(f)
     \/ /\ origin # fin[f].merge
        /\ Advanced(f)
        /\ UNCHANGED proof
  /\ UNCHANGED <<commits, origin, tip, issue, lost, verified, lawful>>

-----------------------------------------------------------------------------
(* A refusal or an error of a call without effect; the lock is given back.  *)
Fails(f) ==
  /\ \/ fin[f].pc \in Steps \ {"idle", "base", "merge", "push", "undo"}
     \/ At(f, "base") /\ ~TipUnmoved(f)
     \/ At(f, "merge") /\ (root[R(f)].dirt \cap {"edits", "conflict"} # {} \/ ~Room)
  /\ root' = IF fin[f].pc \in Locked THEN [root EXCEPT ![R(f)] = Unlocked(R(f))] ELSE root
  /\ Ends(f)
  /\ UNCHANGED <<commits, origin, tip, issue, lost, verified, proof>>

(* The process dies and is started again; its lock file stays.              *)
Crash(f) ==
  /\ f \in Mortal
  /\ ~At(f, "idle")
  /\ Ends(f)
  /\ UNCHANGED <<commits, origin, root, tip, issue, lost, verified, proof>>

-----------------------------------------------------------------------------
(* refreshMainAtIssueBoundary, under a lock of its own: with a clean root,  *)
(* publish local main if it is ahead, fast-forward it if it is behind.      *)

Refresh(r) ==
  LET head == root[r].head IN
  /\ r \in Refreshing
  /\ root[r].refresh = "idle"
  /\ root[r].dirt = {}
  /\ r \in Shared \/ Quiet(r)
  /\ root' = [root EXCEPT
       ![r].tracking = origin,
       ![r].refresh = IF head # origin /\ Contains(head, origin) THEN "publish"
                      ELSE IF head # origin /\ Contains(origin, head) THEN "forward"
                      ELSE "idle"]
  /\ UNCHANGED <<commits, origin, tip, issue, lost, verified, proof, fin, lawful>>

RefreshPublish(r) ==
  LET head == root[r].head IN
  /\ root[r].refresh = "publish"
  /\ \/ /\ Accepts(head)
        /\ origin' = head
        /\ root' = [root EXCEPT ![r].tracking = head, ![r].refresh = "idle"]
     \/ /\ root' = [root EXCEPT ![r].tracking = origin, ![r].refresh = "idle"]
        /\ UNCHANGED origin
  /\ UNCHANGED <<commits, tip, issue, lost, verified, proof, fin, lawful>>

RefreshForward(r) ==
  LET main == root[r].tracking IN
  /\ root[r].refresh = "forward"
  /\ root' = [root EXCEPT ![r].refresh = "idle",
                          ![r].head = IF Contains(main, @) THEN main ELSE @]
  /\ UNCHANGED <<commits, origin, tip, issue, lost, verified, proof, fin, lawful>>

-----------------------------------------------------------------------------
(* The environment.                                                         *)

Foreign == Room /\ Cardinality(DOMAIN anc \ merges) <= MaxForeign + Cardinality(Issue)

(* Somebody else's commit lands on main.                                    *)
ForeignPush ==
  /\ Foreign
  /\ AddCommit({origin})
  /\ origin' = NewCommit
  /\ UNCHANGED <<merges, root, tip, issue, lost, verified, proof, fin, lawful>>

(* The issue branch advances past its candidate.                            *)
Advance(b) ==
  /\ Foreign
  /\ AddCommit({tip[b]})
  /\ tip' = [tip EXCEPT ![b] = NewCommit]
  /\ UNCHANGED <<merges, origin, root, issue, lost, verified, proof, fin, lawful>>

(* A lease that expired, was taken over or was released is not the run's    *)
(* again (IssueLease).                                                      *)
LeaseMoves(i) ==
  LET gone == lost \cup {issue[i].owner} IN
  /\ issue[i].owner # NoOne
  /\ lost' = gone
  /\ \E f \in (Runs(i) \ gone) \cup {NoOne} : issue' = [issue EXCEPT ![i].owner = f]
  /\ UNCHANGED <<commits, origin, root, tip, verified, proof, fin, lawful>>

(* A comment, label or body edit by somebody else.                          *)
Comment(i) ==
  /\ i \in Discussed
  /\ issue[i].version < MaxVersion
  /\ issue' = [issue EXCEPT ![i].version = @ + 1]
  /\ UNCHANGED <<commits, origin, root, tip, lost, verified, proof, fin, lawful>>

(* The operator edits tracked files of the root, commits none of it, and    *)
(* cleans up after a conflict.                                              *)
OperatorEdits(r) ==
  /\ r \in Operated
  /\ root' = [root EXCEPT ![r].dirt = IF @ \subseteq {"incidents"} THEN @ \cup {"edits"}
                                      ELSE @ \cap {"incidents"}]
  /\ UNCHANGED <<commits, origin, tip, issue, lost, verified, proof, fin, lawful>>

(* A failed finalizer leaves diagnostics in the root's checkout.            *)
Incident(r) ==
  /\ r \in Diagnosing
  /\ Foreign
  /\ root' = [root EXCEPT ![r].dirt = @ \cup {"incidents"}]
  /\ UNCHANGED <<commits, origin, tip, issue, lost, verified, proof, fin, lawful>>

-----------------------------------------------------------------------------
Continues(f) ==
  \/ CommitIncidents(f) \/ PushIncidents(f) \/ CheckLease(f) \/ Lock(f) \/ Fetch(f) \/ SyncMain(f) \/ NoteBase(f)
  \/ Merge(f) \/ MergeConflicts(f) \/ Push(f) \/ Undo(f) \/ Reach(f)
  \/ Recheck(f) \/ Get(f) \/ Close(f) \/ Mark(f)
  \/ Reverify(f) \/ Checks(f) \/ Confirm(f) \/ Fails(f)

Next ==
  \/ \E f \in Finalizer : Start(f) \/ Continues(f) \/ Crash(f)
  \/ \E r \in Root : Refresh(r) \/ RefreshPublish(r) \/ RefreshForward(r)
                      \/ OperatorEdits(r) \/ Incident(r)
  \/ \E i \in Issue : LeaseMoves(i) \/ Comment(i)
  \/ \E b \in Root \X Issue : Advance(b)
  \/ ForeignPush

Spec == Init /\ [][Next]_vars

(* Every command a finalizer waits for ends; a finalizer runs on.           *)
FairSpec == Spec /\ \A f \in Finalizer : WF_vars(Continues(f))

-----------------------------------------------------------------------------
(* Properties.                                                              *)

(* An issue that finalizeIssue reports closed has its candidate on main in  *)
(* a revision whose exact tree passed the required checks, whatever else    *)
(* landed on main meanwhile ("requiresReverification").                     *)
VerifiedClosure ==
  \A i \in Issue : \A c \in issue[i].claims :
    /\ Contains(c[2], c[1])
    /\ Contains(origin, c[2])
    /\ Tree(c[2]) \in verified

(* A finalizer about to close still held its lease, over the issue it was   *)
(* verified against, when its candidate was proven to be on main: losing    *)
(* either during the integration leaves the issue open.                     *)
FencedClosure ==
  \A f \in Finalizer : At(f, "close") => f \in lawful

(* A retry after a crash or a failed call never closes the issue again, nor *)
(* repeats its close comment.                                               *)
ClosedOnce ==
  \A i \in Issue : issue[i].closings <= 1

(* Outside the lock no promotion merge is left unpublished in the root: a   *)
(* failed promotion takes back its merge, whatever the refresh, the         *)
(* operator and the incident commits of the same root do, where its reset   *)
(* works.                                                                   *)
RootPublished ==
  \A r \in Root :
    (\A f \in Finalizer : R(f) = r => fin[f].pc \notin Locked)
      => \A c \in merges \cap anc[root[r].head] : Contains(origin, c)

(* A finalization ends although other promotions and commits of others move *)
(* main under it, pushes fail and other runs hold the lock: it runs out of  *)
(* attempts and of reverifications.                                         *)
FinalizeReturns ==
  \A f \in Finalizer : ~At(f, "idle") ~> At(f, "idle")
=============================================================================

---------------------------- MODULE Verification ----------------------------
(***************************************************************************)
(* External verification of one issue: structured comments of the issue    *)
(* ask for checks nobody in here can run and record their results          *)
(* (src/coordination/work-authority.ts).  A finalizer                      *)
(* (src/lifecycle/bootstrap-finalize.ts around finalizeIssue in            *)
(* src/coordination/finalize.ts) integrates the candidate, and leaves the  *)
(* issue open with a marker while a check is pending; a later run closes   *)
(* it.  Every call of gh is a step: between two of them people and         *)
(* pipelines comment, main advances, the finalizer dies, or the reply to a *)
(* comment that was posted is lost.                                        *)
(*                                                                         *)
(* One finalizer runs at a time (LifecycleLock), and what git and the      *)
(* checks decide is left to Finalize and Lifecycle: here a run may always  *)
(* give up.  Revisions of main are numbered.                               *)
(***************************************************************************)
EXTENDS Naturals, Sequences, SequencesExt

CONSTANTS
  EarlyAsk,   \* whether somebody asks for a check before the candidate is on main
  MaxMain,    \* bound: revisions of main
  MaxPosts,   \* bound: comments of others
  MaxTries    \* bound: runs of the finalizer

(* What is assumed of the constants.                                        *)
VerificationAssumption == EarlyAsk \in BOOLEAN /\ {MaxMain, MaxPosts, MaxTries} \subseteq Nat

VARIABLES
  main,       \* the revision of origin's main
  candidate,  \* where the candidate is: on its "branch", on "main", or integrated and cleaned up
  issue,      \* the live issue: open, and its structured comments
  run,        \* the finalizer: its step and what it has read
  posts, tries

vars == <<main, candidate, issue, run, posts, tries>>

Pending(sha) == [kind |-> "pending", sha |-> sha]
Result(sha, status) == [kind |-> "result", sha |-> sha, status |-> status]
Comment == {Pending(s) : s \in 1 .. MaxMain} \cup {Result(s, r) : s \in 1 .. MaxMain, r \in {"passed", "failed"}}

Idle == [at |-> "idle"]

(* run.first is the issue as read when the run began, run.read as last      *)
(* read.                                                                    *)
TypeOK ==
  /\ main \in 1 .. MaxMain
  /\ candidate \in {"branch", "main", "cleaned"}
  /\ issue.open \in BOOLEAN /\ issue.thread \in Seq(Comment)
  /\ run.at \in {"idle", "merge", "fence", "mark", "post", "close", "clean"}

Init ==
  /\ main = 1 /\ candidate = "branch"
  /\ issue = [open |-> TRUE, thread |-> <<>>]
  /\ run = Idle /\ posts = 0 /\ tries = 0

-----------------------------------------------------------------------------
(* Operators named X_Y are X with a plausible bug; no specification uses    *)
(* them.  They show that the properties below would notice.                 *)

Marked(thread, kind) == {c \in ToSet(thread) : c.kind = kind}

(* strictMarkedJson: the markers of a kind are all the same, or every       *)
(* reading of the issue throws, and so does every listing of candidates.    *)
Readable(thread) == \A a, b \in ToSet(thread) : a.kind = b.kind => a = b

(* isAwaitingExternalVerification: no result yet for the revision that is   *)
(* to be checked.                                                           *)
Awaiting(pending, results) == \A p \in pending : p.sha \notin {r.sha : r \in results}

(* externalVerificationGate                                                 *)
Gate(thread) ==
  LET pending == Marked(thread, "pending")
      results == Marked(thread, "result")
  IN CASE pending = {} -> "clear"
       [] Awaiting(pending, results) -> "pending"
       [] OTHER -> IF "failed" \in {r.status : r \in results} THEN "failed" ELSE "clear"

(* An operator or a deploy pipeline asks for a check of what is on main.    *)
Post(c) ==
  /\ posts < MaxPosts
  /\ issue' = [issue EXCEPT !.thread = Append(@, c)]
  /\ posts' = posts + 1
  /\ UNCHANGED <<main, candidate, run, tries>>

Ask == (EarlyAsk \/ candidate # "branch") /\ Post(Pending(main))

(* It reports on a revision that was to be checked, or on an earlier one.   *)
Answer == \E s \in 1 .. main, status \in {"passed", "failed"} : Post(Result(s, status))

(* Others push to main; they may integrate the candidate.                   *)
Advance ==
  /\ main < MaxMain
  /\ main' = main + 1
  /\ candidate' \in {candidate, IF candidate = "branch" THEN "main" ELSE candidate}
  /\ UNCHANGED <<issue, run, posts, tries>>

(* After a failed check there is a new implementation.                      *)
Reimplement ==
  /\ candidate = "cleaned" /\ issue.open /\ run = Idle
  /\ Gate(issue.thread) = "failed"
  /\ candidate' = "branch"
  /\ UNCHANGED <<main, issue, run, posts, tries>>

-----------------------------------------------------------------------------
(* The run reads the issue, and with it whether a check is pending.  When   *)
(* nothing is left of the branch it has nothing to integrate.               *)
Begin ==
  /\ run = Idle /\ tries < MaxTries
  /\ tries' = tries + 1
  /\ LET gate == Gate(issue.thread) IN
     run' = IF ~ Readable(issue.thread) \/ gate = "failed" THEN Idle
            ELSE IF candidate # "cleaned"
                 THEN [at |-> "merge", gate |-> gate, first |-> issue, read |-> issue, sha |-> 0]
            ELSE IF gate = "clear" /\ issue.open
                 THEN [at |-> "close", gate |-> gate, first |-> issue, read |-> issue, sha |-> 0]
            ELSE Idle
  /\ UNCHANGED <<main, candidate, issue, posts>>

(* The candidate is merged and pushed, or is on main already: then the      *)
(* revision to be checked is the present one.                               *)
Integrate ==
  /\ run.at = "merge"
  /\ IF candidate = "branch"
     THEN main < MaxMain /\ main' = main + 1 /\ candidate' = "main"
     ELSE UNCHANGED <<main, candidate>>
  /\ run' = [run EXCEPT !.at = "fence", !.sha = main']
  /\ UNCHANGED <<issue, posts, tries>>

(* The issue is read again: a difference withholds closure and marker, and  *)
(* the workspace is cleaned up all the same.                                *)
Fence_Unfenced ==
  /\ run.at = "fence"
  /\ run' = [run EXCEPT !.at = IF run.gate = "pending" THEN "mark" ELSE IF issue.open THEN "close" ELSE "clean",
                        !.read = issue]
  /\ UNCHANGED <<main, candidate, issue, posts, tries>>
Fence ==
  /\ run.at = "fence"
  /\ run' = IF ~ Readable(issue.thread) THEN Idle
            ELSE [run EXCEPT !.at = IF issue # run.first THEN "clean"
                                    ELSE IF run.gate = "pending" THEN "mark"
                                    ELSE IF issue.open THEN "close" ELSE "clean",
                             !.read = issue]
  /\ UNCHANGED <<main, candidate, issue, posts, tries>>

(* markPendingVerification: the issue is read once more, and the marker     *)
(* posted unless the very same comment is there.                            *)
Mark ==
  /\ run.at = "mark"
  /\ run' = IF ~ Readable(issue.thread) THEN Idle
            ELSE [run EXCEPT !.at = IF Contains(issue.thread, Pending(run.sha)) THEN "clean" ELSE "post", !.read = issue]
  /\ UNCHANGED <<main, candidate, issue, posts, tries>>

(* The reply may be lost.                                                   *)
PostMarker ==
  /\ run.at = "post"
  /\ issue' = [issue EXCEPT !.thread = Append(@, Pending(run.sha))]
  /\ run' \in {[run EXCEPT !.at = "clean"], Idle}
  /\ UNCHANGED <<main, candidate, posts, tries>>

Close ==
  /\ run.at = "close"
  /\ issue' = [issue EXCEPT !.open = FALSE]
  /\ run' \in {[run EXCEPT !.at = "clean"], Idle}
  /\ UNCHANGED <<main, candidate, posts, tries>>

Clean ==
  /\ run.at = "clean"
  /\ candidate' = "cleaned"
  /\ run' = Idle
  /\ UNCHANGED <<main, issue, posts, tries>>

(* The run fails, or its process dies.                                      *)
GiveUp ==
  /\ run # Idle
  /\ run' = Idle
  /\ UNCHANGED <<main, candidate, issue, posts, tries>>

Next ==
  \/ Ask \/ Answer \/ Advance \/ Reimplement
  \/ Begin \/ Integrate \/ Fence \/ Mark \/ PostMarker \/ Close \/ Clean \/ GiveUp

Spec == Init /\ [][Next]_vars

-----------------------------------------------------------------------------
(* src/lifecycle/bootstrap-finalize.ts:113-118: comments that others post   *)
(* before or while a run integrates hold the issue open.  When it is        *)
(* closed, then by a run that last read it after the integration (or had    *)
(* nothing to integrate), and there every revision that was to be checked   *)
(* had passed, with no result to the contrary.                              *)
Settled(thread) ==
  \A p \in Marked(thread, "pending") :
    Result(p.sha, "passed") \in ToSet(thread) /\ Result(p.sha, "failed") \notin ToSet(thread)

ClosedSettled == [][issue.open /\ ~ issue'.open => run.at = "close" /\ Settled(run.read.thread)]_vars

(* test/bootstrap-finalize.test.ts:240-242 says that finalizeIssue          *)
(* "re-records its own pendingVerification with the exact mergeSha it just  *)
(* integrated, overwriting whatever integratedMainSha" was there.  The      *)
(* marker the finalizer posts leaves the issue one that can be read.        *)
MarkedReadable == [][PostMarker /\ Readable(issue.thread) => Readable(issue'.thread)]_vars
=============================================================================

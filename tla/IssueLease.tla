----------------------------- MODULE IssueLease -----------------------------
(***************************************************************************)
(* The issue lease protocol of src/coordination/issue-leases.ts over the   *)
(* GitHub-backed store: runs claim, renew, release and resume the lease of *)
(* ONE issue through compare-and-swap writes of a git ref.                 *)
(*                                                                         *)
(* The ref is an append-only chain of commits (the code never deletes it,  *)
(* a release commits a blank record), so the store is its revision number  *)
(* and the record at its head.  Every GitHub call has a client timeout     *)
(* that does not undo the request: a write may be applied although its     *)
(* caller saw an error, and may be applied later.  Such writes stay in     *)
(* `wire' until the server handles them; one that is lost is never         *)
(* handled.                                                                *)
(***************************************************************************)
EXTENDS Integers, FiniteSets

CONSTANTS
  Run,              \* run identities (runId and sessionId of a lease)
  HeartbeatRun,     \* runs of the production scheduler and the explicit
                    \* command: a heartbeat, no lease in durable loop state;
                    \* the others are runs of the legacy loop: no heartbeat,
                    \* the lease is saved in LoopState and can be resumed
  NoRun,            \* owner of a blank record
  Duration,         \* ISSUE_LEASE_DURATION_MS, in clock ticks
  MaxClaimAttempts, \* MAX_CLAIM_ATTEMPTS
  MaxClock,         \* bound: the clock stops here
  MaxRev,           \* bound: the ref moves at most this often
  MaxWire           \* bound: writes outstanding at the same time

ASSUME LeaseAssumption ==
  /\ HeartbeatRun \subseteq Run
  /\ NoRun \notin Run
  /\ Duration \in Nat \ {0}
  /\ MaxClaimAttempts \in Nat \ {0}
  /\ MaxClock \in Nat
  /\ MaxRev \in Nat
  /\ MaxWire \in Nat

VARIABLES
  store,    \* head of refs/leases/issues/<N>: [rev, owner, expires]
  wire,     \* writes sent and not yet handled by the server
  clock,    \* real time; every machine reads the same clock
  pc,       \* where each run is
  now,      \* the `now' a run sampled when its operation began
  attempt,  \* loop counter of claimIssueLease
  acked,    \* the write the run waits for was applied
  copy,     \* expiry of the lease object the run holds
  beating,  \* the heartbeat timer is running
  saved,    \* the lease is in the run's durable LoopState
  verdict   \* how the run's last operation ended

vars == <<store, wire, clock, pc, now, attempt, acked, copy, beating, saved, verdict>>

Blank == [rev |-> 0, owner |-> NoRun, expires |-> 0]

Kinds == {"claim", "renew", "release"}

Writes == [run : Run, kind : Kinds, expected : Nat, expires : Nat, awaited : BOOLEAN]

Reading == {"claim_read", "claim_reread", "renew_read", "release_read",
            "resume_read", "recover_read"}

Sending == {"claim_sent", "renew_sent", "release_sent"}

Verdicts == {"none", "conflict", "failed", "released"}

(* A run that has been handed a lease and has not begun to release it.     *)
Owning == {"held", "renew_read", "renew_sent"}

TypeOK ==
  /\ store \in [rev : Nat, owner : Run \cup {NoRun}, expires : Nat]
  /\ wire \subseteq Writes
  /\ clock \in Nat
  /\ pc \in [Run -> {"idle", "held", "crashed"} \cup Reading \cup Sending]
  /\ now \in [Run -> Nat]
  /\ attempt \in [Run -> 0 .. MaxClaimAttempts - 1]
  /\ acked \in [Run -> BOOLEAN]
  /\ copy \in [Run -> Nat]
  /\ beating \in [Run -> BOOLEAN]
  /\ saved \in [Run -> BOOLEAN]
  /\ verdict \in [Run -> Verdicts]

Init ==
  /\ store = Blank
  /\ wire = {}
  /\ clock = 0
  /\ pc = [r \in Run |-> "idle"]
  /\ now = [r \in Run |-> 0]
  /\ attempt = [r \in Run |-> 0]
  /\ acked = [r \in Run |-> FALSE]
  /\ copy = [r \in Run |-> 0]
  /\ beating = [r \in Run |-> FALSE]
  /\ saved = [r \in Run |-> FALSE]
  /\ verdict = [r \in Run |-> "none"]

-----------------------------------------------------------------------------
(* Operators named X_Y are X with a plausible bug; no specification uses    *)
(* them.  They show that the properties below would notice.                 *)

(* isIssueLeaseFresh of the record at the head of the ref.  A blank record  *)
(* expires at 0 and is never fresh, as read() returns undefined for it.     *)
FreshAt_Early(t) == store.expires > t + 1
FreshAt(t) == store.expires > t

(* issueLeaseMatchesOwner of that record.                                   *)
OwnedBy_Anyone(r) == store.owner # NoRun
OwnedBy(r) == store.owner = r

(* The ref update is a fast-forward of the expected revision.               *)
FastForward_Forced(w) == TRUE
FastForward(w) == w.expected = store.rev

(* The attempt counter of claimIssueLease.                                  *)
LastAttempt(r) == attempt[r] = MaxClaimAttempts - 1

NextAttempt_Stuck(r) == attempt[r]
NextAttempt(r) == attempt[r] + 1

(* The run's outstanding write loses its caller.                            *)
Orphan(r) == {w \in wire : w.run # r} \cup
             {[w EXCEPT !.awaited = FALSE] : w \in {v \in wire : v.run = r}}

(* A non-forced ref update whose commit is a child of the revision just     *)
(* read; it may also fail before the request leaves the client.             *)
Send(r, kind, expires) ==
  \/ /\ Cardinality(wire) < MaxWire
     /\ wire' = wire \cup {[run |-> r, kind |-> kind, expected |-> store.rev,
                            expires |-> expires, awaited |-> TRUE]}
  \/ UNCHANGED wire

Goto(r, label) == pc' = [pc EXCEPT ![r] = label]

Ends(r, how) ==
  /\ Goto(r, "idle")
  /\ verdict' = [verdict EXCEPT ![r] = how]
  /\ copy' = [copy EXCEPT ![r] = 0]
  /\ UNCHANGED beating

-----------------------------------------------------------------------------
(* The GitHub store.                                                        *)

(* The server handles a write: a fast-forward of the exact expected         *)
(* revision is applied, anything else is refused.                           *)
Land(w) ==
  /\ w \in wire
  /\ wire' = wire \ {w}
  /\ \/ /\ FastForward(w)
        /\ store.rev < MaxRev
        /\ store' = [rev     |-> store.rev + 1,
                     owner   |-> IF w.kind = "release" THEN NoRun ELSE w.run,
                     expires |-> w.expires]
        /\ acked' = [acked EXCEPT ![w.run] = acked[w.run] \/ w.awaited]
     \/ /\ ~FastForward(w)
        /\ UNCHANGED <<store, acked>>
  /\ UNCHANGED <<clock, pc, now, attempt, copy, beating, saved, verdict>>

Tick ==
  /\ clock < MaxClock
  /\ clock' = clock + 1
  /\ UNCHANGED <<store, wire, pc, now, attempt, acked, copy, beating, saved, verdict>>

-----------------------------------------------------------------------------
(* claimIssueLease.                                                         *)

Claim(r) ==
  /\ pc[r] = "idle"
  /\ ~saved[r]
  /\ now' = [now EXCEPT ![r] = clock]
  /\ attempt' = [attempt EXCEPT ![r] = 0]
  /\ verdict' = [verdict EXCEPT ![r] = "none"]
  /\ Goto(r, "claim_read")
  /\ UNCHANGED <<store, wire, clock, acked, copy, beating, saved>>

(* Read the authority; a lease fresh at the sampled `now' is a conflict,    *)
(* otherwise replace the stale lease or create one, against the revision    *)
(* that was read.                                                           *)
ClaimRead(r) ==
  /\ pc[r] = "claim_read"
  /\ \/ /\ FreshAt(now[r])
        /\ Ends(r, "conflict")
        /\ UNCHANGED wire
     \/ /\ ~FreshAt(now[r])
        /\ Send(r, "claim", now[r] + Duration)
        /\ Goto(r, "claim_sent")
        /\ UNCHANGED <<verdict, copy, beating>>
  /\ UNCHANGED <<store, clock, now, attempt, acked, saved>>

ClaimAck(r) ==
  /\ pc[r] = "claim_sent"
  /\ acked[r]
  /\ Goto(r, "held")
  /\ acked' = [acked EXCEPT ![r] = FALSE]
  /\ copy' = [copy EXCEPT ![r] = now[r] + Duration]
  /\ beating' = [beating EXCEPT ![r] = r \in HeartbeatRun]
  /\ UNCHANGED <<store, wire, clock, now, attempt, saved, verdict>>

(* The write was refused, timed out, or its reply was lost.                 *)
ClaimFails(r) ==
  /\ pc[r] = "claim_sent"
  /\ Goto(r, "claim_reread")
  /\ wire' = Orphan(r)
  /\ acked' = [acked EXCEPT ![r] = FALSE]
  /\ UNCHANGED <<store, clock, now, attempt, copy, beating, saved, verdict>>

(* "A failed stale CAS is not proof of a fresh conflict": read again, then  *)
(* retry while the lease is still stale or absent and attempts remain.      *)
ClaimReread(r) ==
  /\ pc[r] = "claim_reread"
  /\ \/ /\ FreshAt(now[r])
        /\ Ends(r, "conflict")
        /\ UNCHANGED attempt
     \/ /\ ~FreshAt(now[r])
        /\ LastAttempt(r)
        /\ Ends(r, "failed")
        /\ UNCHANGED attempt
     \/ /\ ~FreshAt(now[r])
        /\ ~LastAttempt(r)
        /\ attempt' = [attempt EXCEPT ![r] = NextAttempt(r)]
        /\ Goto(r, "claim_read")
        /\ UNCHANGED <<verdict, copy, beating>>
  /\ UNCHANGED <<store, wire, clock, now, acked, saved>>

(* A read that fails is LeaseRecoveryError for claim and resume, stops the  *)
(* heartbeat for good, and makes a release throw.                           *)
ReadFails(r) ==
  /\ \/ /\ pc[r] \in {"claim_read", "claim_reread", "resume_read", "recover_read"}
        /\ Ends(r, "failed")
     \/ /\ pc[r] = "renew_read"
        /\ Goto(r, "held")
        /\ beating' = [beating EXCEPT ![r] = FALSE]
        /\ UNCHANGED <<verdict, copy>>
     \/ /\ pc[r] = "release_read"
        /\ Ends(r, "failed")
  /\ UNCHANGED <<store, wire, clock, now, attempt, acked, saved>>

(* The legacy loop writes activeLease to LoopState once the worktree is     *)
(* attached.                                                                *)
Persist(r) ==
  /\ pc[r] = "held"
  /\ r \notin HeartbeatRun
  /\ ~saved[r]
  /\ saved' = [saved EXCEPT ![r] = TRUE]
  /\ UNCHANGED <<store, wire, clock, pc, now, attempt, acked, copy, beating, verdict>>

-----------------------------------------------------------------------------
(* startIssueLeaseHeartbeat and renewIssueLease.                            *)

Heartbeat(r) ==
  /\ pc[r] = "held"
  /\ beating[r]
  /\ now' = [now EXCEPT ![r] = clock]
  /\ Goto(r, "renew_read")
  /\ UNCHANGED <<store, wire, clock, attempt, acked, copy, beating, saved, verdict>>

RenewRead(r) ==
  /\ pc[r] = "renew_read"
  /\ \/ /\ OwnedBy(r)
        /\ Send(r, "renew", now[r] + Duration)
        /\ Goto(r, "renew_sent")
        /\ UNCHANGED beating
     \/ /\ ~OwnedBy(r)
        /\ Goto(r, "held")
        /\ beating' = [beating EXCEPT ![r] = FALSE]
        /\ UNCHANGED wire
  /\ UNCHANGED <<store, clock, now, attempt, acked, copy, saved, verdict>>

RenewAck(r) ==
  /\ pc[r] = "renew_sent"
  /\ acked[r]
  /\ Goto(r, "held")
  /\ acked' = [acked EXCEPT ![r] = FALSE]
  /\ copy' = [copy EXCEPT ![r] = now[r] + Duration]
  /\ UNCHANGED <<store, wire, clock, now, attempt, beating, saved, verdict>>

RenewFails(r) ==
  /\ pc[r] = "renew_sent"
  /\ Goto(r, "held")
  /\ wire' = Orphan(r)
  /\ acked' = [acked EXCEPT ![r] = FALSE]
  /\ beating' = [beating EXCEPT ![r] = FALSE]
  /\ UNCHANGED <<store, clock, now, attempt, copy, saved, verdict>>

(* The owning generation's signal aborts: no further tick; a renewal        *)
(* already under way is not recalled.                                       *)
AbortHeartbeat(r) ==
  /\ beating[r]
  /\ beating' = [beating EXCEPT ![r] = FALSE]
  /\ UNCHANGED <<store, wire, clock, pc, now, attempt, acked, copy, saved, verdict>>

-----------------------------------------------------------------------------
(* releaseIssueLease; stop() of the heartbeat waits for a renewal under     *)
(* way, so a release begins from "held".                                    *)

Release(r) ==
  /\ pc[r] = "held"
  /\ Goto(r, "release_read")
  /\ beating' = [beating EXCEPT ![r] = FALSE]
  /\ UNCHANGED <<store, wire, clock, now, attempt, acked, copy, saved, verdict>>

ReleaseRead(r) ==
  /\ pc[r] = "release_read"
  /\ \/ /\ store.owner = NoRun
        /\ Ends(r, "released")
        /\ saved' = [saved EXCEPT ![r] = FALSE]
        /\ UNCHANGED wire
     \/ /\ OwnedBy(r)
        /\ Send(r, "release", 0)
        /\ Goto(r, "release_sent")
        /\ UNCHANGED <<verdict, copy, beating, saved>>
     \/ /\ store.owner # NoRun
        /\ ~OwnedBy(r)
        /\ Ends(r, "failed")
        /\ UNCHANGED <<wire, saved>>
  /\ UNCHANGED <<store, clock, now, attempt, acked>>

ReleaseAck(r) ==
  /\ pc[r] = "release_sent"
  /\ acked[r]
  /\ Ends(r, "released")
  /\ acked' = [acked EXCEPT ![r] = FALSE]
  /\ saved' = [saved EXCEPT ![r] = FALSE]
  /\ UNCHANGED <<store, wire, clock, now, attempt>>

ReleaseFails(r) ==
  /\ pc[r] = "release_sent"
  /\ Ends(r, "failed")
  /\ wire' = Orphan(r)
  /\ acked' = [acked EXCEPT ![r] = FALSE]
  /\ UNCHANGED <<store, clock, now, attempt, saved>>

-----------------------------------------------------------------------------
(* Crash, and reconcileIssueLeaseForResume from durable LoopState.          *)

Crash(r) ==
  /\ pc[r] \notin {"idle", "crashed"}
  /\ Goto(r, "crashed")
  /\ wire' = Orphan(r)
  /\ acked' = [acked EXCEPT ![r] = FALSE]
  /\ copy' = [copy EXCEPT ![r] = 0]
  /\ beating' = [beating EXCEPT ![r] = FALSE]
  /\ UNCHANGED <<store, clock, now, attempt, saved, verdict>>

(* Environment assumption: an operator resumes a run only once the requests *)
(* of its previous process were handled or lost for good.                   *)
Resume(r) ==
  /\ pc[r] \in {"idle", "crashed"}
  /\ saved[r]
  /\ \A w \in wire : w.run # r
  /\ now' = [now EXCEPT ![r] = clock]
  /\ attempt' = [attempt EXCEPT ![r] = 0]
  /\ verdict' = [verdict EXCEPT ![r] = "none"]
  /\ Goto(r, "resume_read")
  /\ UNCHANGED <<store, wire, clock, acked, copy, beating, saved>>

ResumeRead(r) ==
  /\ pc[r] = "resume_read"
  /\ \/ /\ store.owner = NoRun
        /\ Ends(r, "failed")
     \/ /\ store.owner # NoRun
        /\ ~OwnedBy(r)
        /\ Ends(r, "conflict")
     \/ /\ OwnedBy(r)
        /\ FreshAt(now[r])
        /\ Goto(r, "held")
        /\ copy' = [copy EXCEPT ![r] = store.expires]
        /\ UNCHANGED <<verdict, beating>>
     \/ /\ OwnedBy(r)
        /\ ~FreshAt(now[r])
        /\ Goto(r, "recover_read")
        /\ UNCHANGED <<verdict, copy, beating>>
  /\ UNCHANGED <<store, wire, clock, now, attempt, acked, saved>>

(* recoverIssueLease: read once more, then the ordinary claim.              *)
RecoverRead(r) ==
  /\ pc[r] = "recover_read"
  /\ \/ /\ FreshAt(now[r])
        /\ Ends(r, "conflict")
     \/ /\ ~FreshAt(now[r])
        /\ Goto(r, "claim_read")
        /\ UNCHANGED <<verdict, copy, beating>>
  /\ UNCHANGED <<store, wire, clock, now, attempt, acked, saved>>

-----------------------------------------------------------------------------
(* Steps a live client takes on its own: every call it waits for returns or *)
(* times out.                                                               *)
ClientStep(r) ==
  \/ ClaimRead(r) \/ ClaimAck(r) \/ ClaimFails(r) \/ ClaimReread(r)
  \/ RenewRead(r) \/ RenewAck(r) \/ RenewFails(r)
  \/ ReleaseRead(r) \/ ReleaseAck(r) \/ ReleaseFails(r)
  \/ ResumeRead(r) \/ RecoverRead(r)

Next ==
  \/ Tick
  \/ \E w \in wire : Land(w)
  \/ \E r \in Run :
       \/ Claim(r) \/ ClientStep(r) \/ ReadFails(r) \/ Persist(r)
       \/ Heartbeat(r) \/ AbortHeartbeat(r) \/ Release(r)
       \/ Crash(r) \/ Resume(r)

Spec == Init /\ [][Next]_vars

(* withAuthorityTimeout bounds every authority call, so a client that waits *)
(* always goes on.  Nothing is assumed of the server, the clock or the      *)
(* operator.                                                                *)
FairSpec == Spec /\ \A r \in Run : WF_vars(ClientStep(r))

-----------------------------------------------------------------------------
(* Properties.                                                              *)

Holding(r) == pc[r] \in Owning /\ copy[r] > clock

(* No two runs ever both own the issue on the strength of an unexpired      *)
(* lease, whatever was delayed, lost or retried (the CAS of                 *)
(* GitHubIssueLeaseAuthority.write with the stale check of claimIssueLease).*)
ExclusiveHolder ==
  \A r, s \in Run : Holding(r) /\ Holding(s) => r = s

(* An unexpired lease is only ever overwritten by a write its owner sent: a *)
(* claim, an abandoned claim that lands late or another run's renewal or    *)
(* release cannot touch it.                                                 *)
FreshLeaseMovedByOwner ==
  [][store' # store /\ store.expires > clock =>
       \E w \in wire : w \notin wire' /\ w.run = store.owner]_vars

(* Once releaseIssueLease has returned normally the store does not name the *)
(* run as owner until it claims again: no renewal of its own still under    *)
(* way at GitHub brings the lease back.                                     *)
ReleaseIsFinal ==
  \A r \in Run : verdict[r] = "released" => store.owner # r

(* claimIssueLease and reconcileIssueLeaseForResume always return: they end *)
(* with a lease or an error within the bounded attempts.                    *)
ClaimSettles ==
  \A r \in Run :
    pc[r] \in {"claim_read", "claim_sent", "claim_reread", "resume_read", "recover_read"}
      ~> pc[r] \in {"idle", "held", "crashed"}

-----------------------------------------------------------------------------
(* The inductive invariant behind them.                                     *)

Awaits == [claim |-> "claim_sent", renew |-> "renew_sent", release |-> "release_sent"]

(* The record at the head was written by an operation that sampled its      *)
(* clock before now; every copy a run holds is no younger.                  *)
StoreInv ==
  /\ store.owner = NoRun => store.expires = 0
  /\ store.owner # NoRun => store.expires <= now[store.owner] + Duration
  /\ \A r \in Run : now[r] <= clock

(* What an outstanding write relies on, if its expected revision is still   *)
(* the head: a claim found the lease stale, a renewal or a release found it *)
(* its own.  A run waits for at most one write.                             *)
WireInv ==
  \A w \in wire :
    /\ \A v \in wire : w.run = v.run /\ w.awaited /\ v.awaited => w = v
    /\ w.expected <= store.rev
    /\ w.kind = "release" => w.expires = 0
    /\ w.kind # "release" => w.expires <= now[w.run] + Duration
    /\ w.awaited => /\ pc[w.run] = Awaits[w.kind]
                    /\ ~acked[w.run]
                    /\ w.kind # "release" => w.expires = now[w.run] + Duration
    /\ acked[w.run] => w.expected < store.rev
    /\ pc[w.run] \notin {"resume_read", "recover_read"}
    /\ w.expected = store.rev =>
         /\ w.kind = "claim" => /\ store.expires <= clock
                                /\ store.expires < w.expires
                                /\ pc[w.run] \notin Owning \cup {"release_read", "release_sent"}
         /\ w.kind = "renew" => store.owner = w.run /\ store.expires <= w.expires
         /\ w.kind = "release" => store.owner = w.run /\ pc[w.run] \notin Owning

(* What a run knows of the store: its unexpired copy is backed by the head, *)
(* and so is an acknowledgement it has not read yet.                        *)
Backed(r, expires) == store.owner = r /\ expires <= store.expires

RunInv ==
  \A r \in Run :
    /\ acked[r] => pc[r] \in Sending
    /\ Holding(r) => Backed(r, copy[r])
    /\ acked[r] /\ pc[r] # "release_sent" /\ now[r] + Duration > clock
         => Backed(r, now[r] + Duration)
    /\ acked[r] /\ pc[r] = "release_sent" => store.owner # r
    /\ verdict[r] = "released" => /\ pc[r] = "idle"
                                  /\ store.owner # r
                                  /\ \A w \in wire : w.run = r => w.expected < store.rev

LeaseInv == TypeOK /\ StoreInv /\ WireInv /\ RunInv

(* The protocol implements the contract a reader of the lease may rely on.  *)
Contract == INSTANCE LeaseContract
              WITH owner <- store.owner, expires <- store.expires

ImplementsContract == Contract!Spec
=============================================================================

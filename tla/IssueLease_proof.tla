-------------------------- MODULE IssueLease_proof --------------------------
(***************************************************************************)
(* Proofs about IssueLease, for any set of runs, lease duration, attempt   *)
(* budget and bounds.                                                      *)
(***************************************************************************)
EXTENDS IssueLease, TLAPS

USE LeaseAssumption DEF LeaseAssumption, OwnedBy, FastForward, LastAttempt, NextAttempt

-----------------------------------------------------------------------------
(* Lemmas about the helpers.                                                *)

(* Orphaning a run's writes changes nothing of a write but `awaited', and   *)
(* only of that run's writes.                                               *)
LEMMA OrphanWrites ==
  ASSUME TypeOK, NEW r \in Run, NEW w \in Orphan(r)
  PROVE  \E v \in wire : /\ w.run = v.run /\ w.kind = v.kind
                         /\ w.expected = v.expected /\ w.expires = v.expires
                         /\ w.awaited => v.awaited /\ v.run # r
                         /\ w \in Writes
<1>1. CASE w \in wire /\ w.run # r
  BY <1>1 DEF TypeOK
<1>2. CASE \E v \in wire : v.run = r /\ w = [v EXCEPT !.awaited = FALSE]
  <2>1. PICK v \in wire : v.run = r /\ w = [v EXCEPT !.awaited = FALSE]
    BY <1>2
  <2>2. v \in Writes
    BY DEF TypeOK
  <2>3. w \in Writes /\ w.run = v.run /\ w.kind = v.kind /\ w.expected = v.expected
        /\ w.expires = v.expires /\ w.awaited = FALSE
    BY <2>1, <2>2 DEF Writes
  <2>4. QED BY <2>3
<1>3. QED BY <1>1, <1>2 DEF Orphan

(* A send adds at most one write, against the revision at the head.         *)
LEMMA SendWrites ==
  ASSUME NEW r \in Run, NEW kind, NEW expires, Send(r, kind, expires),
         NEW w \in wire'
  PROVE  w \in wire \/ w = [run |-> r, kind |-> kind, expected |-> store.rev,
                            expires |-> expires, awaited |-> TRUE]
  BY DEF Send

(* What a send puts on the wire has the type of a write.                    *)
LEMMA SendTyped ==
  ASSUME TypeOK, NEW r \in Run, NEW kind \in Kinds, NEW expires \in Nat,
         Send(r, kind, expires)
  PROVE  wire' \subseteq Writes
<1> DEFINE w == [run |-> r, kind |-> kind, expected |-> store.rev,
                 expires |-> expires, awaited |-> TRUE]
<1>1. store.rev \in Nat
  BY DEF TypeOK
<1>2. w \in Writes
  BY <1>1 DEF Writes
<1>3. wire \subseteq Writes
  BY DEF TypeOK
<1>4. wire' = wire \/ wire' = wire \cup {w}
  BY DEF Send
<1>5. QED BY <1>2, <1>3, <1>4

(* Every variable keeps its type (type correctness of the protocol).        *)
THEOREM TypeCorrect == Spec => []TypeOK
<1>1. Init => TypeOK
  BY DEF Init, TypeOK, Blank, Verdicts
<1>2. TypeOK /\ [Next]_vars => TypeOK'
  <2> SUFFICES ASSUME TypeOK, [Next]_vars PROVE TypeOK'
    OBVIOUS
  <2> USE DEF TypeOK, Goto, Ends, Verdicts, Reading, Sending
  <2>1. CASE UNCHANGED vars
    BY <2>1 DEF vars
  <2>2. CASE Tick
    BY <2>2 DEF Tick
  <2>3. ASSUME NEW w \in wire, Land(w) PROVE TypeOK'
    <3>1. w \in Writes
      OBVIOUS
    <3>2. QED BY <2>3, <3>1 DEF Land, Writes
  <2>4. ASSUME NEW r \in Run, Claim(r) PROVE TypeOK'
    BY <2>4 DEF Claim
  <2>5. ASSUME NEW r \in Run, ClientStep(r) PROVE TypeOK'
    <3>1. Orphan(r) \subseteq Writes
      BY OrphanWrites
    <3>2. "claim" \in Kinds /\ "renew" \in Kinds /\ "release" \in Kinds
      BY DEF Kinds
    <3>3. now[r] + Duration \in Nat /\ 0 \in Nat
      OBVIOUS
    <3>4. CASE ClaimRead(r)
      <4>1. wire' \subseteq Writes
        BY <3>2, <3>3, <3>4, SendTyped DEF ClaimRead
      <4>2. QED BY <3>4, <4>1 DEF ClaimRead
    <3>5. CASE ClaimAck(r)
      BY <3>5, <3>3 DEF ClaimAck
    <3>6. CASE ClaimFails(r)
      BY <3>1, <3>6 DEF ClaimFails
    <3>7. CASE ClaimReread(r)
      BY <3>7 DEF ClaimReread
    <3>8. CASE RenewRead(r)
      <4>1. wire' \subseteq Writes
        BY <3>2, <3>3, <3>8, SendTyped DEF RenewRead
      <4>2. QED BY <3>8, <4>1 DEF RenewRead
    <3>9. CASE RenewAck(r)
      BY <3>9, <3>3 DEF RenewAck
    <3>10. CASE RenewFails(r)
      BY <3>1, <3>10 DEF RenewFails
    <3>11. CASE ReleaseRead(r)
      <4>1. wire' \subseteq Writes
        BY <3>2, <3>3, <3>11, SendTyped DEF ReleaseRead
      <4>2. UNCHANGED <<store, clock, now, attempt, acked>> /\ beating' = beating
        BY <3>11 DEF ReleaseRead
      <4>3. pc' \in [Run -> {"idle", "held", "crashed"} \cup Reading \cup Sending]
        BY <3>11 DEF ReleaseRead
      <4>4. copy' \in [Run -> Nat]
        BY <3>11 DEF ReleaseRead
      <4>5. saved' \in [Run -> BOOLEAN]
        <5>1. saved' = saved \/ saved' = [saved EXCEPT ![r] = FALSE]
          BY <3>11 DEF ReleaseRead
        <5>2. saved \in [Run -> BOOLEAN]
          OBVIOUS
        <5>3. QED BY <5>1, <5>2
      <4>6. verdict' \in [Run -> Verdicts]
        BY <3>11 DEF ReleaseRead
      <4>7. QED BY <4>1, <4>2, <4>3, <4>4, <4>5, <4>6
    <3>12. CASE ReleaseAck(r)
      BY <3>12 DEF ReleaseAck
    <3>13. CASE ReleaseFails(r)
      BY <3>1, <3>13 DEF ReleaseFails
    <3>14. CASE ResumeRead(r)
      BY <3>14 DEF ResumeRead
    <3>15. CASE RecoverRead(r)
      BY <3>15 DEF RecoverRead
    <3>16. QED
      BY <2>5, <3>4, <3>5, <3>6, <3>7, <3>8, <3>9, <3>10, <3>11, <3>12,
         <3>13, <3>14, <3>15 DEF ClientStep
  <2>6. ASSUME NEW r \in Run, ReadFails(r) PROVE TypeOK'
    <3>1. CASE pc[r] = "renew_read" /\ pc' = [pc EXCEPT ![r] = "held"]
      BY <2>6, <3>1 DEF ReadFails
    <3>2. CASE pc' = [pc EXCEPT ![r] = "idle"]
      BY <2>6, <3>2 DEF ReadFails
    <3>3. QED BY <2>6, <3>1, <3>2 DEF ReadFails
  <2>7. ASSUME NEW r \in Run, Persist(r) PROVE TypeOK'
    BY <2>7 DEF Persist
  <2>8. ASSUME NEW r \in Run, Heartbeat(r) PROVE TypeOK'
    BY <2>8 DEF Heartbeat
  <2>9. ASSUME NEW r \in Run, AbortHeartbeat(r) PROVE TypeOK'
    BY <2>9 DEF AbortHeartbeat
  <2>10. ASSUME NEW r \in Run, Release(r) PROVE TypeOK'
    BY <2>10 DEF Release
  <2>11. ASSUME NEW r \in Run, Crash(r) PROVE TypeOK'
    <3>1. Orphan(r) \subseteq Writes
      BY OrphanWrites
    <3>2. QED BY <2>11, <3>1 DEF Crash
  <2>12. ASSUME NEW r \in Run, Resume(r) PROVE TypeOK'
    BY <2>12 DEF Resume
  <2>13. QED
    BY <2>1, <2>2, <2>3, <2>4, <2>5, <2>6, <2>7, <2>8, <2>9, <2>10, <2>11,
       <2>12 DEF Next
<1>3. QED
  BY <1>1, <1>2, PTL DEF Spec

-----------------------------------------------------------------------------
(* The inductive invariant.  One lemma per action, one step per part.       *)

LEMMA InitInv == Init => LeaseInv
  BY DEF Init, LeaseInv, StoreInv, WireInv, RunInv, Blank, Verdicts, TypeOK, Holding, Owning

(* The store's part depends on the store, the clock and the sampled clocks. *)
LEMMA StoreUnmoved ==
  ASSUME StoreInv, UNCHANGED <<store, clock, now>>
  PROVE  StoreInv'
  BY DEF StoreInv

(* Tick only makes records, copies and acknowledgements older.              *)
LEMMA TickKeepsInv ==
  ASSUME LeaseInv, Tick, TypeOK'
  PROVE  (StoreInv /\ WireInv /\ RunInv)'
<1>1. StoreInv'
  BY DEF Tick, LeaseInv, StoreInv, TypeOK
<1>2. WireInv'
  BY DEF Tick, LeaseInv, WireInv, StoreInv, TypeOK, Writes
<1>3. RunInv'
  BY DEF Tick, LeaseInv, RunInv, TypeOK, Holding, Backed
<1>4. QED BY <1>1, <1>2, <1>3

(* Land applies a write only against the revision it relies on; then every  *)
(* other outstanding write is behind the head.                              *)
LEMMA LandKeepsInv ==
  ASSUME LeaseInv, NEW w \in wire, Land(w), TypeOK'
  PROVE  (StoreInv /\ WireInv /\ RunInv)'
<1> USE DEF LeaseInv, TypeOK, Writes
<1>1. wire' = wire \ {w}
  BY DEF Land
<1>2. StoreInv'
  BY DEF Land, StoreInv, WireInv, Kinds
<1>3. WireInv'
  <2>1. CASE w.expected # store.rev
    BY <2>1, <1>1 DEF Land, WireInv
  <2>2. CASE w.expected = store.rev
    <3>1. /\ store'.rev = store.rev + 1
          /\ acked' = [acked EXCEPT ![w.run] = acked[w.run] \/ w.awaited]
          /\ UNCHANGED <<clock, pc, now>>
      BY <2>2 DEF Land
    <3>2. ASSUME NEW v \in wire'
          PROVE  v \in wire /\ v # w /\ v.expected < store'.rev
      BY <1>1, <3>1 DEF WireInv
    <3>3. ASSUME NEW v \in wire', v.awaited
          PROVE  ~acked'[v.run]
      BY <3>1, <3>2, <3>3 DEF WireInv
    <3>4. QED BY <1>1, <3>1, <3>2, <3>3 DEF WireInv
  <2>3. QED BY <2>1, <2>2
<1>4. RunInv'
  BY DEF Land, StoreInv, WireInv, RunInv, Kinds, Awaits, Owning, Holding, Backed, Sending
<1>5. QED BY <1>2, <1>3, <1>4

(* Claim samples the clock.                                                 *)
LEMMA ClaimKeepsInv ==
  ASSUME LeaseInv, NEW r \in Run, Claim(r), TypeOK'
  PROVE  (StoreInv /\ WireInv /\ RunInv)'
<1>1. StoreInv'
  BY DEF Claim, LeaseInv, TypeOK, StoreInv
<1>2. WireInv'
  BY DEF Claim, LeaseInv, TypeOK, Goto, Writes, Kinds, Awaits, Owning,
         StoreInv, WireInv
<1>3. RunInv'
  BY DEF Claim, LeaseInv, TypeOK, Goto, Sending, Owning, Backed, Holding,
         RunInv
<1>4. QED BY <1>1, <1>2, <1>3

(* ClaimRead finds the lease stale, so its write is a takeover of a stale record. *)
LEMMA ClaimReadKeepsInv ==
  ASSUME LeaseInv, NEW r \in Run, ClaimRead(r), TypeOK'
  PROVE  (StoreInv /\ WireInv /\ RunInv)'
<1>1. StoreInv'
  BY StoreUnmoved DEF ClaimRead, LeaseInv
<1>2. WireInv'
  BY DEF ClaimRead, LeaseInv, TypeOK, Goto, Ends, Sending, Writes, Kinds,
         Awaits, Owning, FreshAt, Send, StoreInv, WireInv, RunInv
<1>3. RunInv'
  BY DEF ClaimRead, LeaseInv, TypeOK, Goto, Ends, Sending, Owning, Backed,
         Holding, Send, RunInv
<1>4. QED BY <1>1, <1>2, <1>3

(* ClaimAck turns an acknowledged write into a held lease.                  *)
LEMMA ClaimAckKeepsInv ==
  ASSUME LeaseInv, NEW r \in Run, ClaimAck(r), TypeOK'
  PROVE  (StoreInv /\ WireInv /\ RunInv)'
<1>1. StoreInv'
  BY StoreUnmoved DEF ClaimAck, LeaseInv
<1>2. WireInv'
  BY DEF ClaimAck, LeaseInv, TypeOK, Goto, WireInv
<1>3. RunInv'
  BY DEF ClaimAck, LeaseInv, TypeOK, Goto, Backed, Holding, RunInv
<1>4. QED BY <1>1, <1>2, <1>3

(* ClaimFails leaves its write behind.                                      *)
LEMMA ClaimFailsKeepsInv ==
  ASSUME LeaseInv, NEW r \in Run, ClaimFails(r), TypeOK'
  PROVE  (StoreInv /\ WireInv /\ RunInv)'
<1>1. StoreInv'
  BY StoreUnmoved DEF ClaimFails, LeaseInv
<1>2. WireInv'
  BY DEF ClaimFails, LeaseInv, TypeOK, Goto, Writes, Owning, Orphan,
         WireInv
<1>3. RunInv'
  BY DEF ClaimFails, LeaseInv, TypeOK, Goto, Writes, Owning, Backed,
         Holding, Orphan, RunInv
<1>4. QED BY <1>1, <1>2, <1>3

(* ClaimReread changes only the run's control state.                        *)
LEMMA ClaimRereadKeepsInv ==
  ASSUME LeaseInv, NEW r \in Run, ClaimReread(r), TypeOK'
  PROVE  (StoreInv /\ WireInv /\ RunInv)'
<1>1. StoreInv'
  BY StoreUnmoved DEF ClaimReread, LeaseInv
<1>2. WireInv'
  BY DEF ClaimReread, LeaseInv, TypeOK, Goto, Ends, Writes, Kinds, Awaits,
         Owning, WireInv
<1>3. RunInv'
  BY DEF ClaimReread, LeaseInv, TypeOK, Goto, Ends, Sending, Owning,
         Backed, Holding, RunInv
<1>4. QED BY <1>1, <1>2, <1>3

(* ReadFails changes only the run's control state.                          *)
LEMMA ReadFailsKeepsInv ==
  ASSUME LeaseInv, NEW r \in Run, ReadFails(r), TypeOK'
  PROVE  (StoreInv /\ WireInv /\ RunInv)'
<1>1. StoreInv'
  BY StoreUnmoved DEF ReadFails, LeaseInv
<1>2. WireInv'
  BY DEF ReadFails, LeaseInv, TypeOK, Goto, Ends, Writes, Kinds, Awaits,
         Owning, WireInv
<1>3. RunInv'
  BY DEF ReadFails, LeaseInv, TypeOK, Goto, Ends, Sending, Owning, Backed,
         Holding, RunInv
<1>4. QED BY <1>1, <1>2, <1>3

(* Persist changes only LoopState.                                          *)
LEMMA PersistKeepsInv ==
  ASSUME LeaseInv, NEW r \in Run, Persist(r), TypeOK'
  PROVE  (StoreInv /\ WireInv /\ RunInv)'
<1>1. StoreInv'
  BY StoreUnmoved DEF Persist, LeaseInv
<1>2. WireInv'
  BY DEF Persist, LeaseInv, WireInv
<1>3. RunInv'
  BY DEF Persist, LeaseInv, Backed, Holding, RunInv
<1>4. QED BY <1>1, <1>2, <1>3

(* Heartbeat samples the clock.                                             *)
LEMMA HeartbeatKeepsInv ==
  ASSUME LeaseInv, NEW r \in Run, Heartbeat(r), TypeOK'
  PROVE  (StoreInv /\ WireInv /\ RunInv)'
<1>1. StoreInv'
  BY DEF Heartbeat, LeaseInv, TypeOK, StoreInv
<1>2. WireInv'
  BY DEF Heartbeat, LeaseInv, TypeOK, Goto, Writes, Kinds, Awaits, Owning,
         StoreInv, WireInv
<1>3. RunInv'
  BY DEF Heartbeat, LeaseInv, Goto, Sending, Owning, Backed, Holding,
         RunInv
<1>4. QED BY <1>1, <1>2, <1>3

(* RenewRead finds the lease its own, so its write extends its own record.  *)
LEMMA RenewReadKeepsInv ==
  ASSUME LeaseInv, NEW r \in Run, RenewRead(r), TypeOK'
  PROVE  (StoreInv /\ WireInv /\ RunInv)'
<1>1. StoreInv'
  BY StoreUnmoved DEF RenewRead, LeaseInv
<1>2. WireInv'
  BY DEF RenewRead, LeaseInv, TypeOK, Goto, Sending, Writes, Kinds, Awaits,
         Owning, Send, StoreInv, WireInv, RunInv
<1>3. RunInv'
  BY DEF RenewRead, LeaseInv, TypeOK, Goto, Sending, Owning, Backed,
         Holding, Send, RunInv
<1>4. QED BY <1>1, <1>2, <1>3

(* RenewAck turns an acknowledged write into a longer lease.                *)
LEMMA RenewAckKeepsInv ==
  ASSUME LeaseInv, NEW r \in Run, RenewAck(r), TypeOK'
  PROVE  (StoreInv /\ WireInv /\ RunInv)'
<1>1. StoreInv'
  BY StoreUnmoved DEF RenewAck, LeaseInv
<1>2. WireInv'
  BY DEF RenewAck, LeaseInv, TypeOK, Goto, WireInv
<1>3. RunInv'
  BY DEF RenewAck, LeaseInv, TypeOK, Goto, Backed, Holding, RunInv
<1>4. QED BY <1>1, <1>2, <1>3

(* RenewFails leaves its write behind.                                      *)
LEMMA RenewFailsKeepsInv ==
  ASSUME LeaseInv, NEW r \in Run, RenewFails(r), TypeOK'
  PROVE  (StoreInv /\ WireInv /\ RunInv)'
<1>1. StoreInv'
  BY StoreUnmoved DEF RenewFails, LeaseInv
<1>2. WireInv'
  BY DEF RenewFails, LeaseInv, TypeOK, Goto, Writes, Owning, Orphan,
         WireInv
<1>3. RunInv'
  BY DEF RenewFails, LeaseInv, TypeOK, Goto, Writes, Owning, Backed,
         Holding, Orphan, RunInv
<1>4. QED BY <1>1, <1>2, <1>3

(* AbortHeartbeat changes only the timer.                                   *)
LEMMA AbortHeartbeatKeepsInv ==
  ASSUME LeaseInv, NEW r \in Run, AbortHeartbeat(r), TypeOK'
  PROVE  (StoreInv /\ WireInv /\ RunInv)'
<1>1. StoreInv'
  BY StoreUnmoved DEF AbortHeartbeat, LeaseInv
<1>2. WireInv'
  BY DEF AbortHeartbeat, LeaseInv, WireInv
<1>3. RunInv'
  BY DEF AbortHeartbeat, LeaseInv, Backed, Holding, RunInv
<1>4. QED BY <1>1, <1>2, <1>3

(* Release ends the holding of the lease.                                   *)
LEMMA ReleaseKeepsInv ==
  ASSUME LeaseInv, NEW r \in Run, Release(r), TypeOK'
  PROVE  (StoreInv /\ WireInv /\ RunInv)'
<1>1. StoreInv'
  BY StoreUnmoved DEF Release, LeaseInv
<1>2. WireInv'
  BY DEF Release, LeaseInv, TypeOK, Goto, Writes, Kinds, Awaits, Owning,
         WireInv
<1>3. RunInv'
  BY DEF Release, LeaseInv, Goto, Sending, Owning, Backed, Holding, RunInv
<1>4. QED BY <1>1, <1>2, <1>3

(* ReleaseRead finds the lease its own, or already gone.                    *)
LEMMA ReleaseReadKeepsInv ==
  ASSUME LeaseInv, NEW r \in Run, ReleaseRead(r), TypeOK'
  PROVE  (StoreInv /\ WireInv /\ RunInv)'
<1>1. StoreInv'
  BY StoreUnmoved DEF ReleaseRead, LeaseInv
<1>2. WireInv'
  BY DEF ReleaseRead, LeaseInv, TypeOK, Goto, Ends, Sending, Writes, Kinds,
         Awaits, Owning, Send, WireInv, RunInv
<1>3. RunInv'
  <2> USE DEF LeaseInv, TypeOK, Writes, Goto, Ends, Owning, Holding, Backed, Sending
  <2>1. CASE store.owner = NoRun /\ Ends(r, "released") /\ UNCHANGED wire
    <3>1. \A w \in wire : w.run = r => w.expected < store.rev
      BY <2>1 DEF ReleaseRead, WireInv, Kinds
    <3>2. QED BY <2>1, <3>1 DEF ReleaseRead, RunInv
  <2>2. CASE store.owner = r
    BY <2>2 DEF ReleaseRead, RunInv, Send
  <2>3. CASE store.owner \notin {r, NoRun}
    BY <2>3 DEF ReleaseRead, RunInv
  <2>4. QED BY <2>1, <2>2, <2>3 DEF ReleaseRead
<1>4. QED BY <1>1, <1>2, <1>3

(* ReleaseAck makes the release final.                                      *)
LEMMA ReleaseAckKeepsInv ==
  ASSUME LeaseInv, NEW r \in Run, ReleaseAck(r), TypeOK'
  PROVE  (StoreInv /\ WireInv /\ RunInv)'
<1>1. StoreInv'
  BY StoreUnmoved DEF ReleaseAck, LeaseInv
<1>2. WireInv'
  BY DEF ReleaseAck, LeaseInv, TypeOK, Goto, Ends, WireInv
<1>3. RunInv'
  BY DEF ReleaseAck, LeaseInv, TypeOK, Goto, Ends, Backed, Holding,
         WireInv, RunInv
<1>4. QED BY <1>1, <1>2, <1>3

(* ReleaseFails leaves its write behind.                                    *)
LEMMA ReleaseFailsKeepsInv ==
  ASSUME LeaseInv, NEW r \in Run, ReleaseFails(r), TypeOK'
  PROVE  (StoreInv /\ WireInv /\ RunInv)'
<1>1. StoreInv'
  BY StoreUnmoved DEF ReleaseFails, LeaseInv
<1>2. WireInv'
  BY DEF ReleaseFails, LeaseInv, TypeOK, Goto, Ends, Writes, Owning,
         Orphan, WireInv
<1>3. RunInv'
  BY DEF ReleaseFails, LeaseInv, TypeOK, Goto, Ends, Writes, Backed,
         Holding, Orphan, RunInv
<1>4. QED BY <1>1, <1>2, <1>3

(* Crash leaves its writes behind.                                          *)
LEMMA CrashKeepsInv ==
  ASSUME LeaseInv, NEW r \in Run, Crash(r), TypeOK'
  PROVE  (StoreInv /\ WireInv /\ RunInv)'
<1>1. StoreInv'
  BY StoreUnmoved DEF Crash, LeaseInv
<1>2. WireInv'
  BY DEF Crash, LeaseInv, TypeOK, Goto, Writes, Owning, Orphan, WireInv
<1>3. RunInv'
  BY DEF Crash, LeaseInv, TypeOK, Goto, Writes, Backed, Holding, Orphan,
         RunInv
<1>4. QED BY <1>1, <1>2, <1>3

(* Resume starts with none of the run's writes outstanding.                 *)
LEMMA ResumeKeepsInv ==
  ASSUME LeaseInv, NEW r \in Run, Resume(r), TypeOK'
  PROVE  (StoreInv /\ WireInv /\ RunInv)'
<1>1. StoreInv'
  BY DEF Resume, LeaseInv, TypeOK, StoreInv
<1>2. WireInv'
  BY DEF Resume, LeaseInv, Goto, WireInv
<1>3. RunInv'
  BY DEF Resume, LeaseInv, TypeOK, Goto, Sending, Owning, Backed, Holding,
         RunInv
<1>4. QED BY <1>1, <1>2, <1>3

(* ResumeRead adopts the record the store names.                            *)
LEMMA ResumeReadKeepsInv ==
  ASSUME LeaseInv, NEW r \in Run, ResumeRead(r), TypeOK'
  PROVE  (StoreInv /\ WireInv /\ RunInv)'
<1>1. StoreInv'
  BY StoreUnmoved DEF ResumeRead, LeaseInv
<1>2. WireInv'
  BY DEF ResumeRead, LeaseInv, TypeOK, Goto, Ends, Writes, WireInv
<1>3. RunInv'
  BY DEF ResumeRead, LeaseInv, TypeOK, Goto, Ends, Sending, Owning, Backed,
         Holding, RunInv
<1>4. QED BY <1>1, <1>2, <1>3

(* RecoverRead changes only the run's control state.                        *)
LEMMA RecoverReadKeepsInv ==
  ASSUME LeaseInv, NEW r \in Run, RecoverRead(r), TypeOK'
  PROVE  (StoreInv /\ WireInv /\ RunInv)'
<1>1. StoreInv'
  BY StoreUnmoved DEF RecoverRead, LeaseInv
<1>2. WireInv'
  BY DEF RecoverRead, LeaseInv, TypeOK, Goto, Ends, Writes, WireInv
<1>3. RunInv'
  BY DEF RecoverRead, LeaseInv, TypeOK, Goto, Ends, Sending, Owning,
         Backed, Holding, RunInv
<1>4. QED BY <1>1, <1>2, <1>3

(* Every step keeps the invariant.                                          *)
LEMMA NextInv == LeaseInv /\ TypeOK' /\ [Next]_vars => LeaseInv'
<1> SUFFICES ASSUME LeaseInv, TypeOK', [Next]_vars PROVE (StoreInv /\ WireInv /\ RunInv)'
  BY DEF LeaseInv
<1>1. CASE UNCHANGED vars
  <2>1. UNCHANGED <<store, wire, clock, pc, now, acked, copy, verdict>>
    BY <1>1 DEF vars
  <2>2. StoreInv'
    BY <2>1, StoreUnmoved DEF LeaseInv
  <2>3. WireInv'
    BY <2>1 DEF LeaseInv, WireInv
  <2>4. RunInv'
    BY <2>1 DEF LeaseInv, RunInv, Holding, Backed
  <2>5. QED BY <2>2, <2>3, <2>4
<1>2. CASE Tick
  BY <1>2, TickKeepsInv
<1>3. CASE \E w \in wire : Land(w)
  BY <1>3, LandKeepsInv
<1>4. ASSUME NEW r \in Run, ClientStep(r) PROVE (StoreInv /\ WireInv /\ RunInv)'
  BY <1>4, ClaimReadKeepsInv, ClaimAckKeepsInv, ClaimFailsKeepsInv,
     ClaimRereadKeepsInv, RenewReadKeepsInv, RenewAckKeepsInv,
     RenewFailsKeepsInv, ReleaseReadKeepsInv, ReleaseAckKeepsInv,
     ReleaseFailsKeepsInv, ResumeReadKeepsInv, RecoverReadKeepsInv
  DEF ClientStep
<1>5. ASSUME NEW r \in Run,
             \/ Claim(r) \/ ReadFails(r) \/ Persist(r) \/ Heartbeat(r)
             \/ AbortHeartbeat(r) \/ Release(r) \/ Crash(r) \/ Resume(r)
      PROVE  (StoreInv /\ WireInv /\ RunInv)'
  BY <1>5, ClaimKeepsInv, ReadFailsKeepsInv, PersistKeepsInv, HeartbeatKeepsInv,
     AbortHeartbeatKeepsInv, ReleaseKeepsInv, CrashKeepsInv, ResumeKeepsInv
<1>6. QED BY <1>1, <1>2, <1>3, <1>4, <1>5 DEF Next

-----------------------------------------------------------------------------
(* The results.                                                             *)

(* The invariant holds in every reachable state: each outstanding write     *)
(* still relies on a true fact about the head or is behind it.              *)
THEOREM LeaseInvariant == Spec => []LeaseInv
<1>1. LeaseInv /\ TypeOK' /\ [Next]_vars => LeaseInv'
  BY NextInv
<1>2. QED BY InitInv, TypeCorrect, <1>1, PTL DEF Spec

(* Two runs never both hold an unexpired lease of the issue, for any number *)
(* of runs, any delay or loss of writes and any lease duration.             *)
THEOREM MutualExclusion == Spec => []ExclusiveHolder
<1>1. LeaseInv => ExclusiveHolder
  BY DEF LeaseInv, RunInv, Backed, ExclusiveHolder
<1>2. QED BY LeaseInvariant, <1>1, PTL

(* A release that returned normally is final until the run claims again.    *)
THEOREM FinalRelease == Spec => []ReleaseIsFinal
<1>1. LeaseInv => ReleaseIsFinal
  BY DEF LeaseInv, RunInv, ReleaseIsFinal
<1>2. QED BY LeaseInvariant, <1>1, PTL

(* What a step may do to the store, given the invariant: a takeover of an   *)
(* expired record, or the owner's own renewal or release.                   *)
LEMMA StoreMoves ==
  ASSUME LeaseInv, NEW w \in wire, Land(w), store' # store
  PROVE  /\ wire' = wire \ {w} /\ w \in Writes /\ clock' = clock
         /\ w.kind = "claim" =>
              /\ store.expires <= clock
              /\ store'.owner = w.run
              /\ store'.expires > store.expires
         /\ w.kind = "renew" =>
              /\ store.owner = w.run
              /\ store'.owner = w.run
              /\ store'.expires >= store.expires
         /\ w.kind = "release" =>
              /\ store.owner = w.run
              /\ store'.owner = NoRun
              /\ store'.expires = 0
<1>1. w \in Writes
  BY DEF LeaseInv, TypeOK
<1>2. w.expected = store.rev
  BY DEF Land
<1>3. store' = [rev |-> store.rev + 1,
                owner |-> IF w.kind = "release" THEN NoRun ELSE w.run,
                expires |-> w.expires]
  BY <1>2 DEF Land
<1>4. wire' = wire \ {w} /\ clock' = clock
  BY DEF Land
<1>5. store.expires \in Nat /\ w.expires \in Nat
  BY <1>1 DEF LeaseInv, TypeOK, Writes
<1>6. QED BY <1>1, <1>2, <1>3, <1>4, <1>5 DEF LeaseInv, WireInv

(* Only Land moves the store.                                               *)
LEMMA OnlyLandMovesStore ==
  ASSUME [Next]_vars, store' # store
  PROVE  \E w \in wire : Land(w)
  BY DEF Next, vars, Tick, ClientStep, Claim, ClaimRead, ClaimAck, ClaimFails,
         ClaimReread, ReadFails, Persist, Heartbeat, RenewRead, RenewAck,
         RenewFails, AbortHeartbeat, Release, ReleaseRead, ReleaseAck,
         ReleaseFails, Crash, Resume, ResumeRead, RecoverRead

(* An unexpired lease is only ever moved by a write of its owner.           *)
THEOREM OwnerMovesFreshLease == Spec => FreshLeaseMovedByOwner
<1>1. ASSUME LeaseInv, [Next]_vars, store' # store, store.expires > clock
      PROVE  \E w \in wire : w \notin wire' /\ w.run = store.owner
  <2>1. PICK w \in wire : Land(w)
    BY <1>1, OnlyLandMovesStore
  <2>2. w.kind \in Kinds
    BY <1>1 DEF LeaseInv, TypeOK, Writes
  <2>3. ~(store.expires <= clock)
    BY <1>1 DEF LeaseInv, TypeOK
  <2>4. QED BY <1>1, <2>1, <2>2, <2>3, StoreMoves DEF Kinds
<1>2. LeaseInv /\ [Next]_vars =>
        [store' # store /\ store.expires > clock =>
           \E w \in wire : w \notin wire' /\ w.run = store.owner]_vars
  BY <1>1
<1>3. QED BY LeaseInvariant, <1>2, PTL DEF Spec, FreshLeaseMovedByOwner

(* The protocol implements the abstract lease: initial states map to        *)
(* initial states, every step to a step of the contract or a stutter.       *)
THEOREM ImplementsLease == Spec => ImplementsContract
<1>1. Init => Contract!Init
  BY DEF Init, Contract!Init, Blank
<1>2. ASSUME LeaseInv, [Next]_vars
      PROVE  [Contract!Next]_<<store.owner, store.expires, clock>>
  <2>1. CASE store' # store
    <3>1. PICK w \in wire : Land(w)
      BY <1>2, <2>1, OnlyLandMovesStore
    <3>2. w.kind \in Kinds /\ w.run \in Run
      BY <1>2 DEF LeaseInv, TypeOK, Writes
    <3>3. \/ Contract!Acquire(w.run)
          \/ Contract!Extend(w.run)
          \/ Contract!GiveUp(w.run)
      BY <1>2, <2>1, <3>1, <3>2, StoreMoves
      DEF Kinds, Contract!Acquire, Contract!Extend, Contract!GiveUp
    <3>4. QED BY <3>2, <3>3 DEF Contract!Next
  <2>2. CASE store' = store /\ clock' = clock
    BY <2>2
  <2>3. CASE store' = store /\ clock' # clock
    <3>1. Tick
      BY <1>2, <2>3
      DEF Next, vars, Land, ClientStep, Claim, ClaimRead, ClaimAck,
          ClaimFails, ClaimReread, ReadFails, Persist, Heartbeat, RenewRead,
          RenewAck, RenewFails, AbortHeartbeat, Release, ReleaseRead,
          ReleaseAck, ReleaseFails, Crash, Resume, ResumeRead, RecoverRead
    <3>2. clock' > clock
      BY <1>2, <3>1 DEF Tick, LeaseInv, TypeOK
    <3>3. QED BY <2>3, <3>2 DEF Contract!Next, Contract!TimePasses
  <2>4. QED BY <2>1, <2>2, <2>3
<1>3. QED
  BY LeaseInvariant, <1>1, <1>2, PTL DEF Spec, ImplementsContract, Contract!Spec
=============================================================================

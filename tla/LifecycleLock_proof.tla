------------------------- MODULE LifecycleLock_proof -------------------------
(* Theorems of LifecycleLock: as long as no process has been killed, one    *)
(* lifecycle at a time works on the issue and a lock left behind can be     *)
(* read, for any number of processes and of heartbeats; one survivor        *)
(* recovers the lock alone.                                                 *)
EXTENDS LifecycleLock, TLAPS

USE LifecycleLockAssumption DEF LifecycleLockAssumption

(* Types of the lock's variables, whoever is killed.                        *)
THEOREM TypeCorrect == Spec => []TypeOK
<1>1. Init => TypeOK
  <2>1. Init => dir \in BOOLEAN
    BY DEF Init
  <2>2. QED
    BY <2>1 DEF Init, TypeOK, Steps, Verdicts, NoRecord
<1>2. ASSUME TypeOK, [Next]_vars
      PROVE  TypeOK'
  <2>1. CASE UNCHANGED vars
    BY <1>2, <2>1 DEF TypeOK, vars
  <2>2. ASSUME NEW p \in Proc,
               \/ Begin(p) \/ Goes(p) \/ Release(p) \/ Die(p)
               \/ Beat(p) \/ BeatOpens(p) \/ BeatFills(p)
        PROVE  TypeOK'
    <3>1. CASE Begin(p) \/ Release(p) \/ Die(p) \/ Beat(p)
      BY <1>2, <3>1 DEF TypeOK, Steps, Verdicts, Begin, Release, Die, Beat, Goto
    <3>2. CASE BeatOpens(p) \/ BeatFills(p)
      <4>1. dir' \in BOOLEAN
        BY <1>2, <3>2 DEF TypeOK, BeatOpens, BeatFills
      <4>2. QED
        BY <1>2, <3>2, <4>1 DEF TypeOK, BeatOpens, BeatFills, Complete, Torn, Whole
    <3>3. CASE Mkdir(p) \/ CreateRecord(p) \/ FillRecord(p)
      <4>1. dir' \in BOOLEAN
        BY <1>2, <3>3, Zenon DEF TypeOK, Mkdir, CreateRecord, FillRecord
      <4>2. QED
        BY <1>2, <3>3, <4>1 DEF TypeOK, Steps, Verdicts, Mkdir, CreateRecord, FillRecord,
           Goto, Ends, Complete, Torn, Whole
    <3>4. CASE Read(p) \/ Probe(p)
      BY <1>2, <3>4 DEF TypeOK, Steps, Verdicts, Read, Probe, Goto, Ends
    <3>5. CASE Clear(p) \/ Rmdir(p) \/ ReleaseClear(p) \/ ReleaseRmdir(p)
      <4>1. dir' \in BOOLEAN
        BY <1>2, <3>5, Zenon DEF TypeOK, Clear, Rmdir, ReleaseClear, ReleaseRmdir, RemoveDir
      <4>2. record' = record \/ record' = NoRecord
        BY <3>5, Zenon DEF Clear, Rmdir, ReleaseClear, ReleaseRmdir, RemoveRecord
      <4>3. QED
        BY <1>2, <3>5, <4>1, <4>2 DEF TypeOK, Steps, Verdicts, Clear, Rmdir,
           ReleaseClear, ReleaseRmdir, Goto, Ends, RemoveRecord, NoRecord
    <3>6. QED
      BY <2>2, <3>1, <3>2, <3>3, <3>4, <3>5 DEF Goes
  <2>3. QED
    BY <1>2, <2>1, <2>2 DEF Next
<1>3. QED
  BY <1>1, <1>2, PTL DEF Spec

(* One step of a process keeps the invariant until somebody is killed.      *)
LEMMA StepKeepsLifecycleLockInv ==
  ASSUME TypeOK, LifecycleLockInv, NEW p \in Proc,
         \/ Begin(p) \/ Goes(p) \/ Release(p)
         \/ Beat(p) \/ BeatOpens(p) \/ BeatFills(p)
  PROVE  LifecycleLockInv'
<1> USE DEF TypeOK, LifecycleLockInv, Inside, NoRecord, Torn, Whole, Goto, Ends
<1>1. CASE Begin(p)
  BY <1>1 DEF Begin
<1>2. CASE Mkdir(p)
  BY <1>2 DEF Mkdir
<1>3. CASE CreateRecord(p)
  BY <1>3 DEF CreateRecord
<1>4. CASE FillRecord(p)
  BY <1>4 DEF FillRecord, Complete
<1>5. CASE Read(p)
  BY <1>5 DEF Read, Readable
<1>6. CASE Probe(p)
  BY <1>6 DEF Probe, Alive
<1>7. CASE Clear(p) \/ Rmdir(p)
  BY <1>7 DEF Clear, Rmdir
<1>8. CASE ReleaseClear(p)
  BY <1>8 DEF ReleaseClear, RemoveRecord
<1>9. CASE ReleaseRmdir(p)
  BY <1>9 DEF ReleaseRmdir, RemoveDir
<1>10. CASE Release(p)
  BY <1>10 DEF Release
<1>11. CASE Beat(p)
  BY <1>11 DEF Beat
<1>12. CASE BeatOpens(p)
  BY <1>12 DEF BeatOpens
<1>13. CASE BeatFills(p)
  BY <1>13 DEF BeatFills, Complete
<1>14. QED
  BY <1>1, <1>2, <1>3, <1>4, <1>5, <1>6, <1>7, <1>8, <1>9, <1>10, <1>11, <1>12, <1>13
     DEF Goes

(* One process at a time is inside until somebody is killed, and only those *)
(* are killed that may be; the dead stay dead.                              *)
UntilDeath ==
  /\ (\A p \in Proc : pc[p] # "dead") => LifecycleLockInv
  /\ \A p \in Proc : pc[p] = "dead" => p \in Mortal

(* The inductive invariant behind both properties, whoever is killed.       *)
THEOREM LifecycleLockInvariant == Spec => []UntilDeath
<1>1. Init => UntilDeath
  BY DEF Init, UntilDeath, LifecycleLockInv, Inside, NoRecord, Torn
<1>2. TypeOK /\ UntilDeath /\ [Next]_vars => UntilDeath'
  <2> SUFFICES ASSUME TypeOK, UntilDeath, [Next]_vars
               PROVE  UntilDeath'
    OBVIOUS
  <2>1. CASE UNCHANGED vars
    BY <2>1 DEF UntilDeath, LifecycleLockInv, Inside, vars
  <2>2. ASSUME NEW p \in Proc,
               \/ Begin(p) \/ Goes(p) \/ Release(p)
               \/ Beat(p) \/ BeatOpens(p) \/ BeatFills(p)
        PROVE  UntilDeath'
    <3>1. \A q \in Proc : pc[q] = "dead" <=> pc'[q] = "dead"
      BY <2>2 DEF TypeOK, Begin, Goes, Mkdir, CreateRecord, FillRecord, Read, Probe, Clear, Rmdir,
         ReleaseClear, ReleaseRmdir, Release, Beat, BeatOpens, BeatFills, Goto, Ends
    <3>2. LifecycleLockInv => LifecycleLockInv'
      BY <2>2, StepKeepsLifecycleLockInv
    <3>3. QED BY <3>1, <3>2 DEF UntilDeath
  <2>3. ASSUME NEW p \in Proc, Die(p)
        PROVE  UntilDeath'
    BY <2>3 DEF UntilDeath, Die, Goto, TypeOK
  <2>4. QED BY <2>1, <2>2, <2>3 DEF Next
<1>3. QED
  BY <1>1, <1>2, TypeCorrect, PTL DEF Spec

(* Who is killed leaves at most one process behind: nobody is killed, or    *)
(* there are no more than two.                                              *)
OneSurvivor == \A d \in Mortal : \A p, q \in Proc \ {d} : p = q

(* One process at a time has the lock of the issue, before a death and when *)
(* the one survivor recovers it; with two, it need not be so.               *)
THEOREM ExclusiveLifecycle ==
  ASSUME OneSurvivor
  PROVE  Spec => []OneLifecycle
<1>1. UntilDeath => OneLifecycle
  <2> SUFFICES ASSUME UntilDeath, NEW p \in Proc, NEW q \in Proc, Holds(p), Holds(q)
               PROVE  p = q
    BY DEF OneLifecycle
  <2>1. CASE \A d \in Proc : pc[d] # "dead"
    BY <2>1 DEF UntilDeath, LifecycleLockInv, Inside, Holds
  <2>2. ASSUME NEW d \in Proc, pc[d] = "dead"
        PROVE  p = q
    BY <2>2 DEF UntilDeath, OneSurvivor, Holds
  <2>3. QED BY <2>1, <2>2
<1>2. QED
  BY <1>1, LifecycleLockInvariant, PTL

(* A lock left behind by everybody, none of them killed, names a process    *)
(* that can be probed.                                                      *)
THEOREM LeftLockReadable == Spec => []LeftLockIsReadable
<1>1. TypeOK /\ UntilDeath => LeftLockIsReadable
  <2> SUFFICES ASSUME TypeOK, UntilDeath, \A p \in Proc : pc[p] = "idle" /\ flight[p] = "none", dir
               PROVE  Readable
    BY DEF LeftLockIsReadable
  <2>1. LifecycleLockInv
    BY DEF UntilDeath
  <2>2. QED
    BY <2>1 DEF TypeOK, LifecycleLockInv, Readable, NoRecord, Torn
<1>2. QED
  BY <1>1, TypeCorrect, LifecycleLockInvariant, PTL
=============================================================================

---------------------------- MODULE LifecycleLock ----------------------------
(***************************************************************************)
(* The per-issue lock directory of src/bootstrap/lifecycle-lock.ts, for    *)
(* one issue: `issue-N.lock' with the owner's record in owner.json.  A     *)
(* process that finds the directory reads the record and refuses unless    *)
(* the recorded process is positively dead; the holder's heartbeat and     *)
(* phase updates rewrite the record in place, asynchronously, so a write   *)
(* begun before release may reach the file system after it.                *)
(***************************************************************************)
EXTENDS Naturals

CONSTANTS
  Proc,    \* processes, one pid each
  Mortal,  \* those that may be killed
  Nobody   \* no directory, no record

ASSUME LifecycleLockAssumption ==
  /\ Mortal \subseteq Proc
  /\ Nobody \notin Proc

VARIABLES
  dir,      \* the lock directory exists
  record,   \* owner.json: whose, and whether its text is complete
  pc,       \* where each process is
  seen,     \* the pid it read
  flight,   \* a heartbeat or update write it has begun
  verdict   \* how its last attempt or release ended

vars == <<dir, record, pc, seen, flight, verdict>>

Steps == {"idle", "mkdir", "create", "fill", "read", "probe", "clear", "rmdir",
          "held", "release_clear", "release_rmdir", "dead"}

Verdicts == {"none", "active_owner", "ambiguous_owner", "failed", "released"}

NoRecord == [owner |-> Nobody, text |-> "torn"]
Torn(p) == [owner |-> p, text |-> "torn"]
Whole(p) == [owner |-> p, text |-> "whole"]

TypeOK ==
  /\ dir \in BOOLEAN
  /\ record \in [owner : Proc \cup {Nobody}, text : {"torn", "whole"}]
  /\ pc \in [Proc -> Steps]
  /\ seen \in [Proc -> Proc \cup {Nobody}]
  /\ flight \in [Proc -> {"none", "open", "fill"}]
  /\ verdict \in [Proc -> Verdicts]

Init ==
  /\ dir = FALSE
  /\ record = NoRecord
  /\ pc = [p \in Proc |-> "idle"]
  /\ seen = [p \in Proc |-> Nobody]
  /\ flight = [p \in Proc |-> "none"]
  /\ verdict = [p \in Proc |-> "none"]

-----------------------------------------------------------------------------
(* Operators named X_Y are X with a plausible bug; no specification uses    *)
(* them.  They show that the properties below would notice.                 *)

Goto(p, step) == pc' = [pc EXCEPT ![p] = step]

Ends(p, how) ==
  /\ Goto(p, "idle")
  /\ verdict' = [verdict EXCEPT ![p] = how]

(* pidAlive: only ESRCH means dead.  A pid is not used again.               *)
Alive_Never(p) == FALSE
Alive_Always(p) == TRUE
Alive(p) == pc[p] # "dead"

(* readRecord accepts the record.                                           *)
Readable == record.owner # Nobody /\ record.text = "whole"

(* The second half of a write reaches the file its first half opened, if    *)
(* that file is still there.                                                *)
Complete(p) == IF record = Torn(p) THEN Whole(p) ELSE record

-----------------------------------------------------------------------------
(* acquireBootstrapLifecycleLock.                                           *)

Begin(p) ==
  /\ pc[p] = "idle"
  /\ Goto(p, "mkdir")
  /\ verdict' = [verdict EXCEPT ![p] = "none"]
  /\ UNCHANGED <<dir, record, seen, flight>>

Mkdir(p) ==
  /\ pc[p] = "mkdir"
  /\ \/ /\ ~dir
        /\ dir' = TRUE
        /\ Goto(p, "create")
     \/ /\ dir
        /\ Goto(p, "read")
        /\ UNCHANGED dir
  /\ UNCHANGED <<record, seen, flight, verdict>>

(* writeFile with flag "wx": EEXIST is handled like that of mkdir, a        *)
(* directory that is gone is LOCK_FAILED.                                   *)
CreateRecord(p) ==
  /\ pc[p] = "create"
  /\ \/ /\ ~dir
        /\ Ends(p, "failed")
        /\ UNCHANGED record
     \/ /\ dir
        /\ record.owner # Nobody
        /\ Goto(p, "read")
        /\ UNCHANGED <<record, verdict>>
     \/ /\ dir
        /\ record.owner = Nobody
        /\ record' = Torn(p)
        /\ Goto(p, "fill")
        /\ UNCHANGED verdict
  /\ UNCHANGED <<dir, seen, flight>>

FillRecord(p) ==
  /\ pc[p] = "fill"
  /\ record' = Complete(p)
  /\ Goto(p, "held")
  /\ UNCHANGED <<dir, seen, flight, verdict>>

(* A missing, empty, torn or malformed record is AMBIGUOUS_OWNER.           *)
Read(p) ==
  /\ pc[p] = "read"
  /\ \/ /\ ~Readable
        /\ Ends(p, "ambiguous_owner")
        /\ UNCHANGED seen
     \/ /\ Readable
        /\ seen' = [seen EXCEPT ![p] = record.owner]
        /\ Goto(p, "probe")
        /\ UNCHANGED verdict
  /\ UNCHANGED <<dir, record, flight>>

Probe(p) ==
  /\ pc[p] = "probe"
  /\ \/ /\ Alive(seen[p])
        /\ Ends(p, "active_owner")
     \/ /\ ~Alive(seen[p])
        /\ Goto(p, "clear")
        /\ UNCHANGED verdict
  /\ UNCHANGED <<dir, record, seen, flight>>

(* rm -rf is two calls: unlink of the record, rmdir of the directory, which *)
(* fails when something was put back in between.                            *)
RemoveRecord == record' = NoRecord

RemoveDir == dir' = FALSE

Clear(p) ==
  /\ pc[p] = "clear"
  /\ RemoveRecord
  /\ Goto(p, "rmdir")
  /\ UNCHANGED <<dir, seen, flight, verdict>>

Rmdir(p) ==
  /\ pc[p] = "rmdir"
  /\ \/ /\ record = NoRecord
        /\ RemoveDir
        /\ Goto(p, "mkdir")
        /\ UNCHANGED verdict
     \/ /\ record # NoRecord
        /\ Ends(p, "failed")
        /\ UNCHANGED dir
  /\ UNCHANGED <<record, seen, flight>>

-----------------------------------------------------------------------------
(* The holder: heartbeat timer and update() begin a write while not         *)
(* released; one write in flight at a time is kept (bound).                 *)

Beat(p) ==
  /\ pc[p] = "held"
  /\ flight[p] = "none"
  /\ flight' = [flight EXCEPT ![p] = "open"]
  /\ UNCHANGED <<dir, record, pc, seen, verdict>>

(* Without the directory the write is rejected, and that may end the        *)
(* process (Die): nothing handles the rejection of the timer's write.       *)
BeatOpens(p) ==
  /\ pc[p] # "dead"
  /\ flight[p] = "open"
  /\ \/ /\ dir
        /\ record' = Torn(p)
        /\ flight' = [flight EXCEPT ![p] = "fill"]
     \/ /\ ~dir
        /\ flight' = [flight EXCEPT ![p] = "none"]
        /\ UNCHANGED record
  /\ UNCHANGED <<dir, pc, seen, verdict>>

BeatFills(p) ==
  /\ pc[p] # "dead"
  /\ flight[p] = "fill"
  /\ record' = Complete(p)
  /\ flight' = [flight EXCEPT ![p] = "none"]
  /\ UNCHANGED <<dir, pc, seen, verdict>>

Release(p) ==
  /\ pc[p] = "held"
  /\ Goto(p, "release_clear")
  /\ UNCHANGED <<dir, record, seen, flight, verdict>>

ReleaseClear(p) ==
  /\ pc[p] = "release_clear"
  /\ RemoveRecord
  /\ Goto(p, "release_rmdir")
  /\ UNCHANGED <<dir, seen, flight, verdict>>

ReleaseRmdir(p) ==
  /\ pc[p] = "release_rmdir"
  /\ \/ /\ record = NoRecord
        /\ RemoveDir
        /\ Ends(p, "released")
     \/ /\ record # NoRecord
        /\ Ends(p, "failed")
        /\ UNCHANGED dir
  /\ UNCHANGED <<record, seen, flight>>

Die(p) ==
  /\ p \in Mortal
  /\ pc[p] # "dead"
  /\ Goto(p, "dead")
  /\ UNCHANGED <<dir, record, seen, flight, verdict>>

-----------------------------------------------------------------------------
(* What a process does on its own once it has begun.                        *)
Goes(p) ==
  \/ Mkdir(p) \/ CreateRecord(p) \/ FillRecord(p) \/ Read(p) \/ Probe(p)
  \/ Clear(p) \/ Rmdir(p) \/ ReleaseClear(p) \/ ReleaseRmdir(p)

Next ==
  \E p \in Proc : \/ Begin(p) \/ Goes(p) \/ Release(p) \/ Die(p)
                  \/ Beat(p) \/ BeatOpens(p) \/ BeatFills(p)

Spec == Init /\ [][Next]_vars

(* File system calls return.  Nothing is assumed of when the lock is        *)
(* released or of the heartbeat.                                            *)
FairSpec == Spec /\ \A p \in Proc : WF_vars(Goes(p))

-----------------------------------------------------------------------------
(* Properties.                                                              *)

Holds(p) == pc[p] = "held"

(* "same issue lifecycle lock is exclusive": between the return of          *)
(* acquireBootstrapLifecycleLock and the call of release, no other process  *)
(* has the lock of the issue.                                               *)
OneLifecycle ==
  \A p, q \in Proc : Holds(p) /\ Holds(q) => p = q

(* A lock that is left behind when nobody is at work, by a release that     *)
(* lost to its own heartbeat, has a readable record: it blocks only while   *)
(* the process it names runs, and never as AMBIGUOUS_OWNER for good.        *)
LeftLockIsReadable ==
  dir /\ (\A p \in Proc : pc[p] = "idle" /\ flight[p] = "none") => Readable

(* A lock whose recorded owner is dead is recovered by a process that asks  *)
(* for it, unless a write of its own earlier hold is still in flight (that  *)
(* would put its own pid into the dead owner's record).                     *)
DeadOwnerRecovered ==
  \A p \in Proc :
    pc[p] = "mkdir" /\ flight[p] = "none" /\ dir /\ Readable /\ pc[record.owner] = "dead"
      ~> pc[p] \in {"held", "dead"}

-----------------------------------------------------------------------------
(* While nobody is killed: one process at most is between its mkdir and the *)
(* rmdir of its release, the directory exists meanwhile, nobody clears the  *)
(* directory of another, and a record that is missing or torn has somebody  *)
(* who is about to write it or to remove the directory.                     *)
Inside(p) == pc[p] \in {"create", "fill", "held", "release_clear", "release_rmdir"}

LifecycleLockInv ==
  /\ \A p, q \in Proc : Inside(p) /\ Inside(q) => p = q
  /\ \A p \in Proc : Inside(p) => dir
  /\ \A p \in Proc : pc[p] \notin {"clear", "rmdir", "dead"}
  /\ \A p \in Proc : pc[p] = "probe" => seen[p] # Nobody
  /\ record.owner = Nobody => record = NoRecord
  /\ dir /\ record = NoRecord => \E p \in Proc : pc[p] \in {"create", "release_rmdir"}
  /\ \A p \in Proc : record = Torn(p) => pc[p] = "fill" \/ flight[p] = "fill"
==============================================================================

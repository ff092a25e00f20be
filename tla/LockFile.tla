------------------------------ MODULE LockFile ------------------------------
(***************************************************************************)
(* The lock file of acquireFinalizeLock (src/coordination/finalize.ts);    *)
(* acquireRefreshLock (extensions/pi-next/main-refresh.ts) is the same     *)
(* protocol on a file of another name.  A contender creates the file       *)
(* exclusively, writes its pid into it, and removes it by name when done;  *)
(* who finds a file whose pid is not running removes it by name and tries  *)
(* again.  Processes are separate: any file system call of one may come    *)
(* between two calls of another.                                           *)
(***************************************************************************)
EXTENDS Naturals

CONSTANTS
  Proc,         \* contenders, one pid each
  Mortal,       \* those that may die without running their finally block
  NoFile,       \* there is no lock file, or the file holds no pid
  MaxAttempts   \* 50 in the code

(* What is assumed of the constants.                                        *)
LockAssumption ==
  /\ Mortal \subseteq Proc
  /\ NoFile \notin Proc
  /\ MaxAttempts \in Nat \ {0}

VARIABLES
  file,    \* who created the file that now has the lock's name
  pid,     \* the pid written in that file
  pc,      \* where each contender is
  seen,    \* the pid it read
  attempt  \* its loop counter

vars == <<file, pid, pc, seen, attempt>>

Steps == {"idle", "open", "created", "read", "probe", "unlink", "held", "busy", "dead"}

TypeOK ==
  /\ file \in Proc \cup {NoFile}
  /\ pid \in Proc \cup {NoFile}
  /\ pc \in [Proc -> Steps]
  /\ seen \in [Proc -> Proc \cup {NoFile}]
  /\ attempt \in [Proc -> 0 .. MaxAttempts - 1]

Init ==
  /\ file = NoFile
  /\ pid = NoFile
  /\ pc = [p \in Proc |-> "idle"]
  /\ seen = [p \in Proc |-> NoFile]
  /\ attempt = [p \in Proc |-> 0]

-----------------------------------------------------------------------------
(* Operators named X_Y are X with a plausible bug; no specification uses    *)
(* them.  They show that the properties below would notice.                 *)

Goto(p, step) == pc' = [pc EXCEPT ![p] = step]

(* process.kill(pid, 0) succeeds.  A pid is not used again.                 *)
Alive_Never(p) == FALSE
Alive_Always(p) == TRUE
Alive(p) == pc[p] # "dead"

LastAttempt(p) == attempt[p] = MaxAttempts - 1

(* The next round of the for loop, or ROOT_BUSY when there is none.         *)
Retry(p) ==
  \/ /\ LastAttempt(p)
     /\ Goto(p, "busy")
     /\ UNCHANGED attempt
  \/ /\ ~LastAttempt(p)
     /\ Goto(p, "open")
     /\ attempt' = [attempt EXCEPT ![p] = attempt[p] + 1]

Remove == file' = NoFile /\ pid' = NoFile

Begin(p) ==
  /\ pc[p] \in {"idle", "busy"}
  /\ Goto(p, "open")
  /\ attempt' = [attempt EXCEPT ![p] = 0]
  /\ UNCHANGED <<file, pid, seen>>

(* openSync(lock, "wx")                                                     *)
Open(p) ==
  /\ pc[p] = "open"
  /\ \/ /\ file = NoFile
        /\ file' = p
        /\ pid' = NoFile
        /\ Goto(p, "created")
     \/ /\ file # NoFile
        /\ Goto(p, "read")
        /\ UNCHANGED <<file, pid>>
  /\ UNCHANGED <<seen, attempt>>

(* writeFileSync through the descriptor: reaches this contender's own file, *)
(* whatever has the lock's name by now.                                     *)
Write(p) ==
  /\ pc[p] = "created"
  /\ pid' = IF file = p THEN p ELSE pid
  /\ Goto(p, "held")
  /\ UNCHANGED <<file, seen, attempt>>

(* No file or no pid in it: wait and try again.                             *)
Read(p) ==
  /\ pc[p] = "read"
  /\ seen' = [seen EXCEPT ![p] = pid]
  /\ \/ /\ pid = NoFile
        /\ Retry(p)
     \/ /\ pid # NoFile
        /\ Goto(p, "probe")
        /\ UNCHANGED attempt
  /\ UNCHANGED <<file, pid>>

Probe(p) ==
  /\ pc[p] = "probe"
  /\ \/ /\ Alive(seen[p])
        /\ Retry(p)
     \/ /\ ~Alive(seen[p])
        /\ Goto(p, "unlink")
        /\ UNCHANGED attempt
  /\ UNCHANGED <<file, pid, seen>>

(* unlinkSync removes whatever file has the name now.                       *)
Unlink(p) ==
  /\ pc[p] = "unlink"
  /\ Remove
  /\ Retry(p)
  /\ UNCHANGED seen

Release(p) ==
  /\ pc[p] = "held"
  /\ Remove
  /\ Goto(p, "idle")
  /\ UNCHANGED <<seen, attempt>>

Die(p) ==
  /\ p \in Mortal
  /\ pc[p] \notin {"idle", "busy", "dead"}
  /\ Goto(p, "dead")
  /\ UNCHANGED <<file, pid, seen, attempt>>

-----------------------------------------------------------------------------
Acquire(p) == Open(p) \/ Write(p) \/ Read(p) \/ Probe(p) \/ Unlink(p)

Next == \E p \in Proc : Begin(p) \/ Acquire(p) \/ Release(p) \/ Die(p)

Spec == Init /\ [][Next]_vars

(* A process that has begun to acquire runs on; when it releases, or        *)
(* whether it begins, is not assumed.                                       *)
FairSpec == Spec /\ \A p \in Proc : WF_vars(Acquire(p))

-----------------------------------------------------------------------------
(* Properties.                                                              *)

(* Between acquireFinalizeLock returning and the call of the function it    *)
(* returned, no other contender is in that section.                         *)
MutualExclusion ==
  \A p, q \in Proc : pc[p] = "held" /\ pc[q] = "held" => p = q

(* A lock left by a process that died while it held it is recovered: a      *)
(* contender that comes upon it, with a round to spare, gets the lock.      *)
StaleLockRecovered ==
  \A p \in Proc :
    pc[p] = "open" /\ ~LastAttempt(p) /\ pid # NoFile /\ pc[pid] = "dead"
      ~> pc[p] \in {"held", "dead"}

-----------------------------------------------------------------------------
(* While nobody dies, the file with the lock's name belongs to the one      *)
(* contender that created it and has not released it, and nobody is about   *)
(* to remove it.                                                            *)
LockInv ==
  /\ \A p \in Proc : pc[p] \in {"created", "held"} => file = p
  /\ \A p \in Proc : pc[p] = "held" => pid = p
  /\ \A p \in Proc : pc[p] \notin {"unlink", "dead"}
  /\ \A p \in Proc : pc[p] = "probe" => seen[p] # NoFile
  /\ pid # NoFile => pid = file
=============================================================================

-------------------------- MODULE LifecycleJournal --------------------------
(****************************************************************************)
(* The lifecycle journal of one run                                         *)
(* (src/coordination/lifecycle-journal.ts, written through                  *)
(* extensions/pi-next/lifecycle-journal.ts): a file of numbered records     *)
(* that is only appended to.  An append reads the whole file, refuses when  *)
(* it cannot be parsed, returns the record that already has its             *)
(* idempotency key, and otherwise writes the record with the next number,   *)
(* forces the file to disk and returns.  Nothing locks the file.  A run's   *)
(* controller and its detached worker child write to it, the child alone    *)
(* once the controller is killed, and so do two sessions of one checkout    *)
(* that resume the same cancelled run: both claim, and the claim that is    *)
(* refused is recorded like the one that succeeds.  The first append of a   *)
(* run that has telemetry but no journal is preceded by the import of a     *)
(* baseline record.                                                         *)
(****************************************************************************)
EXTENDS Naturals, Sequences

CONSTANTS
  Writer,    \* processes that append to the journal of this run
  Request,   \* what is appended: an event with its payload
  Keyed,     \* those with an idempotency key, which names the event
  Baseline,  \* the import of a baseline, one of Keyed
  NoEntry,   \* no request
  Legacy,    \* whether the rolling telemetry file exists
  MaxLines   \* bound on the length of the file

ASSUME JournalAssumption ==
  /\ Keyed \subseteq Request
  /\ Baseline \in Keyed
  /\ NoEntry \notin Request
  /\ Legacy \in BOOLEAN
  /\ MaxLines \in Nat

VARIABLES
  file,        \* the lines of the file as a reader sees them
  exists,      \* whether there is a file
  disk,        \* what of file is forced to disk
  run,         \* where each writer is in its append
  returned,    \* history: the records that appends wrote and returned
  overlapped,  \* history: a writer wrote while another was about to
  torn         \* history: a power failure left part of a line

vars == <<file, exists, disk, run, returned, overlapped, torn>>

(* A line is whole, has lost its newline, or no longer parses.              *)
Line == [seq : Nat \ {0}, req : Request, shape : {"whole", "unended", "broken"}]

Step == {"idle", "read", "open", "write", "sync"}

Idle == [step |-> "idle", req |-> NoEntry, next |-> NoEntry, seq |-> 1]
Reading(r, next) == [step |-> "read", req |-> r, next |-> next, seq |-> 1]

(* The baseline is the only request with another behind it.                 *)
TypeOK ==
  /\ file \in Seq(Line)
  /\ disk \in Seq(Line)
  /\ exists \in BOOLEAN
  /\ run \in [Writer -> [step : Step, req : Request \cup {NoEntry},
                         next : Request \cup {NoEntry}, seq : Nat \ {0}]]
  /\ returned \subseteq [seq : Nat \ {0}, req : Request]
  /\ overlapped \in BOOLEAN
  /\ torn \in BOOLEAN
  /\ \A w \in Writer :
       /\ (run[w].step = "idle") <=> (run[w].req = NoEntry)
       /\ run[w].next # NoEntry => run[w].req = Baseline

Init ==
  /\ file = <<>>
  /\ exists = FALSE
  /\ disk = <<>>
  /\ run = [w \in Writer |-> Idle]
  /\ returned = {}
  /\ overlapped = FALSE
  /\ torn = FALSE

-----------------------------------------------------------------------------
(* Operators named X_Y are X with a plausible bug; no specification uses    *)
(* them.  They show that the properties below would notice.                 *)

(* readLifecycleJournal returns records: every line parses and bears its    *)
(* own number.  A last line without its newline is a record like any other. *)
Readable(lines) ==
  \A i \in DOMAIN lines : lines[i].shape # "broken" /\ lines[i].seq = i

(* The record that has the request's key.  A key determines its event.      *)
Recorded_AsLast(lines, r) ==
  r \in Keyed /\ lines # <<>> /\ lines[Len(lines)].req = r
Recorded(lines, r) ==
  r \in Keyed /\ \E i \in DOMAIN lines : lines[i].req = r

NextSequence_FromZero(lines) == IF lines = <<>> THEN 1 ELSE Len(lines)
NextSequence(lines) == Len(lines) + 1

(* A write at the end of the file.  It runs into a line without newline.    *)
Written(lines, line) ==
  IF lines # <<>> /\ lines[Len(lines)].shape = "unended"
    THEN [lines EXCEPT ![Len(lines)].shape = "broken"]
    ELSE Append(lines, line)

(* The first n lines, with shape s for the last one unless it is broken.    *)
CutOff(lines, n, s) ==
  [SubSeq(lines, 1, n) EXCEPT ![n].shape = IF @ = "broken" THEN @ ELSE s]

(* The caller's next request, or back to the caller.                        *)
Continue(w) ==
  run' = [run EXCEPT ![w] =
            IF run[w].next = NoEntry THEN Idle ELSE Reading(run[w].next, NoEntry)]

(* recordPiLifecycleJournal.  A resumed or an orphaned process records what *)
(* it has to, whatever the others do.                                       *)
Begin(w, r) ==
  /\ run[w].step = "idle"
  /\ Len(file) < MaxLines
  /\ run' = [run EXCEPT ![w] =
               IF ~exists /\ Legacy THEN Reading(Baseline, r) ELSE Reading(r, NoEntry)]
  /\ UNCHANGED <<file, exists, disk, returned, overlapped, torn>>

(* The existing file is damaged: the append throws, and so does its caller. *)
Refuse(w) ==
  /\ run[w].step = "read"
  /\ ~Readable(file)
  /\ run' = [run EXCEPT ![w] = Idle]
  /\ UNCHANGED <<file, exists, disk, returned, overlapped, torn>>

(* The key is there: the append returns without writing or forcing.         *)
FindDuplicate(w) ==
  /\ run[w].step = "read"
  /\ Readable(file)
  /\ Recorded(file, run[w].req)
  /\ Continue(w)
  /\ UNCHANGED <<file, exists, disk, returned, overlapped, torn>>

Number(w) ==
  /\ run[w].step = "read"
  /\ Readable(file)
  /\ ~Recorded(file, run[w].req)
  /\ run' = [run EXCEPT ![w] = [@ EXCEPT !.step = "open", !.seq = NextSequence(file)]]
  /\ UNCHANGED <<file, exists, disk, returned, overlapped, torn>>

(* openSync for append creates the file.                                    *)
Open(w) ==
  /\ run[w].step = "open"
  /\ exists' = TRUE
  /\ run' = [run EXCEPT ![w].step = "write"]
  /\ UNCHANGED <<file, disk, returned, overlapped, torn>>

Write(w) ==
  /\ run[w].step = "write"
  /\ file' = Written(file, [seq |-> run[w].seq, req |-> run[w].req, shape |-> "whole"])
  /\ run' = [run EXCEPT ![w].step = "sync"]
  /\ overlapped' = (overlapped \/ \E v \in Writer \ {w} : run[v].step \in {"open", "write"})
  /\ UNCHANGED <<exists, disk, returned, torn>>

(* fsync, close and return.  It forces the lines of others, too.            *)
Sync_Closed(w) ==
  /\ run[w].step = "sync"
  /\ returned' = returned \cup {[seq |-> run[w].seq, req |-> run[w].req]}
  /\ Continue(w)
  /\ UNCHANGED <<file, exists, disk, overlapped, torn>>
Sync(w) ==
  /\ run[w].step = "sync"
  /\ disk' = file
  /\ returned' = returned \cup {[seq |-> run[w].seq, req |-> run[w].req]}
  /\ Continue(w)
  /\ UNCHANGED <<file, exists, overlapped, torn>>

(* A writer is killed; what it wrote is in the page cache.                  *)
Kill(w) ==
  /\ run[w].step # "idle"
  /\ run' = [run EXCEPT ![w] = Idle]
  /\ UNCHANGED <<file, exists, disk, returned, overlapped, torn>>

(* The machine stops.  Of what was not forced to disk a prefix is left,     *)
(* perhaps with its last line cut off; the file may be gone if nothing was. *)
PowerFails ==
  /\ \/ /\ file' = disk
        /\ exists' \in {exists, disk # <<>>}
        /\ torn' = torn
     \/ \E n \in Len(disk) + 1 .. Len(file), s \in {"whole", "unended", "broken"} :
          /\ file' = CutOff(file, n, s)
          /\ exists' = exists
          /\ torn' = (torn \/ s # "whole")
  /\ disk' = file'
  /\ run' = [w \in Writer |-> Idle]
  /\ UNCHANGED <<returned, overlapped>>

Next ==
  \/ \E w \in Writer :
       \/ \E r \in Request \ {Baseline} : Begin(w, r)
       \/ Refuse(w) \/ FindDuplicate(w) \/ Number(w)
       \/ Open(w) \/ Write(w) \/ Sync(w) \/ Kill(w)
  \/ PowerFails

Spec == Init /\ [][Next]_vars

-----------------------------------------------------------------------------
(* What an append wrote and returned is in every history that can be read,  *)
(* under its number, whoever dies and whenever the power fails: fsync comes *)
(* before the return, and the reader does not guess through damage.         *)
ReturnedIsKept ==
  Readable(file) =>
    \A a \in returned : a.seq \in DOMAIN file /\ file[a.seq].req = a.req

(* No history that can be read holds an idempotency key twice, although     *)
(* writers look a key up and write it in different steps: records that      *)
(* missed each other bear the same number.                                  *)
KeysOnce ==
  Readable(file) =>
    \A i, j \in DOMAIN file :
      file[i].req \in Keyed /\ file[i].req = file[j].req => i = j

(* Only appends that overlap and failures of power damage the journal: one  *)
(* process after another may be killed anywhere and the next one goes on.   *)
DamageHasACause ==
  ~Readable(file) => overlapped \/ torn
=============================================================================

------------------------------- MODULE Stream -------------------------------
(***************************************************************************)
(* The event stream of a worker, newline-delimited JSON on a pipe, as the  *)
(* incremental parsers consume it while the worker lives                   *)
(* (extensions/pi-next/worker-telemetry.ts and worker-activity.ts): chunks *)
(* of any size, cut anywhere; a buffer of the text not yet parsed that     *)
(* keeps at most its last characters; the rest parsed at the end.          *)
(*                                                                         *)
(* The text is its positions 1, 2, ...; a line is the interval of its      *)
(* characters and ends with a newline.  The buffer is an interval, too.    *)
(***************************************************************************)
EXTENDS Naturals, FiniteSetsExt

CONSTANTS
  Length,     \* what a line may be long, without its newline
  MaxLines,   \* bound: lines the worker writes
  MaxChunk,   \* what one read of the pipe returns at most
  MaxPending  \* MAX_PENDING_LINE_CHARS

(* What is assumed of the constants.                                        *)
StreamAssumption ==
  Length \subseteq Nat /\ MaxLines \in Nat /\ {MaxChunk, MaxPending} \subseteq Nat \ {0} /\ MaxChunk <= MaxPending

VARIABLES
  lines,    \* the lines written so far, each its first character and its newline
  written,  \* characters written
  pending,  \* the buffer: the characters after `from`, up to `to`
  parsed,   \* the lines handed to the parser whole
  over      \* finish has been called

vars == <<lines, written, pending, parsed, over>>

TypeOK ==
  /\ lines \subseteq [first : Nat \ {0}, end : Nat \ {0}]
  /\ written \in Nat
  /\ pending \in [from : Nat, to : Nat]
  /\ parsed \subseteq lines /\ over \in BOOLEAN

Init ==
  /\ lines = {} /\ written = 0
  /\ pending = [from |-> 0, to |-> 0]
  /\ parsed = {} /\ over = FALSE

-----------------------------------------------------------------------------
(* Operators named X_Y are X with a plausible bug; no specification uses    *)
(* them.  They show that the properties below would notice.                 *)

(* The worker writes the next event.                                        *)
Write ==
  /\ ~ over /\ Cardinality(lines) < MaxLines
  /\ \E n \in Length :
       /\ lines' = lines \cup {[first |-> written + 1, end |-> written + n + 1]}
       /\ written' = written + n + 1
  /\ UNCHANGED <<pending, parsed, over>>

(* A buffer that has grown too long loses its beginning.                    *)
Trimmed_Dropped(from, to) == IF to - from > MaxPending THEN to ELSE from
Trimmed(from, to) == IF to - from > MaxPending THEN to - MaxPending ELSE from

(* Lines whose every character is between the two positions.                *)
Whole(from, to) == {l \in lines : from < l.first /\ l.end <= to}

(* The newlines between them.                                               *)
Newlines(from, to) == {l.end : l \in {k \in lines : from < k.end /\ k.end <= to}}

(* push: the chunk is appended, the buffer trimmed, and what is before the  *)
(* last newline is parsed line by line.  A line without its beginning is no *)
(* JSON.                                                                    *)
Push ==
  /\ ~ over
  /\ \E n \in 1 .. MaxChunk :
       LET to == pending.to + n
           from == Trimmed(pending.from, to)
       IN /\ to <= written
          /\ parsed' = parsed \cup Whole(from, to)
          /\ pending' = [from |-> Max({from} \cup Newlines(from, to)), to |-> to]
  /\ UNCHANGED <<lines, written, over>>

(* finish: the stream has ended, perhaps in the middle of a line; a last    *)
(* line that lacks only its newline is parsed.                              *)
Finish ==
  /\ ~ over
  /\ over' = TRUE
  /\ parsed' = parsed \cup {l \in lines : pending.from < l.first /\ l.end = pending.to + 1}
  /\ UNCHANGED <<lines, written, pending>>

Next == Write \/ Push \/ Finish

Spec == Init /\ [][Next]_vars

-----------------------------------------------------------------------------
(* worker-telemetry.ts:228-229: "a long-running worker's leading session    *)
(* header is never lost".  However the pipe cuts the stream, every line     *)
(* that was received with its newline has been parsed, unless it and one    *)
(* more read do not fit the buffer.                                         *)
LinesParsed ==
  \A l \in lines : l.end <= pending.to /\ (l.end - l.first) + MaxChunk <= MaxPending => l \in parsed
=============================================================================

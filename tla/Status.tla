------------------------------- MODULE Status -------------------------------
(***************************************************************************)
(* What `/pi-next-loop status' tells of the runs of a checkout             *)
(* (extensions/pi-next/loop-status.ts, loop.ts), and what an auto command  *)
(* does with a run an earlier version of the extension left behind         *)
(* (commands-recovery.ts).  Both list the records of the runs, read the    *)
(* leases of their issues one after the other, and judge by both, while    *)
(* runs start, take issues, give them back and end.  A run of the earlier  *)
(* version keeps its lease in its record and a lock with its pid; a run of *)
(* today's scheduler has neither.                                          *)
(*                                                                         *)
(* The records are read newest first; which is the newest is left open.    *)
(***************************************************************************)
EXTENDS Naturals, FiniteSets

CONSTANTS
  Run,      \* runs
  Legacy,   \* those of the earlier version; they do not start any more
  Session,  \* host sessions
  Nobody,   \* no run, or no session
  Issue,    \* issues
  MaxMoves  \* bound: steps of the runs

(* What is assumed of the constants.                                        *)
StatusAssumption ==
  /\ Legacy \subseteq Run /\ Nobody \notin Run \cup Session
  /\ IsFiniteSet(Run) /\ Issue \subseteq Nat \ {0} /\ MaxMoves \in Nat

VARIABLES
  record,  \* the state file of each run
  lock,    \* the controller lock of each run, and its process
  lease,   \* the owner of the lease of each issue
  call,    \* the command: its step, what it has read, what it answered
  moves,   \* steps of the runs so far
  owned    \* history: who owned which issue since the command began

vars == <<record, lock, lease, call, moves, owned>>

NoRecord == [status |-> "none"]
Ended == {"interrupted", "stopped", "completed"}
Records(status) == [status : status, session : Session, issue : Issue \cup {0}, blocked : BOOLEAN]
Idle == [at |-> "idle"]

TypeOK ==
  /\ \A r \in Run : record[r] = NoRecord \/ record[r] \in Records({"running"} \cup Ended)
  /\ lock \in [Run -> {"absent", "foreign", "dead", "alive"}]
  /\ lease \in [Issue -> Run \cup {Nobody}]
  /\ call.at \in {"idle", "status", "answered", "auto", "blocked"}
  /\ owned \subseteq Run \X Issue

Init ==
  /\ record \in [Run -> {NoRecord} \cup Records({"running", "interrupted"})]
  /\ \A r \in Run : IF r \in Legacy THEN record[r] # NoRecord /\ record[r].issue # 0 /\ ~ record[r].blocked
                    ELSE record[r] = NoRecord
  /\ lock \in [Run -> {"absent", "foreign", "dead", "alive"}]
  /\ \A r \in Run \ Legacy : lock[r] = "absent"
  /\ lease \in [Issue -> Legacy \cup {Nobody}]
  /\ call = Idle /\ moves = 0 /\ owned = {}

-----------------------------------------------------------------------------
(* Operators named X_Y are X with a plausible bug; no specification uses    *)
(* them.  They show that the properties below would notice.                 *)

Listed == {r \in Run : record[r] # NoRecord}

Owners == {<<lease[i], i>> : i \in {j \in Issue : lease[j] # Nobody}}

Moves == moves < MaxMoves /\ moves' = moves + 1

(* A run of the scheduler starts, writes its record, claims an issue, shows *)
(* it in its record, releases it and ends; or its process dies.             *)
Start(r) ==
  /\ Moves /\ record[r] = NoRecord
  /\ \E s \in Session :
       record' = [record EXCEPT ![r] = [status |-> "running", session |-> s, issue |-> 0, blocked |-> FALSE]]
  /\ UNCHANGED <<lock, lease, call, owned>>

(* An issue whose lease is free, or has run out, gets a new owner.          *)
Claim(r, i) ==
  /\ Moves /\ r \notin Legacy /\ record[r].status = "running" /\ lease[i] # r
  /\ lease' = [lease EXCEPT ![i] = r]
  /\ owned' = IF call.at \in {"status", "auto"} THEN owned \cup {<<r, i>>} ELSE owned
  /\ UNCHANGED <<record, lock, call>>

Project(r, i) ==
  /\ Moves /\ r \notin Legacy /\ record[r].status = "running" /\ record[r].issue # i
  /\ record' = [record EXCEPT ![r].issue = i]
  /\ UNCHANGED <<lock, lease, call, owned>>

Release(i) ==
  /\ Moves /\ lease[i] # Nobody
  /\ lease' = [lease EXCEPT ![i] = Nobody]
  /\ UNCHANGED <<record, lock, call, owned>>

End(r) ==
  /\ Moves /\ r \notin Legacy /\ record[r].status = "running"
  /\ record' = [record EXCEPT ![r].status = "completed"]
  /\ UNCHANGED <<lock, lease, call, owned>>

(* The process of the earlier version ends its run.                         *)
Stop(r) ==
  /\ Moves /\ r \in Legacy /\ lock[r] = "alive" /\ record[r].status = "running"
  /\ record' = [record EXCEPT ![r].status = "stopped"]
  /\ UNCHANGED <<lock, lease, call, owned>>

(* A process of the earlier version ends, with its lock or without.         *)
Die(r) ==
  /\ Moves /\ lock[r] = "alive"
  /\ \E l \in {"dead", "absent"} : lock' = [lock EXCEPT ![r] = l]
  /\ UNCHANGED <<record, lease, call, owned>>

-----------------------------------------------------------------------------
(* controllerLiveness: only the lock is looked at.                          *)
Liveness(r) ==
  IF record[r].status # "running" THEN "not-running"
  ELSE IF lock[r] \in {"absent", "foreign"} THEN "unknown" ELSE lock[r]

(* classifyLoopState                                                        *)
Presentation(r) ==
  IF record[r].status # "running" THEN record[r].status
  ELSE CASE Liveness(r) = "alive" -> "running" [] Liveness(r) = "dead" -> "abandoned" [] OTHER -> "unknown"

(* selectCurrentLoop: the run asked for, or the one of the session, or the  *)
(* one of them that is proven alive.                                        *)
Candidates(session) == {r \in Listed : record[r].session = session}

Selected(named, session) ==
  LET mine == IF session = Nobody THEN {} ELSE Candidates(session)
      live == {r \in mine : Liveness(r) = "alive"}
  IN IF named # Nobody THEN {named} \cap Listed
     ELSE IF Cardinality(mine) = 1 THEN mine
     ELSE IF Cardinality(live) = 1 THEN live ELSE {}

Ambiguous(named, session) ==
  /\ named = Nobody /\ session # Nobody
  /\ Cardinality(Candidates(session)) > 1
  /\ Selected(named, session) = {}

-----------------------------------------------------------------------------
(* The status command: the runs with an issue are listed.                   *)
Ask ==
  /\ call = Idle
  /\ \E s \in Session \cup {Nobody}, named \in Listed \cup {Nobody} :
       call' = [at |-> "status", session |-> s, named |-> named, auth |-> Nobody,
                todo |-> {[run |-> r, issue |-> record[r].issue] : r \in {q \in Listed : record[q].issue # 0}}]
  /\ owned' = Owners
  /\ UNCHANGED <<record, lock, lease, moves>>

(* issueLeaseMatchesOwner, of the owner a record stands for.                *)
Matches_Claimed(r, i) == lease[i] # Nobody
Matches(r, i) == lease[i] = r

(* authoritativeStatusRun: the next lease is read, or cannot be; the first  *)
(* run that owns its issue is the authority.                                *)
ReadStatus ==
  /\ call.at = "status"
  /\ \E t \in call.todo :
       \/ call' = [call EXCEPT !.todo = @ \ {t}]
       \/ Matches(t.run, t.issue) /\ call' = [call EXCEPT !.todo = {}, !.auth = t.run]
  /\ UNCHANGED <<record, lock, lease, moves, owned>>

(* Without a selected run the authority is, if it is of the session.        *)
OfSession_Any(r, session) == TRUE
OfSession(r, session) == session = Nobody \/ record[r].session = session

(* renderLoopStatus: the records are read anew.                             *)
Render ==
  /\ call.at = "status" /\ call.todo = {}
  /\ LET first == Selected(call.named, call.session)
         chosen == IF first = {} /\ call.auth \in Listed /\ OfSession(call.auth, call.session)
                   THEN {call.auth} ELSE first
     IN call' = [at |-> "answered", session |-> call.session, named |-> call.named, current |-> chosen,
                 ambiguous |-> chosen = {} /\ Ambiguous(call.named, call.session),
                 authoritative |-> {call.auth} \ (chosen \cup {Nobody}),
                 mismatch |-> chosen # {} /\ call.auth \notin chosen \cup {Nobody}]
  /\ UNCHANGED <<record, lock, lease, moves, owned>>

-----------------------------------------------------------------------------
(* recoverableAbandonedAutoRun: the runs that carry their lease, in their   *)
(* worktree, and were not looked at before.                                 *)
Recoverable == {r \in Listed \cap Legacy : ~ record[r].blocked /\ record[r].status # "completed"}

Auto ==
  /\ call = Idle
  /\ call' = [at |-> "auto", todo |-> {[run |-> r, copy |-> record[r]] : r \in Recoverable},
              cache |-> [i \in {} |-> Nobody]]
  /\ owned' = Owners
  /\ UNCHANGED <<record, lock, lease, moves>>

(* locallyAbandoned: its process is gone; without a lock, it has ended.     *)
Abandoned_Lockless(copy, l) == l # "alive"
Abandoned(copy, l) ==
  IF l \in {"absent", "foreign"} THEN copy.status \in {"interrupted", "stopped"} ELSE l = "dead"

(* The lease of an issue is read once for all runs.                         *)
Cached(i) == IF i \in DOMAIN call.cache THEN call.cache[i] ELSE lease[i]

(* A run that does not own its issue is passed over.                        *)
PassOver ==
  /\ call.at = "auto"
  /\ \E t \in call.todo :
       /\ ~ (Cached(t.copy.issue) = t.run)
       /\ call' = [call EXCEPT !.todo = @ \ {t}, !.cache = [i \in DOMAIN @ \cup {t.copy.issue} |-> Cached(i)]]
  /\ UNCHANGED <<record, lock, lease, moves, owned>>

(* The first owner decides: it is blocked if it is abandoned, by writing    *)
(* back the record that was listed.                                         *)
Decide ==
  /\ call.at = "auto"
  /\ \E t \in call.todo :
       /\ Cached(t.copy.issue) = t.run
       /\ IF Abandoned(t.copy, lock[t.run])
          THEN /\ record' = [record EXCEPT ![t.run] = [t.copy EXCEPT !.blocked = TRUE]]
               /\ call' = [at |-> "blocked", run |-> t.run, lock |-> lock[t.run], copy |-> t.copy]
          ELSE call' = Idle /\ UNCHANGED record
  /\ UNCHANGED <<lock, lease, moves, owned>>

(* The command goes on: nothing is recoverable, what was is blocked, or a   *)
(* lease could not be read; a status command has answered.                  *)
GoesOn ==
  /\ \/ call.at \in {"blocked", "answered"}
     \/ call.at = "auto" /\ (call.todo = {} \/ \E t \in call.todo : t.copy.issue \notin DOMAIN call.cache)
  /\ call' = Idle /\ owned' = {}
  /\ UNCHANGED <<record, lock, lease, moves>>

-----------------------------------------------------------------------------
Next ==
  \/ \E r \in Run : Start(r) \/ End(r) \/ Stop(r) \/ Die(r) \/ \E i \in Issue : Claim(r, i) \/ Project(r, i)
  \/ \E i \in Issue : Release(i)
  \/ Ask \/ ReadStatus \/ Render \/ Auto \/ PassOver \/ Decide \/ GoesOn

Spec == Init /\ [][Next]_vars

-----------------------------------------------------------------------------
(* A status answer never takes a foreign run for the current one of a       *)
(* session, unless it was asked for by name; the run it calls authoritative *)
(* owned an issue while the command looked, though its lease, the records   *)
(* and the answer are read at different times; and what an auto command     *)
(* takes for abandoned owned the issue of its record while the command      *)
(* looked, and its process was gone or, without a lock, its run had ended.  *)
StatusTrue ==
  /\ call.at = "answered" =>
       /\ \A r \in call.current : call.named = Nobody /\ call.session # Nobody => record[r].session = call.session
       /\ \A r \in call.authoritative : \E i \in Issue : <<r, i>> \in owned
       /\ call.ambiguous => Cardinality(Candidates(call.session)) > 1
  /\ call.at = "blocked" =>
       /\ <<call.run, call.copy.issue>> \in owned
       /\ call.lock = "dead" \/ (call.lock # "alive" /\ record[call.run].status \in Ended)
=============================================================================

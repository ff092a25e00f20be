------------------------------ MODULE MCStores ------------------------------
(* What a checkout keeps between runs, side by side for TLC: the worktree   *)
(* and branches of an issue (Worktree), the verification markers of an      *)
(* issue (Verification), the managed skill packs (Skills), the buffer of a  *)
(* worker's event stream (Stream), the artifacts commands and harnesses     *)
(* find and move (Command) and the plan a worker's tools edit (Plan).  They *)
(* do not interact here: each behaviour is one of `part`, the others stay   *)
(* put.                                                                     *)
EXTENDS Worktree, TLC

CONSTANTS
  v1, v2, k1, k2,
  EarlyAsk, MaxHead, MaxPosts, MaxTries,                  \* of Verification
  Source, Revision, Allowed, Local, MaxEdits, MaxManifests, MaxKills,  \* of Skills
  Length, MaxLines, MaxChunk, MaxPending,                 \* of Stream
  Process, Issue, Nobody, Artifact, MaxAttempts, Killed,  \* of Command
  Name, Fix, Plans, MaxCommits                            \* of Plan

VARIABLES
  part,
  head, candidate, issue, finalizer, posts, tries,
  manifest, disk, marker, sync, used, ghost,
  lines, written, pending, parsed, over,
  harness, lease, proc, root, ws, parked, legacy, texts, lapsed, unsure,
  file, index, commit, commits, logged, sources, continuation, world, recorded, call, was, done

thread == <<head, candidate, issue, finalizer, posts, tries>>
packs == <<manifest, disk, marker, sync, used, ghost>>
stream == <<lines, written, pending, parsed, over>>
command == <<harness, lease, proc, root, ws, parked, legacy, texts, lapsed, unsure>>
tools == <<file, index, commit, commits, logged, sources, continuation, world, recorded, call, was, done>>
text == <<stream, command, tools>>
allVars == <<part, vars, thread, packs, text>>

(* Checks asked for at any time, three comments of others, three runs.      *)
V == INSTANCE Verification WITH MaxMain <- MaxHead, main <- head, run <- finalizer

(* Two sources, two revisions with a licence and a file of their own each.  *)
Allowlist == v1 :> {0, 1} @@ v2 :> {0, 2}
K == INSTANCE Skills

(* Short and long lines; the longest leaves no room for another read.       *)
T == INSTANCE Stream

(* Two commands about one issue; a command and a harness.  Two plans of     *)
(* another issue are about, and a record that names none.                   *)
Named(kind, i, t) == [slot |-> kind, kind |-> kind, issue |-> i, text |-> t]
Artifacts == {Named("plan", 2, "x"), Named("plan", 2, "y"), Named("verify", Nobody, "v")}
C == INSTANCE Command WITH Mortal <- Killed

(* Two plans: a criterion that reads like a task before the tasks; a        *)
(* mention of the heading of the tasks before it, which is in other letters.*)
Heading(name) == [kind |-> "heading", name |-> name, open |-> FALSE]
Open(name) == [kind |-> "box", name |-> name, open |-> TRUE]
Written ==
  {<<Heading("Criteria"), Open("t"), Heading("Log"), Heading("Tasks"), Open("t")>>,
   <<[Heading("Tasks") EXCEPT !.kind = "text"], Heading("tasks"), Open("t"), Heading("Criteria"), Heading("Log")>>}
L == INSTANCE Plan WITH
  Nothing <- <<>>, head <- commit, made <- commits, marker <- continuation, remote <- world

ASSUME StoresAssumption ==
  /\ V!VerificationAssumption /\ K!SkillsAssumption /\ T!StreamAssumption
  /\ C!CommandAssumption /\ L!PlanAssumption

(* A worktree that nobody has touched.                                      *)
Still == Beginning("nothing", {}, {}, FALSE, FALSE) /\ main = [origin |-> 0, tracking |-> 0]

(* The parts that do not move begin in one state.                           *)
EitherInit ==
  /\ part \in {"worktree", "thread", "packs", "stream", "commands", "plan"}
  /\ Init /\ V!Init /\ K!Init /\ T!Init /\ C!Init /\ L!Init
  /\ part # "packs" => manifest = [s \in Source |-> v1]
  /\ part # "worktree" => Still
  /\ IF part = "commands" THEN harness \in {{}, {k2}} ELSE harness = {} /\ root = {}

EitherNext ==
  /\ \/ part = "worktree" /\ Next /\ UNCHANGED <<thread, packs, text>>
     \/ part = "thread" /\ V!Next /\ UNCHANGED <<vars, packs, text>>
     \/ part = "packs" /\ K!Next /\ UNCHANGED <<vars, thread, text>>
     \/ part = "stream" /\ T!Next /\ UNCHANGED <<vars, thread, packs, command, tools>>
     \/ part = "commands" /\ C!Next /\ UNCHANGED <<vars, thread, packs, stream, tools>>
     \/ part = "plan" /\ L!Next /\ UNCHANGED <<vars, thread, packs, stream, command>>
  /\ UNCHANGED part

(* Nothing tells one run from another.                                      *)
Alike == Permutations(Run)

EitherSpec == EitherInit /\ [][EitherNext]_allVars

(* The properties of the parts, stated and explained in their modules.      *)
(* Verification: an issue is closed only with its checks passed.            *)
ClosedSettled == V!ClosedSettled
(* Skills: a sync does not replace an edit of a file it manages, and a      *)
(* destination that passes the check holds what is pinned.                  *)
EditsRespected == K!EditsRespected /\ [](part = "packs" => K!CheckedIsReviewed)
(* Stream: every line that fits the buffer is parsed.                       *)
LinesParsed == T!LinesParsed
(* Command: an issue is worked on by one, and only by who holds its lease;  *)
(* moving artifacts aside overwrites none.                                  *)
ScopedWork == C!ScopedWork /\ C!TextsKept
(* Plan: tasks are marked in order, marks are kept, outcomes are earned.    *)
PlanProgress == L!PlanProgress
=============================================================================

-------------------------------- MODULE Plan --------------------------------
(***************************************************************************)
(* The plan of an issue and what a worker's tools do to it in the issue's  *)
(* worktree (extensions/pi-next/tools-update.ts, tools-inspect.ts,         *)
(* plan-read.ts, plan-write.ts): the current task is marked done, a fix is *)
(* appended, a marker is left for the next session, an unresolved plan is  *)
(* parked, and the outcome of a step is recorded, each from the boundary   *)
(* it requires (safeLoopBoundary of loop-state.ts).  Meanwhile the worker  *)
(* commits, the controller merges and closes, somebody edits, and the      *)
(* session may be killed.                                                  *)
(*                                                                         *)
(* A plan is a sequence of lines: headings, check boxes and text.  The     *)
(* reader finds "## Tasks" as a line in any case; the writers look for the *)
(* exact characters anywhere.  What is logged with a mark, and what a      *)
(* commit may contain, which is Candidate, are left out.                   *)
(***************************************************************************)
EXTENDS Naturals, Sequences, FiniteSets, SequencesExt, FiniteSetsExt

CONSTANTS
  Name,      \* what tasks, fixes and criteria are called
  Fix,       \* names a fix may be given
  Plans,     \* the plans a worker may write
  Nothing,   \* no plan
  MaxCommits \* bound: commits made in the worktree

Line == [kind : {"heading", "box", "text"}, name : Name \cup {"Tasks", "tasks", "Criteria", "Log", "Deferred"}, open : BOOLEAN]
Heading(h) == [kind |-> "heading", name |-> h, open |-> FALSE]
Open(n) == [kind |-> "box", name |-> n, open |-> TRUE]
Text(h) == [kind |-> "text", name |-> h, open |-> FALSE]

(* What is assumed of the constants.                                        *)
PlanAssumption ==
  /\ Fix \subseteq Name /\ \A d \in Plans : d \in Seq(Line)
  /\ Nothing = <<>> /\ Nothing \notin Plans /\ MaxCommits \in Nat

VARIABLES
  file,     \* [plan, parked] in the worktree
  index,    \* the same, staged
  head,     \* the same, committed last; and whether that commit archived the plan
  made,     \* commits so far
  logged,   \* history: boxes that are closed in some commit
  sources,  \* "clean", or changes that are not committed
  marker,   \* a continuation marker is there
  remote,   \* [closed, published]: the issue, and whether main has the last commit
  recorded, \* the step has a recorded outcome
  call,     \* the tool call under way: [tool, at, outcome]
  was,      \* history: what held at some moment of the call
  done      \* history: boxes that mark_done closed

vars == <<file, index, head, made, logged, sources, marker, remote, recorded, call, was, done>>

(* done stands for every outcome that is neither of the others.             *)
Outcomes == {"done", "archived", "failed"}
Conditions == {"clean", "unmarked", "no plan", "closed", "published", "no archive"}
Doc(d) == d = Nothing \/ d \in Seq(Line)

TypeOK ==
  /\ \A d \in {file.plan, file.parked, index.plan, index.parked, head.plan, head.parked} : Doc(d)
  /\ head.archived \in BOOLEAN /\ made \in 0 .. MaxCommits /\ logged \subseteq Name
  /\ sources \in {"clean", "changed"} /\ marker \in BOOLEAN
  /\ remote \in [closed : BOOLEAN, published : BOOLEAN] /\ recorded \in BOOLEAN
  /\ was \subseteq Conditions /\ done \subseteq Name
  /\ call.tool \in {"none", "defer", "result"} /\ call.at \in {"boundary", "write", "move", "commit", "after", "issue", "main", "record"}
  /\ call.outcome \in Outcomes

NoCall == [tool |-> "none", at |-> "boundary", outcome |-> "failed"]

Init ==
  /\ file = [plan |-> Nothing, parked |-> Nothing] /\ index = file
  /\ head = [plan |-> Nothing, parked |-> Nothing, archived |-> FALSE] /\ made = 0 /\ logged = {}
  /\ sources = "clean" /\ marker = FALSE /\ remote = [closed |-> FALSE, published |-> TRUE]
  /\ recorded = FALSE /\ call = NoCall /\ was = {} /\ done = {}

-----------------------------------------------------------------------------
(* Operators named X_Y are X with a plausible bug; no specification uses    *)
(* them.  They show that the properties below would notice.                 *)

Indices(d, P(_)) == {j \in DOMAIN d : P(d[j])}
IsHeading(l) == l.kind = "heading"
FirstFrom(S, otherwise) == IF S = {} THEN otherwise ELSE Min(S)

(* Where the section that begins at line s ends.                            *)
End(d, s) == FirstFrom({j \in Indices(d, IsHeading) : j > s}, Len(d) + 1)

(* currentTask: the first open box of the section the reader finds.         *)
Section(d) == FirstFrom(Indices(d, LAMBDA l : IsHeading(l) /\ l.name \in {"Tasks", "tasks"}), 0)
OpenTasks(d) ==
  LET s == Section(d) IN
  IF s = 0 THEN {} ELSE {j \in s + 1 .. End(d, s) - 1 : d[j].kind = "box" /\ d[j].open}
CurrentTask(d) == FirstFrom(OpenTasks(d), 0)

(* Where the writers find the tasks: the first line that has the heading in *)
(* it.                                                                      *)
Found(d) == FirstFrom(Indices(d, LAMBDA l : l.kind # "box" /\ l.name = "Tasks"), 0)

(* markDone: the first open box with one of the names M, up to the next     *)
(* heading; or none, and the call throws.                                   *)
Marked_Anywhere(d, M) == FirstFrom({j \in DOMAIN d : d[j].kind = "box" /\ d[j].open /\ d[j].name \in M}, 0)
Marked(d, M) ==
  LET s == Found(d) IN
  IF s = 0 THEN 0
  ELSE FirstFrom({j \in s + 1 .. End(d, s) - 1 : d[j].kind = "box" /\ d[j].open /\ d[j].name \in M}, 0)

(* appendFix: before the next heading, or at the end.                       *)
Appended(d, n) == LET e == End(d, Found(d)) IN InsertAt(d, e, Open(n))

(* validatePlan, as far as it looks at these lines: sections and tasks.     *)
Valid(d) ==
  /\ Section(d) # 0 /\ \A h \in {"Criteria", "Log"} : \E l \in ToSet(d) : IsHeading(l) /\ l.name = h
  /\ \E j \in Section(d) + 1 .. End(d, Section(d)) - 1 : d[j].kind = "box"

(* The boxes that are closed in a plan.                                     *)
ClosedIn(d) == {l.name : l \in {k \in ToSet(d) : k.kind = "box" /\ ~ k.open}}

Idle == call = NoCall
Files == <<file, index, head, made, logged, done>>

(* What holds now.                                                          *)
Clean == file = index /\ index.plan = head.plan /\ index.parked = head.parked /\ sources = "clean"
Now ==
  {c \in Conditions :
     \/ c = "clean" /\ Clean
     \/ c = "unmarked" /\ ~ marker
     \/ c = "no plan" /\ file.plan = Nothing
     \/ c = "closed" /\ remote.closed
     \/ c = "published" /\ remote.published
     \/ c = "no archive" /\ ~ head.archived}

(* The worker writes a plan.                                                *)
WritePlan ==
  /\ Idle /\ file.plan = Nothing
  /\ \E d \in Plans : Valid(d) /\ file' = [file EXCEPT !.plan = d]
  /\ UNCHANGED <<index, head, made, logged, done, sources, marker, remote, call, recorded>>

(* mark_done, with a prefix that the current task begins with, as do all    *)
(* the names in M.                                                          *)
MarkDone ==
  /\ Idle /\ file.plan # Nothing /\ CurrentTask(file.plan) # 0
  /\ \E M \in SUBSET Name :
       /\ file.plan[CurrentTask(file.plan)].name \in M
       /\ LET j == Marked(file.plan, M) IN
          /\ j # 0
          /\ file' = [file EXCEPT !.plan[j].open = FALSE]
          /\ done' = done \cup {file.plan[j].name}
  /\ UNCHANGED <<index, head, made, logged, sources, marker, remote, call, recorded>>

AppendFix ==
  /\ Idle /\ file.plan # Nothing
  /\ \E n \in Fix :
       /\ \A l \in ToSet(file.plan) : l.name # n
       /\ file' = [file EXCEPT !.plan = Appended(@, n)]
  /\ UNCHANGED <<index, head, made, logged, done, sources, marker, remote, call, recorded>>

(* The worker changes sources, or leaves or clears the marker.              *)
Work ==
  /\ Idle
  /\ \/ sources' = "changed" /\ UNCHANGED marker
     \/ marker' \in BOOLEAN /\ UNCHANGED sources
  /\ UNCHANGED <<Files, remote, call, recorded>>

(* commitExplicitPaths of all there is, refused while something is staged.  *)
Commit(archives) ==
  /\ Idle /\ made < MaxCommits /\ made' = made + 1
  /\ index = [plan |-> head.plan, parked |-> head.parked] /\ ~ Clean
  /\ LET next == IF archives THEN [file EXCEPT !.plan = Nothing] ELSE file IN
     /\ file' = next /\ index' = next
     /\ head' = [plan |-> next.plan, parked |-> next.parked, archived |-> archives]
     /\ logged' = logged \cup ClosedIn(file.plan) \cup ClosedIn(file.parked)
  /\ sources' = "clean" /\ remote' = [remote EXCEPT !.published = FALSE]
  /\ UNCHANGED <<done, marker, call, recorded>>

(* The plan is archived when no task is open.                               *)
Archive == file.plan # Nothing /\ CurrentTask(file.plan) = 0 /\ Commit(TRUE)

(* The controller merges what was archived and closes the issue; somebody   *)
(* edits in the worktree.                                                   *)
Publish == /\ head.archived /\ remote' \in {[remote EXCEPT !.published = TRUE], [closed |-> TRUE, published |-> TRUE]}
           /\ UNCHANGED <<Files, sources, marker, call, recorded>>
Edit == ~ Idle /\ sources' = "changed" /\ UNCHANGED <<Files, marker, remote, call, recorded>>

-----------------------------------------------------------------------------
(* defer_plan.                                                              *)
Begin(tool, outcome) ==
  /\ Idle /\ call' = [tool |-> tool, at |-> "boundary", outcome |-> outcome]
  /\ UNCHANGED <<Files, sources, marker, remote, recorded>>

Defer == file.plan # Nothing /\ Begin("defer", "failed")
Throws == call' = NoCall

At(tool, s) == call.tool = tool /\ call.at = s
Goto(s) == call' = [call EXCEPT !.at = s]

(* The boundary that is asked for first: nothing uncommitted, no marker.    *)
DeferBoundary ==
  /\ At("defer", "boundary") /\ IF Clean /\ ~ marker THEN Goto("write") ELSE Throws
  /\ UNCHANGED <<Files, sources, marker, remote, recorded>>

(* The reason is written under the plan.                                    *)
Reasoned(d) == d \o <<Heading("Deferred")>>
DeferWrite ==
  /\ At("defer", "write") /\ Goto("move")
  /\ file' = [file EXCEPT !.plan = Reasoned(@)]
  /\ UNCHANGED <<index, head, made, logged, done, sources, marker, remote, recorded>>

(* git mv -f moves the file, and the entry of the index with what was       *)
(* staged; what was parked before is replaced.                              *)
Moved(f) == [plan |-> Nothing, parked |-> f.plan]
Moved_Dropped(f) == [plan |-> Nothing, parked |-> Nothing]
DeferMove ==
  /\ At("defer", "move") /\ Goto("commit")
  /\ file' = Moved(file) /\ index' = [plan |-> Nothing, parked |-> index.plan]
  /\ UNCHANGED <<head, made, logged, done, sources, marker, remote, recorded>>

(* git commit: what is staged.                                              *)
DeferCommit ==
  /\ At("defer", "commit") /\ Goto("after") /\ made < MaxCommits /\ made' = made + 1
  /\ head' = [plan |-> index.plan, parked |-> index.parked, archived |-> FALSE]
  /\ logged' = logged \cup ClosedIn(index.parked)
  /\ remote' = [remote EXCEPT !.published = FALSE]
  /\ UNCHANGED <<file, index, done, sources, marker, recorded>>

(* The boundary after it, which the tool reports.                           *)
DeferAfter ==
  /\ At("defer", "after") /\ Throws
  /\ UNCHANGED <<Files, sources, marker, remote, recorded>>

-----------------------------------------------------------------------------
(* loop_result.                                                             *)
Result == \E o \in Outcomes : Begin("result", o)

(* safeLoopBoundary, which asks for more after "archived"; not asked of a   *)
(* failure.                                                                 *)
ResultBoundary ==
  /\ At("result", "boundary")
  /\ CASE call.outcome = "failed" -> Goto("record")
       [] call.outcome = "archived" /\ Clean /\ ~ marker /\ file.plan = Nothing -> Goto(IF head.archived THEN "issue" ELSE "record")
       [] call.outcome \notin {"failed", "archived"} /\ Clean /\ ~ marker -> Goto("record")
       [] OTHER -> Throws
  /\ UNCHANGED <<Files, sources, marker, remote, recorded>>

(* archivedIssueClosureBoundary: the issue is closed, the archive is on     *)
(* main.                                                                    *)
Closed_Unasked == TRUE
Closed == remote.closed
ResultIssue ==
  /\ At("result", "issue") /\ IF Closed THEN Goto("main") ELSE Throws
  /\ UNCHANGED <<Files, sources, marker, remote, recorded>>

ResultMain ==
  /\ At("result", "main") /\ IF remote.published THEN Goto("record") ELSE Throws
  /\ UNCHANGED <<Files, sources, marker, remote, recorded>>

(* writeLoopResult: once, and only while the loop state says that the step  *)
(* is running.                                                              *)
Record ==
  /\ At("result", "record") /\ Throws /\ ~ recorded
  /\ recorded' \in BOOLEAN
  /\ UNCHANGED <<Files, sources, marker, remote>>

(* The session is killed, or a command of the call fails.                   *)
Cut == /\ ~ Idle /\ Throws
       /\ UNCHANGED <<Files, sources, marker, remote, recorded>>

Step ==
  \/ WritePlan \/ MarkDone \/ AppendFix \/ Work \/ Commit(FALSE) \/ Archive \/ Publish \/ Edit
  \/ Defer \/ DeferBoundary \/ DeferWrite \/ DeferMove \/ DeferCommit \/ DeferAfter
  \/ Result \/ ResultBoundary \/ ResultIssue \/ ResultMain \/ Record \/ Cut

Next == Step /\ was' = IF call.tool = "result" THEN was \cup Now ELSE {}

Spec == Init /\ [][Next]_vars

-----------------------------------------------------------------------------
(* A plan that the writers read as the reader does.                         *)
Plain(d) == Found(d) = Section(d)

(* Tasks are marked in their order and never a criterion for a task, and    *)
(* what a fix adds is a task to be done, in every plan that validatePlan    *)
(* accepts and whose heading of tasks is its first mention.                 *)
InOrder ==
  (MarkDone \/ AppendFix) /\ Plain(file.plan) =>
    \/ /\ CurrentTask(file.plan) # 0
       /\ file'.plan = [file.plan EXCEPT ![CurrentTask(file.plan)].open = FALSE]
    \/ \E n \in Fix, j \in OpenTasks(file'.plan) :
         file'.plan[j].name = n /\ RemoveAt(file'.plan, j) = file.plan

(* A task that was marked done is marked in the worktree or in a commit,    *)
(* wherever a deferral or an archive is cut short or fails; and an outcome  *)
(* other than a failure is recorded only of a step that was seen clean and  *)
(* unmarked while it was reported, an archived one with no plan left and,   *)
(* where the last commit is an archive, its issue closed and main having it.*)
MarksKept == done \subseteq logged \cup ClosedIn(file.plan) \cup ClosedIn(file.parked)

ResultEarned ==
  At("result", "record") /\ call.outcome # "failed" =>
    /\ {"clean", "unmarked"} \subseteq was
    /\ call.outcome = "archived" => "no plan" \in was /\ ({"closed", "published"} \subseteq was \/ "no archive" \in was)

PlanProgress == [](MarksKept /\ ResultEarned) /\ [][InOrder]_vars
=============================================================================

------------------------------ MODULE Worktree ------------------------------
(***************************************************************************)
(* The workspace of one issue: ensureIssueWorktree and the migration of    *)
(* legacy worktrees (src/coordination/issue-leases.ts), called by a run    *)
(* that claims the issue first and releases it when the handoff fails      *)
(* (claimAndAttachIssueWorkspace in extensions/pi-next/commands.ts,        *)
(* runPrepare in src/coordination/cli.ts).                                 *)
(*                                                                         *)
(* A commit is a piece of work and the main it was first made on (0) or    *)
(* replayed onto; a branch is the set of its commits, {} when there is no  *)
(* such branch.  Each git command is a step, what a run reads together is  *)
(* one step, and what it read may be old when it acts.  Git refuses as it  *)
(* does: to create a branch that exists, to check a branch out twice, to   *)
(* remove a worktree with changes unless forced.                           *)
(***************************************************************************)
EXTENDS Naturals, FiniteSets

CONSTANTS
  Run,          \* runs that prepare the workspace, in one clone
  Ours,         \* work that names the issue, in its commit or its plan
  Theirs,       \* work that does not
  Published,    \* work on the checkpoint branch another clone may have published
  NoOne,        \* nobody holds the lease
  Mortal,       \* runs whose process may die
  MaxMain,      \* bound: commits on origin's main after the first
  MaxExpiries,  \* bound: leases that run out
  MaxFaults     \* bound: git or network commands that fail

ASSUME WorktreeAssumption ==
  /\ NoOne \notin Run /\ Mortal \subseteq Run
  /\ Run \cap {"canonical", "legacy", "nothing", "foreign", "issue"} = {}
  /\ Ours \cap Theirs = {} /\ (Ours \cup Theirs) \cap Published = {}
  /\ "main" \notin Ours \cup Theirs \cup Published
  /\ MaxMain \in Nat /\ MaxExpiries \in Nat /\ MaxFaults \in Nat

VARIABLES
  branch,   \* local branches: the issue's, a legacy one, one recovery branch per run
  remote,   \* the same two branches on origin
  main,     \* origin's main and the clone's tracking ref of it
  tree,     \* worktrees: the issue's path and one recovery path per run
  kept,     \* worktrees moved to a preservation path
  owner,    \* who holds a fresh lease on the issue
  made,     \* history: work made so far that nobody else has thrown away
  run,      \* per run: its step and what it has read
  expiries, faults

vars == <<branch, remote, main, tree, kept, owner, made, run, expiries, faults>>

Work == Ours \cup Theirs \cup Published

Main(k) == {<<"main", j>> : j \in 0 .. k}

Commit == Main(MaxMain) \cup (Work \X (0 .. MaxMain))

Content(tip) == {c[1] : c \in tip} \ {"main"}

Branch == {"canonical", "legacy"} \cup Run

Checkout == [at : Branch \cup {"nothing", "foreign"}, dirt : SUBSET Work, gone : BOOLEAN]

Nothing == [at |-> "nothing", dirt |-> {}, gone |-> FALSE]

On(b) == [at |-> b, dirt |-> {}, gone |-> FALSE]

Steps == {"idle", "list", "branch", "legacy", "adopt", "fetch", "vacate", "point", "replay",
          "confirm", "move", "create", "dismantle", "attach", "cleanup", "release",
          "working", "dead"}

Idle == [pc |-> "idle", legacy |-> {}, canonical |-> {}, main |-> 0, dirty |-> FALSE]

TypeOK ==
  /\ branch \in [Branch -> SUBSET Commit]
  /\ remote \in [{"canonical", "legacy"} -> SUBSET Commit]
  /\ main \in [origin : 0 .. MaxMain, tracking : 0 .. MaxMain] /\ main.tracking <= main.origin
  /\ tree \in [{"issue"} \cup Run -> Checkout]
  /\ kept \subseteq Checkout
  /\ owner \in Run \cup {NoOne}
  /\ made \subseteq Work
  /\ run \in [Run -> [pc : Steps, legacy : SUBSET Commit, canonical : SUBSET Commit,
                      main : 0 .. MaxMain, dirty : BOOLEAN]]
  /\ expiries \in 0 .. MaxExpiries /\ faults \in 0 .. MaxFaults

(* What the clone may look like before the first run: the path is free, on  *)
(* the issue's branch, on a legacy branch (made before main moved, perhaps  *)
(* with uncommitted work) or on somebody else's branch; origin may hold a   *)
(* legacy branch of another harness.                                        *)
Beginning(at, legacy, dirt, begun, pushed) ==
  /\ branch = [b \in Branch |-> CASE b = "legacy" -> legacy
                                  [] b = "canonical" /\ begun -> Main(0)
                                  [] OTHER -> {}]
  /\ remote = [b \in {"canonical", "legacy"} |-> IF b = "legacy" /\ pushed THEN legacy ELSE {}]
  /\ tree = [p \in {"issue"} \cup Run |->
               IF p = "issue" THEN [On(at) EXCEPT !.dirt = dirt] ELSE Nothing]
  /\ made = Content(legacy) \cup dirt

Init ==
  /\ \E at \in {"nothing", "canonical", "legacy", "foreign"}, past \in SUBSET (Ours \cup Theirs),
        dirt \in SUBSET Ours, k \in 0 .. MaxMain, begun, pushed \in BOOLEAN :
       /\ Cardinality(past) <= 1 /\ Cardinality(dirt) <= 1 /\ past \cap dirt = {}
       /\ dirt # {} => at = "legacy"
       /\ at = "canonical" => begun
       /\ Beginning(at, IF at = "legacy" \/ pushed THEN Main(0) \cup past \X {0} ELSE {}, dirt,
                    begun, pushed)
       /\ main = [origin |-> k, tracking |-> k]
  /\ kept = {}
  /\ owner = NoOne
  /\ run = [r \in Run |-> Idle]
  /\ expiries = 0 /\ faults = 0

-----------------------------------------------------------------------------
(* Operators named X_Y are X with a plausible bug; no specification uses    *)
(* them.  They show that the properties below would notice.                 *)

At(r, step) == run[r].pc = step

Goto(r, step) == run' = [run EXCEPT ![r].pc = step]

CheckedOut(b) == b \in {tree[p].at : p \in DOMAIN tree} \cup {c.at : c \in kept}

Create(b, tip) == branch[b] = {} /\ branch' = [branch EXCEPT ![b] = tip]

(* git worktree remove refuses a worktree with uncommitted work.            *)
Removable(p) == tree[p].at # "nothing" /\ tree[p].dirt = {}

(* update-ref moves the branch only from the tip the run has seen.          *)
Unmoved_Unchecked(r) == TRUE
Unmoved(r) == branch["canonical"] = run[r].canonical

(* legacyCommitAttribution: every commit to replay must name the issue.     *)
Attributable(tip, k) == Content(tip \ Main(k)) \subseteq Ours

(* A fresh lease read just before adoption must name the run.               *)
StillOwner(r) == owner = r

(* The commits of the legacy branch, cherry-picked onto main.               *)
Replayed(r) == Main(run[r].main) \cup Content(run[r].legacy) \X {run[r].main}

Diverged(a, b) == a # {} /\ b # {} /\ ~ a \subseteq b /\ ~ b \subseteq a

-----------------------------------------------------------------------------
(* claimIssueLease as IssueLease shows it: nobody else holds a fresh lease. *)
Claim(r) ==
  /\ At(r, "idle") /\ owner = NoOne
  /\ owner' = r
  /\ run' = [run EXCEPT ![r] = [Idle EXCEPT !.pc = "list"]]
  /\ UNCHANGED <<branch, remote, main, tree, kept, made, expiries, faults>>

(* The handoff failed, or the work is done: releaseIssueLease.              *)
Release(r) ==
  /\ At(r, "release")
  /\ owner' = IF owner = r THEN NoOne ELSE owner
  /\ Goto(r, "idle")
  /\ UNCHANGED <<branch, remote, main, tree, kept, made, expiries, faults>>

There == tree["issue"].at # "nothing" /\ ~ tree["issue"].gone

(* The path is a worktree of the issue's branch: it is the workspace.       *)
Ready(r) ==
  /\ At(r, "list") /\ There /\ tree["issue"].at = "canonical"
  /\ Goto(r, "working")
  /\ UNCHANGED <<branch, remote, main, tree, kept, owner, made, expiries, faults>>

Based == Main(main.tracking) \subseteq branch["legacy"]

Salvageable ==
  /\ tree["issue"].dirt = {}
  /\ branch["legacy"] \ Main(main.tracking) # {}
  /\ Attributable(branch["legacy"], main.tracking)
  /\ branch["canonical"] = {}

(* The path is on a branch that is not the issue's, or whose work cannot be *)
(* taken over without losing something.                                     *)
Refuse(r) ==
  /\ At(r, "list") /\ There
  /\ \/ tree["issue"].at = "foreign"
     \/ tree["issue"].at = "legacy" /\ Based /\ Diverged(branch["legacy"], branch["canonical"])
     \/ tree["issue"].at = "legacy" /\ ~ Based /\ ~ Salvageable
  /\ Goto(r, "release")
  /\ UNCHANGED <<branch, remote, main, tree, kept, owner, made, expiries, faults>>

Migrate(r) ==
  /\ At(r, "list") /\ There /\ tree["issue"].at = "legacy"
  /\ Based /\ ~ Diverged(branch["legacy"], branch["canonical"])
  /\ run' = [run EXCEPT ![r] = [pc |-> "vacate", legacy |-> branch["legacy"],
                                canonical |-> branch["canonical"], main |-> main.tracking,
                                dirty |-> tree["issue"].dirt # {}]]
  /\ UNCHANGED <<branch, remote, main, tree, kept, owner, made, expiries, faults>>

(* Main moved on since the legacy branch was made: its commits are replayed *)
(* on a recovery branch, in a worktree of its own.                          *)
Salvage(r) ==
  /\ At(r, "list") /\ There /\ tree["issue"].at = "legacy"
  /\ ~ Based /\ Salvageable
  /\ branch' = [branch EXCEPT ![r] = Main(main.tracking)]
  /\ tree' = [tree EXCEPT ![r] = On(r)]
  /\ run' = [run EXCEPT ![r] = [Idle EXCEPT !.pc = "replay", !.legacy = branch["legacy"],
                                            !.main = main.tracking]]
  /\ UNCHANGED <<remote, main, kept, owner, made, expiries, faults>>

(* A registration whose directory is gone is pruned.                        *)
Absent(r) ==
  /\ At(r, "list") /\ ~ There
  /\ tree' = [p \in DOMAIN tree |-> IF tree[p].gone THEN Nothing ELSE tree[p]]
  /\ Goto(r, "branch")
  /\ UNCHANGED <<branch, remote, main, kept, owner, made, expiries, faults>>

-----------------------------------------------------------------------------
(* The path is free: find or make the issue's branch.  A query of origin    *)
(* that fails is taken for a branch that is not there.                      *)

HasBranch(r) ==
  /\ At(r, "branch") /\ branch["canonical"] # {}
  /\ Goto(r, "attach")
  /\ UNCHANGED <<branch, remote, main, tree, kept, owner, made, expiries, faults>>

Checkpoint(r) ==
  /\ At(r, "branch") /\ branch["canonical"] = {} /\ remote["canonical"] # {}
  /\ Create("canonical", remote["canonical"])
  /\ Goto(r, "attach")
  /\ UNCHANGED <<remote, main, tree, kept, owner, made, expiries, faults>>

NotThere(b) ==
  \/ remote[b] = {} /\ UNCHANGED faults
  \/ remote[b] # {} /\ faults < MaxFaults /\ faults' = faults + 1

NoCheckpoint(r) ==
  /\ At(r, "branch") /\ branch["canonical"] = {}
  /\ NotThere("canonical")
  /\ Goto(r, "legacy")
  /\ UNCHANGED <<branch, remote, main, tree, kept, owner, made, expiries>>

AdoptLegacy(r) ==
  /\ At(r, "legacy") /\ remote["legacy"] # {}
  /\ IF branch["canonical"] = {}
     THEN Create("canonical", remote["legacy"]) /\ Goto(r, "attach")
     ELSE Goto(r, "cleanup") /\ UNCHANGED branch
  /\ UNCHANGED <<remote, main, tree, kept, owner, made, expiries, faults>>

NoLegacy(r) ==
  /\ At(r, "legacy")
  /\ NotThere("legacy")
  /\ Goto(r, "fetch")
  /\ UNCHANGED <<branch, remote, main, tree, kept, owner, made, expiries>>

(* From the main just fetched.                                              *)
FromMain(r) ==
  /\ At(r, "fetch")
  /\ main' = [main EXCEPT !.tracking = main.origin]
  /\ branch' = [branch EXCEPT !["canonical"] = IF @ = {} THEN Main(main.origin) ELSE @]
  /\ Goto(r, "attach")
  /\ UNCHANGED <<remote, tree, kept, owner, made, expiries, faults>>

(* The fetch fails: from whatever the local main is.                        *)
FromLocalMain(r) ==
  /\ At(r, "fetch") /\ faults < MaxFaults
  /\ \E k \in 0 .. main.tracking :
       IF branch["canonical"] = {}
       THEN Create("canonical", Main(k)) /\ Goto(r, "attach")
       ELSE Goto(r, "cleanup") /\ UNCHANGED branch
  /\ faults' = faults + 1
  /\ UNCHANGED <<remote, main, tree, kept, owner, made, expiries>>

(* git worktree add, the last step of every way.                            *)
Attach(r) ==
  /\ At(r, "attach")
  /\ IF branch["canonical"] # {} /\ ~ CheckedOut("canonical") /\ tree["issue"] = Nothing
     THEN tree' = [tree EXCEPT !["issue"] = On("canonical")] /\ Goto(r, "working")
     ELSE Goto(r, "cleanup") /\ UNCHANGED tree
  /\ UNCHANGED <<branch, remote, main, kept, owner, made, expiries, faults>>

-----------------------------------------------------------------------------
(* migrateAttachedLegacyWorktree.                                           *)

(* Keep aside the worktree that is at the path.                             *)
SetAside ==
  /\ kept' = kept \cup {tree["issue"]}
  /\ tree' = [tree EXCEPT !["issue"] = Nothing]

(* A worktree with changes is moved to a preservation path, one without is  *)
(* removed: whatever is at the path by now.                                 *)
Vacate(r) ==
  /\ At(r, "vacate")
  /\ \/ run[r].dirty /\ There /\ SetAside /\ Goto(r, "point")
     \/ ~ run[r].dirty /\ Removable("issue") /\ Goto(r, "point")
        /\ tree' = [tree EXCEPT !["issue"] = Nothing] /\ UNCHANGED kept
     \/ (IF run[r].dirty THEN ~ There ELSE ~ Removable("issue")) /\ Goto(r, "cleanup")
        /\ UNCHANGED <<tree, kept>>
  /\ UNCHANGED <<branch, remote, main, owner, made, expiries, faults>>

Behind(r) == run[r].canonical # {} /\ run[r].canonical \subseteq run[r].legacy

(* Point the issue's branch at the legacy work: create it, or move it       *)
(* forward from the tip that was read.                                      *)
Point(r) ==
  /\ At(r, "point")
  /\ \/ run[r].canonical = {} /\ Create("canonical", run[r].legacy) /\ Goto(r, "attach")
     \/ run[r].canonical = {} /\ branch["canonical"] # {} /\ Goto(r, "cleanup") /\ UNCHANGED branch
     \/ Behind(r) /\ Unmoved(r) /\ Goto(r, "attach")
        /\ branch' = [branch EXCEPT !["canonical"] = run[r].legacy]
     \/ Behind(r) /\ ~ Unmoved(r) /\ Goto(r, "cleanup") /\ UNCHANGED branch
     \/ run[r].canonical # {} /\ ~ Behind(r) /\ Goto(r, "attach") /\ UNCHANGED branch
  /\ UNCHANGED <<remote, main, tree, kept, owner, made, expiries, faults>>

-----------------------------------------------------------------------------
(* salvageDivergentLegacyWorktree, from the cherry-picks on.                *)

Replay(r) ==
  /\ At(r, "replay")
  /\ branch' = [branch EXCEPT ![r] = Replayed(r)]
  /\ Goto(r, "confirm")
  /\ UNCHANGED <<remote, main, tree, kept, owner, made, expiries, faults>>

Conflict(r) ==
  /\ At(r, "replay")
  /\ Goto(r, "cleanup")
  /\ UNCHANGED <<branch, remote, main, tree, kept, owner, made, expiries, faults>>

(* The last look at the lease, after the replay.                            *)
Confirm(r) ==
  /\ At(r, "confirm")
  /\ Goto(r, IF StillOwner(r) THEN "move" ELSE "cleanup")
  /\ UNCHANGED <<branch, remote, main, tree, kept, owner, made, expiries, faults>>

MoveOld(r) ==
  /\ At(r, "move")
  /\ IF There THEN SetAside /\ Goto(r, "create")
     ELSE Goto(r, "cleanup") /\ UNCHANGED <<tree, kept>>
  /\ UNCHANGED <<branch, remote, main, owner, made, expiries, faults>>

CreateCanonical(r) ==
  /\ At(r, "create")
  /\ \/ Create("canonical", branch[r]) /\ Goto(r, "dismantle")
     \/ branch["canonical"] # {} /\ Goto(r, "cleanup") /\ UNCHANGED branch
  /\ UNCHANGED <<remote, main, tree, kept, owner, made, expiries, faults>>

(* After any failure: the recovery worktree, if any, is removed by force,   *)
(* for git deletes no branch that is checked out.                           *)
Dispose(r) ==
  /\ tree' = [tree EXCEPT ![r] = Nothing]
  /\ branch' = [branch EXCEPT ![r] = {}]

(* The recovery worktree and branch have served.                            *)
Dismantle(r) ==
  /\ At(r, "dismantle")
  /\ Dispose(r)
  /\ Goto(r, "attach")
  /\ UNCHANGED <<remote, main, kept, owner, made, expiries, faults>>

Cleanup(r) ==
  /\ At(r, "cleanup")
  /\ Dispose(r)
  /\ Goto(r, "release")
  /\ UNCHANGED <<remote, main, kept, owner, made, expiries, faults>>

(* Any command may fail or run into its timeout.                            *)
Fail(r) ==
  /\ faults < MaxFaults
  /\ run[r].pc \in {"branch", "vacate", "point", "replay", "confirm", "move", "create",
                    "dismantle", "attach"}
  /\ faults' = faults + 1
  /\ Goto(r, "cleanup")
  /\ UNCHANGED <<branch, remote, main, tree, kept, owner, made, expiries>>

-----------------------------------------------------------------------------
(* What happens around the runs.                                            *)

Done(r) ==
  /\ At(r, "working")
  /\ Goto(r, "release")
  /\ UNCHANGED <<branch, remote, main, tree, kept, owner, made, expiries, faults>>

Die(r) ==
  /\ r \in Mortal /\ run[r].pc \notin {"idle", "dead"}
  /\ Goto(r, "dead")
  /\ UNCHANGED <<branch, remote, main, tree, kept, owner, made, expiries, faults>>

Expire ==
  /\ owner # NoOne /\ expiries < MaxExpiries
  /\ owner' = NoOne
  /\ expiries' = expiries + 1
  /\ UNCHANGED <<branch, remote, main, tree, kept, made, run, faults>>

(* Somebody works in the directory: a worker of ours or of another harness. *)
Edit ==
  /\ There /\ tree["issue"].at \in {"canonical", "legacy"}
  /\ \E w \in Ours \ made :
       /\ tree' = [tree EXCEPT !["issue"].dirt = @ \cup {w}]
       /\ made' = made \cup {w}
  /\ UNCHANGED <<branch, remote, main, kept, owner, run, expiries, faults>>

CommitWork ==
  /\ There /\ tree["issue"].dirt # {}
  /\ branch' = [branch EXCEPT ![tree["issue"].at] = @ \cup (tree["issue"].dirt \X {0})]
  /\ tree' = [tree EXCEPT !["issue"].dirt = {}]
  /\ UNCHANGED <<remote, main, kept, owner, made, run, expiries, faults>>

(* An operator deletes the directory, with what was not committed.          *)
Delete ==
  /\ There /\ tree["issue"].at \in {"canonical", "legacy"}
  /\ made' = made \ tree["issue"].dirt
  /\ tree' = [tree EXCEPT !["issue"].gone = TRUE, !["issue"].dirt = {}]
  /\ UNCHANGED <<branch, remote, main, kept, owner, run, expiries, faults>>

MainAdvances ==
  /\ main.origin < MaxMain
  /\ \E seen \in BOOLEAN :
       main' = [origin |-> main.origin + 1,
                tracking |-> IF seen THEN main.origin + 1 ELSE main.tracking]
  /\ UNCHANGED <<branch, remote, tree, kept, owner, made, run, expiries, faults>>

(* Another clone publishes its checkpoint of the issue.                     *)
Publish ==
  /\ Published # {} /\ remote["canonical"] = {}
  /\ remote' = [remote EXCEPT !["canonical"] = Main(0) \cup (Published \X {0})]
  /\ made' = made \cup Published
  /\ UNCHANGED <<branch, main, tree, kept, owner, run, expiries, faults>>

Next ==
  \/ \E r \in Run :
       \/ Claim(r) \/ Release(r) \/ Ready(r) \/ Refuse(r) \/ Migrate(r) \/ Salvage(r) \/ Absent(r)
       \/ HasBranch(r) \/ Checkpoint(r) \/ NoCheckpoint(r) \/ AdoptLegacy(r) \/ NoLegacy(r)
       \/ FromMain(r) \/ FromLocalMain(r) \/ Attach(r) \/ Vacate(r) \/ Point(r)
       \/ Replay(r) \/ Conflict(r) \/ Confirm(r) \/ MoveOld(r) \/ CreateCanonical(r)
       \/ Dismantle(r) \/ Cleanup(r) \/ Fail(r) \/ Done(r) \/ Die(r)
  \/ Expire \/ Edit \/ CommitWork \/ Delete \/ MainAdvances \/ Publish

Spec == Init /\ [][Next]_vars

-----------------------------------------------------------------------------
(* No step of a run loses work on the issue, committed or not, whatever     *)
(* other runs, workers and failures come between what it read and what it   *)
(* does: it stays on a branch, in a worktree or on origin.                  *)
WorkKept ==
  made \subseteq Content(UNION ({branch[b] : b \in Branch} \cup {remote[b] : b \in DOMAIN remote}))
                 \cup UNION ({tree[p].dirt : p \in DOMAIN tree} \cup {c.dirt : c \in kept})
=============================================================================

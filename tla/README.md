# A formal model of pi-next

pi-next lets agents work on the issues of a repository: a controller picks an
issue, claims it with a lease kept in git refs on GitHub, has a worker change
the code in a worktree of its own, runs the checks, merges the candidate into
`main` and closes the issue. Several controllers on several machines may do so
at once, each may crash, and people edit issues, push commits and type into the
same checkouts meanwhile. This directory models the parts of the program on
which the safety of that rests, model-checks them on small instances with TLC,
and proves what matters most for every instance with TLAPS.

Paths below are paths in the repository. `PROJECT.json` maps every definition to
the lines it models, and lists the components, the hazards and the findings.

## The system

| Component | State | Operations | Interacts with | Module |
| --- | --- | --- | --- | --- |
| Issue lease (`src/coordination/issue-leases.ts`, `issue-authority.ts`, `authority-read-policy.ts`) | `refs/leases/issues/N` on GitHub: a chain of commits, each with a lease record; the lease object of a run; the lease saved in `LoopState` | claim, renew (heartbeat), release, recover, reconcile for resume | scheduler and commands claim; finalize checks it | `IssueLease` |
| Finalize and refresh lock files (`src/coordination/finalize.ts` 187-225, `extensions/pi-next/main-refresh.ts` 80-97) | a file in the git common directory that holds a pid | acquire with recovery of a dead holder's file, release | everything that moves the coordination root | `LockFile` |
| Lifecycle lock (`src/bootstrap/lifecycle-lock.ts`) | a directory per issue with `owner.json`; its heartbeat | acquire, update, heartbeat, release, recovery | kernel, bootstrap finalizer | `LifecycleLock` |
| Guarded completion (`src/coordination/finalize.ts`, `post-integration-reverification.ts`, `incident-diagnostics-commit.ts`) and main refresh (`extensions/pi-next/main-refresh.ts`) | the coordination root (HEAD, tracking ref, tree), `origin/main`, issue branches, the issue | check the lease, sync, merge, push or undo, re-check, close or mark; reverify the integrated main and retry; publish and fast-forward | lease, lock file, authority | `Finalize` |
| Lifecycle kernel and bootstrap supervisor (`src/lifecycle/kernel.ts`, `src/bootstrap/supervisor.ts`) with the bootstrap finalizer (`src/lifecycle/bootstrap-finalize.ts`, `src/bootstrap/finalization-proof.ts`) | issue branch and worktree, worker attempts, the report, the durable proof | lock, prepare, implement, retry, check, repair, decide; commit, verify, promote, clean up, synchronise | lifecycle lock, guarded completion, workers | `Lifecycle` |
| Lifecycle scheduler (`src/lifecycle/scheduler.ts`, `extensions/pi-next/production-lifecycle.ts`) | results, skipped issues | discover, claim, run the kernel, release, requery | lease, kernel | `Scheduler` |
| Auto runs, monitor, cancellation (`extensions/pi-next/loop.ts`, `loop-*.ts`, `monitor.ts`, `run-cancellation.ts`) | durable `LoopState`, the controllers of a process | start, resume, stop, poll | scheduler | `Auto` |
| Run status (`loop-status.ts`, `commands-recovery.ts`) | none: reads records, leases, locks | status, block an abandoned run | loop state, lease | `Status` |
| Lifecycle journal (`src/coordination/lifecycle-journal.ts`) | append-only file of events | read, number, look up the key, append, force; import a baseline | scheduler, loop | `LifecycleJournal` |
| Candidate discovery (`issue-candidates.ts`, `work-authority.ts`) and roadmap (`src/bootstrap/roadmap.ts`, `cli.ts`) | none | list, filter, order, read leases; walk the roadmap with its dependencies | scheduler, lease | `Discovery`, `Roadmap` |
| Explicit issue command and coordination CLI (`extensions/pi-next/commands.ts`, `src/coordination/cli.ts`) | workflow artifacts in the root and the worktree | choose, claim, attach, quarantine, hand off, release | lease, worktree, lifecycle | `Command` |
| Issue worktrees (`issue-leases.ts`) | worktrees and branches | ensure, attach, migrate, salvage | commands, scheduler | `Worktree` |
| Workers (`src/bootstrap/worker-runner.ts`, `worker-factory.ts`, `extensions/pi-next/util-core.ts`, `worker-terminal-result.ts`) | a session or child process, its timers and its evidence | start, watch, stop, classify the ending | supervisor | `Worker` |
| Event stream (`worker-telemetry.ts`, `worker-activity.ts`) | a bounded buffer | push chunks, finish | workers, display | `Stream` |
| Worker dispatch and review (`worker-dispatch.ts`, `skill-registry.ts`, `adversarial-review.ts`, `candidate-review.ts`) | the effective registry, the policy | dispatch a prompt, a worker, a reviewer; the gate | skills, configuration | `Dispatch` |
| Managed skills (`src/skills/sync.ts`) | destinations, PROVENANCE.json | sync, check | dispatch | `Skills` |
| Bootstrap setup and checks (`src/bootstrap/dependencies.ts`, `verification.ts`) | node_modules and its state file | install or validate, run the checks | supervisor | `Setup` |
| Configuration (`src/coordination/config.ts`) | `.pi-next/config.json` | load with defaults and bounds | everything | `Config` |
| Pi checkpoint, promotion and commit budget (`tools-check.ts`, `tools-git.ts`, `commit-safety.ts`, `checkpoint.ts`, `workflow-commit-policy.ts`) | VERIFY.md, quality evidence, telemetry, the promotion request | quality, verify, commit, checkpoint, promote, archive | the controller integrates what is requested | `Candidate` |
| Plan tools (`tools-update.ts`, `plan-read.ts`, `plan-write.ts`) | PLAN.md, the parked plan, a marker, the result of a step | mark_done, append_fix, defer_plan, continue, loop_result | candidate, loop | `Plan` |
| External verification (`src/coordination/work-authority.ts`) | structured comments of the issue | mark pending, record a result, read, close | finalizer | `Verification` |
| Incident reporting (`src/coordination/incident-reporting.ts`) | incident files, last.json, issues upstream | capture, publish or recur | kernel, status, CLI | `Incident` |
| User interface (`commands-recovery.ts`, `live-ctx.ts`, `worker-display.ts`) | bindings of sessions to runs, rows of workers | paint, bind, restore, dispose | auto runs, stream | `Footer`, `Display` |
| Evaluation harness | offline | | | none |

What is hard about it:

- **Delay and loss.** Every GitHub call has a client timeout that does not take
  the request back: a write a run gave up on may still land between the steps of others.
- **Interleaving in one checkout.** Finalize, main refresh, the incident commit,
  commands, workers and the operator move the same files and refs, command by
  command, under locks that do not all exclude each other.
- **Stale reads.** Lease, fingerprint, integrated revision, external verification,
  lists of issues, records of runs and the configuration are read long before what
  they justify.
- **Crashes and retries.** A run can die between any two of its commands; every rerun
  works from what is left.
- **Locks of the dead.** Recovery of a lock is check-then-remove by name.
- **Read, then append or replace.** Journal, telemetry, plan, markers and provenance are
  read as a whole and written later by processes that do not exclude each other.
- **A host that replaces what is under it.** Sessions, contexts and the extension's
  memory may go between the scheduling of a callback and its run.

## The modules

`X` in the table above models the component; `LeaseContract` is the abstract promise of
a lease (granted only when free or expired, only its owner extends or ends it), which
`IssueLease` implements; `MC*` are the instances; `*_proof` hold the theorems: `X_proof` about
`X`, and `Processes_proof`, `Runs_proof`, `Stores_proof` and `Tools_proof` about the parts of the
MC module of that name.

They stack. `Scheduler` and `Command` take the lease as `LeaseContract` promises it.
`Scheduler` takes the lifecycle of an issue as the disposition it ends with, and
`Discovery` is its choice of an issue in full. `Lifecycle` takes the lifecycle lock at
its word (one run at a time, what `LifecycleLock` is about), `finalizeIssue` as the two
steps promote and settle (what `Finalize` is about), a worker as what it leaves
(`Worker`), the installation as done (`Setup`). `Finalize` takes the finalize lock as one
atomic field of the root (`LockFile`) and the lease as an owner that may change
(`IssueLease`). `Verification` is the thread of comments that `Finalize` abbreviates to
"pending". `Dispatch` takes what `Skills` leaves as a pack whose provenance is or is not
the reviewed one.

Operators named `X_Y` next to an operator `X` are `X` with a plausible bug. No
specification uses them; each property was seen to fail with one of them in the place of
`X`.

### IssueLease

`store` is the head of `refs/leases/issues/N`: its revision, owner and expiry.
The code never deletes the ref: a release commits a blank record. A write names
the revision it expects and lands only as a fast-forward of it. `wire` holds
writes that were sent; `Land` is the server applying one, at any time, and a
write that stays in `wire` for ever is lost. `awaited` says that the caller still
waits; a timeout (`Orphan`) clears it and leaves the write where it is. `pc`
walks each run through claim (read, send, re-read after a conflict, at most
`MaxClaimAttempts`), renew, release, recover and reconcile, with one step per
call to GitHub. A run in `HeartbeatRun` is one of the production scheduler or of
the explicit command: it has a heartbeat and keeps the lease in memory. The others
are runs of the legacy loop: no heartbeat, and the lease is saved in `LoopState`,
so a crashed run may resume with it. `now` is the time a run sampled when its
operation began, as the code does; freshness is judged against it and not against
`clock`. One clock is read by all: clock skew between machines is not modelled.

### LockFile and LifecycleLock

`LockFile`: `file` is the inode under the name (by who created it) and `pid`
what is written in it, so a file that was created and not yet written is a state
of its own. `LifecycleLock`: `dir` is the directory, `record` is `owner.json`,
whole or torn, since heartbeat, update and first write all truncate and then
fill the file, and a heartbeat write may still be under way when release removes
the directory. The recursive removal of the directory is the unlink of the record
and then the removal of the directory, with other processes in between.
`Mortal` are the processes that may be killed.

### Finalize

Commits are numbers, `anc` their ancestors; the tree of a commit is the set of
non-merge commits among its ancestors, so two merges of the same work have the same
tree and "this tree was checked" is `tree \in verified`. `root` is, per clone,
local main, the tracking ref, the holder of the finalize lock, what is
uncommitted in the tree (edits, conflict markers, incident files) and where a
refresh is. `fin` is each finalizer's program counter and local variables: the
candidate, the fingerprint taken at verification (`fp`), the revision it
brought back as reverified (`vim`), the bases it noted and the counters of its two
loops. Each git or authority command is a step; failing commands go through `Undo`,
`Fails` or `Crash`. `issue` carries the version every comment, edit, mark or
close bumps, so a fingerprint is a version; `claims` are the pairs of candidate
and revision the issue was closed for.

### Lifecycle

`main` is the sequence of revisions of `origin/main`, each the set of this
issue's candidate commits in it; `local`, `baseline` (what the supervisor
fetched) and `seen` (what the finalizer fetched) are positions in it. `branch`
is where the issue branch was made and its own commits, `wt` the worktree. `run`
is the run that holds the lifecycle lock, with the variables of the supervisor and
the finalizer, or the report of the last one. `verified` and `foreign` are
history: the version of the issue each commit was verified at, and the commits
others have merged. The environment pushes to main, merges the issue branch,
refreshes local main, edits root, worktree and issue, commits in the worktree, and
aborts. It leaves the worktree alone while the finalizer's checks run in it, as the
docs ask of operators; edits at every other point are allowed.

### Scheduler

`run` is, per call of `runLifecycleScheduler`, where it is in its loop, the issue
in hand, the results so far, the issues it remembers to skip (`raceSkips`), why it
is about to give a lease back, and how it returned. `lease` is, per issue, the last
owner and whether the record is still fresh; `Expire` is the passing of time,
`Beat` a renewal. A heartbeat that was stopped, was refused or failed once is one
that does not beat, and since a lease may run out at any time no variable says
which. A claim or release that fails may have taken effect (`ClaimFails`,
`ReleaseFails`), which is what `IssueLease` says of writes that land late.
`Queue` is the order of the issues, `ready` those the authority lists as eligible.
Which of the older skips are forgotten beyond `MaxSkips` is left open. `lapsed` is
history: the runs whose lease ran out while they hold it.

### LifecycleJournal

`file` is the journal as a reader sees it, a sequence of lines that carry the number
and the request and are whole, without their newline (`unended`, which the reader
accepts) or no longer parsed (`broken`); `disk` is the prefix of it that was forced to
disk; `exists` tells an empty file from none, since the baseline is imported only when
there is none. `run` is where each writer is in `appendLifecycleJournal`. A write behind
an unended line runs into it. `Kill` stops a writer and loses nothing that was written;
`PowerFails` stops all and leaves of what was not forced a prefix, perhaps with its last
line cut. Assumed: forcing a file to disk also keeps its name, what was not forced
survives as a prefix, and a key determines its event.

### Auto and Status

`Auto`: per run its `state.json`; `exec` the executions of the scheduler with the
command or monitor that leads to each, step by step between their awaits; `controllers`
the map of `run-cancellation.ts`; `monitor` the monitors of each process with timer and
check; `stopping` a stop command between its read and its write. Processes in `Mortal`
may be killed, calls may fail (`MaxFaults`).

`Status`: records, leases and locks are read one after the other by a status or an auto
command while runs start, take issues, give them back, end and die (`MaxMoves`). `owned`
is history: who owned which issue since the command began. A run of an earlier version
(`Legacy`) has a lock with a pid and its lease in its record.

### Worktree and Command

`Worktree`: a commit is a piece of work and the main it was made on; a branch is a set of
them; each git command is a step that refuses as git does. A run claims, ensures (attach,
create, migrate a legacy worktree, salvage a rewritten one) and releases when the handoff
fails. It begins in every state another harness may have left the clone in
(`Beginning`), and operators, other clones, expiries and failing commands come between.

`Command`: each process is the explicit command or a harness that uses the coordination
CLI; `root`, `ws`, `parked` and `legacy` are the workflow artifacts (a plan or a record,
by file name, issue and text) where the code looks for them and moves them. Every step
after the claim may fail or the process be killed.

### Worker and Stream

`Worker`: `session` is the attempt `runWorker` has under way; `child` a Pi child process
with watchdog, timers, signals and what `runIssueWorker` keeps of it; `model` and
`evidence` an SDK session and the terminal result last observed; `journal` what the
adapter recorded. Time counts in firings of the watchdog's interval and tokens in steps of
the thresholds. `Stream` is the buffer of the incremental parsers over a text cut
anywhere: lines and buffer are intervals of positions.

### Candidate and Plan

`Candidate`: the tools of a worker in any order on one candidate; `work` and `tip` the
sources in the worktree and in the last commit, `report` VERIFY.md with the fingerprints
it was written for, `quality` the evidence file, `telemetry` the bookkeeping count,
`request` the promotion request. A call is cut where it waits for git, GitHub, a command
or a reviewer; there the issue or the files may change and the worker may be killed.

`Plan`: a plan is a sequence of lines (headings, boxes, text); `file`, `index`, `head`
are plan and parked plan in the worktree, staged and committed, so that `git mv` and
`commit` do what git does with them. Each tool runs from the boundary it requires to
the outcome it records.

### Verification, Incident, Skills, Dispatch, Setup, Config

`Verification`: the issue with its thread of structured comments; the finalizer's every
call of gh is a step. `Incident`: files of the checkout and incidents upstream; a
creation that timed out is in `flight` and may still appear; the search index may lag.
`Skills`: the content of a file is the upstream revision it was copied from, a hash is
the content it is of; a sync copies file by file and writes the marker last.
A source the caller has a checkout of (`--source-dir`) is copied from there, whatever is in it.
`Dispatch`: registry, policy and the gate with one reviewer for each axis, while packs are
synced and the configuration is edited; a reviewer may die before or after it prints something. `Setup`: installers are process groups of their
own, so a bootstrap that is killed leaves an orphan that still writes. `Config`: numbers
are levels against the bounds, a section is a function of the fields it gives; the file is
edited one field at a time, or what was loaded is spelled out in it.

### Discovery and Roadmap, Footer and Display

`Discovery`: `view` is what was listed, priority by priority, while `item` and `held`
change; windows of leases are read, `steady` and `chances` are history. `Roadmap`: issues
read one by one, dependencies read once. `Footer`: contexts are replaced and the extension
is loaded anew; of a text only its run and whether it ended is kept. What it promises is for a
process with one command: a second one of the same session may be given the first one's binding. `Display`: rows,
timers of settled rows, paints put off to a microtask, a view, and a host that throws.

## What is checked

Components that do not interact are checked side by side: the modules `MCProcesses`,
`MCRuns`, `MCStores` and `MCTools` hold one instance of each of several modules (one of them by
extending `LifecycleLock`, `Lifecycle`, `Worktree` and `LifecycleJournal`), and a
variable `part` that never changes says which of them moves; the others stay in one initial state.
The constants of all of them are constants of the MC module, which the cfg gives values, so that
the theorems about a part are for any values of them. `MCFinalize` does the
same with one module: its parts are `Finalize` with different actors and bounds, so that the commits of
others and a second finalizer, which together give too many states, are checked side by side in
FinalizeSharedRoot. Where a part is checked with several
values, these are a variable that is chosen at the start and never changes: `setting` of `Candidate`
and of `Auto`, `panel` of `Display`, `harness` of `Command`.
A behaviour of such a run is therefore a behaviour of exactly one part, its state count
is the sum and not the product of the parts, and every property and every condition of
fairness is that of the part's own module.

| Run | Part: instance | Shows |
| --- | --- | --- |
| IssueLeaseProtocol | two runs, one with heartbeat; a lease of one tick, clock to 1, 2 attempts, 3 revisions, 2 writes under way | `ExclusiveHolder`, `ReleaseIsFinal`, `FreshLeaseMovedByOwner`, the refinement `ImplementsContract`, `ClaimSettles` |
| FinalizeClones | two clones finalize one issue across a takeover; an edit of the issue, a commit by others, a refresh and incident files; 2 promotion attempts, 1 reverification | `VerifiedClosure`, `FencedClosure`, `RootPublished` |
| FinalizeSharedRoot | one clone, two issues, one of them awaiting external verification, one mortal finalizer. shared: two finalizers, an operator who edits the root, two merges; moving: one finalizer, two commits of others; two reverifications in both | `ClosedOnce`, `FinalizeReturns` |
| SchedulerRuns | two runs, one mortal, with budgets of one and two; two issues, lease reads one at a time, an owner outside, a changing authority at the second | `ExclusiveWork`, `ReturnedHoldsNothing`, `OncePerRun`, `RunEnds` |
| Processes | directory: two processes, one mortal | `OneLifecycle`, half of `StaleLockRecovered` |
| | file: two contenders, one mortal, 4 rounds for the code's 50 | `MutualExclusion`, half of `StaleLockRecovered` |
| | worker: a Pi child with every timer; turns: two SDK sessions of two turns in a row | `CompletedProven`, `EveryChildEnds` |
| | dispatch: two packs, two changes of packs or configuration | `Reviewed` |
| | setup: two sets of dependencies, two checks, three edits, two kills | `PassGrounded` |
| | settings: two edits of any field, one pair of limits, two roles | `ConfigUsable` |
| | status: a run of an earlier version and one of today's, two sessions, one issue, three moves | `StatusTrue` |
| Runs | runs, in two settings: two hosts, one mortal, three commands about one run; one host, a monitor restarted, two failures | `LatestReachable` |
| | bootstrap: two candidate commits, two revisions of main, three versions of the issue | `WorkKept`, `PromotedVerified`, `StepsGuarded` |
| | discovery: three issues of two priorities and three kinds, windows of two, one edit and one lease move; roadmap: two issues and one dependency outside it, one change | `ChoiceJustified` |
| Stores | worktree: two runs that may both be killed, one expiry, one fault, one advance of main | `WorkKept` |
| | thread: three revisions of main, three comments of others, three finalizer runs | `ClosedSettled` |
| | packs: two sources, one of them also from a local checkout, two revisions, two manifest edits, an edit, a kill | `EditsRespected` |
| | stream: three lines of length 1, 2 or 5, chunks to 3, a buffer of 5 | `LinesParsed` |
| | commands: two commands about one issue, or a command and a harness, with plans and a record of others | `ScopedWork` |
| | plan: two plans, two commits | `PlanProgress` |
| Tools | journal: two writers, a baseline, a request with and one without a key, four lines | `ReturnedIsKept`, `KeysOnce`, `DamageHasACause` |
| | candidate, in three settings: risk review and corrections; quality evidence and archive; edits of the issue, an external criterion and killed calls | `RequestProven` |
| | incident: two processes, one mortal, three reports, one fault, one closing | `DuplicatesExplained` |
| | footer: two sessions, three contexts, one command; display, in two settings: two workers; one worker with a second attempt and a paint that fails | `DisplaysFollow` |
| LifecycleLockStolen | three processes, one mortal | `OneLifecycle` **fails** |
| FinalizeRefreshRace | one finalizer, a refresh by another controller of its clone | `VerifiedClosure` **fails** |
| LifecycleStaleAuthority | as the bootstrap part, three revisions of main | `CurrentAuthority` **fails** |
| VerificationPoisoned | three revisions of main, one comment of others | `MarkedReadable` **fails** |

Some of these names stand for two properties of their module, which the MC module spells
out: `StaleLockRecovered` (with `DeadOwnerRecovered`), `CompletedProven` (with
`NoSignalAfterClose`), `Reviewed` (with `Routed`), `LatestReachable` (with
`RunningExplained`, `ShownRunningPolls`), `StepsGuarded` (`EditsKept`, `GuardedClosure`),
`ChoiceJustified` (`NotPassedOver`, `NextIsReady`), `EditsRespected` (with
`CheckedIsReviewed`), `ScopedWork` (with `TextsKept`), `RequestProven` (with `BudgetKept`),
`DisplaysFollow` (`FollowsRun`, `PanelTrue`).

### Bounds

Lease: within one tick a lease of one is claimed, left to expire, taken over and the
first owner's late write rejected; three revisions are claim, takeover and one more write by
the loser. A second pending write lets a renewal and a release, or two runs' writes, be
under way together. Locks: two contenders and a dead holder are what a race of recovery
takes; the third process of LifecycleLockStolen is the dead owner. Finalize: a takeover
needs two runs; a promotion retry needs one commit by others, and one reverification lets
the loop come round once and run out. In the shared part of FinalizeSharedRoot main moves only by
the two finalizers: two merges are one of each, or one and its retry, and a further one fails. In
the moving part six commits are the two candidates, two of others and two merges of the finalizer:
its first attempt may lose to a commit of others, its second merge may lose to the next one
(PROMOTION_RACE), or be pushed and found behind a main that moved on, and verified until the two
reverifications run out; a third commit of others would only bring another of these ends. Lifecycle: a second commit lets a proof be stale and
the tip move during cleanup; two revisions of main are the base and a promotion or one that
passes by; three versions of the issue are the first and an edit before and after the gate is
read. Scheduler: two runs and an owner outside take a lease from each other in both orders,
and a queue of two windows lets one be skipped and the next taken, or lost in turn; a budget
of one runs out before the queue does, a budget of two with it. `MaxSkips` is the number of
issues: with fewer, `RunEnds` fails, and in the code that takes more than a hundred contended
issues. Journal: two writers are what miss each other; one request with a key and one
without take both branches of the look-up, and four lines hold the baseline, both requests
and one more behind a cut line. Worker: the limits are ordered as the code's defaults are
(soft before hard idle before wall, grace shorter), so each timer fires before, after and
without each of the others. Worktree: two runs read and act in each other's gaps; one fault and
one expiry put a failure and a takeover into any one of them. Verification: three revisions
are the one asked for, the one integrated and one that passes by. Candidate: two contents let
the sources differ from what was checked; each setting has only the features whose
interaction it is about, since all of them at once give too many states. Discovery: two
priorities and three issues let an urgent issue be free, leased, blocked or changed while a less
urgent one is at hand; an edit and a lease move fall between any two reads. Status: one issue is
owned in turn by an old and a new run. Skills: a sync, a kill, an edit and a
sync of another revision, or of a local checkout. Command: two processes, one of which may be killed in the middle of
moving artifacts. Stream: a line as long as the buffer, and chunks that end before,
at and behind a newline.

Deadlock is checked in FinalizeClones, FinalizeSharedRoot, SchedulerRuns and the violations of
their modules; it is not in runs whose clock, revisions or changes run out.

### Fairness

`FairSpec` asks of a process only that it goes on with the operation it is in: weak fairness on
each process' own steps (`Acquire` of a lock, the steps of a claim, the steps of a finalizer or
scheduler run), which a single-threaded event loop with timeouts on every call justifies.
Nothing is assumed of the server delivering a write, of others stopping, of a dead process, or
that anybody begins an operation. A scheduler run goes on because its lifecycle returns:
workers are killed after a timeout, and that is `EveryChildEnds`. For a worker it is assumed
that the interval of the watchdog and the kill timers fire, that a process that was sent
SIGKILL dies, and that `close` follows its death, which a grandchild that keeps the pipes open
could prevent; not that a child says anything or ends by itself. `FinalizeReturns` needs no
fairness of the environment because both loops are bounded.

## What is proved

For any number of runs and processes and any values of the other constants under the
named assumptions of each module:

- `IssueLease_proof`: `TypeCorrect`, `MutualExclusion` (`ExclusiveHolder`),
  `FinalRelease` (`ReleaseIsFinal`), `OwnerMovesFreshLease`
  (`FreshLeaseMovedByOwner`) and `ImplementsLease` (every behaviour of the protocol
  is one of `LeaseContract`). Exclusive ownership alone is not inductive: two runs
  could be said to own the issue the moment a write lands. `LeaseInv` adds what
  the code relies on without saying so: no write under way expects a revision
  beyond the head; a run that owns has the head's record as its own or has been
  overtaken by a later revision; a write sent after release expects a revision that
  has passed; what a run waits for agrees with its program counter. The proof has a
  lemma per action; the store moves only in `Land`.
- `LifecycleLock_proof`: type correctness and `ExclusiveLifecycle` (`OneLifecycle`) under
  `OneSurvivor`: nobody is killed, or there are at most two processes, so that a dead holder's lock
  has one process left to recover it. With two survivors exclusion is false (LifecycleLockStolen), so
  this is the strongest statement of that form. The invariant `LifecycleLockInv` holds until the
  first death (`UntilDeath`): the record names the process inside, nobody removes what is another's,
  and heartbeat writes still under way are the holder's. `LeftLockReadable`: a lock directory left
  behind by a release that lost to its own heartbeat has a readable record.
- `Processes_proof`: `ExclusiveSection` (`MutualExclusion` of `LockFile`, by `LockInv` until the
  first death, under `OneSurvivor` as above); `Grounded` (`PassGrounded`), `CompletedIsProven`
  (`CompletedProven`), `ReviewedByReviewers` (`Reviewed`), `LoadedIsUsable` (`ConfigUsable`) and
  `StatusIsTrue` (`StatusTrue`), for any dependencies, checks, limits, packs, axes, fields,
  runs, sessions and edits. `SetupInv`: while a run goes on, unless an orphan disturbed it,
  only its own installer writes, of inputs the run has seen, and the checks passed are those before
  the next. `WorkerInv`: the evidence is what the model did last, and what is reported is of an attempt
  that runs no more. `DispatchInv`: each report at hand was made by a reviewer of the axis at its
  place; one that blocks, a reviewer that died after it printed something included, does not pass. `StatusInv`: whoever owns an issue was seen to since the command began, and what a command is
  about to say of a run still stands to that. `ConfigUsable` is inductive as it is.
- `Scheduler_proof`: type correctness with the budget of results (`TypeCorrect`),
  `Exclusive` (`ExclusiveWork`), `NothingHeld` (`ReturnedHoldsNothing`) and
  `WorkedOnOnce` (`OncePerRun`), for any runs, issues, queue and budgets. The
  invariant ties three things together that the code keeps apart: who owns a lease is
  working under it, or threw or died (`Owned`); who works under a lease that did not run
  out owns it (`Covered`); and an issue in hand has no result yet and there is budget
  for it (`Fits`).
- `Tools_proof`, of the journal: `TypeCorrect`, `Durable` (`ReturnedIsKept`), `Idempotent`
  (`KeysOnce`) and `DamageExplained` (`DamageHasACause`), for any number of writers,
  requests and lines. None is inductive: a history that cannot be read now may be cut back
  by a power failure to one that can, so each must hold of every readable prefix and of
  what is on disk. `Inv` says that the file continues the disk, that what was returned
  is on it, that a writer past its look-up read a prefix of the file that did not have its
  key, and that without overlap and torn lines every line bears its own place.
  Of the incident reports: `ReportedOnce` (`DuplicatesExplained`), for any reporters, failures and
  bounds. `ReportsInv` adds to the one open incident and the one file (`OneIncident`, `OneFile`) who is
  about to make one: as long as nothing excuses a duplicate only one reporter is, and it has seen
  all there are, those still under way included.
  Of a worker's tools: `RequestsAreProven` (`RequestProven`), for any setting. `ToolsGated` says what
  each document at hand is worth, the ones a tool that is waiting will write or restore included;
  `Budgeted` counts bookkeeping commits against the limit, the corrections and the calls that were
  killed before they counted.
  Of the displays: `DisplaysAreTrue` (`DisplaysFollow`), an action property of the footer and an
  invariant of the panel, for any sessions, runs, workers and bounds. `PanelInv` has the two facts the
  panel does not state: timers are those of settled rows (`TimersSettled`), and what was painted last is
  what there is, unless a paint is due (`Painted`). `FooterInv` follows the one binding of the one
  command through bind, heartbeat, departure and arrival (`Held`): its owner and file are the session that is
  open, its target the one announced (`Leaves`), its run the command's; and a process
  without a command has no binding and no saved one that names it (`Before`). What the loop over the
  bindings leaves at the end of a session is stated without recursion: the file of a run is the one written
  for the last binding that has it.
- `Finalize_proof`: `TypeCorrect`, `FencedUnlessSelfOwned` and `FencedCompletion`
  (`FencedClosure`), `ClosesOnce` (`ClosedOnce`), `VerifiedCompletion` (`VerifiedClosure`),
  `Published` and `PublishedUnlessKilled` (`RootPublished`), for any clones, issues, finalizers
  and bounds. `Inv` makes the commits a graph (ancestors closed and older than their
  descendants, a tree never taken back), says that main is never replaced but by a descendant,
  and gives every reference of a clone or finalizer a commit that was made, with a merge
  base of any two; `MergeBaseIs`, `GraphGrows`, `MainAdvances` and `History` are the lemmas the
  rest stands on. Four invariants build on it. `FenceInv`: from its last check of the lease on, a
  finalizer is lawful, has lost the lease since, or holds a fingerprint older than the issue.
  `OnceInv`: whoever is about to close finds the issue open. `VerifyInv`: nobody else moves the
  root under the lock, so at each step of a promotion HEAD, the noted base and the merge are
  what the code takes them for, and what is reverified is the tree that is pushed. `PublishInv`:
  what a clone tracks or would reset to is on main, and an unpublished merge is in HEAD only
  between the merge and its push or reset.
  Each has the assumption without which it is false, and no other: the fence is that of
  finalizers with a real lease (`SelfOwned`); a single closing needs one finalizer per issue
  (`OneRunEach`; two that overlap may both close); the verified tree needs clones that are
  not refreshed, and to which incidents are not committed, while finalizers work in them
  (`Serial`; `FinalizeRefreshRace` shows the failure); a clean root needs finalizers that are
  not killed inside the lock.
- `Runs_proof`, of the bootstrap lifecycle: `TypeCorrect`, `NoWorkLost` (`WorkKept`), `VerifiedPromotion`
  (`PromotedVerified`) and `GuardedSteps` (`StepsGuarded`), for any number of commits, revisions
  of main and edits, and any retry budget, without a further assumption. `History` says that
  main only gains commits, that the branch's base is one of its revisions, and that what was made
  is on the branch or on main; `Knowledge` says what each piece of information is worth to the
  next step: the commit a proof file names was verified or merged by others (`ProofGrounded`), so
  was a tip of the branch that main has (`TipGrounded`), and what the run took down of issue and
  candidate still holds where it acts on it (`Informs`, `RunGrounded`), though issue, branch,
  worktree and main go on moving. `GuardedSteps` is an action property: it follows from `Inv` and
  one step.
  Of the runs of the extension: `LatestIsReachable` (`LatestReachable`), for any processes, runs and
  failures. `AutoInv` says which execution a controller is of: the one registered last, while that goes
  on (`Registered`), though executions of one run overlap and each removes only its own controller.
  Of the next issue: `ChoiceIsJustified` (`ChoiceJustified`), for any issues, priorities, labels, windows,
  batches of lease reads and texts. `RoadmapInv`: each state used was the issue's at some moment since the
  command began (`WasRead`), and those passed had a reason (`AllPassed`). `DiscoveryInv`: what nobody
  touched is in the view as it is (`Known`), the window continues the sorted list behind issues that are
  leased (`InOrder`), and the leases before the present batch were read (`Batches`).
- `Stores_proof`, of the worktree: `TypeCorrect`, `NoWorkLost` (`WorkKept`) and `OnlyForward` (no run takes
  a commit off the issue's branch or the legacy one), for any number of runs, pieces of
  work, faults and expiries, all of them mortal if one likes. The invariant is stronger than the
  property: work is safe without the recovery branches (`Safe`), which any failure
  removes by force; and a directory with work in it is on a branch it can be committed to
  (`Places`).
  Of commands and harnesses: `WorkIsScoped` (`ScopedWork`), by `Owning`, which says for each place a
  process may be at which leases it has, or that it lost its lease or does not know. Of the stream:
  `LinesAreParsed` (`LinesParsed`): the buffer has the beginning of every line not yet received that
  fits (`Buffered`). Of the verification thread: `ClosedWhenSettled` (`ClosedSettled`), an
  action property: the gate is that of the thread that was read (`Informed`). Of the skill packs:
  `EditsAreRespected` (`EditsRespected`): `Hashed` says what a marker is worth, `Writing` what a sync
  under way has copied and will replace, both also of a source that was copied from a local checkout,
  whose marker says no more than that its files are the ones that were copied. Of the plan: `PlanProgresses` (`PlanProgress`), for any
  plans, names and fixes: a mark that is not in the plan is in the parked one or logged (`MarksKept`,
  `Parked`), a plan has its headings (`Sectioned`), and an outcome on its way has been seen fit at each
  step so far (`Earned`).

Every safety invariant and action property of the passing runs is the subject of one of these
theorems. What the proofs assume of the constants are the named assumptions of the modules, which TLC
evaluates in every run: bounds are numbers, names of runs are not names of branches, work is not
called "main", runs are not called what stands for none, every issue of `Finalize` has a finalizer (an
issue without one takes no part). Everything else is a hypothesis of the theorem that needs it.
Sequences that are searched or sorted are reasoned about by the least position that meets a
condition, which well-foundedness of the naturals gives; no theorem of induction is needed.

Only model-checked: the five liveness properties (`ClaimSettles`, `StaleLockRecovered`,
`EveryChildEnds`, `FinalizeReturns`, `RunEnds`), since liveness under fairness is out of this
prover's reach. The four violations are counterexamples of TLC.

## Findings

- **Two owners of one lifecycle lock** (LifecycleLockStolen). Two processes read
  the record of a dead owner; the first removes the directory and makes its own,
  the second then removes that one. Both hold the lock. The pid files of finalize and
  refresh have the same race with two survivors.
- **A closure at a revision no check ran on** (FinalizeRefreshRace). The refresh
  uses another lock file than finalize, and the bootstrap finalizer's
  `synchronizeLocalMain` and the incident commit use none. A fast-forward between
  two git commands of a promotion changes what HEAD means to it.
- **Stale authority** (LifecycleStaleAuthority). A rerun with an exact proof takes
  its fingerprint of the issue at its own start, so an edit made since the checks ran
  is not seen.
- **Markers that contradict each other** (VerificationPoisoned). GitHub's authority appends a
  marker where the in-memory one of the tests overwrites it. Once main has advanced between two
  markers of one candidate, every reading of the issue, and every listing of candidates that
  contains it, throws.

### Also seen while modelling

These have no run of their own. Lines are those of the sources of the component.

*Lifecycle and finalization*

- The kernel finalizes with a lease it makes up (`SelfOwnedLeaseAuthority`), so the
  lease checks of `finalizeIssue` pass even after a takeover. `FencedClosure` is
  therefore stated for runs that use the real lease; with a finalizer in
  `SelfOwned` it fails.
- A verified candidate that is behind `origin/main` is never ready for finalization
  (`supervisor.ts` 203), nothing rebases it, and the kernel reports disposition `pass` with
  finalization `SKIPPED` every time.
- `git branch -d` can refuse after the worktree is gone (local main is behind a
  merge made by others and dirty). The issue is closed, and a rerun stops with
  MISSING_WORKTREE; no work is lost (`WorkKept`).
- When the issue changed under a finalization it stays open, yet branch and
  worktree are removed and the run reports `pass`; a rerun then closes by the cleaned-up path
  (`bootstrap-finalize.ts` 276) without a fence.
- A finalizer killed inside the lock leaves its unpublished merge in the root: `RootPublished` is
  stated for instances without mortal finalizers.
- `finalize.ts` 540: the fresh read and the close are two calls; what happens between them is not
  noticed.
- An issue awaiting external verification with a failed and then a passed result for one revision
  conflicts for ever; the marker for a reimplemented candidate conflicts with the older one too.

*Choice of an issue*

- A shortlist that is unavailable (a refresh, query or lease read failed, or the
  deadline passed) has no candidate, and the production adapter hands the scheduler
  `undefined`, so the run reports `idle` or `completed` as after an empty queue.
- An issue that was leased when a run looked at it is skipped for the rest of that
  run, also when the lease is given back.
- `Issue-Updated-At` (`issue-candidates.ts` 241) is written nowhere, so the check it feeds never
  applies. An item whose first `priority:` label is not configured sorts first and belongs to no group.
  The queries of the priorities are not one reading: an issue that is relabelled in between may be
  missed or listed twice.

*Runs and their records*

- With two auto or loop commands in one session the second's heartbeat paints the earlier run
  (`commands-recovery.ts` 355), against `docs/HISTORICAL_INCIDENT_REGRESSIONS.md` 37; `FollowsRun` is
  stated for one command. A footer stays as it was after a reload, and an auto command whose session
  goes before its run is bound paints nothing more.
- A scheduler that throws, or a host that is killed, leaves the state `running`, which is not
  resumable. A stop of another process writes the copy it read, so it may bring `running` back.
- `docs/EVALUATION_AND_RELIABILITY.md` 46 speaks of at most one scheduler execution; stop and start of
  the monitor make a second one while the first still ends.
- The status of another session's run, asked for by name while that run holds its lease, is reported
  as an incident CONTROLLER_IDENTITY_MISMATCH although nothing is wrong (`loop-status.ts` 238-252);
  no production code creates `controller.lock`, so every run's controller is "unknown".
- `blockAbandonedLegacyAutoRun` writes a record it read earlier: a stop in between is lost, against its
  comment "without altering the durable status".
- Two journal writers that read the same file record the same number
  (`docs/LIFECYCLE_JOURNAL_AND_REPLAY.md` 20 promises a sequence); both appends return, and every later
  one throws. The history is refused and not misread (`KeysOnce`, `ReturnedIsKept`). An append that
  finds its key returns without forcing the file (28 of the same document promises `fsync`). A last
  record that lost only its newline in a power failure is accepted by the reader; the next append runs
  into it. A writer killed between creating the journal and writing leaves an empty file, and the
  baseline is never imported.
- `planLifecycleRecovery` (`src/evaluation/lifecycle-replay.ts` 239-246): after a worker that finished
  with a failed verification it plans `start_worker` while `start_worker` is in `mustNotRepeat`.
- A process killed between creating a lock and writing its record leaves a lock that nobody
  recovers, by design.

*Worktrees, commands, plans*

- `issue-leases.ts` 761-764 says that a legacy worktree is migrated under its lease;
  `migrateAttachedLegacyWorktree` never reads the lease. A failing `ls-remote` is taken for "no
  checkpoint" (1354-1361). After a failure between vacating the legacy branch and making the new one
  the next run does not look at the legacy branch.
- Quarantine of an inherited artifact recognises it only while the root still has the same one; a
  target of other content makes every later command fail. The CLI's finalize does not release the lease.
- `deferActivePlan` (`tools-update.ts` 55-66) writes the deferred state into the plan, then runs
  `git mv` and `git commit`; the text is not staged, so the commit keeps the old one, the worktree
  stays dirty, the call always throws, and a retry finds no PLAN.md. A kill between the two
  commands leaves a staged rename that later commits refuse.
- The plan's reader finds `## Tasks` in any letters, its writers look for the exact characters
  anywhere, so a mark may be set in, or a fix appended to, another part than was read. The file of
  `loop_result` is consumed by nobody, so a run records at most one result; an "archived" from a clean
  boundary whose HEAD is no archive journals `issue_closed`.

*Candidate*

- An archive asks for finalization with a short hash that the resolver does not read
  (`commit-safety.ts` 367, `promotion-request.ts` 35-44; `checkpoint.test.ts` 245-270 passes a full one).
- `verify` takes its fingerprint of the sources after the commands ran; a kill between commit and count
  loses the count; checkpoint commits bypass budget and secret scan (`checkpoint.ts` 92-101); an
  archive that failed after it moved PLAN.md cannot be retried.

*Workers*

- A worker reported cancelled or timed out may still run (`docs/WORKER_ADAPTER.md` 70-80). A token
  warning during the grace period overwrites the record of the timeout (`util-core.ts` 410-427). The
  creation of a session is not under the timeout (`worker-runner.ts` 91).
- `docs/SKILLS.md` 168 calls mandatory skills "required for a lifecycle/risk boundary"; lifecycle workers
  get no routing policy at all (`production-worker-factory.ts` 70-75), and rules with `taskPattern` or
  `paths` never match. An axis "risk", which the configuration accepts, is read by a mutable-owner
  worker (`candidate-review.ts` 115-128), against `docs/WORKERS.md` 9; `Reviewed` leaves it out.
- A reviewer that dies before it prints anything does not block: its output is the evidence of the
  finding made for it (`candidate-review.ts` 136-141), a finding without evidence is dropped
  (`adversarial-review.ts` 86-88), and the gate passes (166-169). `Reviewed` allows it; a reviewer that
  had printed something blocks.
- A gate that throws leaves the record of the earlier review; findings beyond a reviewer's fifth are
  dropped; `maxRounds` has no effect.
- In production only activities reach the panel of workers; watchdog, live text and settled rows
  are met in tests alone. A final clear that throws leaves the widget.

*Setup, skills, configuration, incidents*

- A bootstrap command that ignores SIGTERM hangs the run. A killed bootstrap leaves its installer
  running. A change of the lockfile by the worker is not followed by an installation before the checks.
- A killed sync makes the next refuse as drifted. A consumer's file at a path the allowlist gains is
  overwritten. An edit between copy and hash is blessed. A sync
  from a local checkout (`sourceDirs`, or `--source-dir` for a manifest of one source; `sync.ts` 465-488,
  644) skips the check of the revision, yet the marker names the pinned one and `skills:check` passes:
  `CheckedIsReviewed` leaves such destinations out as far as the files are those of that checkout. Loading a registry trusts the marker without
  hashing. `docs/SKILLS.md` says that sources sync independently; the loop aborts at the first failure.
- An `assessment` section without `heldStates` means other states (`config.ts` 522) than no section (185).
  A `workerWatchdog` section without roles drops the longer default limits of `verification`, a role no
  production dispatch has. `workerWatchdogPolicy` (`util-core.ts` 254-263) falls back to constants when the
  configuration is refused.
- Two closed incidents of one fingerprint are "ambiguous" for ever; concurrent reporters or a lagging
  index make duplicates. A torn `last.json` stays torn, and one torn file makes `readLastIncidentBundle`
  of an issue throw.

## Not modelled

Components:

- *Evaluation harness*: offline, shares no state with the system.
- *Project status synchronisation, telemetry, performance reports, self-assessment*: what they write is read
  by people, and their publishing functions are called by no production code or never injected
  (`performance-publication.ts`, self-assessment publish and refresh, the Project-status sync).
- *Retired code*, exported and tested but reached from no entry point of the extension or the CLIs:
  `claimLoopIssue` and what only it calls (`yieldClaimedIssue`, `readIssueEligibility`,
  `validateWorkspacePlan`, `reconcileWorkspacePlan`), `containIssueLocalFailure`, `loop-maintenance.ts`,
  `issue-freshness` checks, `acquireControllerLock`, `clearAutoStatus`, `clearLiveCtx`,
  `removeCompletedWorkflowArtifacts`, `SdkSessionWorkerAdapter`, `finalizeRequestedPromotion`,
  `materializeLifecycleJournal` (evaluation only), supervisor generations. A model of them would have
  no environment to be faithful to.

Within modelled components: clock skew between machines; the single-machine lease authority; the
parsing of pending verification criteria, of managed manifests and of payloads of the journal; the
review worker, dependency installation and workflow budget yield inside the kernel's run (the
installation is `Setup`, the gate `Dispatch`); `cleanupCompletedIssueWorktree`; the secret scan and the
classification of paths; sanitizing and rendering; the sandbox of a worker's shell; prompts and the wording
and layout of everything. Each is parsing, formatting, or a pure function of what is already in the
model's state.

Assumptions the models make about steps of these components, each at the line where the code could do
otherwise:

- `Finalize`: a closing lands at once or not at all; a `gh issue close` that timed out and lands later
  (`finalize.ts` 618) could comment a second time. `git reset --hard` works; when it fails
  (`finalize.ts` 466) the unpublished merge stays in the root without a kill, and `RootPublished` is not
  for that case.
- `IssueLease`: a process that resumes a run begins when what the earlier one sent has been answered or
  lost; `loop.ts` 425-440 has no such guard. Without it a release of the dead process that lands late
  frees the lease just resumed, and `ExclusiveHolder` fails.
- `Setup`: a validation that exits with 0 has seen a complete installation; `pnpm list`
  (`dependencies.ts` 65) does not look that closely.
- `Lifecycle`: a cancellation by the operator is read where the decision is made; `supervisor.ts` 167
  takes it right after the first checks.
- `Candidate`: a promotion always names VERIFY.md; `checkpoint.ts` 237-246 takes any path it is given and
  does not compare the issue number of the report. A kill at the commit leaves the index clean, where
  `commit-safety.ts` 343 has staged the files.
- `Incident`: the search is exact, and an incident is open or closed as it is at the post, not as it was
  at the search (`incident-reporting.ts` 596-598).
- `Plan`: the reader of the current task trims leading blanks (`plan-read.ts` 93), the writer does not
  (`plan-write.ts` 17); task texts are taken to have none.

Hazards with a property that is weaker than the hazard are named where they stand under "also seen".
Two have none: a verified candidate behind `origin/main` that nothing rebases, and the closing after
cleanup without a fence; the code does these by its shape and no document promises otherwise.

## What could follow

1. An abstract `GuardedCompletion` that `Finalize` implements and `Lifecycle` builds on, in the
   place of the two steps it takes now.
2. `Scheduler` composed with `IssueLease` through the contract, and `Auto` with `LifecycleJournal` as the
   history it resumes from.
3. Footers with two commands, and finalizers that are killed inside the lock, once the code settles what
   they should do.

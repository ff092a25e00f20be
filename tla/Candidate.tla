------------------------------ MODULE Candidate ------------------------------
(***************************************************************************)
(* The gates a candidate passes in its issue worktree before it may be     *)
(* integrated: the tools a worker calls (extensions/pi-next: tools-check,  *)
(* tools-git, tools-update) and what they leave behind for each other, the *)
(* quality evidence, the verification report, the commit telemetry and the *)
(* promotion request (commit-safety.ts, checkpoint.ts,                     *)
(* promotion-request.ts, src/coordination/workflow-commit-policy.ts), and  *)
(* the controller that resolves the request.                               *)
(*                                                                         *)
(* One tool call runs at a time.  The steps of a call are cut where it     *)
(* waits for git, GitHub, a command or a reviewer: there the issue may be  *)
(* edited, a command may change the files, and the worker may be killed.   *)
(***************************************************************************)
EXTENDS Naturals, FiniteSets

CONSTANT
  Setting       \* what an issue, its project and its run may be like

(* The fields of a setting.  Mechanical criteria are commands of the plan,  *)
(* never of the issue; external ones only somebody outside can fulfil;      *)
(* high is whether the issue's risk calls for an adversarial review.        *)
SettingOK(s) ==
  /\ s.mechanical \subseteq s.criteria /\ s.external \subseteq s.criteria \ s.mechanical
  /\ s.contents # {} /\ s.levels \subseteq {"quick", "standard", "full"}
  /\ s.high \in BOOLEAN
  /\ {s.limit, s.edits, s.commits, s.kills} \subseteq Nat

(* What is assumed of the constant.                                         *)
CandidateAssumption == \A s \in Setting : SettingOK(s)

VARIABLES
  setting,    \* that of this run
  issue,      \* the live issue: its fingerprint, counted in edits, and its criteria
  plan,       \* PLAN.md
  work,       \* the source files in the worktree
  dirty,      \* the workflow files that differ from the last commit
  tip,        \* the last commit of the branch: how many there are, and the sources it holds
  quality,    \* the quality evidence file
  report,     \* VERIFY.md
  telemetry,  \* the commit telemetry: workflow commits, and corrections by key
  request,    \* the promotion request file
  tool,       \* the running tool call, or [at |-> "idle"]
  archived,   \* a worker has been told that its archive will be finalized
  closed,     \* the controller has closed the issue
  ghost       \* what really happened, for the properties: see below

vars == <<setting, issue, plan, work, dirty, tip, quality, report, telemetry, request, tool, archived, closed, ghost>>

Content == setting.contents        \* what the source files may hold
Criterion == setting.criteria
Mechanical == setting.mechanical
External == setting.external
Level == setting.levels            \* of the quality gate
HighRisk == setting.high
Limit == setting.limit             \* WORKFLOW_ONLY_COMMIT_LIMIT
MaxEdits == setting.edits          \* bound: edits of the issue
MaxCommits == setting.commits      \* bound: commits of the branch
MaxKills == setting.kills          \* bound: tool calls cut short

Workflow == {"PLAN", "VERIFY", "HISTORY"}
Idle == [at |-> "idle"]
None == [status |-> "none"]
NoRequest == [hash |-> "none"]
Unverified == MaxEdits + 1    \* no fingerprint of the issue

(* The index is the last commit except inside a commit, so the entries of   *)
(* the index and the differences from it are these two.                     *)
FingerprintOf(sources) == <<tip.sources, sources>>
Fingerprint == FingerprintOf(work)

Clean == tip.sources = work /\ dirty = {}

(* ghost.met: contents and fingerprints of an issue all of whose criteria a *)
(* verification found met; ghost.gated: contents the full gate passed on;   *)
(* ghost.reviewed: contents a review passed; ghost.spent, ghost.keys and    *)
(* ghost.killed: workflow commits made under the budget, the corrections    *)
(* they claimed, and calls cut short.                                       *)
Init ==
  /\ setting \in Setting
  /\ issue = [fp |-> 0, criteria |-> Criterion \ (Mechanical \cup External)]
  /\ plan = [present |-> TRUE, done |-> FALSE, criteria |-> Criterion \ External]
  /\ work = CHOOSE c \in Content : TRUE
  /\ tip = [number |-> 1, sources |-> work] /\ dirty = {}
  /\ quality = None /\ report = None
  /\ telemetry = [count |-> 0, keys |-> {}]
  /\ request = NoRequest /\ tool = Idle
  /\ archived = FALSE /\ closed = FALSE
  /\ ghost = [met |-> {}, gated |-> {}, reviewed |-> {}, spent |-> 0, keys |-> {}, killed |-> 0]

TypeOK ==
  /\ setting \in Setting
  /\ issue \in [fp : 0 .. MaxEdits, criteria : SUBSET (Criterion \ Mechanical)]
  /\ plan \in [present : BOOLEAN, done : BOOLEAN, criteria : SUBSET Criterion]
  /\ work \in Content /\ tip \in [number : 1 .. MaxCommits, sources : Content]
  /\ dirty \subseteq Workflow
  /\ telemetry.count \in Nat
  /\ archived \in BOOLEAN /\ closed \in BOOLEAN

-----------------------------------------------------------------------------
(* Operators named X_Y are X with a plausible bug; no specification uses    *)
(* them.  They show that the properties below would notice.                 *)

(* The issue is edited; its criteria may be.                                *)
EditIssue ==
  /\ issue.fp < MaxEdits
  /\ \E c \in (SUBSET (Criterion \ Mechanical)) \ {{}} : issue' = [fp |-> issue.fp + 1, criteria |-> c]
  /\ UNCHANGED <<plan, work, dirty, tip, quality, report, telemetry, request, tool, archived, closed, ghost>>

(* The worker edits the sources, or the plan.                               *)
EditSource ==
  /\ tool = Idle
  /\ \E c \in Content \ {work} : work' = c
  /\ UNCHANGED <<issue, plan, dirty, tip, quality, report, telemetry, request, tool, archived, closed, ghost>>

EditPlan ==
  /\ tool = Idle /\ plan.present
  /\ \E p \in {[plan EXCEPT !.done = TRUE],                             \* the last task is marked done
               [plan EXCEPT !.criteria = issue.criteria \cup Mechanical]} : \* reconciled with the issue
       /\ p # plan
       /\ plan' = p
  /\ dirty' = dirty \cup {"PLAN"}
  /\ UNCHANGED <<issue, work, tip, quality, report, telemetry, request, tool, archived, closed, ghost>>

(* The watchdog or the operator kills the worker in the middle of a call.   *)
Kill ==
  /\ tool # Idle /\ ghost.killed < MaxKills
  /\ tool' = Idle
  /\ ghost' = [ghost EXCEPT !.killed = @ + 1]
  /\ UNCHANGED <<issue, plan, work, dirty, tip, quality, report, telemetry, request, archived, closed>>

-----------------------------------------------------------------------------
(* pi_next_check quality                                                    *)

(* Evidence of a command is used again when it passed on this very state    *)
(* and is not too old.                                                      *)
Reusable_AnyState(prior, fp, level) == prior # None /\ level \in prior.fresh
Reusable(prior, fp, level) == prior # None /\ prior.fp = fp /\ level \in prior.fresh

Quality ==
  /\ tool = Idle /\ plan.present
  /\ \E level \in Level :
       tool' = [at |-> "quality", level |-> level, before |-> Fingerprint, prior |-> quality]
  /\ UNCHANGED <<issue, plan, work, dirty, tip, quality, report, telemetry, request, archived, closed, ghost>>

(* What is kept of the earlier evidence: other commands, on this state.     *)
Kept(prior, fp) == IF prior # None /\ prior.fp = fp THEN prior.fresh ELSE {}

(* The gate passes only if the state is the same after the command.         *)
Evidence(passed, after) ==
  LET stable == after = tool.before
      kept == Kept(tool.prior, tool.before)
  IN [status |-> "recorded", level |-> tool.level, ok |-> stable /\ passed, fp |-> after,
      fresh |-> IF ~ stable THEN {} ELSE IF passed THEN kept \cup {tool.level} ELSE kept \ {tool.level}]

(* The command passes or fails, and may change the files it checks; or its  *)
(* evidence is used again.                                                  *)
QualityEnds ==
  /\ tool.at = "quality"
  /\ IF Reusable(tool.prior, tool.before, tool.level)
     THEN /\ quality' = Evidence(TRUE, Fingerprint)
          /\ UNCHANGED <<work, ghost>>
     ELSE \E passed \in BOOLEAN, c \in Content :
            /\ work' = c
            /\ quality' = Evidence(passed, FingerprintOf(c))
            /\ ghost' = IF passed /\ tool.level = "full" /\ c = work
                        THEN [ghost EXCEPT !.gated = @ \cup {c}] ELSE ghost
  /\ tool' = Idle
  /\ UNCHANGED <<issue, plan, dirty, tip, report, telemetry, request, archived, closed>>

(* Six hours pass.                                                          *)
Ages ==
  /\ quality # None /\ quality.fresh # {}
  /\ quality' = [quality EXCEPT !.fresh = {}]
  /\ UNCHANGED <<issue, plan, work, dirty, tip, report, telemetry, request, tool, archived, closed, ghost>>

-----------------------------------------------------------------------------
(* pi_next_check verify                                                     *)

Live == [status |-> "read", fp |-> issue.fp, criteria |-> issue.criteria]

(* Of a risky issue the last commit is reviewed, and a blocking finding     *)
(* ends the call.                                                           *)
Reviewed(live) ==
  IF HighRisk /\ live # None THEN [ghost EXCEPT !.reviewed = @ \cup {tip.sources}] ELSE ghost

(* The plan and the issue are read.                                         *)
Verify ==
  /\ tool = Idle /\ plan.present
  /\ \E live \in {Live, None} :
       /\ tool' = [at |-> "verify", checks |-> plan.criteria, live |-> live]
       /\ ghost' = Reviewed(live)
  /\ UNCHANGED <<issue, plan, work, dirty, tip, quality, report, telemetry, request, archived, closed>>

(* evaluateManualAcceptanceCriterion, and the commands: a box that is       *)
(* ticked or a review without concrete evidence proves nothing ("none"),    *)
(* and nobody in here can fulfil an external criterion.                     *)
Verdict(c, review) ==
  CASE c \in External -> "EXTERNAL"
    [] c \in Mechanical -> IF review = "pass" THEN "PASS" ELSE "FAIL"
    [] review = "none" -> "UNPROVEN"
    [] review = "fail" -> "FAIL"
    [] OTHER -> "PASS"

(* Criteria of the issue that the plan leaves out or words differently.     *)
Missing(live, checks) == IF live = None THEN {} ELSE live.criteria \ (checks \ Mechanical)

Status(live, checks, verdicts) ==
  IF Missing(live, checks) # {} \/ "FAIL" \in verdicts THEN "FAIL"
  ELSE IF checks = {} \/ live = None \/ verdicts \cap {"EXTERNAL", "UNPROVEN"} # {} THEN "NEEDS_REVIEW"
  ELSE "PASS"

(* A missing criterion outweighs the others.                                *)
Disposition(status, missing) ==
  IF missing # {} THEN "RECONCILE" ELSE IF status = "FAIL" THEN "REPAIR" ELSE "NONE"

(* The commands run, and may change the files; the fingerprint of the       *)
(* report is taken after them.                                              *)
VerifyEnds ==
  /\ tool.at = "verify"
  /\ \E review \in [tool.checks -> {"none", "fail", "pass"}], c \in Content :
       LET verdict == [k \in tool.checks |-> Verdict(k, review[k])]
           verdicts == {verdict[k] : k \in tool.checks}
           missing == Missing(tool.live, tool.checks)
           status == Status(tool.live, tool.checks, verdicts)
       IN /\ c # work => tool.checks \cap Mechanical # {}
          /\ work' = c
          /\ report' = [status |-> status, disposition |-> Disposition(status, missing),
                        mismatch |-> missing # {}, fp |-> FingerprintOf(c),
                        auth |-> IF tool.live = None THEN Unverified ELSE tool.live.fp]
          /\ ghost' = IF tool.live # None /\ tool.live.criteria \subseteq {k \in tool.checks : verdict[k] = "PASS"}
                      THEN [ghost EXCEPT !.met = @ \cup {<<c, tool.live.fp>>}] ELSE ghost
  /\ dirty' = dirty \cup {"VERIFY"}
  /\ tool' = Idle
  /\ UNCHANGED <<issue, plan, tip, quality, telemetry, request, archived, closed>>

-----------------------------------------------------------------------------
(* pi_next_git commit                                                       *)

(* A mismatch the last verification found may be repaired in a commit of    *)
(* the plan alone: it claims a correction, once for each authority.         *)
Correction(paths) ==
  IF /\ "PLAN" \in paths /\ paths \subseteq {"PLAN", "VERIFY"}
     /\ report.status = "FAIL" /\ report.disposition = "RECONCILE" /\ report.mismatch
  THEN {<<"authority_reconciliation", report.auth>>} ELSE {}

(* assertWorkflowCommitAllowed                                              *)
Allowed_Repeatedly(keys) == telemetry.count < Limit \/ keys # {}
Allowed(keys) == telemetry.count < Limit \/ (keys # {} /\ keys \cap telemetry.keys = {})

Changed == dirty \cup IF work = tip.sources THEN {} ELSE {"src"}

(* classifyCommitPaths: the paths decide the kind of a commit, not what of  *)
(* them has changed.                                                        *)
Bookkeeping(paths) == "src" \notin paths

(* A commit of sources also needs a valid plan.                             *)
Commit ==
  /\ tool = Idle /\ tip.number < MaxCommits
  /\ \E paths \in SUBSET (Workflow \cup {"src"}) :
       LET bookkeeping == Bookkeeping(paths)
           keys == Correction(paths)
       IN /\ paths \cap Changed # {}
          /\ IF bookkeeping THEN Allowed(keys) ELSE keys = {}
          /\ tool' = [at |-> "commit", paths |-> paths \cap Changed, bookkeeping |-> bookkeeping,
                      keys |-> keys, archive |-> FALSE, auth |-> Unverified]
  /\ UNCHANGED <<issue, plan, work, dirty, tip, quality, report, telemetry, request, archived, closed, ghost>>

After(paths) == [number |-> tip.number + 1, sources |-> IF "src" \in paths THEN work ELSE tip.sources]

(* The paths are staged, scanned and committed, or unstaged again.          *)
Committed ==
  /\ tool.at = "commit"
  /\ tip' = After(tool.paths)
  /\ dirty' = dirty \ tool.paths
  /\ tool' = [tool EXCEPT !.at = "record"]
  /\ ghost' = IF tool.bookkeeping THEN [ghost EXCEPT !.spent = @ + 1, !.keys = @ \cup tool.keys] ELSE ghost
  /\ UNCHANGED <<issue, plan, work, quality, report, telemetry, request, archived, closed>>

Refused ==
  /\ tool.at = "commit"
  /\ tool' = Idle
  /\ UNCHANGED <<issue, plan, work, dirty, tip, quality, report, telemetry, request, archived, closed, ghost>>

(* The commit is counted; an archive goes on to request its finalization.   *)
Record ==
  /\ tool.at = "record"
  /\ telemetry' = IF tool.bookkeeping
                  THEN [count |-> telemetry.count + 1, keys |-> telemetry.keys \cup tool.keys] ELSE telemetry
  /\ tool' = IF tool.archive THEN [at |-> "request", auth |-> tool.auth] ELSE Idle
  /\ UNCHANGED <<issue, plan, work, dirty, tip, quality, report, request, archived, closed, ghost>>

(* pi_next_git checkpoint: the paths are committed without the gates of     *)
(* pi_next_git commit and pushed to the branch of the issue.                *)
Checkpoint ==
  /\ tool = Idle /\ tip.number < MaxCommits
  /\ \E paths \in SUBSET (Workflow \cup {"src"}) :
       /\ paths \subseteq Changed /\ paths # {}
       /\ tip' = After(paths)
       /\ dirty' = dirty \ paths
  /\ UNCHANGED <<issue, plan, work, quality, report, telemetry, request, tool, archived, closed, ghost>>

-----------------------------------------------------------------------------
(* The request names a commit, here by its sources, and spells the hash in  *)
(* full or abbreviated.                                                     *)

Requested(hash, auth, archive) ==
  [sources |-> tip.sources, hash |-> hash, auth |-> auth, archive |-> archive]

(* promotionReadiness: the evidence must be of what is promoted.            *)
Current(fp) == fp = Fingerprint

(* pi_next_git request_promotion.  The commit of main that it is to be      *)
(* based on is given by the caller and only has to be the present one.      *)
Promote ==
  /\ tool = Idle /\ Clean
  /\ report.status = "PASS" /\ Current(report.fp) /\ report.auth # Unverified
  /\ request' = Requested("full", report.auth, FALSE)
  /\ UNCHANGED <<issue, plan, work, dirty, tip, quality, report, telemetry, tool, archived, closed, ghost>>

(* assertArchiveReady                                                       *)
ArchiveReady ==
  /\ plan.present /\ plan.done
  /\ report.status = "PASS" /\ report.auth = issue.fp
  /\ Missing(Live, plan.criteria) = {}
  /\ Current(report.fp)
  /\ quality # None /\ quality.ok /\ quality.level = "full" /\ quality.fp = Fingerprint /\ "full" \in quality.fresh
  /\ Clean

(* pi_next_update archive: PLAN.md is moved, then the three paths are       *)
(* committed as a terminal transition.  When that fails the files stay      *)
(* moved.                                                                   *)
Archive ==
  /\ tool = Idle /\ tip.number < MaxCommits
  /\ ArchiveReady
  /\ plan' = [plan EXCEPT !.present = FALSE]
  /\ dirty' = {"PLAN", "HISTORY"}
  /\ LET keys == {<<"terminal_transition", issue.fp>>} IN
     tool' = IF Allowed(keys)
             THEN [at |-> "commit", paths |-> {"PLAN", "HISTORY"}, bookkeeping |-> TRUE, keys |-> keys, archive |-> TRUE,
                   auth |-> issue.fp]
             ELSE Idle
  /\ UNCHANGED <<issue, work, tip, quality, report, telemetry, request, archived, closed, ghost>>

(* requestArchiveFinalization: commitExplicitPaths has returned the hash    *)
(* as git rev-parse --short prints it.                                      *)
ArchiveHash == "short"

RequestArchive ==
  /\ tool.at = "request"
  /\ request' = Requested(ArchiveHash, tool.auth, TRUE)
  /\ archived' = TRUE
  /\ tool' = Idle
  /\ UNCHANGED <<issue, plan, work, dirty, tip, quality, report, telemetry, closed, ghost>>

-----------------------------------------------------------------------------
(* finalizeRequestedPromotion                                               *)

(* parseRequest: forty hexadecimal digits, or there is no request.          *)
Readable(r) == r.hash = "full"

(* The candidate is integrated and, if the issue is as it was verified,     *)
(* closed; in either case the request is done with.                         *)
Finalize ==
  /\ tool = Idle /\ Readable(request) /\ ~ closed
  /\ closed' = (request.auth = issue.fp)
  /\ request' = NoRequest
  /\ UNCHANGED <<issue, plan, work, dirty, tip, quality, report, telemetry, tool, archived, ghost>>

Next ==
  /\ \/ EditIssue \/ EditSource \/ EditPlan \/ Kill
     \/ Quality \/ QualityEnds \/ Ages \/ Verify \/ VerifyEnds
     \/ Commit \/ Committed \/ Refused \/ Record \/ Checkpoint
     \/ Promote \/ Archive \/ RequestArchive \/ Finalize
  /\ UNCHANGED setting

Spec == Init /\ [][Next]_vars

-----------------------------------------------------------------------------
(* Whatever order the tools are called in, and whatever changes while they  *)
(* run: the commit a request names holds sources on which a verification    *)
(* found every criterion of that state of the issue met, which a review     *)
(* passed if the risk calls for one, and, for an archive, which the full    *)
(* quality gate passed.                                                     *)
RequestProven ==
  request # NoRequest =>
    /\ <<request.sources, request.auth>> \in ghost.met
    /\ HighRisk => request.sources \in ghost.reviewed
    /\ request.archive => request.sources \in ghost.gated

(* Commits made under the budget of bookkeeping are bounded: by the limit,  *)
(* and one more for each correction, and for each call that was killed      *)
(* between the commit and its count.                                        *)
BudgetKept == ghost.spent <= Limit + Cardinality(ghost.keys) + ghost.killed
=============================================================================

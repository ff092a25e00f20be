------------------------------ MODULE Dispatch ------------------------------
(***************************************************************************)
(* Which methodology a worker is given, and the review that rests on it:   *)
(* the registry of skills a checkout offers                                *)
(* (src/skills/effective-registry.ts, src/coordination/skill-registry.ts,  *)
(* skill-compatibility.ts), the routing policy its configuration may       *)
(* replace (src/coordination/config.ts), the dispatch of a worker from     *)
(* both (src/coordination/worker-dispatch.ts), and the gate in which       *)
(* read-only reviewers, one for each axis, judge a candidate               *)
(* (src/coordination/adversarial-review.ts, candidate-review.ts).  Others  *)
(* sync packs, edit the configuration and commit meanwhile.                *)
(*                                                                         *)
(* A pack has no name of a package-owned skill.  No caller gives a task    *)
(* that meets a default pattern, nor paths, so a rule with such a          *)
(* condition never applies; none requests an explicit skill, so that tier  *)
(* is left out; and the gate is never given a repair: it has one round.    *)
(***************************************************************************)
EXTENDS Naturals, Sequences, Functions

CONSTANTS
  Pack,        \* the names of the packs the manifest of the checkout may list
  RuleSkill,   \* skills an operator may write into a rule
  RuleRoles,   \* sets of roles an operator may restrict a rule to; {} is none
  Axes,        \* lists of review axes an operator may configure
  MaxChanges   \* bound: syncs, edits of the configuration, commits

(* What is assumed of the constants.                                        *)
DispatchAssumption ==
  /\ "code-review-spec" \notin Pack /\ "code-review-standards" \notin Pack
  /\ Axes \subseteq Seq({"spec", "standards", "risk"}) \ {<<>>}
  /\ MaxChanges \in Nat

VARIABLES
  manifest,    \* the packs listed, and whether their provenance is the reviewed one
  config,      \* the file: whether there is one, its skills section, the review it asks for
  call,        \* the dispatch or the gate that runs, or how the last one ended
  changes      \* bounded: see MaxChanges

vars == <<manifest, config, call, changes>>

Role == {"controller", "planning", "implementation", "repair", "review-spec", "review-standards",
         "verification", "maintenance"}

Profile(role) ==
  CASE role \in {"review-spec", "review-standards"} -> "read-only-reviewer"
    [] role \in {"planning", "implementation", "repair"} -> "mutable-owner"
    [] OTHER -> role

(* What the package declares of a skill: its category, the managed pack it  *)
(* comes from ("" is none), whether its content is the package's own, the   *)
(* roles and profiles it fits, and what must be bound for it.               *)
Declared(category, pack, packaged, roles, bound) ==
  [category |-> category, pack |-> pack, packaged |-> packaged, reviewed |-> TRUE, owner |-> FALSE,
   attended |-> FALSE, roles |-> roles, profiles |-> {Profile(r) : r \in roles}, bound |-> bound]

Exact == {"authorityFingerprint", "candidateSha", "fixedPointSha"}

Known ==
  {"code-review", "code-review-spec", "code-review-standards", "tdd", "diagnosing-bugs", "codebase-design",
   "performance-telemetry", "verification-before-completion"}

BuiltIn(id) ==
  CASE id = "code-review" ->
         [Declared("code-review-orchestrator", "code-review", FALSE, {}, {}) EXCEPT !.owner = TRUE, !.attended = TRUE]
    [] id = "code-review-spec" ->
         Declared("code-review-spec", "code-review", TRUE, {"review-spec"}, Exact \cup {"specEvidence"})
    [] id = "code-review-standards" ->
         Declared("code-review-standards", "code-review", TRUE, {"review-standards"}, Exact \cup {"standardsSources"})
    [] id = "tdd" -> Declared("tdd", "tdd", TRUE, {"implementation", "repair"}, {})
    [] id = "diagnosing-bugs" -> Declared("debugging", "diagnosing-bugs", FALSE, {"repair"}, {})
    [] id = "codebase-design" -> Declared("design", "codebase-design", FALSE, {"planning", "review-standards"}, {})
    [] id = "performance-telemetry" -> Declared("performance", "", TRUE, {"maintenance"}, {})
    [] id = "verification-before-completion" -> Declared("verification", "", TRUE, {"verification"}, {})

(* A pack the package knows nothing of: available, its category its name.   *)
Unreviewed(id) ==
  [category |-> id, pack |-> id, packaged |-> FALSE, reviewed |-> FALSE, owner |-> FALSE,
   attended |-> FALSE, roles |-> {}, profiles |-> {}, bound |-> {}]

Entry(id) == IF id \in Known THEN BuiltIn(id) ELSE Unreviewed(id)

(* The effective registry of a manifest: what its packs hold, and the       *)
(* package's own.  A skill whose content is a pack that is not listed is    *)
(* not installed.                                                           *)
Available(packs) == packs \cup {id \in Known : BuiltIn(id).packaged}

-----------------------------------------------------------------------------
(* Routing policies.  A rule names roles and risks, {} standing for every   *)
(* one, and may have a condition on the task or its paths.                  *)
Rule == [skill : RuleSkill, roles : RuleRoles, risk : {{}}, on : {"any"}]

Ruled(skill, roles, risk, on) == [skill |-> skill, roles |-> roles, risk |-> risk, on |-> on]

Default ==
  [mandatory |-> <<>>,
   automatic |->
     <<Ruled("codebase-design", {"planning"}, {"high", "critical"}, "any"),
       Ruled("tdd", {"implementation"}, {}, "behavior"),
       Ruled("diagnosing-bugs", {"repair"}, {}, "any"),
       Ruled("tdd", {"repair"}, {}, "behavior"),
       Ruled("code-review-spec", {"review-spec"}, {}, "any"),
       Ruled("code-review-standards", {"review-standards"}, {}, "any"),
       Ruled("codebase-design", {"review-standards"}, {"normal", "high", "critical"}, "any"),
       Ruled("performance-telemetry", {"maintenance"}, {}, "any")>>]

Policy == [mandatory : UNION {[1 .. n -> Rule] : n \in 0 .. 2}, automatic : {<<>>, Default.automatic}]

(* The configuration is validated when it is read, against the registry of  *)
(* that moment.                                                             *)
Fits(rule, packs) ==
  LET e == Entry(rule.skill)
  IN /\ rule.skill \in Available(packs) /\ ~ e.owner /\ e.reviewed /\ ~ e.attended
     /\ (IF rule.roles = {} THEN Role ELSE rule.roles) \subseteq e.roles

Competing(rules) ==
  \E r, s \in Range(rules) : r.skill # s.skill /\ Entry(r.skill).category = Entry(s.skill).category

Accepted(policy, packs) ==
  /\ \A r \in Range(policy.mandatory) \cup Range(policy.automatic) : Fits(r, packs)
  /\ ~ Competing(policy.mandatory) /\ ~ Competing(policy.automatic)

(* loadPiNextConfig: defaults without a file, the policy of the file, or no *)
(* configuration at all.                                                    *)
Loads == config.file => manifest.reviewed /\ (config.skills # Default => Accepted(config.skills, manifest.packs))

-----------------------------------------------------------------------------
(* A dispatch: a phase, the risk of the issue ("none" when the caller gives *)
(* none), and the inputs bound to it.                                       *)
Input(phase, risk, bound) == [phase |-> phase, risk |-> risk, bound |-> bound]

RoleOf(in) == IF in.phase \in Role THEN in.phase ELSE IF in.phase = "review" THEN "review-standards" ELSE "planning"

Matches(rule, in) ==
  /\ rule.roles = {} \/ RoleOf(in) \in rule.roles
  /\ rule.risk = {} \/ in.risk \in rule.risk
  /\ rule.on = "any"

(* A selected skill must suit the worker; otherwise the dispatch fails.     *)
Refused(id, in) ==
  LET e == Entry(id)
  IN \/ e.owner \/ ~ e.reviewed \/ e.attended
     \/ RoleOf(in) \notin e.roles \/ Profile(RoleOf(in)) \notin e.profiles
     \/ ~ (e.bound \subseteq in.bound)

(* Of the rules that apply to what is installed, the first of a category    *)
(* claims it.                                                               *)
Rules(policy) == policy.mandatory \o policy.automatic

Claiming(policy, packs, in) ==
  LET rules == Rules(policy)
      considered == {i \in DOMAIN rules : Matches(rules[i], in) /\ rules[i].skill \in Available(packs)}
  IN {i \in considered :
        \A j \in considered : Entry(rules[j].skill).category = Entry(rules[i].skill).category => i <= j}

Resolve(policy, packs, in) ==
  LET claims == {Rules(policy)[i].skill : i \in Claiming(policy, packs, in)}
  IN [skills |-> claims, failed |-> \E id \in claims : Refused(id, in)]

(* createWorkerDispatch.                                                    *)
Dispatched(by, policy, packs, in) ==
  LET r == Resolve(policy, packs, in)
  IN [at |-> IF r.failed THEN "failed" ELSE "done", by |-> by, in |-> in, role |-> RoleOf(in), skills |-> r.skills,
      profile |-> Profile(RoleOf(in))]

-----------------------------------------------------------------------------
(* A call is one of three: a prompt that is built, a worker of a lifecycle, *)
(* a review.  They write nothing the others read.                           *)
Init ==
  /\ manifest = [packs |-> {"code-review", "tdd", "diagnosing-bugs", "codebase-design"} \cap Pack, reviewed |-> TRUE]
  /\ config = [file |-> FALSE, skills |-> Default, enabled |-> FALSE, axes |-> <<"spec", "standards">>, required |-> "high"]
  /\ call = [at |-> "idle"] /\ changes = 0

Change == changes < MaxChanges /\ changes' = changes + 1

(* Another process syncs the packs; while it runs, or when it was killed,   *)
(* the provenance is not the manifest's.                                    *)
Sync ==
  /\ Change
  /\ \E p \in SUBSET Pack, r \in BOOLEAN : manifest' = [packs |-> p, reviewed |-> r]
  /\ UNCHANGED <<config, call>>

(* An operator edits the configuration file; the skills section once.       *)
Configure ==
  /\ Change
  /\ \/ config.skills = Default /\ \E p \in Policy : config' = [config EXCEPT !.file = TRUE, !.skills = p]
     \/ \E a \in Axes, e \in BOOLEAN, r \in {"high", "critical"} :
          config' = [config EXCEPT !.file = TRUE, !.enabled = e, !.axes = a, !.required = r]
  /\ UNCHANGED <<manifest, call>>

Free == call.at \notin {"loaded", "review", "asked"}
Goes(next) == call' = next /\ UNCHANGED <<manifest, config, changes>>
Thrown == [at |-> "thrown"]

(* buildPiNextPrompt reads the configuration, then the registry once more;  *)
(* its caller gives no phase.                                               *)
Prompt ==
  /\ Free
  /\ Goes(IF Loads THEN [at |-> "loaded", policy |-> config.skills, packs |-> manifest.packs] ELSE Thrown)

Build ==
  /\ call.at = "loaded"
  /\ LET d == Dispatched("prompt", call.policy, manifest.packs, Input("planning", "none", {}))
     IN Goes(IF ~ manifest.reviewed THEN Thrown
             ELSE [at |-> d.at, by |-> d.by, in |-> d.in, skills |-> d.skills,
                   wanted |-> IF call.packs \subseteq manifest.packs THEN call.policy.mandatory ELSE <<>>])

(* A worker of a lifecycle: PiWorkerSession.prompt gives a phase, and no    *)
(* policy.                                                                  *)
RolePhase(role) == IF role = "implementation-retry" THEN "implementation" ELSE role
Work ==
  /\ Free
  /\ \E role \in {"implementation", "implementation-retry", "repair"} :
       Goes(IF ~ manifest.reviewed THEN Thrown
            ELSE Dispatched("worker", Default, manifest.packs, Input(RolePhase(role), "none", {})))

-----------------------------------------------------------------------------
(* runCandidateReviewGate, with the risk read from the live issue.          *)
Required(risk) == config.enabled /\ (risk = "critical" \/ (risk = "high" /\ config.required = "high"))

Verify ==
  /\ Free
  /\ \E risk \in {"low", "normal", "high", "critical"} :
       Goes(IF ~ Loads THEN Thrown
            ELSE IF ~ Required(risk) THEN [at |-> "bypassed"]
            ELSE [at |-> "review", axes |-> config.axes, risk |-> risk, reports |-> <<>>])

(* The inputs bound for an axis.                                            *)
Bound(axis) == Exact \cup (IF axis = "spec" THEN {"specEvidence"} ELSE {"standardsSources"})

(* The phase and the methodology of an axis.                                *)
ReviewOf(axis) == CASE axis = "spec" -> "review-spec" [] axis = "standards" -> "review-standards" [] OTHER -> "review-risk"
Discipline(axis) == CASE axis = "spec" -> "code-review-spec" [] axis = "standards" -> "code-review-standards"

(* The reviewer of the next axis is dispatched.                             *)
Ask ==
  /\ call.at = "review"
  /\ LET axis == call.axes[Len(call.reports) + 1]
         d == Dispatched("gate", Default, manifest.packs, Input(ReviewOf(axis), call.risk, Bound(axis)))
     IN Goes(IF ~ manifest.reviewed THEN Thrown ELSE IF d.at = "failed" THEN d 
             ELSE [at |-> "asked", axes |-> call.axes, risk |-> call.risk, reports |-> call.reports, to |-> d])

(* It ends.  A process that fails counts as a blocking finding with what it *)
(* printed for evidence.  A finding without evidence does not count: one    *)
(* that dies before it prints anything ("silent") blocks nothing.  What is  *)
(* no JSON, or passes with a blocking finding, is thrown out with the gate. *)
Blocks_NotDead(ended) == ended = "blocking"
Blocks(ended) == ended \in {"blocking", "dead"}

Answer ==
  /\ call.at = "asked"
  /\ \E ended \in {"pass", "remarks", "blocking", "dead", "silent", "unreadable"} :
       LET reports == Append(call.reports, [axis |-> call.axes[Len(call.reports) + 1], by |-> call.to, ended |-> ended])
           end == IF Len(reports) < Len(call.axes) THEN "review"
                  ELSE IF \E r \in Range(reports) : Blocks(r.ended) THEN "blocked" ELSE "passed"
       IN Goes(IF ended = "unreadable" THEN Thrown
               ELSE [at |-> end, axes |-> call.axes, risk |-> call.risk, reports |-> reports])

Next == Sync \/ Configure \/ Prompt \/ Build \/ Work \/ Verify \/ Ask \/ Answer

Spec == Init /\ [][Next]_vars

-----------------------------------------------------------------------------
TypeOK ==
  /\ manifest \in [packs : SUBSET Pack, reviewed : BOOLEAN]
  /\ config.file \in BOOLEAN /\ config.enabled \in BOOLEAN /\ config.axes \in Axes \cup {<<"spec", "standards">>}
  /\ call.at \in {"idle", "thrown", "loaded", "done", "failed", "bypassed", "review", "asked", "passed", "blocked"}
  /\ changes \in 0 .. MaxChanges

(* docs/SKILLS.md:208-212 and docs/WORKERS.md:9: a candidate that the gate  *)
(* let pass was given, for each axis, to a worker dispatched as a read-only *)
(* reviewer with the methodology of its axis, whatever packs were synced    *)
(* between the axes; and that worker answered with nothing blocking, or     *)
(* died before it printed a word, which the gate does not tell from finding *)
(* nothing.  The axis "risk" has no role of its own and is left out.        *)
Reviewed ==
  call.at = "passed" =>
    \A axis \in Range(call.axes) \ {"risk"} :
      \E r \in Range(call.reports) :
        /\ r.axis = axis /\ r.ended \in {"pass", "remarks", "silent"}
        /\ r.by.profile = "read-only-reviewer" /\ Discipline(axis) \in r.by.skills

(* docs/SKILLS.md:215-221: what is wrong with a routing policy is refused   *)
(* when the configuration is read, so no dispatch under an accepted policy  *)
(* fails, whatever packs are synced in between; and what the policy makes   *)
(* mandatory for a prompt is selected for it unless its pack went.          *)
Routed ==
  /\ call.at # "failed"
  /\ call.at = "done" /\ call.by = "prompt" => \A r \in Range(call.wanted) : Matches(r, call.in) => r.skill \in call.skills
=============================================================================

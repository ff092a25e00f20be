------------------------------ MODULE Command ------------------------------
(***************************************************************************)
(* How an issue is taken by hand.  The explicit command of the extension   *)
(* (runIssueScopedPrompt of extensions/pi-next/commands.ts) chooses an     *)
(* issue or is given one, claims it, attaches its worktree, moves the      *)
(* workflow artifacts of other issues out of the way, has it worked on and *)
(* gives the lease back.  The coordination command line                    *)
(* (src/coordination/cli.ts) does the same call by call for a harness that *)
(* works by itself: claim or prepare, renew, finalize, release.            *)
(*                                                                         *)
(* A lease is what LeaseContract promises of it: a claim is granted when   *)
(* it is not fresh, and a call that fails may have taken effect.  An       *)
(* artifact is a plan or a verification record under a file name, with the *)
(* issue it names and its text.  What becomes of the worktree itself is    *)
(* Worktree, and what the lifecycle does in it Lifecycle.                  *)
(***************************************************************************)
EXTENDS Naturals, FiniteSets

CONSTANTS
  Process,      \* runs of the explicit command, and harnesses
  Issue,
  Nobody,       \* owner of a lease that was given back; no issue
  Artifact,     \* [slot, kind, issue, text]; the issue is Nobody when none can be read
  MaxAttempts,  \* claims of one free selection, 3
  Mortal        \* processes that may be killed

(* What is assumed of the constants.                                        *)
CommandAssumption ==
  /\ Nobody \notin Process \cup Issue
  /\ \A a \in Artifact : a.kind \in {"plan", "verify"}
  /\ MaxAttempts \in Nat \ {0} /\ Mortal \subseteq Process

VARIABLES
  harness,   \* the processes that use the command line
  lease,     \* per issue: its owner and whether it is fresh
  proc,      \* per process: [pc, issue, free, tries, todo]
  root,      \* artifacts in the coordination checkout
  ws,        \* per issue: artifacts in its worktree
  parked,    \* per issue: what was moved aside in its worktree, under [kind, issue]
  legacy,    \* what was moved aside from the coordination checkout
  texts,     \* history: artifacts that were ever written
  lapsed,    \* history: processes whose lease ran out while they hold it
  unsure     \* history: processes for which a claim or a release failed, or that were killed

vars == <<harness, lease, proc, root, ws, parked, legacy, texts, lapsed, unsure>>

Steps == {"idle", "choose", "claim", "attach", "inherit", "legacy", "check", "work", "release", "over", "dead"}

Aside(a, b) == [kind |-> a.kind, issue |-> a.issue, text |-> b.text]
Parked == {Aside(a, b) : a \in Artifact, b \in Artifact}

TypeOK ==
  /\ harness \subseteq Process
  /\ lease \in [Issue -> [owner : Process \cup {Nobody}, fresh : BOOLEAN]]
  /\ proc \in [Process -> [pc : Steps, issue : Issue \cup {Nobody}, free : BOOLEAN,
                           tries : 0 .. MaxAttempts, todo : SUBSET Artifact]]
  /\ root \subseteq Artifact /\ ws \in [Issue -> SUBSET Artifact]
  /\ parked \in [Issue -> SUBSET Parked] /\ legacy \subseteq Parked
  /\ texts \subseteq Artifact /\ lapsed \subseteq Process /\ unsure \subseteq Process

(* A directory holds one file of a name.                                    *)
Directory(d) == \A a, b \in d : a.slot = b.slot => a = b

(* A worktree begins as a checkout of main, which the coordination checkout *)
(* once was too.                                                            *)
Init ==
  /\ harness \in SUBSET Process
  /\ root \in {d \in SUBSET Artifact : Directory(d)}
  /\ ws \in [Issue -> {{}, root}]
  /\ lease = [i \in Issue |-> [owner |-> Nobody, fresh |-> FALSE]]
  /\ proc = [p \in Process |-> [pc |-> "idle", issue |-> Nobody, free |-> FALSE, tries |-> 0,
                                todo |-> {}]]
  /\ parked = [i \in Issue |-> {}] /\ legacy = {}
  /\ texts = root /\ lapsed = {} /\ unsure = {}

-----------------------------------------------------------------------------
(* Operators named X_Y are X with a plausible bug; no specification uses    *)
(* them.  They show that the properties below would notice.                 *)

Goto(p, s) == proc' = [proc EXCEPT ![p].pc = s]
At(p, s) == proc[p].pc = s
Holding(p) == {i \in Issue : lease[i].owner = p}
Files == <<root, ws, parked, legacy, texts>>
Leases == <<lease, lapsed, unsure>>

(* A command begins, with an issue among its arguments or without, or does  *)
(* not pass the preflight of its workflow state provider.                   *)
Begin(p) ==
  /\ At(p, "idle") /\ p \notin harness
  /\ \/ Goto(p, "choose") /\ UNCHANGED Leases
     \/ \E i \in Issue : proc' = [proc EXCEPT ![p].pc = "claim", ![p].issue = i] /\ UNCHANGED Leases
     \/ Goto(p, "over") /\ UNCHANGED Leases
  /\ UNCHANGED Files

(* A harness calls claim or prepare for an issue.                           *)
Prepare(p) ==
  /\ At(p, "idle") /\ p \in harness
  /\ \E i \in Issue : proc' = [proc EXCEPT ![p].pc = "claim", ![p].issue = i]
  /\ UNCHANGED <<Files, Leases>>

(* The shortlist names an issue nobody seems to hold, or none, or cannot be *)
(* read; it is asked for again after a conflict.                            *)
Choose(p) ==
  /\ At(p, "choose")
  /\ \/ /\ proc[p].tries < MaxAttempts
        /\ \E i \in Issue : ~ lease[i].fresh /\ proc' = [proc EXCEPT ![p].pc = "claim", ![p].issue = i, ![p].free = TRUE]
     \/ Goto(p, "over")
  /\ UNCHANGED <<Files, Leases>>

(* Of a lease that is fresh the claim is a conflict.                        *)
Free_Always(i) == TRUE
Free(i) == ~ lease[i].fresh

(* Where a granted claim leads: prepare and the command attach a worktree.  *)
Granted(p) == IF p \in harness THEN {"attach", "work"} ELSE {"attach"}

Claim(p) ==
  LET i == proc[p].issue IN
  /\ At(p, "claim")
  /\ \/ /\ Free(i)
        /\ lease' = [lease EXCEPT ![i] = [owner |-> p, fresh |-> TRUE]]
        /\ \E s \in Granted(p) : Goto(p, s)
        /\ UNCHANGED <<lapsed, unsure>>
     \/ /\ ~ Free(i)   \* LeaseConflictError: chosen freely, another one
        /\ proc' = [proc EXCEPT ![p].pc = IF @ = "claim" /\ proc[p].free THEN "choose" ELSE "over",
                                ![p].tries = IF proc[p].free THEN @ + 1 ELSE @]
        /\ UNCHANGED Leases
     \/ /\ Goto(p, "over") /\ unsure' = unsure \cup {p}   \* the call fails
        /\ \/ Free(i) /\ lease' = [lease EXCEPT ![i] = [owner |-> p, fresh |-> TRUE]]
           \/ UNCHANGED lease
        /\ UNCHANGED lapsed
  /\ UNCHANGED Files

(* What went wrong after the claim gives the lease back.                    *)
Undo_Kept(p) == Goto(p, "over")
Undo(p) == Goto(p, "release")

(* ensureIssueWorktree, which may fail.                                     *)
Attach(p) ==
  /\ At(p, "attach")
  /\ IF p \in harness
     THEN Goto(p, "work")
     ELSE proc' = [proc EXCEPT ![p].pc = "inherit", ![p].todo = ws[proc[p].issue]]
  /\ UNCHANGED <<Files, Leases>>

HandoffFails(p) ==
  /\ proc[p].pc \in {"attach", "inherit", "legacy"}
  /\ Undo(p)
  /\ UNCHANGED <<Files, Leases>>

(* An artifact goes under its target, unless something else is there; a     *)
(* copy of what is there is removed.                                        *)
Occupied_Never(store, a, b) == FALSE
Occupied(store, a, b) == \E o \in store : o.kind = a.kind /\ o.issue = a.issue /\ o.text # b.text
Move(store, a, b) == {o \in store : o.kind # a.kind \/ o.issue # a.issue} \cup {Aside(a, b)}

(* quarantineInheritedWorkflowArtifacts: of the artifacts that were there,  *)
(* another issue's of which the coordination checkout has the same one.     *)
Copied(a) == \E b \in root : b.kind = a.kind /\ b.issue = a.issue /\ b.text = a.text

MoveInherited(p) ==
  LET i == proc[p].issue IN
  /\ At(p, "inherit")
  /\ \E a \in proc[p].todo :
       \/ /\ a.issue = i \/ ~ Copied(a)
          /\ proc' = [proc EXCEPT ![p].todo = @ \ {a}]
          /\ UNCHANGED Files
       \/ /\ a.issue # i /\ Copied(a) /\ a \in ws[i] /\ ~ Occupied(parked[i], a, a)
          /\ parked' = [parked EXCEPT ![i] = Move(@, a, a)]
          /\ ws' = [ws EXCEPT ![i] = @ \ {a}]
          /\ proc' = [proc EXCEPT ![p].todo = @ \ {a}]
          /\ UNCHANGED <<root, legacy, texts>>
       \/ /\ a.issue # i /\ Copied(a) /\ (a \notin ws[i] \/ Occupied(parked[i], a, a))
          /\ Undo(p) /\ UNCHANGED Files
  /\ UNCHANGED Leases

(* The moves are committed; the artifacts of the coordination checkout are  *)
(* next.                                                                    *)
Inherited(p) ==
  /\ At(p, "inherit") /\ proc[p].todo = {}
  /\ proc' = [proc EXCEPT ![p].pc = "legacy", ![p].todo = root]
  /\ UNCHANGED <<Files, Leases>>

(* quarantineLegacyCoordinationArtifacts: every one that was there, by its  *)
(* file name: what is there now goes where the one read before belonged.    *)
MoveLegacy(p) ==
  /\ At(p, "legacy")
  /\ \E a \in proc[p].todo :
       \/ \E b \in root :
            /\ b.slot = a.slot /\ ~ Occupied(legacy, a, b)
            /\ legacy' = Move(legacy, a, b)
            /\ root' = root \ {b}
            /\ proc' = [proc EXCEPT ![p].todo = @ \ {a}]
            /\ UNCHANGED <<ws, parked, texts>>
       \/ /\ \A b \in root : b.slot = a.slot => Occupied(legacy, a, b)
          /\ Undo(p) /\ UNCHANGED Files
  /\ UNCHANGED Leases

Settled(p) ==
  /\ At(p, "legacy") /\ proc[p].todo = {}
  /\ Goto(p, "check")
  /\ UNCHANGED <<Files, Leases>>

(* resolvePlanIdentity: the canonical plan, or else exactly one other.      *)
Ambiguous(d) ==
  LET plans == {a \in d : a.kind = "plan"} IN
  (\A a \in plans : a.slot # "PLAN") /\ Cardinality(plans) > 1

(* validateIssueWorkspaceBeforeWorker.                                      *)
Foreign(i) == {a \in ws[i] : a.issue # i}
Fit(i) == Foreign(i) = {} /\ ~ Ambiguous(ws[i])

Check(p) ==
  /\ At(p, "check")
  /\ IF Fit(proc[p].issue) THEN Goto(p, "work") ELSE Undo(p)
  /\ UNCHANGED <<Files, Leases>>

(* A heartbeat of the command or a call of renew: the owner's lease is      *)
(* extended, also one that ran out.                                         *)
Renew(p) ==
  /\ At(p, "work") /\ lease[proc[p].issue].owner = p
  /\ lease' = [lease EXCEPT ![proc[p].issue].fresh = TRUE]
  /\ lapsed' = lapsed \ {p}
  /\ UNCHANGED <<proc, unsure, Files>>

(* A harness is told that it lost the lease, and ends.                      *)
LeaseLost(p) ==
  /\ At(p, "work") /\ p \in harness /\ lease[proc[p].issue].owner # p
  /\ Goto(p, "over")
  /\ UNCHANGED <<Files, Leases>>

(* The worker writes its plan, or one of another issue.                     *)
Write(d, a) == a \notin texts /\ (\A b \in d : b.slot # a.slot) /\ texts' = texts \cup {a}

WritePlan(p) ==
  /\ At(p, "work")
  /\ \E a \in Artifact : Write(ws[proc[p].issue], a) /\ ws' = [ws EXCEPT ![proc[p].issue] = @ \cup {a}]
  /\ UNCHANGED <<proc, root, parked, legacy, Leases>>

(* The lifecycle returns or throws, or the harness is done, its last call   *)
(* but release being finalize.                                              *)
Finish(p) ==
  /\ At(p, "work") /\ Goto(p, "release")
  /\ UNCHANGED <<Files, Leases>>

(* The owner's lease is gone; another owner's, or none, is left alone; a    *)
(* release that fails may have taken effect.                                *)
Release(p) ==
  LET i == proc[p].issue IN
  /\ At(p, "release") /\ Goto(p, "over")
  /\ \/ /\ lease' = IF lease[i].owner = p THEN [lease EXCEPT ![i] = [owner |-> Nobody, fresh |-> FALSE]] ELSE lease
        /\ lapsed' = lapsed \ {p} /\ UNCHANGED unsure
     \/ UNCHANGED <<lease, lapsed>> /\ unsure' = unsure \cup {p}
  /\ UNCHANGED Files

(* Somebody, or an older run, leaves an artifact in the coordination        *)
(* checkout.                                                                *)
LeaveInRoot ==
  /\ \E a \in Artifact : Write(root, a) /\ root' = root \cup {a}
  /\ UNCHANGED <<proc, ws, parked, legacy, Leases>>

(* Time passes without a renewal.                                           *)
Expire(i) ==
  /\ lease[i].fresh
  /\ lease' = [lease EXCEPT ![i].fresh = FALSE]
  /\ lapsed' = lapsed \cup {p \in {lease[i].owner} : p # Nobody}
  /\ UNCHANGED <<proc, unsure, Files>>

Kill(p) ==
  /\ p \in Mortal /\ proc[p].pc \notin {"idle", "over", "dead"}
  /\ Goto(p, "dead") /\ unsure' = unsure \cup {p}
  /\ UNCHANGED <<lease, lapsed, Files>>

Next ==
  /\ \/ \E p \in Process :
          \/ Begin(p) \/ Prepare(p) \/ Choose(p) \/ Claim(p) \/ Attach(p) \/ HandoffFails(p)
          \/ MoveInherited(p) \/ Inherited(p) \/ MoveLegacy(p) \/ Settled(p) \/ Check(p)
          \/ Renew(p) \/ LeaseLost(p) \/ WritePlan(p) \/ Finish(p) \/ Release(p) \/ Kill(p)
     \/ LeaveInRoot
     \/ \E i \in Issue : Expire(i)
  /\ UNCHANGED harness

Spec == Init /\ [][Next]_vars

-----------------------------------------------------------------------------
(* Two processes work on one issue only when the lease of one of them ran   *)
(* out, and who was told that it has not got an issue, or that it is        *)
(* through, holds no lease, unless a call failed or it was killed: the      *)
(* handoff of the command and of prepare may fail at every step after the   *)
(* claim, and must undo it.                                                 *)
ScopedWork ==
  /\ \A p, q \in Process :
       p # q /\ At(p, "work") /\ At(q, "work") /\ proc[p].issue = proc[q].issue
         => lapsed \cap {p, q} # {}
  /\ \A p \in Process : At(p, "over") => Holding(p) = {} \/ p \in unsure

(* The text of every plan and verification record ever written is still     *)
(* somewhere: moving artifacts aside, by several commands at once that      *)
(* share the coordination checkout and may be killed, overwrites none.      *)
TextsKept ==
  \A a \in texts :
    \E t \in root \cup legacy \cup UNION {ws[i] \cup parked[i] : i \in Issue} : t.text = a.text
=============================================================================

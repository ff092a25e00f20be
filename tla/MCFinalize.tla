----------------------------- MODULE MCFinalize -----------------------------
(* Instances of Finalize for TLC.  In the "clones" part two clones finalize *)
(* one issue, and in the "alone" part a finalizer is alone in its clone.    *)
(* The others are of two finalizers in one clone: in the "shared" part they *)
(* promote over each other, and main moves by their merges alone; in the    *)
(* "moving" part f1 is on its own while commits of others land on main,     *)
(* with room for the merges of attempts that lose the race.                 *)
EXTENDS Finalize, TLC

CONSTANTS
  f1, f2, r1, r2, i1, i2,
  Parts,           \* the parts that are checked side by side
  MaxSharedMerges  \* bound: merges of the shared part

(* f2 takes over from f1.                                                   *)
TwoClones == f1 :> r1 @@ f2 :> r2
OneIssue == f1 :> i1 @@ f2 :> i1
OneCandidate == i1 :> 1

(* Two finalizers of one clone, each with its issue.                        *)
OneClone == f1 :> r1 @@ f2 :> r1
TwoIssues == f1 :> i1 @@ f2 :> i2
TwoCandidates == i1 :> 1 @@ i2 :> 2

Alone == f1 :> r1
Only == f1 :> i1

VARIABLE part

partVars == <<part, vars>>

(* In the shared part there are no commits of others, and merges have a     *)
(* bound.  In the moving part the operator only cleans up after a conflict, *)
(* and f2, its branch and its issue stay as they are.                       *)
Shares ==
  /\ DOMAIN anc' = 0 .. Cardinality(Issue) \cup merges'
  /\ Cardinality(merges') <= MaxSharedMerges
Moves ==
  /\ root'[r1].dirt \subseteq root[r1].dirt \cup {"conflict"}
  /\ fin'[f2] = fin[f2] /\ issue'[i2] = issue[i2] /\ tip'[<<r1, i2>>] = tip[<<r1, i2>>]

(* In the shared part a merge beyond the bound fails, as one without Room   *)
(* does (Fails).                                                            *)
Declined(f) ==
  /\ At(f, "merge") /\ Cardinality(merges) = MaxSharedMerges
  /\ root' = [root EXCEPT ![R(f)] = Unlocked(R(f))]
  /\ Ends(f)
  /\ UNCHANGED <<commits, origin, tip, issue, lost, verified, proof>>

PartInit == part \in Parts /\ Init
PartNext ==
  /\ \/ part \in {"clones", "alone"} /\ Next
     \/ part = "shared" /\ Next /\ Shares
     \/ part = "shared" /\ \E f \in Finalizer : Declined(f)
     \/ part = "moving" /\ Next /\ Moves
  /\ UNCHANGED part

(* With the fairness of FairSpec.                                           *)
PartSpec ==
  /\ PartInit /\ [][PartNext]_partVars
  /\ \A f \in Finalizer :
       /\ WF_partVars(part \in {"clones", "alone"} /\ Continues(f) /\ UNCHANGED part)
       /\ WF_partVars(part = "shared" /\ (Declined(f) \/ (Continues(f) /\ Shares)) /\ UNCHANGED part)
       /\ WF_partVars(part = "moving" /\ Continues(f) /\ UNCHANGED part)
=============================================================================

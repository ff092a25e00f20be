--------------------------- MODULE Finalize_proof ---------------------------
(***************************************************************************)
(* Proofs about Finalize, for any finalizers, clones, issues and bounds.   *)
(***************************************************************************)
EXTENDS Finalize, FiniteSetTheorems, TLAPS

-----------------------------------------------------------------------------
(* The inductive invariant of what needs no assumption.  The commits are    *)
(* numbered as they are made, and ancestry is transitive.                   *)
Made == DOMAIN anc

Graph ==
  /\ IsFiniteSet(Made) /\ Made = 0 .. NewCommit - 1 /\ Made \subseteq Commit
  /\ 0 \in Made /\ anc[0] = {0}
  /\ \A c \in Made : c \in anc[c] /\ 0 \in anc[c] /\ anc[c] \subseteq Made
  /\ \A c \in Made : \A d \in anc[c] : anc[d] \subseteq anc[c]
  /\ merges \subseteq Made

(* The branch of an issue is linear, so it has one merge base with any      *)
(* commit: this is what the comparison of bases in ThreeWay rests on.       *)
Chain(a) == \A x, y \in anc[a] : x \in anc[y] \/ y \in anc[x]

HasBase(a, c) == \E m \in anc[a] \cap anc[c] : anc[a] \cap anc[c] \subseteq anc[m]

Branches ==
  /\ tip \in [Root \X Issue -> Made \ {0}]
  /\ \A b \in Root \X Issue : Chain(tip[b]) /\ \A c \in Made : HasBase(tip[b], c)

(* What is added to the commits, if anything.                               *)
Adds(p, q) ==
  /\ Room
  /\ AddCommit({p, q})
  /\ merges' \in {merges, merges \cup {NewCommit}}
  /\ \/ tip' = tip
     \/ \E b \in Root \X Issue :
          p = tip[b] /\ q = tip[b] /\ tip' = [tip EXCEPT ![b] = NewCommit]

Committed ==
  \/ UNCHANGED <<anc, merges, tip>>
  \/ \E p, q \in Made : Adds(p, q)

-----------------------------------------------------------------------------
(* The commit graph.                                                        *)

(* The number of the next commit is not taken.                              *)
LEMMA Numbers ==
  ASSUME Graph
  PROVE  NewCommit \in Nat /\ NewCommit \notin Made
  BY FS_CardinalityType DEF Graph, Made, NewCommit

(* A commit with the parents p and q.                                       *)
LEMMA AddedCommit ==
  ASSUME Graph, NEW p \in Made, NEW q \in Made, Adds(p, q)
  PROVE  /\ Made' = Made \cup {NewCommit} /\ NewCommit \notin Made
         /\ \A c \in Made : anc'[c] = anc[c]
         /\ anc'[NewCommit] = {NewCommit} \cup anc[p] \cup anc[q]
<1>1. UNION {anc[d] : d \in {p, q}} = anc[p] \cup anc[q]
  OBVIOUS
<1>2. NewCommit \notin Made
  BY Numbers
<1>3. QED BY <1>1, <1>2 DEF Adds, AddCommit, Made

(* A commit more, and it is still a history of numbered commits.            *)
LEMMA GraphGrows ==
  ASSUME Graph, NEW p \in Made, NEW q \in Made, Adds(p, q)
  PROVE  Graph'
<1> DEFINE n == NewCommit
<1>1. /\ Made' = Made \cup {n} /\ n \notin Made /\ n \in Nat
      /\ \A c \in Made : anc'[c] = anc[c]
      /\ anc'[n] = {n} \cup anc[p] \cup anc[q]
  BY AddedCommit, Numbers
<1> HIDE DEF n
<1>2. IsFiniteSet(Made') /\ NewCommit' = n + 1
  BY <1>1, FS_AddElement DEF Graph, Made, NewCommit, n
<1>3. Made' = 0 .. NewCommit' - 1
  BY <1>1, <1>2 DEF Graph, n
<1>4. Made' \subseteq Commit /\ merges' \subseteq Made'
  BY <1>1 DEF Graph, Adds, Room, n, Commit
<1>5. 0 \in Made' /\ anc'[0] = {0}
  BY <1>1 DEF Graph
<1>6. \A c \in Made' : c \in anc'[c] /\ 0 \in anc'[c] /\ anc'[c] \subseteq Made'
  BY <1>1 DEF Graph
<1>7. ASSUME NEW c \in Made', NEW d \in anc'[c]
      PROVE  anc'[d] \subseteq anc'[c]
  <2>1. CASE c \in Made
    BY <2>1, <1>1 DEF Graph
  <2>2. CASE c = n /\ d = n
    BY <2>2
  <2>3. CASE c = n /\ d # n
    <3>1. d \in anc[p] \/ d \in anc[q]
      BY <2>3, <1>1, <1>7
    <3>2. d \in Made /\ (anc[d] \subseteq anc[p] \/ anc[d] \subseteq anc[q])
      BY <3>1 DEF Graph
    <3>3. QED BY <3>2, <1>1, <2>3
  <2>4. QED BY <2>1, <2>2, <2>3, <1>1
<1>8. QED BY <1>2, <1>3, <1>4, <1>5, <1>6, <1>7 DEF Graph

(* Of the bases a branch has with p and with q the later one is the base    *)
(* it has with a merge of the two.                                          *)
LEMMA LaterBase ==
  ASSUME Graph, NEW a \in Made, NEW p \in Made, NEW q \in Made,
         Chain(a), HasBase(a, p), HasBase(a, q)
  PROVE  \E m \in anc[a] \cap (anc[p] \cup anc[q]) :
           anc[a] \cap (anc[p] \cup anc[q]) \subseteq anc[m]
<1>1. PICK x \in anc[a] \cap anc[p] : anc[a] \cap anc[p] \subseteq anc[x]
  BY DEF HasBase
<1>2. PICK y \in anc[a] \cap anc[q] : anc[a] \cap anc[q] \subseteq anc[y]
  BY DEF HasBase
<1>3. x \in Made /\ y \in Made
  BY DEF Graph
<1>4. CASE x \in anc[y]
  <2>1. anc[x] \subseteq anc[y]
    BY <1>3, <1>4 DEF Graph
  <2>2. QED BY <2>1, <1>1, <1>2
<1>5. CASE y \in anc[x]
  <2>1. anc[y] \subseteq anc[x]
    BY <1>3, <1>5 DEF Graph
  <2>2. QED BY <2>1, <1>1, <1>2
<1>6. QED BY <1>4, <1>5, <1>1, <1>2 DEF Chain

(* A base that is there stays the base of the same two commits.             *)
LEMMA BranchesGrow ==
  ASSUME Graph, Branches, NEW p \in Made, NEW q \in Made, Adds(p, q)
  PROVE  Branches'
<1> DEFINE n == NewCommit
<1>1. /\ Made' = Made \cup {n} /\ n \notin Made
      /\ \A c \in Made : anc'[c] = anc[c]
      /\ anc'[n] = {n} \cup anc[p] \cup anc[q]
  BY AddedCommit
<1> HIDE DEF n
<1>2. \A c \in Made : anc[c] \subseteq Made /\ c \in anc[c]
  BY DEF Graph
<1>3. n # 0
  BY <1>1 DEF Graph
<1>4. ASSUME NEW b \in Root \X Issue
      PROVE  /\ \A x, y \in anc'[tip[b]] : x \in anc'[y] \/ y \in anc'[x]
             /\ \A c \in Made' : \E m \in anc'[tip[b]] \cap anc'[c] :
                                   anc'[tip[b]] \cap anc'[c] \subseteq anc'[m]
  <2>1. tip[b] \in Made /\ anc'[tip[b]] = anc[tip[b]] /\ anc[tip[b]] \subseteq Made
    BY <1>1, <1>2 DEF Branches
  <2>2. \A x, y \in anc'[tip[b]] : x \in anc'[y] \/ y \in anc'[x]
    BY <2>1, <1>1 DEF Branches, Chain
  <2>3. ASSUME NEW c \in Made
        PROVE  \E m \in anc'[tip[b]] \cap anc'[c] : anc'[tip[b]] \cap anc'[c] \subseteq anc'[m]
    BY <2>1, <2>3, <1>1, <1>2 DEF Branches, HasBase
  <2>4. \E m \in anc'[tip[b]] \cap anc'[n] : anc'[tip[b]] \cap anc'[n] \subseteq anc'[m]
    <3>1. PICK m \in anc[tip[b]] \cap (anc[p] \cup anc[q]) :
                 anc[tip[b]] \cap (anc[p] \cup anc[q]) \subseteq anc[m]
      BY <2>1, LaterBase DEF Branches
    <3>2. m \in Made /\ anc'[m] = anc[m]
      BY <2>1, <1>1
    <3>3. anc'[tip[b]] \cap anc'[n] = anc[tip[b]] \cap (anc[p] \cup anc[q])
      BY <2>1, <1>1
    <3>4. QED BY <3>1, <3>2, <3>3
  <2>5. QED BY <2>2, <2>3, <2>4, <1>1
<1>5. CASE tip' = tip
  BY <1>1, <1>4, <1>5 DEF Branches, Chain, HasBase
<1>6. ASSUME NEW b \in Root \X Issue,
             p = tip[b], q = tip[b], tip' = [tip EXCEPT ![b] = n]
      PROVE  Branches'
  <2>1. tip' \in [Root \X Issue -> Made' \ {0}]
    BY <1>1, <1>3, <1>6 DEF Branches
  <2>2. anc'[n] = {n} \cup anc[p] /\ anc[p] \subseteq Made /\ p \in Made
    BY <1>1, <1>2, <1>6
  <2>3. \A x, y \in anc'[n] : x \in anc'[y] \/ y \in anc'[x]
    BY <2>2, <1>1, <1>6 DEF Branches, Chain
  <2>4. ASSUME NEW c \in Made'
        PROVE  \E m \in anc'[n] \cap anc'[c] : anc'[n] \cap anc'[c] \subseteq anc'[m]
    <3>1. CASE c = n
      BY <3>1, <2>2
    <3>2. CASE c \in Made
      <4>1. PICK m \in anc[p] \cap anc[c] : anc[p] \cap anc[c] \subseteq anc[m]
        BY <3>2, <1>6 DEF Branches, HasBase
      <4>2. anc'[n] \cap anc'[c] = anc[p] \cap anc[c]
        BY <3>2, <2>2, <1>1, <1>2
      <4>3. anc'[m] = anc[m]
        BY <2>2, <1>1, <4>1
      <4>4. QED BY <4>1, <4>2, <4>3
    <3>3. QED BY <3>1, <3>2, <1>1
  <2>5. ASSUME NEW a \in Root \X Issue
        PROVE  /\ \A x, y \in anc'[tip'[a]] : x \in anc'[y] \/ y \in anc'[x]
               /\ \A c \in Made' : \E m \in anc'[tip'[a]] \cap anc'[c] :
                                     anc'[tip'[a]] \cap anc'[c] \subseteq anc'[m]
    <3>1. CASE a = b
      <4>1. tip'[a] = n
        BY <3>1, <1>6 DEF Branches
      <4>2. QED BY <4>1, <2>3, <2>4
    <3>2. CASE a # b
      <4>1. tip'[a] = tip[a]
        BY <3>2, <1>6 DEF Branches
      <4>2. QED BY <4>1, <1>4
    <3>3. QED BY <3>1, <3>2
  <2>6. QED BY <2>1, <2>5 DEF Branches, Chain, HasBase
<1>7. QED BY <1>5, <1>6 DEF Adds, n

(* Whatever is added, the commits that are there stay as they are, and a    *)
(* branch keeps what it had.                                                *)
Grows ==
  /\ Made \subseteq Made'
  /\ \A c \in Made : anc'[c] = anc[c] /\ (c \in merges <=> c \in merges')
  /\ \A b \in Root \X Issue : anc[tip[b]] \subseteq anc'[tip'[b]]

(* The commits after any step that adds one or none.                        *)
LEMMA CommitsGrow ==
  ASSUME Graph, Branches, Committed
  PROVE  Graph' /\ Branches' /\ Grows
<1>1. CASE UNCHANGED <<anc, merges, tip>>
  BY <1>1 DEF Graph, Branches, Grows, Made, NewCommit, Chain, HasBase
<1>2. ASSUME NEW p \in Made, NEW q \in Made, Adds(p, q)
      PROVE  Graph' /\ Branches' /\ Grows
  <2>1. Graph' /\ Branches'
    BY <1>2, GraphGrows, BranchesGrow
  <2>2. /\ Made' = Made \cup {NewCommit} /\ NewCommit \notin Made
        /\ \A c \in Made : anc'[c] = anc[c]
        /\ anc'[NewCommit] = {NewCommit} \cup anc[p] \cup anc[q]
    BY <1>2, AddedCommit
  <2>3. \A c \in Made : c \in merges <=> c \in merges'
    BY <1>2, <2>2 DEF Adds
  <2>4. \A b \in Root \X Issue : anc[tip[b]] \subseteq anc'[tip'[b]]
    BY <1>2, <2>2 DEF Adds, Branches
  <2>5. QED BY <2>1, <2>2, <2>3, <2>4 DEF Grows
<1>3. QED BY <1>1, <1>2 DEF Committed

(* git merge-base finds one.                                                *)
LEMMA MergeBaseIs ==
  ASSUME Graph, Branches, NEW b \in Root \X Issue, NEW a \in anc[tip[b]], NEW c \in Made
  PROVE  /\ MergeBase(a, c) \in anc[a] \cap anc[c]
         /\ anc[a] \cap anc[c] \subseteq anc[MergeBase(a, c)]
<1>1. PICK m \in anc[tip[b]] \cap anc[c] : anc[tip[b]] \cap anc[c] \subseteq anc[m]
  BY DEF Branches, HasBase
<1>2. /\ tip[b] \in Made /\ m \in Made /\ a \in Made /\ a \in anc[a]
      /\ anc[a] \subseteq anc[tip[b]] /\ anc[m] \subseteq anc[c]
  BY DEF Branches, Graph
<1>3. \E x \in anc[a] \cap anc[c] : anc[a] \cap anc[c] \subseteq anc[x]
  <2>1. CASE m \in anc[a]
    BY <2>1, <1>1, <1>2
  <2>2. CASE a \in anc[m]
    BY <2>2, <1>2
  <2>3. QED BY <2>1, <2>2, <1>1 DEF Branches, Chain
<1>4. QED BY <1>3 DEF MergeBase

-----------------------------------------------------------------------------
(* Types.  A finalizer at work has a candidate of its branch in hand.       *)

RootState ==
  [head : Made, tracking : Made, lock : Finalizer \cup {NoOne},
   dirt : SUBSET {"edits", "conflict", "incidents"}, refresh : {"idle", "publish", "forward"}]

IssueState ==
  [state : {"open", "closed"}, version : Nat, owner : Finalizer \cup {NoOne}, closings : Nat,
   claims : SUBSET (Commit \X Commit), marks : SUBSET Commit]

FinState ==
  [pc : Steps, cand : Made, fp : Nat, vim : Made, base : Made, ibase : Made, local : Made,
   merge : Made, attempt : 0 .. MaxPromotionAttempts, tries : 0 .. MaxReverifications,
   requires : {"no", "yes"}]

Fits(f, x) ==
  /\ x \in FinState
  /\ x.pc # "idle" => x.cand \in anc[tip[Branch(f)]] \ {0}
  /\ x.pc \in {"checks", "confirm"} => x.tries < MaxReverifications

RootsTyped == root \in [Root -> RootState]

IssuesTyped == issue \in [Issue -> IssueState] /\ lost \subseteq Finalizer

FinTyped ==
  /\ fin \in [Finalizer -> FinState]
  /\ \A f \in Finalizer : Fits(f, fin[f])
  /\ lawful \subseteq Finalizer

ProofsTyped ==
  /\ verified \subseteq SUBSET Commit
  /\ proof \in [Root \X Issue -> Made \X Made]

Inv ==
  /\ Graph /\ Branches
  /\ origin \in Made
  /\ RootsTyped /\ IssuesTyped /\ FinTyped /\ ProofsTyped

(* The types the model declares follow.                                     *)
LEMMA InvTypes == Inv => TypeOK
  BY DEF Inv, Graph, Branches, RootsTyped, IssuesTyped, FinTyped, ProofsTyped, TypeOK,
         Made, RootState, IssueState, FinState

(* The candidates of the issues are the first commits after the root        *)
(* commit.                                                                  *)
LEMMA InitInv == Init => Inv
<1> DEFINE n == Cardinality(Issue)
<1> SUFFICES ASSUME Init PROVE Inv
  OBVIOUS
<1>1. n \in Nat /\ n <= MaxCommit
  BY FinalizeAssumption, FS_CardinalityType DEF FinalizeAssumption
<1>2. Candidate \in Surjection(Issue, 1 .. n)
  <2>1. Candidate \in Injection(Issue, 1 .. n)
    BY FinalizeAssumption DEF FinalizeAssumption, Injection, IsInjective
  <2>2. IsFiniteSet(1 .. n) /\ Cardinality(1 .. n) = n
    BY <1>1, FS_Interval
  <2>3. QED
    BY <2>1, <2>2, FinalizeAssumption, FS_Injection DEF FinalizeAssumption
<1>3. Made = 0 .. n
  <2>1. {Candidate[i] : i \in Issue} = 1 .. n
    BY <1>2 DEF Surjection
  <2>2. Made = {0} \cup 1 .. n
    BY <2>1 DEF Init, Made
  <2>3. QED BY <2>2, <1>1
<1>4. IsFiniteSet(Made) /\ NewCommit = n + 1
  BY <1>1, <1>3, FS_Interval DEF NewCommit, Made
<1>5. \A c \in Made : anc[c] = {0, c}
  BY DEF Init, Made
<1>6. \A b \in Root \X Issue : tip[b] \in 1 .. n
  BY FinalizeAssumption DEF Init, FinalizeAssumption
<1>7. /\ merges = {} /\ origin = 0 /\ lost = {} /\ verified = {} /\ lawful = {}
      /\ tip = [b \in Root \X Issue |-> Candidate[b[2]]]
      /\ proof = [b \in Root \X Issue |-> <<0, 0>>]
      /\ fin = [f \in Finalizer |-> Idle]
      /\ root = [r \in Root |-> [head |-> 0, tracking |-> 0, lock |-> NoOne, dirt |-> {},
                                 refresh |-> "idle"]]
  BY DEF Init
<1> HIDE DEF n
<1>8. Made \subseteq Commit /\ 0 \in Made
  BY <1>1, <1>3, FinalizeAssumption DEF Commit, FinalizeAssumption
<1>9. Graph
  BY <1>1, <1>3, <1>4, <1>5, <1>7, <1>8 DEF Graph
<1>10. ASSUME NEW b \in Root \X Issue
       PROVE  Chain(tip[b]) /\ \A c \in Made : HasBase(tip[b], c)
  <2>1. tip[b] \in Made /\ tip[b] # 0 /\ anc[tip[b]] = {0, tip[b]} /\ anc[0] = {0}
    BY <1>1, <1>3, <1>5, <1>6, <1>8
  <2>2. Chain(tip[b])
    BY <2>1 DEF Chain
  <2>3. ASSUME NEW c \in Made PROVE HasBase(tip[b], c)
    BY <2>1, <1>5 DEF HasBase
  <2>4. QED BY <2>2, <2>3
<1>11. tip \in [Root \X Issue -> Made \ {0}]
  BY <1>1, <1>3, <1>6, <1>7
<1>12. RootsTyped
  BY <1>7, <1>8 DEF RootsTyped, RootState
<1>13. IssuesTyped
  <2>1. \A i \in Issue : FirstRun(i) \in Finalizer
    BY FinalizeAssumption DEF FinalizeAssumption, FirstRun, Runs
  <2>2. QED BY <1>7, <2>1 DEF Init, IssuesTyped, IssueState
<1>14. FinTyped
  <2>1. 0 \in 0 .. MaxPromotionAttempts /\ 0 \in 0 .. MaxReverifications
    BY FinalizeAssumption DEF FinalizeAssumption
  <2>2. Idle \in FinState /\ Idle.pc = "idle"
    BY <1>8, <2>1 DEF FinState, Idle, Steps
  <2>3. QED BY <1>7, <2>2 DEF FinTyped, Fits
<1>15. ProofsTyped
  BY <1>7, <1>8 DEF ProofsTyped
<1>16. QED
  BY <1>7, <1>8, <1>9, <1>10, <1>11, <1>12, <1>13, <1>14, <1>15 DEF Inv, Branches

(* No step does anything to the commits but add one, and main is a commit.  *)
LEMMA StepCommits ==
  ASSUME Inv, Next
  PROVE  Committed /\ origin' \in Made'
<1> USE DEF Inv, commits
<1>1. ASSUME UNCHANGED <<anc, merges, tip>>, origin' \in Made
      PROVE  Committed /\ origin' \in Made'
  BY <1>1 DEF Committed, Made
<1>2. ASSUME NEW p \in Made, NEW q \in Made, Adds(p, q),
             origin' \in Made \cup {NewCommit}
      PROVE  Committed /\ origin' \in Made'
  BY <1>2, AddedCommit DEF Committed
<1>3. \A r \in Root : root[r].head \in Made /\ root[r].tracking \in Made
  BY DEF RootsTyped, RootState
<1>4. \A f \in Finalizer : R(f) \in Root
  BY FinalizeAssumption DEF FinalizeAssumption, R
<1>5. ASSUME NEW p \in Made PROVE {p, p} = {p}
  OBVIOUS
<1>6. ASSUME NEW f \in Finalizer, CommitIncidents(f)
      PROVE  Committed /\ origin' \in Made'
  <2>1. CASE root[R(f)].head = origin /\ Room /\ AddCommit({origin})
    <3>1. Adds(origin, origin)
      BY <1>5, <1>6, <2>1 DEF CommitIncidents, Adds
    <3>2. QED BY <1>2, <1>6, <3>1 DEF CommitIncidents
  <2>2. CASE UNCHANGED anc
    BY <1>1, <1>6, <2>2 DEF CommitIncidents
  <2>3. QED BY <1>6, <2>1, <2>2 DEF CommitIncidents
<1>7. ASSUME NEW f \in Finalizer, Merge(f)
      PROVE  Committed /\ origin' \in Made'
  <2>1. CASE UNCHANGED commits
    BY <1>1, <1>7, <2>1 DEF Merge
  <2>2. CASE /\ Room /\ AddCommit({root[R(f)].head, fin[f].cand})
             /\ merges' = merges \cup {NewCommit}
    <3>1. fin[f].cand \in Made
      BY DEF FinTyped, FinState
    <3>2. Adds(root[R(f)].head, fin[f].cand)
      BY <1>7, <2>2 DEF Merge, Adds
    <3>3. QED BY <1>2, <1>3, <1>4, <1>7, <3>1, <3>2 DEF Merge
  <2>3. QED BY <1>7, <2>1, <2>2 DEF Merge
<1>8. ASSUME NEW f \in Finalizer, PushIncidents(f) \/ Push(f)
      PROVE  Committed /\ origin' \in Made'
  BY <1>1, <1>3, <1>4, <1>8 DEF PushIncidents, Push
<1>9. ASSUME NEW r \in Root, RefreshPublish(r)
      PROVE  Committed /\ origin' \in Made'
  BY <1>1, <1>3, <1>9 DEF RefreshPublish
<1>10. ASSUME NEW b \in Root \X Issue, Advance(b)
       PROVE  Committed /\ origin' \in Made'
  <2>1. tip[b] \in Made
    BY DEF Branches
  <2>2. Adds(tip[b], tip[b])
    BY <1>5, <1>10, <2>1 DEF Advance, Foreign, Adds
  <2>3. QED BY <1>2, <1>10, <2>1, <2>2 DEF Advance
<1>11. CASE ForeignPush
  <2>1. Adds(origin, origin)
    BY <1>5, <1>11 DEF ForeignPush, Foreign, Adds
  <2>2. QED BY <1>2, <1>11, <2>1 DEF ForeignPush
<1>12. ASSUME UNCHANGED <<anc, merges, origin, tip>>
       PROVE  Committed /\ origin' \in Made'
  BY <1>1, <1>12
<1>13. ASSUME NEW f \in Finalizer,
              Start(f) \/ CheckLease(f) \/ Lock(f) \/ Fetch(f) \/ SyncMain(f) \/ NoteBase(f)
                \/ MergeConflicts(f) \/ Undo(f) \/ Reach(f) \/ Recheck(f) \/ Get(f)
                \/ Close(f) \/ Mark(f) \/ Reverify(f) \/ Checks(f) \/ Confirm(f)
                \/ Fails(f) \/ Crash(f)
       PROVE  UNCHANGED <<anc, merges, origin, tip>>
  BY <1>13 DEF Start, CheckLease, Lock, Fetch, SyncMain, NoteBase, MergeConflicts, Undo,
               Reach, Recheck, Get, Close, Mark, Reverify, Checks, Confirm, Fails, Crash
<1>14. ASSUME NEW r \in Root,
              Refresh(r) \/ RefreshForward(r) \/ OperatorEdits(r) \/ Incident(r)
       PROVE  UNCHANGED <<anc, merges, origin, tip>>
  BY <1>14 DEF Refresh, RefreshForward, OperatorEdits, Incident
<1>15. ASSUME NEW i \in Issue, LeaseMoves(i) \/ Comment(i)
       PROVE  UNCHANGED <<anc, merges, origin, tip>>
  BY <1>15 DEF LeaseMoves, Comment
<1> HIDE DEF Inv
<1>16. QED
  BY <1>6, <1>7, <1>8, <1>9, <1>10, <1>11, <1>12, <1>13, <1>14, <1>15
  DEF Next, Continues

(* A step writes the state of one clone at most.                            *)
LEMMA RootsStep ==
  ASSUME Inv, Next, Graph', Grows, Committed
  PROVE  RootsTyped'
<1> DEFINE S == RootState'
<1>1. Made \subseteq Made' /\ origin \in Made /\ NoOne \in Finalizer \cup {NoOne}
  BY DEF Inv, Grows
<1>2. /\ root \in [Root -> S]
      /\ \A r \in Root : root[r].head \in Made /\ root[r].tracking \in Made
  BY <1>1 DEF Inv, RootsTyped, RootState, Made
<1>3. \A f \in Finalizer : R(f) \in Root /\ fin[f].local \in Made
  BY FinalizeAssumption DEF FinalizeAssumption, R, Inv, FinTyped, FinState
<1> USE DEF RootState
<1>4. ASSUME NEW f \in Finalizer, CommitIncidents(f)
      PROVE  root' \in [Root -> S]
  <2>1. CASE AddCommit({origin})
    <3>1. NewCommit \in Made'
      BY <2>1 DEF AddCommit, Made
    <3>2. root' = [root EXCEPT ![R(f)].head = NewCommit, ![R(f)].tracking = origin,
                               ![R(f)].dirt = @ \ {"incidents"}]
         \/ root' = [root EXCEPT ![R(f)].tracking = origin]
      BY <1>4 DEF CommitIncidents
    <3>3. QED BY <1>1, <1>2, <1>3, <3>1, <3>2
  <2>2. CASE root' = [root EXCEPT ![R(f)].tracking = origin]
    <3> DEFINE c == [root[R(f)] EXCEPT !.tracking = origin]
    <3>1. root[R(f)] \in S
      BY <1>2, <1>3
    <3>2. c \in S
      BY <3>1, <1>1
    <3>3. root' = [root EXCEPT ![R(f)] = c]
      BY <1>2, <1>3, <2>2
    <3> HIDE DEF c, S
    <3>4. QED BY <1>2, <3>2, <3>3
  <2>3. QED BY <1>4, <2>1, <2>2 DEF CommitIncidents
<1>5. ASSUME NEW f \in Finalizer, Merge(f)
      PROVE  root' \in [Root -> S]
  <2>1. CASE /\ AddCommit({root[R(f)].head, fin[f].cand})
             /\ root' = [root EXCEPT ![R(f)].head = NewCommit]
    <3>1. NewCommit \in Made'
      BY <2>1 DEF AddCommit, Made
    <3>3. QED BY <1>1, <1>2, <1>3, <3>1, <2>1
  <2>2. CASE root' = root
    BY <1>2, <2>2
  <2>3. QED BY <1>5, <2>1, <2>2 DEF Merge
<1>6. ASSUME NEW f \in Finalizer, PushIncidents(f) \/ Push(f)
      PROVE  root' \in [Root -> S]
  BY <1>1, <1>2, <1>3, <1>6 DEF PushIncidents, Push
<1>7. ASSUME NEW f \in Finalizer, Lock(f) \/ SyncMain(f)
       PROVE  root' \in [Root -> S]
  <2>1. CASE Lock(f)
    BY <2>1, <1>2, <1>3 DEF Lock
  <2>2. CASE SyncMain(f)
    BY <2>2, <1>1, <1>2, <1>3 DEF SyncMain
  <2>3. QED BY <1>7, <2>1, <2>2
<1>8. ASSUME NEW f \in Finalizer, Reverify(f) \/ Confirm(f)
       PROVE  root' \in [Root -> S]
  <2>1. UNCHANGED root \/ Fetched(f)
    BY <1>8 DEF Reverify, Confirm
  <2>2. CASE UNCHANGED root
    BY <2>2, <1>2
  <2>3. CASE Fetched(f)
    BY <2>3, <1>1, <1>2, <1>3 DEF Fetched
  <2>4. QED BY <2>1, <2>2, <2>3
<1>9. ASSUME NEW f \in Finalizer, Fetch(f) \/ Reach(f)
      PROVE  root' \in [Root -> S]
  <2>1. CASE root' = [root EXCEPT ![R(f)].tracking = origin]
    BY <2>1, <1>1, <1>2, <1>3
  <2>2. CASE root' = [root EXCEPT ![R(f)] = [Unlocked(R(f)) EXCEPT !.tracking = origin]]
    <3>1. root[R(f)] \in S
      BY <1>2, <1>3
    <3>2. [Unlocked(R(f)) EXCEPT !.tracking = origin] \in S
      BY <3>1, <1>1 DEF Unlocked
    <3>3. QED BY <2>2, <3>2, <1>2
  <2>3. QED BY <1>9, <2>1, <2>2 DEF Fetch, Reach, Integrated
<1>10. ASSUME NEW f \in Finalizer, MergeConflicts(f)
      PROVE  root' \in [Root -> S]
  <2>1. PICK x \in S : root' = [root EXCEPT ![R(f)] = x]
    <3>1. root[R(f)] \in S
      BY <1>2, <1>3
    <3>2. [Unlocked(R(f)) EXCEPT !.dirt = @ \cup {"conflict"}] \in S
      BY <3>1, <1>1 DEF Unlocked
    <3>3. QED BY <3>2, <1>10 DEF MergeConflicts
  <2>2. QED BY <2>1, <1>2
<1>11. ASSUME NEW f \in Finalizer, Undo(f)
      PROVE  root' \in [Root -> S]
  <2>1. PICK x \in S : root' = [root EXCEPT ![R(f)] = x]
    <3>1. root[R(f)] \in S /\ fin[f].local \in Made'
      BY <1>1, <1>2, <1>3
    <3>2. HardReset(R(f), fin[f].local) \in S
      BY <3>1 DEF HardReset
    <3>3. [HardReset(R(f), fin[f].local) EXCEPT !.lock = NoOne] \in S
      BY <3>2
    <3>4. QED BY <3>2, <3>3, <1>11 DEF Undo
  <2>2. QED BY <2>1, <1>2
<1>12. ASSUME NEW f \in Finalizer, Fails(f)
       PROVE  root' \in [Root -> S]
  <2>1. CASE root' = [root EXCEPT ![R(f)] = Unlocked(R(f))]
    BY <2>1, <1>1, <1>2, <1>3 DEF Unlocked
  <2>2. CASE root' = root
    BY <2>2, <1>2
  <2>3. QED BY <1>12, <2>1, <2>2 DEF Fails
<1>13. ASSUME NEW r \in Root, Refresh(r)
       PROVE  root' \in [Root -> S]
  <2>1. PICK s \in {"idle", "publish", "forward"} :
               root' = [root EXCEPT ![r].tracking = origin, ![r].refresh = s]
    BY <1>13 DEF Refresh
  <2>2. [root[r] EXCEPT !.tracking = origin, !.refresh = s] \in S
    BY <1>1, <1>2
  <2>3. root' = [root EXCEPT ![r] = [root[r] EXCEPT !.tracking = origin, !.refresh = s]]
    BY <2>1, <1>2
  <2>4. QED BY <2>2, <2>3, <1>2
<1>14. ASSUME NEW r \in Root, RefreshPublish(r) \/ RefreshForward(r)
       PROVE  root' \in [Root -> S]
  BY <1>1, <1>2, <1>14 DEF RefreshPublish, RefreshForward
<1>15. ASSUME NEW r \in Root, OperatorEdits(r) \/ Incident(r)
       PROVE  root' \in [Root -> S]
  BY <1>1, <1>2, <1>15 DEF OperatorEdits, Incident
<1>16. ASSUME UNCHANGED root PROVE root' \in [Root -> S]
  BY <1>2, <1>16
<1>17. ASSUME NEW f \in Finalizer,
              Start(f) \/ CheckLease(f) \/ NoteBase(f) \/ Recheck(f) \/ Get(f) \/ Close(f)
                \/ Mark(f) \/ Checks(f) \/ Crash(f)
       PROVE  UNCHANGED root
  BY <1>17 DEF Start, CheckLease, NoteBase, Recheck, Get, Close, Mark, Checks, Crash
<1>18. ASSUME \/ \E i \in Issue : LeaseMoves(i) \/ Comment(i)
              \/ \E b \in Root \X Issue : Advance(b)
              \/ ForeignPush
       PROVE  UNCHANGED root
  BY <1>18 DEF LeaseMoves, Comment, Advance, ForeignPush
<1> HIDE DEF S
<1>19. root' \in [Root -> S]
  BY <1>4, <1>5, <1>6, <1>9, <1>10, <1>11, <1>12, <1>13, <1>14, <1>15, <1>16, <1>17, <1>18,
     <1>7, <1>8 DEF Next, Continues
<1>20. QED BY <1>19 DEF S, RootsTyped

(* Only a completion, a comment and a lease that moves write an issue.      *)
LEMMA IssuesStay ==
  ASSUME \/ \E f \in Finalizer : /\ Start(f) \/ Crash(f) \/ Continues(f)
                                 /\ ~Get(f) /\ ~Close(f) /\ ~Mark(f)
         \/ \E r \in Root : Refresh(r) \/ RefreshPublish(r) \/ RefreshForward(r)
                             \/ OperatorEdits(r) \/ Incident(r)
         \/ \E b \in Root \X Issue : Advance(b)
         \/ ForeignPush
  PROVE  UNCHANGED <<issue, lost>>
<1>1. ASSUME NEW f \in Finalizer, Start(f) \/ Crash(f) \/ Continues(f),
             ~Get(f), ~Close(f), ~Mark(f)
      PROVE  UNCHANGED <<issue, lost>>
  BY <1>1 DEF Start, Crash, Continues, CommitIncidents, PushIncidents, CheckLease, Lock, Fetch,
              SyncMain, NoteBase, Merge, MergeConflicts, Push, Undo, Reach, Recheck, Reverify,
              Checks, Confirm, Fails
<1>2. ASSUME NEW r \in Root,
             Refresh(r) \/ RefreshPublish(r) \/ RefreshForward(r) \/ OperatorEdits(r) \/ Incident(r)
      PROVE  UNCHANGED <<issue, lost>>
  BY <1>2 DEF Refresh, RefreshPublish, RefreshForward, OperatorEdits, Incident
<1>3. ASSUME ForeignPush \/ \E b \in Root \X Issue : Advance(b)
      PROVE  UNCHANGED <<issue, lost>>
  BY <1>3 DEF ForeignPush, Advance
<1>4. QED BY <1>1, <1>2, <1>3

(* Claims, marks and versions are of their types after every step.          *)
LEMMA IssuesStep ==
  ASSUME Inv, Next
  PROVE  IssuesTyped'
<1>1. issue \in [Issue -> IssueState] /\ lost \subseteq Finalizer
  BY DEF Inv, IssuesTyped
<1>2. \A f \in Finalizer : I(f) \in Issue
  BY FinalizeAssumption DEF FinalizeAssumption, I
<1>3. ASSUME NEW f \in Finalizer
      PROVE  fin[f].cand \in Commit /\ fin[f].merge \in Commit
  BY DEF Inv, Graph, FinTyped, FinState
<1>4. ASSUME NEW i \in Issue, NEW x \in IssueState, issue' = [issue EXCEPT ![i] = x],
             lost' \subseteq Finalizer
      PROVE  IssuesTyped'
  BY <1>1, <1>4 DEF IssuesTyped, IssueState
<1>5. ASSUME UNCHANGED <<issue, lost>> PROVE IssuesTyped'
  BY <1>1, <1>5 DEF IssuesTyped, IssueState
<1>6. ASSUME NEW f \in Finalizer PROVE Claimed(f) \in IssueState /\ issue[I(f)] \in IssueState
  BY <1>1, <1>2, <1>3 DEF Claimed, IssueState
<1>7. ASSUME NEW f \in Finalizer, Get(f) PROVE IssuesTyped'
  BY <1>1, <1>2, <1>4, <1>5, <1>6, <1>7 DEF Get
<1>8. ASSUME NEW f \in Finalizer, Close(f) PROVE IssuesTyped'
  <2>1. [Claimed(f) EXCEPT !.state = "closed", !.version = @ + 1, !.closings = @ + 1]
          \in IssueState
    <3>1. ASSUME NEW y \in IssueState
          PROVE  [y EXCEPT !.state = "closed", !.version = y.version + 1,
                           !.closings = y.closings + 1] \in IssueState
      <4>1. y.version + 1 \in Nat /\ y.closings + 1 \in Nat
        BY DEF IssueState
      <4>2. ASSUME NEW v \in Nat, NEW n \in Nat
            PROVE  [y EXCEPT !.state = "closed", !.version = v, !.closings = n] \in IssueState
        BY DEF IssueState
      <4>3. QED BY <4>1, <4>2
    <3>2. QED BY <1>6, <3>1
  <2>2. QED BY <1>1, <1>2, <1>4, <1>8, <2>1 DEF Close
<1>9. ASSUME NEW f \in Finalizer, Mark(f) PROVE IssuesTyped'
  <2>1. PICK v \in Nat : issue' = [issue EXCEPT ![I(f)].marks = @ \cup {fin[f].merge},
                                                ![I(f)].version = v]
    <3>1. issue[I(f)].version \in Nat
      BY <1>6 DEF IssueState
    <3> DEFINE w == IF fin[f].merge \in issue[I(f)].marks THEN issue[I(f)].version
                    ELSE issue[I(f)].version + 1
    <3>2. issue' = [issue EXCEPT ![I(f)].marks = @ \cup {fin[f].merge}, ![I(f)].version = w]
      BY <1>1, <1>2, <1>6, <1>9 DEF Mark, IssueState
    <3>3. w \in Nat
      BY <3>1
    <3>4. QED BY <3>2, <3>3
  <2>2. [issue[I(f)] EXCEPT !.marks = @ \cup {fin[f].merge}, !.version = v] \in IssueState
    BY <1>3, <1>6 DEF IssueState
  <2>3. issue' = [issue EXCEPT ![I(f)] =
                    [issue[I(f)] EXCEPT !.marks = @ \cup {fin[f].merge}, !.version = v]]
    BY <1>1, <1>2, <2>1
  <2>4. QED BY <1>1, <1>2, <1>4, <1>9, <2>2, <2>3 DEF Mark
<1>10. ASSUME NEW i \in Issue, LeaseMoves(i) PROVE IssuesTyped'
  <2>1. issue[i] \in IssueState /\ issue[i].owner \in Finalizer \cup {NoOne}
    BY <1>1 DEF IssueState
  <2>2. PICK g \in Finalizer \cup {NoOne} : issue' = [issue EXCEPT ![i].owner = g]
    BY <1>10 DEF LeaseMoves, Runs
  <2>3. lost' \subseteq Finalizer
    BY <1>1, <1>10, <2>1 DEF LeaseMoves
  <2>4. [issue[i] EXCEPT !.owner = g] \in IssueState
    BY <2>1 DEF IssueState
  <2>5. QED BY <1>1, <1>4, <2>2, <2>3, <2>4
<1>11. ASSUME NEW i \in Issue, Comment(i) PROVE IssuesTyped'
  <2>1. [issue[i] EXCEPT !.version = @ + 1] \in IssueState
    BY <1>1 DEF IssueState
  <2>2. QED BY <1>1, <1>4, <1>11, <2>1 DEF Comment
<1>12. QED
  BY <1>5, <1>7, <1>8, <1>9, <1>10, <1>11, IssuesStay DEF Next

(* Only Confirm writes a proof.                                             *)
LEMMA ProofsStay ==
  ASSUME [Next]_vars, ~\E f \in Finalizer : Confirm(f)
  PROVE  UNCHANGED proof
<1>1. ASSUME NEW f \in Finalizer, Start(f) \/ Crash(f) \/ Continues(f), ~Confirm(f)
      PROVE  UNCHANGED proof
  BY <1>1 DEF Start, Crash, Continues, CommitIncidents, PushIncidents, CheckLease, Lock, Fetch,
              SyncMain, NoteBase, Merge, MergeConflicts, Push, Undo, Reach, Recheck, Get,
              Close, Mark, Reverify, Checks, Fails
<1>2. ASSUME NEW r \in Root,
             Refresh(r) \/ RefreshPublish(r) \/ RefreshForward(r) \/ OperatorEdits(r) \/ Incident(r)
      PROVE  UNCHANGED proof
  BY <1>2 DEF Refresh, RefreshPublish, RefreshForward, OperatorEdits, Incident
<1>3. ASSUME \/ \E i \in Issue : LeaseMoves(i) \/ Comment(i)
             \/ \E b \in Root \X Issue : Advance(b)
             \/ ForeignPush
      PROVE  UNCHANGED proof
  BY <1>3 DEF LeaseMoves, Comment, ForeignPush, Advance
<1>4. QED BY <1>1, <1>2, <1>3 DEF Next, vars

(* Verified trees are sets of commits; proofs name commits.                 *)
LEMMA ProofsStep ==
  ASSUME Inv, Next, Graph', Grows
  PROVE  ProofsTyped'
<1>1. /\ \A c \in Made : Tree(c) \in SUBSET Commit
      /\ Made \subseteq Made' /\ origin \in Made /\ verified \subseteq SUBSET Commit
      /\ proof \in [Root \X Issue -> Made' \X Made']
  BY DEF Inv, Graph, Grows, ProofsTyped, Tree
<1>2. \A f \in Finalizer : Branch(f) \in Root \X Issue
  BY FinalizeAssumption DEF FinalizeAssumption, Branch
<1>3. \A f \in Finalizer : /\ tip[Branch(f)] \in Made
                           /\ fin[f].merge \in Made /\ fin[f].cand \in Made
  BY <1>2 DEF Inv, Branches, FinTyped, FinState
<1>4. ASSUME UNCHANGED <<verified, proof>> PROVE ProofsTyped'
  BY <1>1, <1>4 DEF ProofsTyped
<1>5. ASSUME NEW f \in Finalizer, Start(f) PROVE ProofsTyped'
  BY <1>1, <1>3, <1>5 DEF Start, ProofsTyped
<1>6. ASSUME NEW f \in Finalizer, Checks(f) PROVE ProofsTyped'
  BY <1>1, <1>3, <1>6 DEF Checks, ProofsTyped
<1>7. ASSUME NEW f \in Finalizer, Confirm(f) PROVE ProofsTyped'
  BY <1>1, <1>2, <1>3, <1>7 DEF Confirm, ProofsTyped
<1>8. ASSUME NEW f \in Finalizer, Crash(f) \/ Continues(f), ~Checks(f), ~Confirm(f)
      PROVE  UNCHANGED <<verified, proof>>
  BY <1>8 DEF Crash, Continues, CommitIncidents, PushIncidents, CheckLease, Lock, Fetch,
              SyncMain, NoteBase, Merge, MergeConflicts, Push, Undo, Reach, Recheck, Get,
              Close, Mark, Reverify, Fails
<1>9. ASSUME NEW r \in Root,
             Refresh(r) \/ RefreshPublish(r) \/ RefreshForward(r) \/ OperatorEdits(r) \/ Incident(r)
      PROVE  UNCHANGED <<verified, proof>>
  BY <1>9 DEF Refresh, RefreshPublish, RefreshForward, OperatorEdits, Incident
<1>10. ASSUME \/ \E i \in Issue : LeaseMoves(i) \/ Comment(i)
              \/ \E b \in Root \X Issue : Advance(b)
              \/ ForeignPush
       PROVE  UNCHANGED <<verified, proof>>
  BY <1>10 DEF LeaseMoves, Comment, ForeignPush, Advance
<1>11. QED BY <1>4, <1>5, <1>6, <1>7, <1>8, <1>9, <1>10 DEF Next

(* A step writes the state of one finalizer at most, and each keeps its     *)
(* candidate to the end.                                                    *)
LEMMA FinStep ==
  ASSUME Inv, Next, Graph', Grows, Committed
  PROVE  FinTyped'
<1> DEFINE F(f, x) ==
      /\ x \in FinState'
      /\ x.pc # "idle" => x.cand \in anc'[tip'[Branch(f)]] \ {0}
      /\ x.pc \in {"checks", "confirm"} => x.tries < MaxReverifications
<1>1. /\ Made \subseteq Made' /\ origin \in Made /\ 0 \in Made
      /\ fin \in [Finalizer -> FinState] /\ lawful \subseteq Finalizer
      /\ 0 \in 0 .. MaxPromotionAttempts /\ 0 \in 0 .. MaxReverifications
      /\ 1 \in 0 .. MaxPromotionAttempts
      /\ MaxPromotionAttempts \in Nat /\ MaxReverifications \in Nat
  BY FinalizeAssumption DEF FinalizeAssumption, Inv, Graph, Grows, FinTyped
<1>2. \A f \in Finalizer : R(f) \in Root /\ Branch(f) \in Root \X Issue
  BY FinalizeAssumption DEF FinalizeAssumption, R, Branch
<1>3. \A f \in Finalizer : F(f, fin[f])
  BY <1>1, <1>2 DEF Inv, FinTyped, Fits, FinState, Grows
<1>4. \A r \in Root : root[r].head \in Made
  BY DEF Inv, RootsTyped, RootState
<1>5. \A f \in Finalizer : F(f, Idle)
  BY <1>1 DEF FinState, Idle, Steps
<1>6. ASSUME NEW f \in Finalizer, NEW x, F(f, x), fin' = [fin EXCEPT ![f] = x],
             lawful' \subseteq Finalizer
      PROVE  FinTyped'
  <2>1. \A g \in Finalizer : F(g, fin'[g])
    BY <1>1, <1>3, <1>6
  <2>2. fin' \in [Finalizer -> FinState']
    BY <1>1, <1>6, <2>1
  <2>3. QED BY <2>1, <2>2, <1>6 DEF FinTyped, Fits, Branch
<1>7. ASSUME UNCHANGED <<fin, lawful>> PROVE FinTyped'
  BY <1>1, <1>3, <1>7 DEF FinTyped, Fits, Branch
<1>8. ASSUME NEW f \in Finalizer, Ends(f) PROVE FinTyped'
  BY <1>1, <1>5, <1>6, <1>8 DEF Ends
<1>9. ASSUME NEW f \in Finalizer, NEW s \in Steps \ {"checks", "confirm"}, ~At(f, "idle"),
             Goto(f, s), UNCHANGED lawful
      PROVE  FinTyped'
  <2>1. F(f, [fin[f] EXCEPT !.pc = s])
    BY <1>3, <1>9 DEF FinState, At
  <2>2. fin' = [fin EXCEPT ![f] = [fin[f] EXCEPT !.pc = s]]
    BY <1>1, <1>9 DEF Goto
  <2>3. QED BY <2>1, <2>2, <1>1, <1>6, <1>9
<1>10. ASSUME NEW f \in Finalizer, Start(f) PROVE FinTyped'
  <2> DEFINE s == IF Owns(f) /\ root[R(f)].dirt = {"incidents"} THEN "incidents" ELSE "lease"
             x == [Idle EXCEPT !.pc = s, !.cand = tip[Branch(f)], !.fp = issue[I(f)].version]
  <2>1. issue[I(f)].version \in Nat
    BY FinalizeAssumption DEF FinalizeAssumption, I, Inv, IssuesTyped, IssueState
  <2>2. /\ tip[Branch(f)] \in Made \ {0}
        /\ tip[Branch(f)] \in anc'[tip'[Branch(f)]]
    BY <1>2 DEF Inv, Branches, Graph, Grows
  <2>3. x \in FinState'
    BY <1>1, <2>1, <2>2 DEF FinState, Idle, Steps
  <2>4. F(f, x)
    BY <2>2, <2>3 DEF Idle
  <2>5. fin' = [fin EXCEPT ![f] = x] /\ lawful' \subseteq Finalizer
    BY <1>1, <1>10 DEF Start
  <2>6. QED BY <2>4, <2>5, <1>6
<1>11. ASSUME NEW f \in Finalizer, NEW main \in Made, NEW unproven \in BOOLEAN,
              ~At(f, "idle"), Integrated(f, main, unproven)
       PROVE  FinTyped'
  <2> DEFINE s == IF unproven /\ I(f) \notin Pending THEN "reverify" ELSE "recheck"
             q == IF unproven THEN "yes" ELSE "no"
             x == [Idle EXCEPT !.cand = fin[f].cand, !.fp = fin[f].fp, !.tries = fin[f].tries,
                               !.merge = main, !.requires = q, !.pc = s]
  <2>1. x \in FinState' /\ x.cand = fin[f].cand /\ x.pc \in {"reverify", "recheck"}
    <3>1. s \in {"reverify", "recheck"} /\ q \in {"yes", "no"}
      OBVIOUS
    <3>2. s \in Steps /\ main \in Made'
      BY <3>1, <1>1 DEF Steps
    <3>3. /\ fin[f].cand \in Made' /\ fin[f].fp \in Nat
          /\ fin[f].tries \in 0 .. MaxReverifications
      BY <1>3 DEF FinState
    <3>4. Idle \in FinState'
      BY <1>5
    <3> HIDE DEF s, q
    <3>5. x \in FinState'
      BY <3>1, <3>2, <3>3, <3>4 DEF FinState
    <3>6. x.cand = fin[f].cand /\ x.pc = s
      BY DEF Idle
    <3>7. QED BY <3>1, <3>5, <3>6
  <2>2. F(f, x)
    BY <1>3, <1>11, <2>1 DEF At
  <2>3. fin' = [fin EXCEPT ![f] = x] /\ lawful' \subseteq Finalizer
    BY <1>1, <1>11 DEF Integrated
  <2>4. QED BY <2>2, <2>3, <1>6
<1>12. ASSUME NEW f \in Finalizer, Fetch(f) PROVE FinTyped'
  <2>1. CASE fin' = [fin EXCEPT ![f].pc = "sync", ![f].attempt = 1,
                                ![f].base = MergeBase(fin[f].cand, origin)] /\ UNCHANGED lawful
    <3> DEFINE x == [fin[f] EXCEPT !.pc = "sync", !.attempt = 1,
                                   !.base = MergeBase(fin[f].cand, origin)]
    <3>1. MergeBase(fin[f].cand, origin) \in Made
      <4>1. fin[f].cand \in anc[tip[Branch(f)]] /\ fin[f].cand \in Made
        BY <1>12 DEF Inv, FinTyped, Fits, FinState, Fetch, At
      <4>2. MergeBase(fin[f].cand, origin) \in anc[origin]
        BY <1>1, <1>2, <4>1, MergeBaseIs DEF Inv
      <4>3. QED BY <4>2, <1>1 DEF Inv, Graph
    <3>2. F(f, x)
      <4>1. "sync" \in Steps /\ fin[f] \in FinState'
        BY <1>3 DEF Steps, Locked
      <4>2. x \in FinState' /\ x.cand = fin[f].cand /\ x.pc = "sync"
        BY <3>1, <4>1, <1>1 DEF FinState
      <4>3. QED BY <4>2, <1>3, <1>12 DEF Fetch, At
    <3>3. fin' = [fin EXCEPT ![f] = x]
      BY <1>1, <2>1
    <3>4. QED BY <3>2, <3>3, <2>1, <1>1, <1>6
  <2>2. CASE Integrated(f, origin, Unproven(f, origin))
    BY <2>2, <1>1, <1>11, <1>12 DEF Fetch, At, Unproven
  <2>3. QED BY <2>1, <2>2, <1>12 DEF Fetch
<1>13. ASSUME NEW f \in Finalizer, Reach(f) PROVE FinTyped'
  BY <1>2, <1>4, <1>11, <1>13 DEF Reach, At, ThreeWay
<1>14. ASSUME NEW f \in Finalizer, SyncMain(f) PROVE FinTyped'
  <2> DEFINE x == [fin[f] EXCEPT !.pc = "base", !.local = root[R(f)].head]
  <2>1. F(f, x)
    <3>1. "base" \in Steps /\ fin[f] \in FinState' /\ root[R(f)].head \in Made'
      BY <1>1, <1>2, <1>3, <1>4 DEF Steps, Locked
    <3>2. x \in FinState' /\ x.cand = fin[f].cand /\ x.pc = "base"
      BY <3>1 DEF FinState
    <3>3. QED BY <3>2, <1>3, <1>14 DEF SyncMain, At
  <2>2. fin' = [fin EXCEPT ![f] = x] /\ UNCHANGED lawful
    BY <1>1, <1>14 DEF SyncMain
  <2>3. QED BY <2>1, <2>2, <1>1, <1>6
<1>15. ASSUME NEW f \in Finalizer, NoteBase(f) PROVE FinTyped'
  <2> DEFINE x == [fin[f] EXCEPT !.pc = "merge", !.ibase = root[R(f)].head]
  <2>1. F(f, x)
    <3>1. "merge" \in Steps /\ fin[f] \in FinState' /\ root[R(f)].head \in Made'
      BY <1>1, <1>2, <1>3, <1>4 DEF Steps, Locked
    <3>2. x \in FinState' /\ x.cand = fin[f].cand /\ x.pc = "merge"
      BY <3>1 DEF FinState
    <3>3. QED BY <3>2, <1>3, <1>15 DEF NoteBase, At
  <2>2. fin' = [fin EXCEPT ![f] = x] /\ UNCHANGED lawful
    BY <1>1, <1>15 DEF NoteBase
  <2>3. QED BY <2>1, <2>2, <1>1, <1>6
<1>16. ASSUME NEW f \in Finalizer, Undo(f) PROVE FinTyped'
  <2>1. CASE /\ ~LastAttempt(f) /\ UNCHANGED lawful
             /\ fin' = [fin EXCEPT ![f].pc = "sync", ![f].attempt = NextAttempt(f),
                                   ![f].local = 0, ![f].ibase = 0]
    <3> DEFINE x == [fin[f] EXCEPT !.pc = "sync", !.attempt = NextAttempt(f),
                                   !.local = 0, !.ibase = 0]
    <3>1. NextAttempt(f) \in 0 .. MaxPromotionAttempts
      BY <2>1, <1>1, <1>3 DEF LastAttempt, NextAttempt, FinState
    <3>2. F(f, x)
      <4>1. "sync" \in Steps /\ fin[f] \in FinState' /\ 0 \in Made'
        BY <1>1, <1>3 DEF Steps, Locked
      <4>2. x \in FinState' /\ x.cand = fin[f].cand /\ x.pc = "sync"
        BY <3>1, <4>1 DEF FinState
      <4>3. QED BY <4>2, <1>3, <1>16 DEF Undo, At
    <3>3. fin' = [fin EXCEPT ![f] = x]
      BY <1>1, <2>1
    <3>4. QED BY <3>2, <3>3, <2>1, <1>1, <1>6
  <2>2. QED BY <2>1, <1>8, <1>16 DEF Undo
<1>17. ASSUME NEW f \in Finalizer, ~At(f, "idle"), fin[f].tries < MaxReverifications,
              Again(f) \/ Advanced(f), UNCHANGED lawful
       PROVE  FinTyped'
  <2>1. NextTry(f) \in 0 .. MaxReverifications
    BY <1>1, <1>3, <1>17 DEF NextTry, FinState
  <2>2. CASE Again(f)
    <3> DEFINE x == [Idle EXCEPT !.pc = "lease", !.cand = fin[f].cand, !.fp = fin[f].fp,
                                 !.vim = fin[f].merge, !.tries = NextTry(f)]
    <3>1. F(f, x)
      <4>1. "lease" \in Steps /\ Idle \in FinState'
        BY <1>5 DEF Steps
      <4>2. /\ fin[f].cand \in Made' /\ fin[f].fp \in Nat /\ fin[f].merge \in Made'
        BY <1>3 DEF FinState
      <4>3. x \in FinState'
        BY <2>1, <4>1, <4>2 DEF FinState
      <4>4. x.cand = fin[f].cand /\ x.pc = "lease"
        BY DEF Idle
      <4>5. QED BY <4>3, <4>4, <1>3, <1>17 DEF At
    <3>2. fin' = [fin EXCEPT ![f] = x]
      BY <2>2 DEF Again
    <3>3. QED BY <3>1, <3>2, <1>1, <1>6, <1>17
  <2>3. CASE Advanced(f)
    <3> DEFINE x == [fin[f] EXCEPT !.pc = "reverify", !.merge = origin, !.tries = NextTry(f)]
    <3>1. F(f, x)
      <4>1. "reverify" \in Steps /\ fin[f] \in FinState' /\ origin \in Made'
        BY <1>1, <1>3 DEF Steps
      <4>2. x \in FinState' /\ x.cand = fin[f].cand /\ x.pc = "reverify"
        BY <2>1, <4>1 DEF FinState
      <4>3. QED BY <4>2, <1>3, <1>17 DEF At
    <3>2. fin' = [fin EXCEPT ![f] = x]
      BY <2>3, <1>1 DEF Advanced
    <3>3. QED BY <3>1, <3>2, <1>1, <1>6, <1>17
  <2>4. QED BY <2>2, <2>3, <1>17
<1>18. ASSUME NEW f \in Finalizer, NEW s \in {"checks", "confirm"}, ~At(f, "idle"),
              fin[f].tries < MaxReverifications, Goto(f, s), UNCHANGED lawful
       PROVE  FinTyped'
  <2>1. F(f, [fin[f] EXCEPT !.pc = s])
    BY <1>3, <1>18 DEF FinState, At, Steps
  <2>2. fin' = [fin EXCEPT ![f] = [fin[f] EXCEPT !.pc = s]]
    BY <1>1, <1>18 DEF Goto
  <2>3. QED BY <2>1, <2>2, <1>1, <1>6, <1>18
<1>19. ASSUME NEW f \in Finalizer, Reverify(f) PROVE FinTyped'
  BY <1>8, <1>17, <1>18, <1>19 DEF Reverify, At
<1>20. ASSUME NEW f \in Finalizer, Checks(f) PROVE FinTyped'
  BY <1>3, <1>18, <1>20 DEF Checks, At
<1>21. ASSUME NEW f \in Finalizer, Confirm(f) PROVE FinTyped'
  BY <1>3, <1>17, <1>21 DEF Confirm, At
<1>22. ASSUME NEW f \in Finalizer,
              CommitIncidents(f) \/ PushIncidents(f) \/ CheckLease(f) \/ Lock(f) \/ Recheck(f)
                \/ Merge(f) \/ Push(f)
       PROVE  FinTyped'
  <2>1. {"report", "lease", "lock", "fetch", "get", "push", "undo", "reach"}
          \subseteq Steps \ {"checks", "confirm"}
    BY DEF Steps, Locked
  <2>2. QED
    BY <2>1, <1>9, <1>22 DEF CommitIncidents, PushIncidents, CheckLease, Lock, Recheck, Merge,
                             Push, At
<1>23. ASSUME NEW f \in Finalizer, Get(f) \/ Close(f) \/ Mark(f) PROVE FinTyped'
  <2>1. {"mark", "close", "reverify"} \subseteq Steps \ {"checks", "confirm"}
    BY DEF Steps
  <2>2. QED BY <2>1, <1>8, <1>9, <1>23 DEF Get, Close, Mark, At
<1>24. ASSUME NEW f \in Finalizer, MergeConflicts(f) \/ Fails(f) \/ Crash(f) PROVE FinTyped'
  BY <1>8, <1>24 DEF MergeConflicts, Fails, Crash
<1>25. ASSUME NEW r \in Root,
             Refresh(r) \/ RefreshPublish(r) \/ RefreshForward(r) \/ OperatorEdits(r) \/ Incident(r)
      PROVE  UNCHANGED <<fin, lawful>>
  BY <1>25 DEF Refresh, RefreshPublish, RefreshForward, OperatorEdits, Incident
<1>26. ASSUME \/ \E i \in Issue : LeaseMoves(i) \/ Comment(i)
              \/ \E b \in Root \X Issue : Advance(b)
              \/ ForeignPush
       PROVE  UNCHANGED <<fin, lawful>>
  BY <1>26 DEF LeaseMoves, Comment, ForeignPush, Advance
<1> HIDE DEF F
<1>27. QED
  BY <1>7, <1>10, <1>12, <1>13, <1>14, <1>15, <1>16, <1>19, <1>20, <1>21, <1>22, <1>23, <1>24,
     <1>25, <1>26 DEF Next, Continues

-----------------------------------------------------------------------------
(* A step that changes nothing.                                             *)
LEMMA StutterInv ==
  ASSUME Inv, UNCHANGED vars
  PROVE  Inv'
BY DEF vars, commits, Inv, Graph, Branches, RootsTyped, RootState, IssuesTyped, IssueState,
       FinTyped, FinState, Fits, ProofsTyped, Made, NewCommit, Chain, HasBase

(* Every step keeps the types, and takes back no commit.                    *)
LEMMA StepInv ==
  ASSUME Inv, [Next]_vars
  PROVE  Inv' /\ Grows
<1>1. CASE Next
  <2>1. Committed /\ origin' \in Made'
    BY <1>1, StepCommits
  <2>2. Graph' /\ Branches' /\ Grows
    BY <2>1, CommitsGrow DEF Inv
  <2>3. RootsTyped' /\ IssuesTyped' /\ FinTyped' /\ ProofsTyped'
    BY <1>1, <2>1, <2>2, RootsStep, IssuesStep, FinStep, ProofsStep
  <2>4. QED BY <2>1, <2>2, <2>3 DEF Inv
<1>2. CASE UNCHANGED vars
  <2>1. Grows
    BY <1>2 DEF vars, commits, Grows, Made
  <2>2. QED BY <1>2, <2>1, StutterInv
<1>3. QED BY <1>1, <1>2

(* The types and the commit graph hold throughout.                          *)
LEMMA Invariant == Spec => []Inv
<1>1. Inv /\ [Next]_vars => Inv'
  BY StepInv
<1>2. QED BY InitInv, <1>1, PTL DEF Spec

(* The commit graph of local main, origin and the issue branches, the locks *)
(* and the work items are what the code's types say, whatever the           *)
(* interleaving.                                                            *)
THEOREM TypeCorrect == Spec => []TypeOK
<1>1. Inv => TypeOK
  BY InvTypes
<1>2. QED BY <1>1, Invariant, PTL

-----------------------------------------------------------------------------
(* What the steps of one finalizer leave alone.                             *)

StepOf(f) == Start(f) \/ Continues(f) \/ Crash(f)

Environment ==
  \/ \E r \in Root : Refresh(r) \/ RefreshPublish(r) \/ RefreshForward(r)
                      \/ OperatorEdits(r) \/ Incident(r)
  \/ \E i \in Issue : LeaseMoves(i) \/ Comment(i)
  \/ \E b \in Root \X Issue : Advance(b)
  \/ ForeignPush

(* A finalizer writes its own state only.                                   *)
LEMMA OthersStay ==
  ASSUME Inv, NEW f \in Finalizer, StepOf(f)
  PROVE  /\ \E x : fin' = [fin EXCEPT ![f] = x]
         /\ \A g \in Finalizer \ {f} : fin'[g] = fin[g] /\ (g \in lawful' <=> g \in lawful)
<1>1. fin \in [Finalizer -> FinState]
  BY DEF Inv, FinTyped
<1>2. CASE Start(f) \/ Crash(f)
  BY <1>1, <1>2 DEF Start, Crash, Ends
<1>3. CASE CommitIncidents(f) \/ PushIncidents(f) \/ CheckLease(f) \/ Lock(f) \/ SyncMain(f)
             \/ NoteBase(f) \/ Merge(f) \/ Push(f) \/ Recheck(f) \/ Checks(f)
  <2>1. CASE CommitIncidents(f)
    BY <1>1, <2>1 DEF CommitIncidents, Goto
  <2>2. CASE PushIncidents(f) \/ CheckLease(f) \/ Lock(f) \/ Push(f) \/ Recheck(f) \/ Checks(f)
    BY <1>1, <2>2 DEF PushIncidents, CheckLease, Lock, Push, Recheck, Checks, Goto
  <2>3. CASE SyncMain(f) \/ NoteBase(f)
    BY <1>1, <2>3 DEF SyncMain, NoteBase
  <2>4. CASE Merge(f)
    BY <1>1, <2>4 DEF Merge, Goto
  <2>5. QED BY <1>3, <2>1, <2>2, <2>3, <2>4
<1>4. CASE Fetch(f) \/ Reach(f)
  <2>1. CASE Fetch(f)
    BY <1>1, <2>1 DEF Fetch, Integrated
  <2>2. CASE Reach(f)
    BY <1>1, <2>2 DEF Reach, Integrated
  <2>3. QED BY <1>4, <2>1, <2>2
<1>5. CASE MergeConflicts(f) \/ Undo(f) \/ Fails(f)
  BY <1>1, <1>5 DEF MergeConflicts, Undo, Fails, Ends
<1>6. CASE Get(f) \/ Close(f) \/ Mark(f)
  BY <1>1, <1>6 DEF Get, Close, Mark, Ends, Goto
<1>7. CASE Reverify(f) \/ Confirm(f)
  BY <1>1, <1>7 DEF Reverify, Confirm, Again, Advanced, Goto, Ends
<1>8. QED
  BY <1>2, <1>3, <1>4, <1>5, <1>6, <1>7 DEF StepOf, Continues

(* The refresh, the leases, other people and the operator write no          *)
(* finalizer's.                                                             *)
LEMMA EnvironmentStays ==
  ASSUME Environment
  PROVE  UNCHANGED <<fin, lawful>>
BY DEF Environment, Refresh, RefreshPublish, RefreshForward, OperatorEdits, Incident, LeaseMoves,
       Comment, Advance, ForeignPush

(* close() is reached only from the fresh read that precedes it.            *)
LEMMA ToClose ==
  ASSUME Inv, NEW f \in Finalizer, StepOf(f), fin'[f].pc = "close"
  PROVE  Get(f) /\ Unchanged(f) /\ I(f) \notin Pending /\ StillOpen(issue[I(f)])
<1>1. fin \in [Finalizer -> FinState]
  BY DEF Inv, FinTyped
<1>2. ASSUME NEW s, Goto(f, s) PROVE s = "close"
  BY <1>1, <1>2 DEF Goto, FinState
<1>3. ~Ends(f)
  BY <1>1 DEF Ends, Idle
<1>4. ~Start(f)
  BY <1>1 DEF Start, Idle
<1>5. ~Fetch(f) /\ ~Reach(f)
  <2>1. ASSUME NEW m, NEW u, Integrated(f, m, u)
        PROVE  fin'[f].pc \in {"reverify", "recheck"}
    BY <1>1, <2>1 DEF Integrated, Idle
  <2>2. ~Reach(f)
    BY <2>1 DEF Reach
  <2>3. CASE Fetch(f)
    <3>1. ASSUME NEW m, NEW u, Integrated(f, m, u) PROVE FALSE
      BY <2>1, <3>1
    <3>2. PICK b : fin' = [fin EXCEPT ![f].pc = "sync", ![f].attempt = 1, ![f].base = b]
      BY <2>3, <3>1 DEF Fetch
    <3>3. fin'[f].pc = "sync"
      BY <1>1, <3>2 DEF FinState
    <3>4. QED BY <3>3
  <2>4. QED BY <2>2, <2>3
<1>6. ~SyncMain(f) /\ ~NoteBase(f)
  BY <1>1 DEF SyncMain, NoteBase, FinState
<1>7. ~Undo(f)
  BY <1>1, <1>3 DEF Undo, FinState
<1>8. ~Again(f) /\ ~Advanced(f)
  <2>1. ~Again(f)
    BY <1>1 DEF Again, Idle
  <2>2. ~Advanced(f)
    BY <1>1 DEF Advanced, FinState
  <2>3. QED BY <2>1, <2>2
<1>9. ~Reverify(f) /\ ~Confirm(f)
  BY <1>2, <1>3, <1>8 DEF Reverify, Confirm
<1>10. ~CommitIncidents(f) /\ ~PushIncidents(f) /\ ~CheckLease(f) /\ ~Lock(f) /\ ~Merge(f)
       /\ ~Push(f) /\ ~Recheck(f) /\ ~Checks(f) /\ ~Close(f) /\ ~Mark(f)
  BY <1>2, <1>3 DEF CommitIncidents, PushIncidents, CheckLease, Lock, Merge, Push, Recheck,
                    Checks, Close, Mark
<1>11. ~MergeConflicts(f) /\ ~Fails(f) /\ ~Crash(f)
  BY <1>3 DEF MergeConflicts, Fails, Crash
<1>12. Get(f)
  BY <1>4, <1>5, <1>6, <1>7, <1>9, <1>10, <1>11 DEF StepOf, Continues
<1>13. QED BY <1>2, <1>3, <1>12 DEF Get

(* Every step is a finalizer's or the environment's.                        *)
LEMMA NextIs == Next <=> Environment \/ \E f \in Finalizer : StepOf(f)
BY DEF Next, Environment, StepOf

-----------------------------------------------------------------------------
(* The fence.  The owner of a lease has not lost it; no finalizer is bound  *)
(* to a version that is still to come; and whoever is not lawful has lost   *)
(* its lease or will find the issue changed.                                *)
Leases ==
  \A i \in Issue : issue[i].owner \in (Runs(i) \ lost) \cup {NoOne}

Bound ==
  \A f \in Finalizer : ~At(f, "idle") => fin[f].fp <= issue[I(f)].version

Fenced ==
  \A f \in Finalizer \ SelfOwned :
    /\ At(f, "recheck") => f \in lawful \/ f \in lost \/ fin[f].fp < issue[I(f)].version
    /\ At(f, "get") => f \in lawful \/ fin[f].fp < issue[I(f)].version
    /\ At(f, "close") => f \in lawful

FenceInv == Leases /\ Bound /\ Fenced

(* At first every issue is leased to the run that claimed it.               *)
LEMMA InitFence == Init => FenceInv
<1> SUFFICES ASSUME Init PROVE FenceInv
  OBVIOUS
<1>1. \A i \in Issue : FirstRun(i) \in Runs(i)
  BY FinalizeAssumption DEF FinalizeAssumption, FirstRun, Runs
<1>2. Leases
  BY <1>1 DEF Init, Leases
<1>3. \A f \in Finalizer : At(f, "idle")
  BY DEF Init, At, Idle
<1>4. QED BY <1>2, <1>3 DEF FenceInv, Bound, Fenced, At

(* Versions only rise, a lost lease stays lost, and a lease moves to a run  *)
(* that has not lost it.                                                    *)
LEMMA IssuesMove ==
  ASSUME Inv, Leases, Next
  PROVE  /\ \A i \in Issue : issue[i].version <= issue'[i].version
         /\ lost \subseteq lost'
         /\ Leases'
<1>1. issue \in [Issue -> IssueState]
  BY DEF Inv, IssuesTyped
<1>2. \A i \in Issue : issue[i].version \in Nat
  BY <1>1 DEF IssueState
<1>3. \A f \in Finalizer : I(f) \in Issue
  BY FinalizeAssumption DEF FinalizeAssumption, I
<1>4. ASSUME lost' = lost,
             \A i \in Issue : issue'[i].owner = issue[i].owner /\ issue[i].version <= issue'[i].version
      PROVE  /\ \A i \in Issue : issue[i].version <= issue'[i].version
             /\ lost \subseteq lost'
             /\ Leases'
  BY <1>4 DEF Leases, Runs
<1>5. ASSUME NEW f \in Finalizer, Get(f)
      PROVE  \A i \in Issue : issue'[i].owner = issue[i].owner /\ issue[i].version <= issue'[i].version
  BY <1>1, <1>2, <1>3, <1>5 DEF Get, Claimed, IssueState
<1>6. ASSUME NEW f \in Finalizer, Close(f)
      PROVE  \A i \in Issue : issue'[i].owner = issue[i].owner /\ issue[i].version <= issue'[i].version
  BY <1>1, <1>2, <1>3, <1>6 DEF Close, Claimed, IssueState
<1>7. ASSUME NEW f \in Finalizer, Mark(f)
      PROVE  \A i \in Issue : issue'[i].owner = issue[i].owner /\ issue[i].version <= issue'[i].version
  BY <1>1, <1>2, <1>3, <1>7 DEF Mark, IssueState
<1>8. ASSUME NEW j \in Issue, Comment(j)
      PROVE  \A i \in Issue : issue'[i].owner = issue[i].owner /\ issue[i].version <= issue'[i].version
  BY <1>1, <1>2, <1>8 DEF Comment, IssueState
<1>9. ASSUME NEW i \in Issue, LeaseMoves(i)
      PROVE  /\ \A j \in Issue : issue[j].version <= issue'[j].version
             /\ lost \subseteq lost'
             /\ Leases'
  <2>1. PICK g \in (Runs(i) \ lost') \cup {NoOne} : issue' = [issue EXCEPT ![i].owner = g]
    BY <1>9 DEF LeaseMoves
  <2>2. lost' = lost \cup {issue[i].owner} /\ issue[i].owner # NoOne
    BY <1>9 DEF LeaseMoves
  <2>3. \A j \in Issue : /\ issue'[j].version = issue[j].version
                         /\ issue'[j].owner = IF j = i THEN g ELSE issue[j].owner
    BY <1>1, <2>1 DEF IssueState
  <2>4. ASSUME NEW j \in Issue
        PROVE  issue'[j].owner \in (Runs(j) \ lost') \cup {NoOne}
    <3>1. CASE j = i
      BY <3>1, <2>1, <2>3
    <3>2. CASE j # i
      <4>1. issue[j].owner \in Runs(j) => issue[j].owner # issue[i].owner
        BY <3>2, <2>2 DEF Leases, Runs
      <4>2. QED BY <4>1, <3>2, <2>2, <2>3 DEF Leases
    <3>3. QED BY <3>1, <3>2
  <2>5. Leases'
    BY <2>4 DEF Leases, Runs
  <2>6. QED BY <2>2, <2>3, <2>5, <1>2
<1>10. ASSUME UNCHANGED <<issue, lost>>
       PROVE  /\ \A i \in Issue : issue[i].version <= issue'[i].version
              /\ lost \subseteq lost'
              /\ Leases'
  BY <1>2, <1>4, <1>10
<1>11. ASSUME NEW f \in Finalizer, Get(f) \/ Close(f) \/ Mark(f)
       PROVE  lost' = lost
  BY <1>11 DEF Get, Close, Mark
<1>12. ASSUME NEW i \in Issue, Comment(i)
       PROVE  lost' = lost
  BY <1>12 DEF Comment
<1>13. QED
  BY <1>4, <1>5, <1>6, <1>7, <1>8, <1>9, <1>10, <1>11, <1>12, IssuesStay DEF Next

(* The fence holds on: between the second lease read and close() whatever   *)
(* takes the lease or edits the issue is seen.                              *)
LEMMA FenceStep ==
  ASSUME Inv, FenceInv, [Next]_vars
  PROVE  FenceInv'
<1> DEFINE B(f, x) == x.pc # "idle" => x.fp <= issue'[I(f)].version
           F(f, x) ==
             /\ x.pc = "recheck" => f \in lawful' \/ f \in lost' \/ x.fp < issue'[I(f)].version
             /\ x.pc = "get" => f \in lawful' \/ x.fp < issue'[I(f)].version
             /\ x.pc = "close" => f \in lawful'
<1>1. /\ fin \in [Finalizer -> FinState] /\ \A f \in Finalizer : fin[f].fp \in Nat
      /\ \A f \in Finalizer : I(f) \in Issue
      /\ \A i \in Issue : issue[i].version \in Nat
      /\ Inv'
  BY FinalizeAssumption, StepInv
  DEF FinalizeAssumption, I, Inv, FinTyped, FinState, IssuesTyped, IssueState
<1>2. \A i \in Issue : issue'[i].version \in Nat
  BY <1>1 DEF Inv, IssuesTyped, IssueState
<1>3. CASE UNCHANGED vars
  BY <1>3 DEF vars, FenceInv, Leases, Bound, Fenced, At
<1>4. CASE Next
  <2>1. /\ \A i \in Issue : issue[i].version <= issue'[i].version
        /\ lost \subseteq lost'
        /\ Leases'
    BY <1>4, IssuesMove DEF FenceInv
  <2>2. ASSUME NEW g \in Finalizer, fin'[g] = fin[g], g \in lawful' <=> g \in lawful
        PROVE  B(g, fin'[g]) /\ (g \notin SelfOwned => F(g, fin'[g]))
    BY <2>1, <2>2, <1>1, <1>2 DEF FenceInv, Bound, Fenced, At
  <2>3. ASSUME NEW f \in Finalizer, StepOf(f)
        PROVE  B(f, fin'[f]) /\ (f \notin SelfOwned => F(f, fin'[f]))
    <3>1. ~At(f, "idle") => fin[f].fp <= issue'[I(f)].version
      BY <2>1, <1>1, <1>2 DEF FenceInv, Bound
    <3>2. CASE Start(f)
      <4>1. fin'[f].pc \in {"incidents", "lease"} /\ fin'[f].fp = issue[I(f)].version
        BY <3>2, <1>1 DEF Start, Idle
      <4>2. QED BY <4>1, <2>1, <1>1, <1>2
    <3>3. CASE Crash(f) \/ Fails(f) \/ MergeConflicts(f) \/ Close(f)
      <4>1. fin'[f].pc = "idle"
        BY <3>3, <1>1 DEF Crash, Fails, MergeConflicts, Close, Ends, Idle
      <4>2. QED BY <4>1
    <3>4. ASSUME NEW s, Goto(f, s), ~At(f, "idle")
          PROVE  fin'[f].pc = s /\ fin'[f].fp = fin[f].fp
      BY <3>4, <1>1 DEF Goto, FinState
    <3>5. ASSUME ~At(f, "idle"), fin'[f].fp = fin[f].fp,
                 fin'[f].pc \notin {"recheck", "get", "close"}
          PROVE  B(f, fin'[f]) /\ (f \notin SelfOwned => F(f, fin'[f]))
      BY <3>1, <3>5
    <3>6. CASE CommitIncidents(f) \/ PushIncidents(f) \/ CheckLease(f) \/ Lock(f) \/ Merge(f)
                 \/ Push(f) \/ Checks(f)
      <4>1. ~At(f, "idle")
        BY <3>6 DEF CommitIncidents, PushIncidents, CheckLease, Lock, Merge, Push, Checks, At
      <4>2. PICK s \in {"report", "lease", "lock", "fetch", "push", "reach", "undo", "confirm"} :
                   Goto(f, s)
        BY <3>6 DEF CommitIncidents, PushIncidents, CheckLease, Lock, Merge, Push, Checks
      <4>3. QED BY <4>1, <4>2, <3>4, <3>5
    <3>7. ASSUME NEW main, NEW unproven, ~At(f, "idle"), UNCHANGED <<issue, lost>>,
                 Integrated(f, main, unproven)
          PROVE  B(f, fin'[f]) /\ (f \notin SelfOwned => F(f, fin'[f]))
      <4>1. fin'[f].pc \in {"recheck", "reverify"} /\ fin'[f].fp = fin[f].fp
        BY <3>7, <1>1 DEF Integrated, Idle
      <4>2. f \in lawful' \/ f \in lost' \/ issue'[I(f)].version # fin[f].fp
        BY <3>7 DEF Integrated
      <4>3. QED BY <4>1, <4>2, <3>1, <3>7, <1>1, <1>2
    <3>8. CASE Fetch(f)
      <4>1. CASE /\ fin' = [fin EXCEPT ![f].pc = "sync", ![f].attempt = 1,
                                       ![f].base = MergeBase(fin[f].cand, origin)]
        <5>1. fin'[f].pc = "sync" /\ fin'[f].fp = fin[f].fp /\ ~At(f, "idle")
          BY <3>8, <4>1, <1>1 DEF Fetch, At, FinState
        <5>2. QED BY <5>1, <3>5
      <4>2. QED BY <4>1, <3>7, <3>8 DEF Fetch, At
    <3>9. CASE Reach(f)
      BY <3>7, <3>9 DEF Reach, At
    <3>10. CASE SyncMain(f) \/ NoteBase(f)
      <4>1. ~At(f, "idle") /\ fin'[f].fp = fin[f].fp /\ fin'[f].pc \in {"base", "merge"}
        BY <3>10, <1>1 DEF SyncMain, NoteBase, At, FinState
      <4>2. QED BY <4>1, <3>5
    <3>11. CASE Undo(f)
      <4>1. ~At(f, "idle")
        BY <3>11 DEF Undo, At
      <4>2. fin'[f].pc = "idle" \/ (fin'[f].pc = "sync" /\ fin'[f].fp = fin[f].fp)
        BY <3>11, <1>1 DEF Undo, Ends, Idle, FinState
      <4>3. QED BY <4>1, <4>2, <3>5
    <3>12. CASE Recheck(f)
      <4>1. Goto(f, "get") /\ ~At(f, "idle") /\ UNCHANGED <<issue, lost, lawful>>
        BY <3>12 DEF Recheck, At
      <4>2. f \notin SelfOwned => f \notin lost
        BY <3>12, <1>1, FinalizeAssumption DEF FinalizeAssumption, Recheck, Owns, FenceInv, Leases, Runs
      <4>3. f \notin SelfOwned => f \in lawful \/ f \in lost \/ fin[f].fp < issue[I(f)].version
        BY <3>12 DEF Recheck, FenceInv, Fenced
      <4>4. QED BY <4>1, <4>2, <4>3, <3>1, <3>4
    <3>13. CASE Get(f)
      <4>1. CASE Goto(f, "mark") \/ Ends(f)
        <5>1. fin'[f].pc = "idle" \/ (fin'[f].pc = "mark" /\ fin'[f].fp = fin[f].fp)
          BY <3>13, <4>1, <3>4, <1>1 DEF Ends, Idle, Get, At
        <5>2. QED BY <5>1, <3>5, <3>13 DEF Get, At
      <4>2. CASE Goto(f, "close") /\ Unchanged(f) /\ UNCHANGED lawful
        <5>1. f \notin SelfOwned => f \in lawful \/ fin[f].fp < issue[I(f)].version
          BY <3>13 DEF Get, FenceInv, Fenced
        <5>2. fin'[f].pc = "close" /\ fin'[f].fp = fin[f].fp /\ ~At(f, "idle")
          BY <3>13, <4>2, <3>4 DEF Get, At
        <5>3. QED BY <5>1, <5>2, <4>2, <3>1, <1>1 DEF Unchanged
      <4>3. QED BY <4>1, <4>2, <3>13 DEF Get
    <3>14. CASE Mark(f)
      <4>1. ~At(f, "idle")
        BY <3>14 DEF Mark, At
      <4>2. fin'[f].pc = "idle" \/ (fin'[f].pc = "reverify" /\ fin'[f].fp = fin[f].fp)
        BY <4>1, <3>14, <3>4, <1>1 DEF Mark, Ends, Idle
      <4>3. QED BY <4>1, <4>2, <3>5
    <3>15. CASE Reverify(f) \/ Confirm(f)
      <4>1. ~At(f, "idle")
        BY <3>15 DEF Reverify, Confirm, At
      <4>2. Again(f) \/ Advanced(f) =>
              fin'[f].pc \in {"lease", "reverify"} /\ fin'[f].fp = fin[f].fp
        <5>1. Again(f) => fin'[f].pc = "lease" /\ fin'[f].fp = fin[f].fp
          BY <1>1 DEF Again, Idle
        <5>2. Advanced(f) => fin'[f].pc = "reverify" /\ fin'[f].fp = fin[f].fp
          BY <1>1 DEF Advanced, FinState
        <5>3. QED BY <5>1, <5>2
      <4>3. Ends(f) => fin'[f].pc = "idle"
        BY <1>1 DEF Ends, Idle
      <4>4. QED BY <4>1, <4>2, <4>3, <3>4, <3>5, <3>15 DEF Reverify, Confirm
    <3> HIDE DEF B, F
    <3>16. QED
      BY <2>3, <3>2, <3>3, <3>6, <3>8, <3>9, <3>10, <3>11, <3>12, <3>13, <3>14, <3>15
      DEF StepOf, Continues
  <2> HIDE DEF B, F
  <2>4. \A f \in Finalizer : B(f, fin'[f]) /\ (f \notin SelfOwned => F(f, fin'[f]))
    BY <1>4, <2>2, <2>3, NextIs, OthersStay, EnvironmentStays
  <2>5. QED BY <2>1, <2>4 DEF FenceInv, Bound, Fenced, At, B, F, I
<1>5. QED BY <1>3, <1>4

(* The fence holds throughout.                                              *)
LEMMA FenceInvariant == Spec => []FenceInv
<1>1. Inv /\ FenceInv /\ [Next]_vars => FenceInv'
  BY FenceStep
<1>2. QED BY InitFence, Invariant, <1>1, PTL DEF Spec

(* A finalizer over a lease that others can take closes only what it owned  *)
(* and what had not changed when its candidate was proven to be on main;    *)
(* the always-fresh lease of bootstrap promises no such thing.              *)
THEOREM FencedUnlessSelfOwned ==
  Spec => [](\A f \in Finalizer \ SelfOwned : At(f, "close") => f \in lawful)
<1>1. FenceInv => \A f \in Finalizer \ SelfOwned : At(f, "close") => f \in lawful
  BY DEF FenceInv, Fenced
<1>2. QED BY <1>1, FenceInvariant, PTL

(* With leases that others can take, all of FencedClosure.                  *)
THEOREM FencedCompletion ==
  ASSUME SelfOwned = {}
  PROVE  Spec => []FencedClosure
<1>1. FenceInv => FencedClosure
  BY DEF FenceInv, Fenced, FencedClosure
<1>2. QED BY <1>1, FenceInvariant, PTL

-----------------------------------------------------------------------------
(* One closing.  An open issue was never closed, and whoever is about to    *)
(* close one still finds it open, as long as no other finalizer works on it.*)
OneRunEach == \A f, g \in Finalizer : IssueOf[f] = IssueOf[g] => f = g

OnceInv ==
  /\ \A i \in Issue : issue[i].closings <= 1 /\ (issue[i].state = "open" => issue[i].closings = 0)
  /\ \A f \in Finalizer : At(f, "close") => issue[I(f)].state = "open"

(* Nothing is closed at first.                                              *)
LEMMA InitOnce == Init => OnceInv
BY FinalizeAssumption DEF FinalizeAssumption, Init, OnceInv, At, Idle, I

(* Only Close closes, and the issue was open when it was decided.           *)
LEMMA OnceStep ==
  ASSUME OneRunEach, Inv, OnceInv, [Next]_vars
  PROVE  OnceInv'
<1>1. /\ fin \in [Finalizer -> FinState] /\ issue \in [Issue -> IssueState]
      /\ \A f \in Finalizer : I(f) \in Issue
      /\ \A f, g \in Finalizer : I(f) = I(g) => f = g
      /\ \A i \in Issue : issue[i].closings \in Nat
  BY FinalizeAssumption DEF FinalizeAssumption, I, OneRunEach, Inv, FinTyped, IssuesTyped, IssueState
<1>2. CASE UNCHANGED vars
  BY <1>2 DEF vars, OnceInv, At, I
<1>3. ASSUME NEW f \in Finalizer, Close(f)
      PROVE  OnceInv'
  <2>1. issue[I(f)].state = "open" /\ issue[I(f)].closings = 0
    BY <1>1, <1>3 DEF Close, OnceInv
  <2>2. \A i \in Issue : i # I(f) => issue'[i] = issue[i]
    BY <1>1, <1>3 DEF Close
  <2>3. issue'[I(f)].state = "closed" /\ issue'[I(f)].closings = issue[I(f)].closings + 1
    BY <1>1, <1>3 DEF Close, Claimed, IssueState
  <2>4. \A g \in Finalizer : fin'[g] = IF g = f THEN Idle ELSE fin[g]
    BY <1>1, <1>3 DEF Close, Ends
  <2>5. ASSUME NEW g \in Finalizer, fin'[g].pc = "close"
        PROVE  issue'[I(g)].state = "open"
    <3>1. g # f /\ At(g, "close")
      BY <2>4, <2>5 DEF Idle, At
    <3>2. issue'[I(g)] = issue[I(g)]
      BY <3>1, <2>2, <1>1
    <3>3. QED BY <3>1, <3>2 DEF OnceInv
  <2>6. QED BY <2>1, <2>2, <2>3, <2>5, <1>1 DEF OnceInv, At, I
<1>4. ASSUME \A i \in Issue : /\ issue'[i].state = issue[i].state
                              /\ issue'[i].closings = issue[i].closings,
             \A f \in Finalizer : fin'[f].pc = "close" =>
               At(f, "close") \/ issue[I(f)].state = "open"
      PROVE  OnceInv'
  BY <1>1, <1>4 DEF OnceInv, At, I
<1>5. CASE Next /\ ~\E f \in Finalizer : Close(f)
  <2>1. \A i \in Issue : /\ issue'[i].state = issue[i].state
                         /\ issue'[i].closings = issue[i].closings
    <3>1. ASSUME NEW f \in Finalizer, Get(f) \/ Mark(f), NEW i \in Issue
          PROVE  issue'[i].state = issue[i].state /\ issue'[i].closings = issue[i].closings
      <4>1. CASE Get(f)
        BY <4>1, <1>1 DEF Get, Claimed, IssueState
      <4>2. CASE Mark(f)
        BY <4>2, <1>1 DEF Mark, IssueState
      <4>3. QED BY <3>1, <4>1, <4>2
    <3>2. ASSUME NEW j \in Issue, LeaseMoves(j) \/ Comment(j), NEW i \in Issue
          PROVE  issue'[i].state = issue[i].state /\ issue'[i].closings = issue[i].closings
      BY <3>2, <1>1 DEF LeaseMoves, Comment, IssueState
    <3>3. QED BY <3>1, <3>2, <1>5, IssuesStay DEF Next
  <2>2. ASSUME NEW f \in Finalizer, StepOf(f), fin'[f].pc = "close"
        PROVE  At(f, "close") \/ issue[I(f)].state = "open"
    BY ToClose, <2>2, <1>1 DEF StillOpen
  <2>3. \A f \in Finalizer : fin'[f].pc = "close" => At(f, "close") \/ issue[I(f)].state = "open"
    BY <1>5, <2>2, NextIs, OthersStay, EnvironmentStays DEF At
  <2>4. QED BY <2>1, <2>3, <1>4
<1>6. QED BY <1>2, <1>3, <1>5

(* Holds throughout when each issue has a finalizer of its own.             *)
LEMMA OnceInvariant ==
  ASSUME OneRunEach
  PROVE  Spec => []OnceInv
<1>1. Inv /\ OnceInv /\ [Next]_vars => OnceInv'
  BY OnceStep
<1>2. QED BY InitOnce, Invariant, <1>1, PTL DEF Spec

(* However often a finalization fails, dies and is tried again, the issue   *)
(* is closed once, with one close comment.                                  *)
THEOREM ClosesOnce ==
  ASSUME OneRunEach
  PROVE  Spec => []ClosedOnce
<1>1. OnceInv => ClosedOnce
  BY DEF OnceInv, ClosedOnce
<1>2. QED BY <1>1, OnceInvariant, PTL

-----------------------------------------------------------------------------
(* History.  Nothing is taken back: commits keep their ancestors and trees, *)
(* main only advances, a tree that was verified stays verified.             *)
LEMMA MainAdvances ==
  ASSUME Inv, [Next]_vars
  PROVE  origin \in anc'[origin']
<1>1. origin \in anc[origin] /\ origin \in Made /\ Grows
  BY StepInv DEF Inv, Graph
<1>2. ASSUME origin' = origin
      PROVE  origin \in anc'[origin']
  BY <1>1, <1>2 DEF Grows
<1>3. ASSUME NEW h \in Made, Accepts(h), origin' = h
      PROVE  origin \in anc'[origin']
  BY <1>1, <1>3 DEF Grows, Accepts, Contains
<1>4. \A r \in Root : root[r].head \in Made
  BY DEF Inv, RootsTyped, RootState
<1>5. \A f \in Finalizer : R(f) \in Root
  BY FinalizeAssumption DEF FinalizeAssumption, R
<1>6. ASSUME NEW f \in Finalizer, PushIncidents(f) \/ Push(f)
      PROVE  origin \in anc'[origin']
  BY <1>2, <1>3, <1>4, <1>5, <1>6 DEF PushIncidents, Push
<1>7. ASSUME NEW r \in Root, RefreshPublish(r)
      PROVE  origin \in anc'[origin']
  BY <1>2, <1>3, <1>4, <1>7 DEF RefreshPublish
<1>8. CASE ForeignPush
  BY <1>1, <1>8 DEF ForeignPush, AddCommit
<1>9. ASSUME NEW f \in Finalizer, StepOf(f), ~PushIncidents(f), ~Push(f)
      PROVE  origin' = origin
  BY <1>9 DEF StepOf, Continues, Start, CommitIncidents, CheckLease, Lock, Fetch, SyncMain, NoteBase,
              Merge, MergeConflicts, Undo, Reach, Recheck, Get, Close, Mark, Reverify, Checks,
              Confirm, Fails, Crash
<1>10. ASSUME \/ \E r \in Root : Refresh(r) \/ RefreshForward(r) \/ OperatorEdits(r) \/ Incident(r)
              \/ \E i \in Issue : LeaseMoves(i) \/ Comment(i)
              \/ \E b \in Root \X Issue : Advance(b)
       PROVE  origin' = origin
  BY <1>10 DEF Refresh, RefreshForward, OperatorEdits, Incident, LeaseMoves, Comment, Advance
<1>11. CASE UNCHANGED vars
  BY <1>2, <1>11 DEF vars
<1>12. QED
  BY <1>2, <1>6, <1>7, <1>8, <1>9, <1>10, <1>11, NextIs DEF Environment

(* A tree that passed the checks is not checked again.                      *)
LEMMA VerifiedStays ==
  ASSUME [Next]_vars
  PROVE  verified \subseteq verified'
<1>1. ASSUME NEW f \in Finalizer, StepOf(f)
      PROVE  verified \subseteq verified'
  BY <1>1 DEF StepOf, Continues, Start, CommitIncidents, PushIncidents, CheckLease, Lock, Fetch,
              SyncMain, NoteBase, Merge, MergeConflicts, Push, Undo, Reach, Recheck, Get, Close,
              Mark, Reverify, Checks, Confirm, Fails, Crash
<1>2. CASE Environment
  BY <1>2 DEF Environment, Refresh, RefreshPublish, RefreshForward, OperatorEdits, Incident,
              LeaseMoves, Comment, Advance, ForeignPush
<1>3. QED BY <1>1, <1>2, NextIs DEF vars

(* The commits that were there, main and the verified trees after any step. *)
LEMMA History ==
  ASSUME Inv, [Next]_vars
  PROVE  /\ Made \subseteq Made'
         /\ \A c \in Made : anc'[c] = anc[c] /\ Tree(c)' = Tree(c)
         /\ anc[origin] \subseteq anc'[origin']
         /\ verified \subseteq verified'
<1>1. Grows /\ Inv' /\ origin \in anc'[origin']
  BY StepInv, MainAdvances
<1>2. ASSUME NEW c \in Made
      PROVE  Tree(c)' = Tree(c)
  <2>1. anc'[c] = anc[c] /\ anc[c] \subseteq Made
    BY <1>1 DEF Grows, Inv, Graph
  <2>2. QED BY <1>1, <2>1 DEF Tree, Grows
<1>3. anc[origin] \subseteq anc'[origin']
  <2>1. anc'[origin] \subseteq anc'[origin'] /\ anc'[origin] = anc[origin]
    BY <1>1 DEF Inv, Graph, Grows
  <2>2. QED BY <2>1
<1>4. verified \subseteq verified'
  BY VerifiedStays, <1>1
<1>5. QED BY <1>1, <1>2, <1>3, <1>4 DEF Grows

(* What a finalizer's step does to its clone, and that it touches no other. *)
LEMMA RootMoves ==
  ASSUME Inv, NEW f \in Finalizer, StepOf(f)
  PROVE  /\ \A r \in Root \ {R(f)} : root'[r] = root[r]
         /\ root'[R(f)].refresh = root[R(f)].refresh
         /\ root'[R(f)].dirt \subseteq root[R(f)].dirt \cup {"conflict"}
<1>1. /\ root \in [Root -> RootState] /\ R(f) \in Root
      /\ \A x \in RootState : x = [head |-> x.head, tracking |-> x.tracking, lock |-> x.lock,
                                   dirt |-> x.dirt, refresh |-> x.refresh]
  BY FinalizeAssumption DEF FinalizeAssumption, R, Inv, RootsTyped, RootState
<1> USE DEF RootState
<1>2. CASE Start(f) \/ CheckLease(f) \/ NoteBase(f) \/ Recheck(f) \/ Get(f) \/ Close(f)
             \/ Mark(f) \/ Checks(f) \/ Crash(f)
  BY <1>2 DEF Start, CheckLease, NoteBase, Recheck, Get, Close, Mark, Checks, Crash
<1>3. CASE CommitIncidents(f)
  BY <1>1, <1>3 DEF CommitIncidents
<1>4. CASE PushIncidents(f) \/ Push(f)
  BY <1>1, <1>4 DEF PushIncidents, Push
<1>5. CASE Lock(f)
  BY <1>1, <1>5 DEF Lock
<1>6. CASE Fetch(f)
  <2>1. \/ root' = [root EXCEPT ![R(f)].tracking = origin]
        \/ root' = [root EXCEPT ![R(f)] = [Unlocked(R(f)) EXCEPT !.tracking = origin]]
    BY <1>6 DEF Fetch, Integrated
  <2>2. CASE root' = [root EXCEPT ![R(f)].tracking = origin]
    BY <1>1, <2>2
  <2>3. CASE root' = [root EXCEPT ![R(f)] = [Unlocked(R(f)) EXCEPT !.tracking = origin]]
    BY <1>1, <2>3 DEF Unlocked
  <2>4. QED BY <2>1, <2>2, <2>3
<1>7. CASE Reach(f)
  BY <1>1, <1>7 DEF Reach, Integrated, Unlocked
<1>8. CASE SyncMain(f)
  BY <1>1, <1>8 DEF SyncMain
<1>9. CASE Merge(f)
  BY <1>1, <1>9 DEF Merge
<1>10. CASE MergeConflicts(f)
  BY <1>1, <1>10 DEF MergeConflicts, Unlocked
<1>11. CASE Undo(f)
  <2>1. PICK x : /\ root' = [root EXCEPT ![R(f)] = x] /\ x.refresh = root[R(f)].refresh
                 /\ x.dirt \subseteq root[R(f)].dirt
    <3>1. root[R(f)] \in RootState
      BY <1>1
    <3>2. /\ HardReset(R(f), fin[f].local).refresh = root[R(f)].refresh
          /\ HardReset(R(f), fin[f].local).dirt \subseteq root[R(f)].dirt
          /\ [HardReset(R(f), fin[f].local) EXCEPT !.lock = NoOne].refresh = root[R(f)].refresh
          /\ [HardReset(R(f), fin[f].local) EXCEPT !.lock = NoOne].dirt \subseteq root[R(f)].dirt
      BY <3>1 DEF HardReset
    <3>3. QED BY <3>2, <1>11 DEF Undo
  <2>2. QED BY <1>1, <2>1
<1>12. CASE Reverify(f)
  <2>1. UNCHANGED root \/ root' = [root EXCEPT ![R(f)].tracking = origin]
    BY <1>12 DEF Reverify, Fetched
  <2>2. QED BY <1>1, <2>1
<1>13. CASE Confirm(f)
  BY <1>1, <1>13 DEF Confirm, Fetched
<1>14. CASE Fails(f)
  <2>1. UNCHANGED root \/ root' = [root EXCEPT ![R(f)] = Unlocked(R(f))]
    BY <1>14 DEF Fails
  <2>2. QED BY <1>1, <2>1 DEF Unlocked
<1>15. QED
  BY <1>2, <1>3, <1>4, <1>5, <1>6, <1>7, <1>8, <1>9, <1>10, <1>11, <1>12, <1>13, <1>14
  DEF StepOf, Continues

(* The lock is taken once and given back only at the end of what it guards; *)
(* without it, nothing but an incident commit moves the root's head.        *)
LEMMA LockMoves ==
  ASSUME Inv, NEW f \in Finalizer, StepOf(f)
  PROVE  /\ fin'[f].pc \in Locked =>
              \/ Lock(f) /\ root'[R(f)].lock = f
              \/ fin[f].pc \in Locked /\ root'[R(f)].lock = root[R(f)].lock
         /\ fin[f].pc \notin Locked /\ ~Lock(f) => root'[R(f)].lock = root[R(f)].lock
         /\ Lock(f) => Free(R(f))
         /\ fin[f].pc \notin Locked \cup {"incidents"} => root'[R(f)].head = root[R(f)].head
<1>1. /\ root \in [Root -> RootState] /\ R(f) \in Root /\ fin \in [Finalizer -> FinState]
  BY FinalizeAssumption DEF FinalizeAssumption, R, Inv, RootsTyped, FinTyped
<1>2. /\ \A s : Goto(f, s) => fin'[f].pc = s
      /\ Ends(f) => fin'[f].pc = "idle"
  BY <1>1 DEF Goto, Ends, Idle, FinState
<1>3. CASE Start(f)
  BY <1>1, <1>3 DEF Start, Idle, Locked, Lock, At
<1>4. CASE CheckLease(f) \/ Recheck(f) \/ Get(f) \/ Close(f) \/ Mark(f) \/ Checks(f) \/ Crash(f)
  <2>1. UNCHANGED root /\ fin'[f].pc \in {"lock", "get", "mark", "close", "idle", "reverify", "confirm"}
    BY <1>2, <1>4 DEF CheckLease, Recheck, Get, Close, Mark, Checks, Crash
  <2>2. ~Lock(f)
    BY <1>2, <2>1 DEF Lock
  <2>3. QED BY <2>1, <2>2 DEF Locked
<1>5. CASE CommitIncidents(f)
  BY <1>1, <1>2, <1>5 DEF CommitIncidents, Locked, RootState, At, Lock
<1>6. CASE PushIncidents(f)
  BY <1>1, <1>2, <1>6 DEF PushIncidents, Locked, RootState, At, Lock
<1>7. CASE Lock(f)
  BY <1>1, <1>2, <1>7 DEF Lock, RootState, At
<1>8. CASE Fetch(f) \/ Reach(f)
  <2>1. fin[f].pc \in Locked /\ ~Lock(f)
    BY <1>8 DEF Fetch, Reach, Lock, At, Locked
  <2>2. (\E main, unproven : Integrated(f, main, unproven)) => fin'[f].pc \notin Locked
    BY <1>1 DEF Integrated, Idle, Locked
  <2>3. CASE root' = [root EXCEPT ![R(f)].tracking = origin]
    BY <1>1, <2>1, <2>3 DEF RootState
  <2>4. QED BY <1>8, <2>1, <2>2, <2>3 DEF Fetch, Reach
<1>9. CASE SyncMain(f)
  BY <1>1, <1>9 DEF SyncMain, RootState, At, Locked, Lock
<1>10. CASE NoteBase(f) \/ Merge(f) \/ Push(f)
  BY <1>1, <1>10 DEF NoteBase, Merge, Push, RootState, At, Locked, Lock
<1>11. CASE MergeConflicts(f)
  BY <1>2, <1>11 DEF MergeConflicts, At, Locked, Lock
<1>12. CASE Undo(f)
  <2>1. fin[f].pc \in Locked /\ ~Lock(f)
    BY <1>12 DEF Undo, Lock, At, Locked
  <2>2. CASE root' = [root EXCEPT ![R(f)] = HardReset(R(f), fin[f].local)]
    BY <1>1, <2>1, <2>2 DEF HardReset, RootState
  <2>3. CASE Ends(f)
    BY <1>2, <2>1, <2>3 DEF Locked
  <2>4. QED BY <1>12, <2>2, <2>3 DEF Undo
<1>13. CASE Reverify(f) \/ Confirm(f)
  <2>1. fin[f].pc \in {"reverify", "confirm"} /\ ~Lock(f)
    BY <1>13 DEF Reverify, Confirm, Lock, At
  <2>2. fin'[f].pc \in {"idle", "lease", "reverify", "checks"}
    <3>1. Again(f) => fin'[f].pc = "lease"
      BY <1>1 DEF Again, Idle
    <3>2. Advanced(f) => fin'[f].pc = "reverify"
      BY <1>1 DEF Advanced, FinState
    <3>3. QED BY <3>1, <3>2, <1>2, <1>13 DEF Reverify, Confirm
  <2>3. UNCHANGED root \/ root' = [root EXCEPT ![R(f)].tracking = origin]
    BY <1>13 DEF Reverify, Confirm, Fetched
  <2>4. QED BY <1>1, <2>1, <2>2, <2>3 DEF RootState, Locked
<1>14. CASE Fails(f)
  BY <1>2, <1>14 DEF Fails, Locked, Lock
<1>15. QED
  BY <1>3, <1>4, <1>5, <1>6, <1>7, <1>8, <1>9, <1>10, <1>11, <1>12, <1>13, <1>14
  DEF StepOf, Continues

-----------------------------------------------------------------------------
(* Who works in a clone.  A clone that two controllers share has no main    *)
(* refresh and no incident commits of its own; in the others one finalizer  *)
(* works at a time, and main is refreshed only in between.                  *)
Serial == Shared \cap (Refreshing \cup Diagnosing) = {}

Exclusive ==
  \A f, g \in Finalizer :
    R(f) = R(g) /\ ~At(f, "idle") /\ ~At(g, "idle") => f = g \/ R(f) \in Shared

RefreshAlone ==
  \A r \in Root : root[r].refresh # "idle" => r \notin Shared /\ Quiet(r)

Diagnosed ==
  /\ \A r \in Root : "incidents" \in root[r].dirt => r \in Diagnosing
  /\ \A f \in Finalizer : fin[f].pc \in {"incidents", "report"} => R(f) \in Diagnosing

LockHeld ==
  \A f \in Finalizer : fin[f].pc \in Locked => root[R(f)].lock = f

AloneInv == Exclusive /\ RefreshAlone /\ Diagnosed /\ LockHeld

(* Nobody works at first.                                                   *)
LEMMA InitAlone == Init => AloneInv
BY FinalizeAssumption
DEF FinalizeAssumption, Init, AloneInv, Exclusive, RefreshAlone, Diagnosed, LockHeld, At, Idle,
    Locked, R

(* All but the first step are of a finalizer at work.                       *)
LEMMA Working ==
  ASSUME NEW f \in Finalizer, StepOf(f), ~Start(f)
  PROVE  ~At(f, "idle")
BY DEF StepOf, Continues, CommitIncidents, PushIncidents, CheckLease, Lock, Fetch,
       SyncMain, NoteBase, Merge, MergeConflicts, Push, Undo, Reach, Recheck, Get, Close,
       Mark, Reverify, Checks, Confirm, Fails, Crash, At, Locked

(* Incident commits are made only where diagnostics are left.               *)
LEMMA DiagnosedStep ==
  ASSUME Inv, Diagnosed, NEW f \in Finalizer, StepOf(f)
  PROVE  fin'[f].pc \in {"incidents", "report"} => R(f) \in Diagnosing
<1>1. /\ R(f) \in Root /\ fin \in [Finalizer -> FinState]
  BY FinalizeAssumption DEF FinalizeAssumption, R, Inv, FinTyped
<1>2. CASE Start(f)
  BY <1>1, <1>2 DEF Start, Diagnosed, Idle
<1>3. CASE CommitIncidents(f)
  BY <1>3 DEF CommitIncidents, Diagnosed, At
<1>4. CASE ~Start(f) /\ ~CommitIncidents(f)
  <2> SUFFICES fin'[f].pc \notin {"incidents", "report"}
    OBVIOUS
  <2>1. \A s : Goto(f, s) => fin'[f].pc = s
    BY <1>1 DEF Goto, FinState
  <2>2. Ends(f) => fin'[f].pc = "idle"
    BY <1>1 DEF Ends, Idle
  <2>3. CASE PushIncidents(f) \/ CheckLease(f) \/ Lock(f) \/ Merge(f) \/ Push(f) \/ Recheck(f)
               \/ Get(f) \/ Close(f) \/ Mark(f) \/ Checks(f) \/ MergeConflicts(f)
               \/ Fails(f) \/ Crash(f)
    BY <2>1, <2>2, <2>3 DEF PushIncidents, CheckLease, Lock, Merge, Push, Recheck, Get, Close,
                            Mark, Checks, MergeConflicts, Fails, Crash
  <2>4. CASE Fetch(f) \/ Reach(f)
    <3>1. \A main, unproven : Integrated(f, main, unproven) => fin'[f].pc \in {"recheck", "reverify"}
      BY <1>1 DEF Integrated, Idle
    <3>2. QED BY <1>1, <2>4, <3>1 DEF Fetch, Reach, FinState
  <2>5. CASE SyncMain(f) \/ NoteBase(f)
    BY <1>1, <2>5 DEF SyncMain, NoteBase, FinState
  <2>6. CASE Undo(f)
    BY <1>1, <2>2, <2>6 DEF Undo, FinState
  <2>7. CASE Reverify(f) \/ Confirm(f)
    <3>1. Again(f) => fin'[f].pc = "lease"
      BY <1>1 DEF Again, Idle
    <3>2. Advanced(f) => fin'[f].pc = "reverify"
      BY <1>1 DEF Advanced, FinState
    <3>3. QED BY <3>1, <3>2, <2>1, <2>2, <2>7 DEF Reverify, Confirm
  <2>8. QED
    BY <1>4, <2>3, <2>4, <2>5, <2>6, <2>7 DEF StepOf, Continues
<1>5. QED BY <1>2, <1>3, <1>4

(* These concern no clone.                                                  *)
LEMMA RootsStay ==
  ASSUME \/ \E i \in Issue : LeaseMoves(i) \/ Comment(i)
         \/ \E b \in Root \X Issue : Advance(b)
         \/ ForeignPush
  PROVE  UNCHANGED <<root, fin>>
BY DEF LeaseMoves, Comment, Advance, ForeignPush

(* A step of the refresh, the operator or the diagnostics.                  *)
LEMMA RootSteps ==
  ASSUME Inv, NEW r \in Root,
         Refresh(r) \/ RefreshPublish(r) \/ RefreshForward(r) \/ OperatorEdits(r) \/ Incident(r)
  PROVE  /\ \A q \in Root \ {r} : root'[q] = root[q]
         /\ root'[r].lock = root[r].lock
         /\ "incidents" \in root'[r].dirt => "incidents" \in root[r].dirt \/ r \in Diagnosing
         /\ root'[r].refresh \in {"idle", root[r].refresh} \/ Refresh(r)
         /\ root'[r].head = root[r].head \/ RefreshForward(r)
<1>1. root \in [Root -> RootState]
  BY DEF Inv, RootsTyped
<1> USE DEF RootState
<1>2. CASE Refresh(r)
  BY <1>1, <1>2 DEF Refresh
<1>3. CASE RefreshPublish(r)
  BY <1>1, <1>3 DEF RefreshPublish
<1>4. CASE RefreshForward(r)
  BY <1>1, <1>4 DEF RefreshForward
<1>5. CASE OperatorEdits(r)
  BY <1>1, <1>5 DEF OperatorEdits
<1>6. CASE Incident(r)
  BY <1>1, <1>6 DEF Incident
<1>7. QED BY <1>2, <1>3, <1>4, <1>5, <1>6

(* Who works in a clone, and who holds its lock, after any step.            *)
LEMMA AloneStep ==
  ASSUME Serial, Inv, AloneInv, [Next]_vars
  PROVE  AloneInv'
<1>1. /\ NoOne \notin Finalizer /\ Shared \cap Refreshing = {}
      /\ \A f \in Finalizer : R(f) \in Root
  BY FinalizeAssumption DEF FinalizeAssumption, Serial, R
<1>2. CASE UNCHANGED vars
  BY <1>2 DEF vars, AloneInv, Exclusive, RefreshAlone, Diagnosed, LockHeld, Quiet, At, R
<1>3. ASSUME NEW f \in Finalizer, StepOf(f)
      PROVE  AloneInv'
  <2>1. \A g \in Finalizer \ {f} : fin'[g] = fin[g]
    BY <1>3, OthersStay
  <2>2. /\ \A r \in Root \ {R(f)} : root'[r] = root[r]
        /\ root'[R(f)].refresh = root[R(f)].refresh
        /\ root'[R(f)].dirt \subseteq root[R(f)].dirt \cup {"conflict"}
    BY <1>3, RootMoves
  <2>3. R(f) \in Shared \/ (\A g \in Finalizer \ {f} : R(g) = R(f) => At(g, "idle"))
    <3>1. CASE Start(f)
      BY <3>1 DEF Start, Quiet
    <3>2. CASE ~Start(f)
      BY <3>2, <1>3, Working DEF AloneInv, Exclusive
    <3>3. QED BY <3>1, <3>2
  <2>4. root[R(f)].refresh = "idle"
    <3>1. CASE Start(f)
      BY <3>1, <1>1 DEF Start, AloneInv, RefreshAlone
    <3>2. CASE ~Start(f)
      BY <3>2, <1>1, <1>3, Working DEF AloneInv, RefreshAlone, Quiet
    <3>3. QED BY <3>1, <3>2
  <2>5. Exclusive'
    BY <2>1, <2>3 DEF AloneInv, Exclusive, At, R
  <2>6. RefreshAlone'
    BY <2>1, <2>2, <2>4 DEF AloneInv, RefreshAlone, Quiet, At, R
  <2>7. Diagnosed'
    <3>1. fin'[f].pc \in {"incidents", "report"} => R(f) \in Diagnosing
      BY <1>3, DiagnosedStep DEF AloneInv
    <3>2. QED BY <3>1, <2>1, <2>2 DEF AloneInv, Diagnosed, R
  <2>8. LockHeld'
    <3>1. ASSUME NEW g \in Finalizer, fin'[g].pc \in Locked
          PROVE  root'[R(g)].lock = g
      <4>1. CASE g = f
        BY <3>1, <4>1, <1>3, LockMoves DEF AloneInv, LockHeld
      <4>2. CASE g # f /\ R(g) # R(f)
        BY <3>1, <4>2, <2>1, <2>2, <1>1 DEF AloneInv, LockHeld
      <4>3. CASE g # f /\ R(g) = R(f)
        <5>1. fin[g].pc \in Locked /\ root[R(f)].lock = g
          BY <3>1, <4>3, <2>1 DEF AloneInv, LockHeld
        <5>2. fin[f].pc \notin Locked
          BY <5>1, <4>3 DEF AloneInv, LockHeld
        <5>3. ~Lock(f)
          BY <5>1, <1>3, LockMoves DEF Free
        <5>4. QED BY <5>1, <5>2, <5>3, <4>3, <1>3, LockMoves
      <4>4. QED BY <4>1, <4>2, <4>3
    <3>2. QED BY <3>1 DEF LockHeld, R
  <2>9. QED BY <2>5, <2>6, <2>7, <2>8 DEF AloneInv
<1>4. ASSUME NEW r \in Root,
             Refresh(r) \/ RefreshPublish(r) \/ RefreshForward(r) \/ OperatorEdits(r) \/ Incident(r)
      PROVE  AloneInv'
  <2>1. /\ \A q \in Root \ {r} : root'[q] = root[q]
        /\ root'[r].lock = root[r].lock
        /\ "incidents" \in root'[r].dirt => "incidents" \in root[r].dirt \/ r \in Diagnosing
        /\ root'[r].refresh \in {"idle", root[r].refresh} \/ Refresh(r)
    BY <1>4, RootSteps
  <2>2. UNCHANGED fin
    BY <1>4, EnvironmentStays DEF Environment
  <2>3. Refresh(r) => r \notin Shared /\ Quiet(r)
    BY <1>1 DEF Refresh
  <2>4. RefreshAlone'
    BY <2>1, <2>2, <2>3 DEF AloneInv, RefreshAlone, Quiet, At, R
  <2>5. Exclusive' /\ Diagnosed' /\ LockHeld'
    BY <2>1, <2>2 , <1>1 DEF AloneInv, Exclusive, Diagnosed, LockHeld, At, R
  <2>6. QED BY <2>4, <2>5 DEF AloneInv
<1>5. ASSUME \/ \E i \in Issue : LeaseMoves(i) \/ Comment(i)
             \/ \E b \in Root \X Issue : Advance(b)
             \/ ForeignPush
      PROVE  AloneInv'
  <2>1. UNCHANGED <<root, fin>>
    BY <1>5, RootsStay
  <2>2. QED
    BY <2>1 DEF AloneInv, Exclusive, RefreshAlone, Diagnosed, LockHeld, Quiet, At, R
<1>6. QED BY <1>2, <1>3, <1>4, <1>5, NextIs DEF Environment

(* While one finalizer holds the lock, nobody else moves the head.          *)
LEMMA HeadHeld ==
  ASSUME Serial, Inv, AloneInv, Next, NEW g \in Finalizer, fin[g].pc \in Locked, ~StepOf(g)
  PROVE  root'[R(g)].head = root[R(g)].head /\ fin'[g] = fin[g]
<1>1. /\ Shared \cap Diagnosing = {}
      /\ \A f \in Finalizer : R(f) \in Root
      /\ root[R(g)].lock = g /\ ~At(g, "idle")
  BY FinalizeAssumption DEF FinalizeAssumption, Serial, R, AloneInv, LockHeld, At, Locked
<1>2. ASSUME NEW f \in Finalizer, StepOf(f)
      PROVE  root'[R(g)].head = root[R(g)].head /\ fin'[g] = fin[g]
  <2>1. fin'[g] = fin[g] /\ f # g
    BY <1>2, OthersStay
  <2>2. CASE R(f) # R(g)
    BY <2>1, <2>2, <1>1, <1>2, RootMoves
  <2>3. CASE R(f) = R(g)
    <3>1. fin[f].pc \notin Locked
      BY <2>1, <2>3, <1>1 DEF AloneInv, LockHeld
    <3>2. fin[f].pc # "incidents"
      BY <2>1, <2>3, <1>1 DEF AloneInv, Diagnosed, Exclusive, At
    <3>3. QED BY <2>1, <2>3, <3>1, <3>2, <1>2, LockMoves
  <2>4. QED BY <2>2, <2>3
<1>3. ASSUME NEW r \in Root,
             Refresh(r) \/ RefreshPublish(r) \/ RefreshForward(r) \/ OperatorEdits(r) \/ Incident(r)
      PROVE  root'[R(g)].head = root[R(g)].head /\ fin'[g] = fin[g]
  <2>1. RefreshForward(r) => r # R(g)
    BY <1>1 DEF RefreshForward, AloneInv, RefreshAlone, Quiet
  <2>2. fin'[g] = fin[g]
    BY <1>3, EnvironmentStays DEF Environment
  <2>3. QED BY <2>1, <2>2, <1>1, <1>3, RootSteps
<1>4. ASSUME \/ \E i \in Issue : LeaseMoves(i) \/ Comment(i)
             \/ \E b \in Root \X Issue : Advance(b)
             \/ ForeignPush
      PROVE  root'[R(g)].head = root[R(g)].head /\ fin'[g] = fin[g]
  BY <1>4 DEF LeaseMoves, Comment, Advance, ForeignPush
<1>5. QED BY <1>2, <1>3, <1>4, NextIs DEF Environment

-----------------------------------------------------------------------------
(* A promotion.  The base is part of the candidate; a merge is made from    *)
(* the base of the integration and the candidate, and adds no tree of its   *)
(* own; what was pushed is on main.                                         *)
Head(f) == root[R(f)].head

Promotion == {"sync", "base", "merge", "push", "undo", "reach"}

MergedIn(x, h) ==
  {x.ibase, x.cand} \subseteq anc[h] /\ Tree(h) = Tree(x.ibase) \cup Tree(x.cand)

Promotes(x, h) ==
  /\ x.pc \in Promotion => x.base \in anc[x.cand]
  /\ x.pc = "merge" => x.ibase = h
  /\ x.pc \in {"push", "reach"} => MergedIn(x, h)
  /\ x.pc = "reach" => h \in anc[origin]

Promoting == \A f \in Finalizer : Promotes(fin[f], Head(f))

(* Nothing is promoted at first.                                            *)
LEMMA InitPromoting == Init => Promoting
BY DEF Init, Promoting, Promotes, Promotion, Idle

(* Nothing that happens elsewhere undoes what a promotion has reached.      *)
LEMMA PromotesOn ==
  ASSUME Inv, [Next]_vars, NEW x \in FinState, NEW h \in Made, Promotes(x, h)
  PROVE  /\ x.pc \in Promotion => x.base \in anc'[x.cand]
         /\ x.pc = "merge" => x.ibase = h
         /\ x.pc \in {"push", "reach"} =>
              /\ {x.ibase, x.cand} \subseteq anc'[h]
              /\ anc'[h] \ merges' = (anc'[x.ibase] \ merges') \cup (anc'[x.cand] \ merges')
         /\ x.pc = "reach" => h \in anc'[origin']
BY History DEF Promotes, MergedIn, Tree, FinState

(* A merge has the trees of its parents, and no other.                      *)
LEMMA MergeMerges ==
  ASSUME Inv, Promoting, NEW f \in Finalizer, Merge(f)
  PROVE  /\ {fin[f].ibase, fin[f].cand} \subseteq anc'[root'[R(f)].head]
         /\ anc'[root'[R(f)].head] \ merges' =
              (anc'[fin[f].ibase] \ merges') \cup (anc'[fin[f].cand] \ merges')
<1> DEFINE h == root[R(f)].head
           c == fin[f].cand
<1>1. /\ h \in Made /\ c \in Made /\ R(f) \in Root /\ root \in [Root -> RootState]
      /\ fin[f].ibase = h /\ Graph
  BY FinalizeAssumption
  DEF FinalizeAssumption, R, Inv, RootsTyped, RootState, FinTyped, FinState, Promoting, Promotes,
      Head, Merge, At
<1>2. h \in anc[h] /\ c \in anc[c] /\ anc[h] \subseteq Made /\ anc[c] \subseteq Made
  BY <1>1 DEF Graph
<1>3. CASE Contains(h, c) /\ UNCHANGED <<commits, root>>
  <2>1. anc[c] \subseteq anc[h]
    BY <1>1, <1>3 DEF Graph, Contains
  <2>2. QED BY <1>1, <1>2, <1>3, <2>1 DEF Contains, commits
<1>4. CASE /\ Room /\ AddCommit({h, c}) /\ merges' = merges \cup {NewCommit}
           /\ root' = [root EXCEPT ![R(f)].head = NewCommit]
  <2>1. Adds(h, c)
    BY <1>4, <1>1 DEF Adds, Merge
  <2>2. /\ NewCommit \notin Made
        /\ \A d \in Made : anc'[d] = anc[d]
        /\ anc'[NewCommit] = {NewCommit} \cup anc[h] \cup anc[c]
    BY <1>1, <2>1, AddedCommit
  <2>3. root'[R(f)].head = NewCommit
    BY <1>1, <1>4 DEF RootState
  <2>4. anc'[NewCommit] \ merges' = (anc[h] \ merges') \cup (anc[c] \ merges')
    BY <2>2, <1>4
  <2>5. QED BY <1>1, <1>2, <2>2, <2>3, <2>4
<1>5. QED BY <1>3, <1>4 DEF Merge

(* A promotion goes on as it was, or a step further.                        *)
LEMMA PromotingStep ==
  ASSUME Serial, Inv, AloneInv, Promoting, [Next]_vars
  PROVE  Promoting'
<1> DEFINE P(x, h) ==
      /\ x.pc \in Promotion => x.base \in anc'[x.cand]
      /\ x.pc = "merge" => x.ibase = h
      /\ x.pc \in {"push", "reach"} =>
           /\ {x.ibase, x.cand} \subseteq anc'[h]
           /\ anc'[h] \ merges' = (anc'[x.ibase] \ merges') \cup (anc'[x.cand] \ merges')
      /\ x.pc = "reach" => h \in anc'[origin']
<1>1. /\ root \in [Root -> RootState] /\ fin \in [Finalizer -> FinState]
      /\ \A f \in Finalizer : R(f) \in Root /\ fin[f] \in FinState /\ Head(f) \in Made
      /\ origin \in Made
      /\ Promotion \subseteq Locked
  BY FinalizeAssumption
  DEF FinalizeAssumption, R, Inv, RootsTyped, RootState, FinTyped, Head, Promotion, Locked
<1>2. ASSUME NEW f \in Finalizer
      PROVE  P(fin[f], Head(f))
  BY <1>1, PromotesOn DEF Promoting
<1>3. CASE UNCHANGED vars
  BY <1>3 DEF vars, commits, Promoting, Promotes, MergedIn, Head, Tree, R
<1>4. ASSUME Next, NEW g \in Finalizer, ~StepOf(g)
      PROVE  P(fin'[g], root'[R(g)].head)
  <2>1. CASE fin[g].pc \in Locked
    BY <2>1, <1>2, <1>4, HeadHeld DEF Head
  <2>2. CASE fin[g].pc \notin Locked
    <3>1. fin'[g] = fin[g]
      BY <1>4, NextIs, OthersStay, EnvironmentStays
    <3>2. QED BY <3>1, <2>2, <1>1 DEF Promotion, Locked
  <2>3. QED BY <2>1, <2>2
<1>5. ASSUME NEW f \in Finalizer, StepOf(f)
      PROVE  P(fin'[f], root'[R(f)].head)
  <2>1. ASSUME fin'[f].pc \notin Promotion PROVE P(fin'[f], root'[R(f)].head)
    BY <2>1 DEF Promotion
  <2>2. /\ \A s : Goto(f, s) => fin'[f] = [fin[f] EXCEPT !.pc = s]
        /\ Ends(f) => fin'[f].pc = "idle"
    BY <1>1 DEF Goto, Ends, Idle
  <2>3. CASE fin[f].pc \notin Locked
    <3>1. fin'[f].pc \notin Promotion
      <4>1. ~Lock(f) => fin'[f].pc \notin Locked
        BY <2>3, <1>5, LockMoves
      <4>2. Lock(f) => fin'[f].pc = "fetch"
        BY <1>1 DEF Lock, Goto, FinState
      <4>3. QED BY <4>1, <4>2, <1>1 DEF Promotion
    <3>2. QED BY <3>1, <2>1
  <2>4. CASE Fetch(f)
    <3>1. CASE fin' = [fin EXCEPT ![f].pc = "sync", ![f].attempt = 1,
                                  ![f].base = MergeBase(fin[f].cand, origin)]
      <4>1. /\ fin'[f].pc = "sync" /\ fin'[f].cand = fin[f].cand
            /\ fin'[f].base = MergeBase(fin[f].cand, origin)
        BY <3>1, <1>1 DEF FinState
      <4>2. /\ fin[f].cand \in anc[tip[Branch(f)]] /\ fin[f].cand \in Made
            /\ Branch(f) \in Root \X Issue
        BY <2>4, FinalizeAssumption
        DEF FinalizeAssumption, Branch, Inv, FinTyped, Fits, FinState, Fetch, At
      <4>3. MergeBase(fin[f].cand, origin) \in anc[fin[f].cand]
        BY <4>2, <1>1, MergeBaseIs DEF Inv
      <4>4. anc'[fin[f].cand] = anc[fin[f].cand]
        BY <4>2, History
      <4>5. QED BY <4>1, <4>3, <4>4
    <3>2. (\E main, unproven : Integrated(f, main, unproven)) => fin'[f].pc \notin Promotion
      BY <1>1 DEF Integrated, Idle, Promotion
    <3>3. QED BY <3>1, <3>2, <2>1, <2>4 DEF Fetch
  <2>5. CASE SyncMain(f)
    <3>1. /\ fin'[f].pc = "base" /\ fin'[f].cand = fin[f].cand /\ fin'[f].base = fin[f].base
          /\ fin[f].pc = "sync"
      BY <2>5, <1>1 DEF SyncMain, FinState, At
    <3>2. QED BY <3>1, <1>2 DEF Promotion
  <2>6. CASE NoteBase(f)
    <3>1. /\ fin'[f].pc = "merge" /\ fin'[f].cand = fin[f].cand /\ fin'[f].base = fin[f].base
          /\ fin'[f].ibase = root[R(f)].head /\ UNCHANGED root /\ fin[f].pc = "base"
      BY <2>6, <1>1 DEF NoteBase, FinState, At
    <3>2. QED BY <3>1, <1>2 DEF Promotion
  <2>7. CASE Merge(f)
    <3>1. fin'[f] = [fin[f] EXCEPT !.pc = "push"] /\ fin[f].pc = "merge"
      BY <2>7, <2>2 DEF Merge, At
    <3>2. /\ fin'[f].pc = "push" /\ fin'[f].cand = fin[f].cand /\ fin'[f].base = fin[f].base
          /\ fin'[f].ibase = fin[f].ibase
      BY <3>1, <1>1 DEF FinState
    <3>3. fin[f].base \in anc'[fin[f].cand]
      BY <3>1, <1>2 DEF Promotion
    <3>4. QED BY <3>2, <3>3, <2>7, MergeMerges
  <2>8. CASE Push(f)
    <3>1. /\ fin[f].pc = "push" /\ root'[R(f)].head = Head(f)
          /\ anc'[Head(f)] = anc[Head(f)] /\ Head(f) \in anc[Head(f)]
      <4>1. fin[f].pc = "push"
        BY <2>8 DEF Push, At
      <4>2. root' = [root EXCEPT ![R(f)].tracking = Head(f)] \/ UNCHANGED root
        BY <2>8 DEF Push, Head
      <4>3. root'[R(f)].head = Head(f)
        BY <4>2, <1>1 DEF RootState, Head
      <4>4. QED BY <4>1, <4>3, <1>1, History DEF Inv, Graph
    <3>2. PICK s \in {"reach", "undo"} :
                 /\ fin'[f] = [fin[f] EXCEPT !.pc = s]
                 /\ s = "reach" => origin' = Head(f)
      BY <2>8, <2>2 DEF Push, Head
    <3>3. /\ fin'[f].pc = s /\ fin'[f].cand = fin[f].cand /\ fin'[f].base = fin[f].base
          /\ fin'[f].ibase = fin[f].ibase
      BY <3>2, <1>1 DEF FinState
    <3>4. QED BY <3>1, <3>2, <3>3, <1>2 DEF Promotion
  <2>9. CASE Undo(f)
    <3>1. CASE fin' = [fin EXCEPT ![f].pc = "sync", ![f].attempt = NextAttempt(f),
                                  ![f].local = 0, ![f].ibase = 0]
      <4>1. /\ fin'[f].pc = "sync" /\ fin'[f].cand = fin[f].cand /\ fin'[f].base = fin[f].base
            /\ fin[f].pc = "undo"
        BY <2>9, <3>1, <1>1 DEF Undo, FinState, At
      <4>2. QED BY <4>1, <1>2 DEF Promotion
    <3>2. QED BY <3>1, <2>1, <2>2, <2>9 DEF Undo, Promotion
  <2>10. CASE Reach(f)
    <3>1. fin'[f].pc \notin Promotion
      BY <2>10, <1>1 DEF Reach, Integrated, Idle, Promotion
    <3>2. QED BY <3>1, <2>1
  <2>11. CASE MergeConflicts(f) \/ Fails(f) \/ Crash(f)
    BY <2>1, <2>2, <2>11 DEF MergeConflicts, Fails, Crash, Promotion
  <2>12. CASE Start(f) \/ CommitIncidents(f) \/ PushIncidents(f) \/ CheckLease(f) \/ Lock(f)
                \/ Recheck(f) \/ Get(f) \/ Close(f) \/ Mark(f) \/ Reverify(f) \/ Checks(f)
                \/ Confirm(f)
    <3>1. fin[f].pc \notin Locked
      BY <2>12 DEF Start, CommitIncidents, PushIncidents, CheckLease, Lock, Recheck, Get, Close,
                   Mark, Reverify, Checks, Confirm, At, Locked
    <3>2. QED BY <3>1, <2>3
  <2> HIDE DEF P
  <2>13. QED
    BY <1>5, <2>4, <2>5, <2>6, <2>7, <2>8, <2>9, <2>10, <2>11, <2>12 DEF StepOf, Continues
<1>6. CASE Next
  <2>1. \A f \in Finalizer : P(fin'[f], root'[R(f)].head)
    BY <1>4, <1>5, <1>6
  <2>2. QED BY <2>1 DEF Promoting, Promotes, MergedIn, Head, Tree, R
<1>7. QED BY <1>3, <1>6

-----------------------------------------------------------------------------
(* What has passed the checks.  Every revision a finalizer relies on is on  *)
(* main, contains its candidate, and either its tree was verified or the    *)
(* finalizer still has to have it verified.                                 *)
Past == {"recheck", "get", "mark", "close", "reverify", "checks", "confirm"}

ProvenFor(f, x) ==
  /\ x.pc # "idle" => Tree(x.cand) \in verified
  /\ x.vim # 0 => Tree(x.vim) \in verified
  /\ x.pc = "confirm" => Tree(x.merge) \in verified
  /\ x.pc \in Past => x.cand \in anc[x.merge] /\ x.merge \in anc[origin]
  /\ x.pc \in {"recheck", "get", "close"} /\ I(f) \notin Pending => Tree(x.merge) \in verified
  /\ x.pc = "close" => I(f) \notin Pending

Proven == \A f \in Finalizer : ProvenFor(f, fin[f])

Recorded ==
  /\ \A i \in Issue : issue[i].closings > 0 => i \notin Pending
  /\ \A b \in Root \X Issue : proof[b][1] # 0 => Tree(proof[b][2]) \in verified

VerifyInv == AloneInv /\ Promoting /\ Proven /\ Recorded /\ VerifiedClosure

(* Nothing is claimed at first.                                             *)
LEMMA InitVerify == Init => VerifyInv
<1> SUFFICES ASSUME Init PROVE VerifyInv
  OBVIOUS
<1>1. AloneInv /\ Promoting
  BY InitAlone, InitPromoting
<1>2. Proven
  BY DEF Init, Proven, ProvenFor, Idle, Past
<1>3. Recorded /\ VerifiedClosure
  BY DEF Init, Recorded, VerifiedClosure
<1>4. QED BY <1>1, <1>2, <1>3 DEF VerifyInv

(* The revision that was just integrated.                                   *)
LEMMA FetchProves ==
  ASSUME Inv, Proven, NEW f \in Finalizer, At(f, "fetch"), Contains(origin, fin[f].cand),
         ~Unproven(f, origin)
  PROVE  Tree(origin) \in verified
<1>1. fin[f].cand # 0 /\ anc[0] = {0}
  BY DEF Inv, FinTyped, Fits, At, Graph
<1>2. origin # 0
  BY <1>1 DEF Contains
<1>3. fin[f].vim = origin
  BY DEF Unproven
<1>4. QED BY <1>2, <1>3 DEF Proven, ProvenFor

(* A fast-forward of the base that was verified has the candidate's tree.   *)
LEMMA ReachProves ==
  ASSUME Inv, Promoting, Proven, NEW f \in Finalizer, At(f, "reach")
  PROVE  /\ fin[f].cand \in anc[Head(f)] /\ Head(f) \in anc[origin]
         /\ ~ThreeWay(f) => Tree(Head(f)) \in verified
<1>1. Promotes(fin[f], Head(f)) /\ fin[f].pc = "reach" /\ fin[f].cand \in Made
  BY DEF Promoting, At, Inv, FinTyped, FinState
<1>2. fin[f].base \in anc[fin[f].cand] /\ MergedIn(fin[f], Head(f)) /\ Head(f) \in anc[origin]
  BY <1>1 DEF Promotes, Promotion
<1>3. ASSUME ~ThreeWay(f)
      PROVE  Tree(Head(f)) = Tree(fin[f].cand)
  <2>1. anc[fin[f].base] \subseteq anc[fin[f].cand]
    BY <1>1, <1>2 DEF Inv, Graph
  <2>2. fin[f].ibase = fin[f].base
    BY <1>3 DEF ThreeWay
  <2>3. QED BY <1>2, <2>1, <2>2 DEF MergedIn, Tree
<1>4. Tree(fin[f].cand) \in verified
  BY <1>1 DEF Proven, ProvenFor
<1>5. QED BY <1>2, <1>3, <1>4 DEF MergedIn

(* Each finalizer relies only on what is verified or will be.               *)
LEMMA ProvenStep ==
  ASSUME Inv, Promoting, Proven, Recorded, [Next]_vars
  PROVE  Proven'
<1> DEFINE T(c) == anc'[c] \ merges'
           Q(f, x) ==
             /\ x.pc # "idle" => T(x.cand) \in verified'
             /\ x.vim # 0 => T(x.vim) \in verified'
             /\ x.pc = "confirm" => T(x.merge) \in verified'
             /\ x.pc \in Past => x.cand \in anc'[x.merge] /\ x.merge \in anc'[origin']
             /\ x.pc \in {"recheck", "get", "close"} /\ I(f) \notin Pending =>
                  T(x.merge) \in verified'
             /\ x.pc = "close" => I(f) \notin Pending
<1>1. /\ \A c \in Made : anc'[c] = anc[c] /\ T(c) = Tree(c)
      /\ \A c \in anc[origin] : c \in anc'[origin'] /\ c \in Made
      /\ verified \subseteq verified'
  BY History DEF Tree, Inv, Graph
<1>2. /\ fin \in [Finalizer -> FinState] /\ origin \in Made /\ origin \in anc[origin]
      /\ \A f \in Finalizer : /\ fin[f].cand \in Made /\ fin[f].vim \in Made
                              /\ fin[f].merge \in Made
      /\ 0 \in Made
  BY DEF Inv, FinTyped, FinState, Graph
<1> HIDE DEF T
<1>3. ASSUME NEW f \in Finalizer
      PROVE  Q(f, fin[f])
  BY <1>1, <1>2 DEF Proven, ProvenFor
<1>4. CASE UNCHANGED vars
  BY <1>4 DEF vars, commits, Proven, ProvenFor, Tree, I
<1>5. ASSUME NEW f \in Finalizer, StepOf(f)
      PROVE  Q(f, fin'[f])
  <2>1. Ends(f) => Q(f, fin'[f])
    BY <1>2 DEF Ends, Idle, Past
  <2>2. ASSUME ~At(f, "idle"), fin'[f].pc \notin Past \cup {"idle"},
               fin'[f].cand = fin[f].cand, fin'[f].vim = fin[f].vim
        PROVE  Q(f, fin'[f])
    BY <2>2, <1>3 DEF Past, At
  <2>3. ASSUME NEW s, Goto(f, s)
        PROVE  /\ fin'[f].pc = s /\ fin'[f].cand = fin[f].cand /\ fin'[f].vim = fin[f].vim
               /\ fin'[f].merge = fin[f].merge
    BY <2>3, <1>2 DEF Goto, FinState
  <2>4. CASE Start(f)
    <3>1. tip[Branch(f)] \in Made
      BY FinalizeAssumption DEF FinalizeAssumption, Branch, Inv, Branches
    <3>2. /\ fin'[f].pc \in {"incidents", "lease"} /\ fin'[f].cand = tip[Branch(f)]
          /\ fin'[f].vim = 0
      BY <2>4, <1>2 DEF Start, Idle
    <3>3. T(tip[Branch(f)]) \in verified'
      BY <2>4, <3>1, <1>1 DEF Start
    <3>4. QED BY <3>2, <3>3 DEF Past
  <2>5. CASE CommitIncidents(f) \/ PushIncidents(f) \/ CheckLease(f) \/ Lock(f) \/ Merge(f)
               \/ Push(f)
    <3>1. ~At(f, "idle")
      BY <2>5 DEF CommitIncidents, PushIncidents, CheckLease, Lock, Merge, Push, At
    <3>2. PICK s \in {"report", "lease", "lock", "fetch", "push", "reach", "undo"} : Goto(f, s)
      BY <2>5 DEF CommitIncidents, PushIncidents, CheckLease, Lock, Merge, Push
    <3>3. QED BY <3>1, <3>2, <2>2, <2>3 DEF Past
  <2>6. CASE SyncMain(f) \/ NoteBase(f)
    <3>1. /\ ~At(f, "idle") /\ fin'[f].pc \in {"base", "merge"}
          /\ fin'[f].cand = fin[f].cand /\ fin'[f].vim = fin[f].vim
      BY <2>6, <1>2 DEF SyncMain, NoteBase, At, FinState
    <3>2. QED BY <3>1, <2>2 DEF Past
  <2>7. ASSUME NEW main \in Made, NEW unproven, Integrated(f, main, unproven), ~At(f, "idle"),
               fin[f].cand \in anc[main], main \in anc[origin],
               ~unproven => Tree(main) \in verified
        PROVE  Q(f, fin'[f])
    <3>1. /\ fin'[f].cand = fin[f].cand /\ fin'[f].merge = main /\ fin'[f].vim = 0
          /\ fin'[f].pc = IF unproven /\ I(f) \notin Pending THEN "reverify" ELSE "recheck"
      BY <2>7, <1>2 DEF Integrated, Idle
    <3>2. T(fin[f].cand) \in verified'
      BY <2>7, <1>3 DEF At
    <3>3. fin[f].cand \in anc'[main] /\ main \in anc'[origin']
      BY <2>7, <1>1
    <3>4. ~unproven => T(main) \in verified'
      BY <2>7, <1>1
    <3>5. QED BY <3>1, <3>2, <3>3, <3>4
  <2>8. CASE Fetch(f)
    <3>1. CASE fin' = [fin EXCEPT ![f].pc = "sync", ![f].attempt = 1,
                                  ![f].base = MergeBase(fin[f].cand, origin)]
      <4>1. /\ ~At(f, "idle") /\ fin'[f].pc = "sync"
            /\ fin'[f].cand = fin[f].cand /\ fin'[f].vim = fin[f].vim
        BY <2>8, <3>1, <1>2 DEF Fetch, At, FinState
      <4>2. QED BY <4>1, <2>2 DEF Past
    <3>2. CASE Contains(origin, fin[f].cand) /\ Integrated(f, origin, Unproven(f, origin))
      <4>1. At(f, "fetch") /\ ~At(f, "idle")
        BY <2>8 DEF Fetch, At
      <4>2. ~Unproven(f, origin) => Tree(origin) \in verified
        BY <3>2, <4>1, FetchProves
      <4>3. QED BY <3>2, <4>1, <4>2, <2>7, <1>2 DEF Contains
    <3>3. QED BY <3>1, <3>2, <2>8 DEF Fetch
  <2>9. CASE Reach(f)
    <3>1. /\ fin[f].cand \in anc[Head(f)] /\ Head(f) \in anc[origin]
          /\ ~ThreeWay(f) => Tree(Head(f)) \in verified
          /\ ~At(f, "idle") /\ Integrated(f, Head(f), ThreeWay(f))
      BY <2>9, ReachProves DEF Reach, At, Head
    <3>2. Head(f) \in Made
      BY <3>1, <1>1
    <3>3. QED BY <3>1, <3>2, <2>7
  <2>10. CASE Undo(f)
    <3>1. CASE fin' = [fin EXCEPT ![f].pc = "sync", ![f].attempt = NextAttempt(f),
                                  ![f].local = 0, ![f].ibase = 0]
      <4>1. /\ ~At(f, "idle") /\ fin'[f].pc = "sync"
            /\ fin'[f].cand = fin[f].cand /\ fin'[f].vim = fin[f].vim
        BY <2>10, <3>1, <1>2 DEF Undo, At, FinState
      <4>2. QED BY <4>1, <2>2 DEF Past
    <3>2. QED BY <3>1, <2>1, <2>10 DEF Undo
  <2>11. CASE Recheck(f)
    <3>1. Goto(f, "get") /\ At(f, "recheck")
      BY <2>11 DEF Recheck
    <3>2. QED BY <3>1, <2>3, <1>3 DEF At, Past
  <2>12. CASE Get(f)
    <3>1. CASE Goto(f, "mark")
      BY <3>1, <2>12, <2>3, <1>3 DEF Get, At, Past
    <3>2. CASE Goto(f, "close") /\ I(f) \notin Pending
      BY <3>2, <2>12, <2>3, <1>3 DEF Get, At, Past
    <3>3. QED BY <3>1, <3>2, <2>1, <2>12 DEF Get
  <2>13. CASE Mark(f)
    <3>1. CASE Goto(f, "reverify")
      BY <3>1, <2>13, <2>3, <1>3 DEF Mark, At, Past
    <3>2. QED BY <3>1, <2>1, <2>13 DEF Mark
  <2>14. ASSUME fin[f].pc \in Past, Advanced(f)
         PROVE  Q(f, fin'[f])
    <3>1. /\ fin'[f].cand = fin[f].cand /\ fin'[f].vim = fin[f].vim
          /\ fin'[f].merge = origin /\ fin'[f].pc = "reverify"
      BY <2>14, <1>2 DEF Advanced, FinState
    <3>2. anc[fin[f].merge] \subseteq anc[origin] /\ fin[f].cand \in anc[fin[f].merge]
      BY <2>14, <1>2 DEF Inv, Graph, Proven, ProvenFor
    <3>3. T(fin[f].cand) \in verified' /\ (fin[f].vim # 0 => T(fin[f].vim) \in verified')
      BY <2>14, <1>3 DEF Past
    <3>4. fin[f].cand \in anc'[origin] /\ origin \in anc'[origin']
      BY <3>2, <1>1, <1>2
    <3>5. QED BY <3>1, <3>3, <3>4
  <2>15. ASSUME fin[f].pc \in Past, Again(f), Tree(fin[f].merge) \in verified
         PROVE  Q(f, fin'[f])
    <3>1. fin'[f].cand = fin[f].cand /\ fin'[f].vim = fin[f].merge /\ fin'[f].pc = "lease"
      BY <2>15, <1>2 DEF Again, Idle
    <3>2. T(fin[f].cand) \in verified' /\ T(fin[f].merge) \in verified'
      BY <2>15, <1>1, <1>2, <1>3 DEF Past
    <3>3. QED BY <3>1, <3>2 DEF Past
  <2>16. CASE Reverify(f)
    <3>1. At(f, "reverify")
      BY <2>16 DEF Reverify
    <3>2. CASE /\ origin = fin[f].merge
               /\ proof[Branch(f)] = <<fin[f].cand, origin>>
               /\ Again(f)
      <4>1. fin[f].cand # 0 /\ Branch(f) \in Root \X Issue
        BY <3>1, FinalizeAssumption
        DEF FinalizeAssumption, Branch, Inv, FinTyped, Fits, At
      <4>2. Tree(fin[f].merge) \in verified
        BY <3>2, <4>1 DEF Recorded
      <4>3. QED BY <3>1, <3>2, <4>2, <2>15 DEF At, Past
    <3>3. CASE Advanced(f)
      BY <3>1, <3>3, <2>14 DEF At, Past
    <3>4. CASE Goto(f, "checks")
      BY <3>1, <3>4, <2>3, <1>3 DEF At, Past
    <3>5. QED BY <3>2, <3>3, <3>4, <2>1, <2>16 DEF Reverify
  <2>17. CASE Checks(f)
    <3>1. T(fin[f].merge) \in verified'
      BY <2>17, <1>1, <1>2 DEF Checks
    <3>2. QED BY <3>1, <2>17, <2>3, <1>3 DEF Checks, At, Past
  <2>18. CASE Confirm(f)
    <3>1. fin[f].pc \in Past /\ Tree(fin[f].merge) \in verified
      BY <2>18 DEF Confirm, At, Past, Proven, ProvenFor
    <3>2. QED BY <3>1, <2>14, <2>15, <2>18 DEF Confirm
  <2>19. CASE MergeConflicts(f) \/ Close(f) \/ Fails(f) \/ Crash(f)
    BY <2>1, <2>19 DEF MergeConflicts, Close, Fails, Crash
  <2> HIDE DEF Q
  <2>20. QED
    BY <1>5, <2>4, <2>5, <2>6, <2>8, <2>9, <2>10, <2>11, <2>12, <2>13, <2>16, <2>17, <2>18,
       <2>19 DEF StepOf, Continues
<1>6. CASE Next
  <2>1. \A f \in Finalizer : Q(f, fin'[f])
    <3> HIDE DEF Q
    <3>1. ASSUME NEW f \in Finalizer, ~StepOf(f)
          PROVE  fin'[f] = fin[f]
      BY <1>6, <3>1, NextIs, OthersStay, EnvironmentStays
    <3>2. QED BY <3>1, <1>3, <1>5
  <2>2. QED BY <2>1 DEF Proven, ProvenFor, Tree, T, I
<1>7. QED BY <1>4, <1>6

(* The proof of a revision is written after its checks, and only an issue   *)
(* that awaits nothing is closed.                                           *)
LEMMA RecordedStep ==
  ASSUME Inv, Proven, Recorded, [Next]_vars
  PROVE  Recorded'
<1> DEFINE T(c) == anc'[c] \ merges'
<1>1. /\ \A c \in Made : T(c) = Tree(c)
      /\ verified \subseteq verified'
  BY History DEF Tree
<1>2. /\ issue \in [Issue -> IssueState] /\ proof \in [Root \X Issue -> Made \X Made]
      /\ origin \in Made
      /\ \A f \in Finalizer : I(f) \in Issue /\ Branch(f) \in Root \X Issue
  BY FinalizeAssumption
  DEF FinalizeAssumption, I, Branch, Inv, IssuesTyped, ProofsTyped
<1>3. ASSUME NEW i \in Issue, issue'[i].closings > 0
      PROVE  i \notin Pending
  <2>1. ASSUME NEW f \in Finalizer, Close(f)
        PROVE  issue'[i].closings = issue[i].closings \/ (i = I(f) /\ i \notin Pending)
    BY <2>1, <1>2 DEF Close, Claimed, IssueState, Proven, ProvenFor, At
  <2>2. ASSUME NEW f \in Finalizer, Get(f) \/ Mark(f)
        PROVE  issue'[i].closings = issue[i].closings
    <3>1. CASE Get(f)
      BY <3>1, <1>2 DEF Get, Claimed, IssueState
    <3>2. CASE Mark(f)
      BY <3>2, <1>2 DEF Mark, IssueState
    <3>3. QED BY <2>2, <3>1, <3>2
  <2>3. ASSUME NEW j \in Issue, LeaseMoves(j) \/ Comment(j)
        PROVE  issue'[i].closings = issue[i].closings
    BY <2>3, <1>2 DEF LeaseMoves, Comment, IssueState
  <2>4. CASE UNCHANGED vars
    BY <1>3, <2>4 DEF vars, Recorded
  <2>5. CASE Next
    BY <1>3, <2>1, <2>2, <2>3, <2>5, IssuesStay DEF Next, Recorded
  <2>6. QED BY <2>4, <2>5
<1> HIDE DEF T
<1>4. ASSUME NEW b \in Root \X Issue, proof'[b][1] # 0
      PROVE  T(proof'[b][2]) \in verified'
  <2>1. CASE proof'[b] = proof[b]
    BY <2>1, <1>1, <1>2, <1>4 DEF Recorded
  <2>2. ASSUME NEW f \in Finalizer, Confirm(f), proof'[b] # proof[b]
        PROVE  T(proof'[b][2]) \in verified'
    <3>1. proof'[b] = <<fin[f].cand, origin>> /\ origin = fin[f].merge /\ At(f, "confirm")
      BY <2>2, <1>2 DEF Confirm
    <3>2. Tree(origin) \in verified
      BY <3>1 DEF Proven, ProvenFor, At
    <3>3. QED BY <3>1, <3>2, <1>1, <1>2
  <2>3. ASSUME proof' # proof
        PROVE  \E f \in Finalizer : Confirm(f)
    BY <2>3, ProofsStay DEF Next, vars
  <2>4. QED BY <2>1, <2>2, <2>3
<1>5. QED BY <1>3, <1>4 DEF Recorded, Tree, T

(* Whoever reports the issue closed reports a revision that is on main and  *)
(* was verified.                                                            *)
LEMMA ClaimsStep ==
  ASSUME Inv, Proven, Recorded, VerifiedClosure, [Next]_vars
  PROVE  VerifiedClosure'
<1> DEFINE T(c) == anc'[c] \ merges'
<1>1. /\ \A c \in Made : anc'[c] = anc[c] /\ T(c) = Tree(c)
      /\ \A c \in anc[origin] : c \in anc'[origin'] /\ c \in Made
      /\ verified \subseteq verified'
  BY History DEF Inv, Graph, Tree
<1>2. /\ issue \in [Issue -> IssueState]
      /\ \A f \in Finalizer : I(f) \in Issue
  BY FinalizeAssumption DEF FinalizeAssumption, I, Inv, IssuesTyped
<1> HIDE DEF T
<1>4. ASSUME NEW i \in Issue, NEW c \in issue'[i].claims
      PROVE  /\ c[1] \in anc[c[2]] /\ c[2] \in anc[origin] /\ Tree(c[2]) \in verified
  <2>1. CASE c \in issue[i].claims
    BY <2>1 DEF VerifiedClosure, Contains
  <2>2. ASSUME NEW f \in Finalizer, Close(f), c \notin issue[i].claims
        PROVE  /\ c[1] \in anc[c[2]] /\ c[2] \in anc[origin] /\ Tree(c[2]) \in verified
    <3>1. c = <<fin[f].cand, fin[f].merge>> /\ At(f, "close")
      BY <2>2, <1>2, <1>4 DEF Close, Claimed, IssueState
    <3>2. QED BY <3>1 DEF Proven, ProvenFor, At, Past
  <2>3. ASSUME NEW f \in Finalizer, Get(f), c \notin issue[i].claims
        PROVE  /\ c[1] \in anc[c[2]] /\ c[2] \in anc[origin] /\ Tree(c[2]) \in verified
    <3>1. c = <<fin[f].cand, fin[f].merge>> /\ At(f, "get")
      BY <2>3, <1>2, <1>4 DEF Get, Claimed, IssueState
    <3>2. I(f) \notin Pending
      BY <2>3, <1>2, <1>4 DEF Get, Recorded
    <3>3. QED BY <3>1, <3>2 DEF Proven, ProvenFor, At, Past
  <2>4. ASSUME NEW f \in Finalizer, Mark(f)
        PROVE  c \in issue[i].claims
    BY <2>4, <1>2, <1>4 DEF Mark, IssueState
  <2>5. ASSUME NEW j \in Issue, LeaseMoves(j) \/ Comment(j)
        PROVE  c \in issue[i].claims
    BY <2>5, <1>2, <1>4 DEF LeaseMoves, Comment, IssueState
  <2>6. CASE UNCHANGED vars
    BY <2>1, <2>6, <1>4 DEF vars
  <2>7. CASE Next
    BY <1>4, <2>1, <2>2, <2>3, <2>4, <2>5, <2>7, IssuesStay DEF Next
  <2>8. QED BY <2>6, <2>7
<1>5. ASSUME NEW i \in Issue, NEW c \in issue'[i].claims
      PROVE  /\ c[1] \in anc'[c[2]] /\ c[2] \in anc'[origin'] /\ T(c[2]) \in verified'
  BY <1>1, <1>4, <1>5
<1>6. QED BY <1>5 DEF VerifiedClosure, Contains, Tree, T

(* Holds throughout where controllers that share a clone leave its main     *)
(* alone.                                                                   *)
LEMMA VerifyInvariant ==
  ASSUME Serial
  PROVE  Spec => []VerifyInv
<1>1. Inv /\ VerifyInv /\ [Next]_vars => VerifyInv'
  BY AloneStep, PromotingStep, ProvenStep, RecordedStep, ClaimsStep DEF VerifyInv
<1>2. QED BY InitVerify, Invariant, <1>1, PTL DEF Spec

(* Whatever lands on main meanwhile and however often the promotion races,  *)
(* the revision an issue is reported closed at is on main, contains the     *)
(* candidate and has a tree the required checks passed on.                  *)
THEOREM VerifiedCompletion ==
  ASSUME Serial
  PROVE  Spec => []VerifiedClosure
<1>1. VerifyInv => VerifiedClosure
  BY DEF VerifyInv
<1>2. QED BY <1>1, VerifyInvariant, PTL

-----------------------------------------------------------------------------
(* No promotion is left behind.  What a clone tracks and what it would      *)
(* reset to is on main; so is every merge in its head, except between a     *)
(* merge and its push or reset.  Only a process that dies there leaves one. *)
Tracked == \A r \in Root : root[r].tracking \in anc[origin]

Resettable == \A f \in Finalizer : fin[f].local \in anc[origin]

Unsettled(r) == \E f \in Finalizer : R(f) = r /\ fin[f].pc \in {"push", "undo"}

MayDie(r) == \E f \in Mortal : R(f) = r

TakenBack ==
  \A r \in Root : ~MayDie(r) /\ ~Unsettled(r) => merges \cap anc[root[r].head] \subseteq anc[origin]

PublishInv == Tracked /\ Resettable /\ TakenBack

(* There is no merge at first.                                              *)
LEMMA InitPublish == Init => PublishInv
<1> SUFFICES ASSUME Init PROVE PublishInv
  OBVIOUS
<1>1. 0 \in anc[0]
  BY InitInv DEF Inv, Graph
<1>2. QED BY <1>1 DEF Init, PublishInv, Tracked, Resettable, TakenBack, Idle

(* A tracking ref is set to what main is at that moment.                    *)
LEMMA TrackedStep ==
  ASSUME Inv, Tracked, [Next]_vars
  PROVE  Tracked'
<1>1. /\ anc[origin] \subseteq anc'[origin'] /\ origin \in anc'[origin'] /\ origin' \in anc'[origin']
  BY History, MainAdvances, StepInv DEF Inv, Graph
<1>2. /\ root \in [Root -> RootState]
      /\ \A f \in Finalizer : R(f) \in Root
  BY FinalizeAssumption DEF FinalizeAssumption, R, Inv, RootsTyped
<1>3. ASSUME NEW r \in Root,
             root'[r].tracking \in {root[r].tracking, origin, origin'}
      PROVE  root'[r].tracking \in anc'[origin']
  BY <1>1, <1>3 DEF Tracked
<1>4. ASSUME NEW f \in Finalizer, StepOf(f)
      PROVE  root'[R(f)].tracking \in {root[R(f)].tracking, origin, origin'}
  <2> USE DEF RootState
  <2>1. CASE UNCHANGED root
    BY <2>1
  <2>2. CASE root' = [root EXCEPT ![R(f)].tracking = origin]
    BY <1>2, <2>2
  <2>3. CASE CommitIncidents(f)
    BY <1>2, <2>3 DEF CommitIncidents
  <2>4. CASE PushIncidents(f) \/ Push(f)
    BY <1>2, <2>1, <2>4 DEF PushIncidents, Push
  <2>5. CASE Lock(f) \/ SyncMain(f)
    <3>1. CASE Lock(f)
      BY <1>2, <3>1 DEF Lock
    <3>2. CASE SyncMain(f)
      BY <1>2, <3>2 DEF SyncMain
    <3>3. QED BY <2>5, <3>1, <3>2
  <2>6. CASE Fetch(f) \/ Reach(f)
    <3>1. CASE root' = [root EXCEPT ![R(f)] = [Unlocked(R(f)) EXCEPT !.tracking = origin]]
      BY <1>2, <3>1 DEF Unlocked
    <3>2. QED BY <2>2, <2>6, <3>1 DEF Fetch, Reach, Integrated
  <2>7. CASE Merge(f)
    BY <1>2, <2>7 DEF Merge
  <2>8. CASE MergeConflicts(f)
    BY <1>2, <2>8 DEF MergeConflicts, Unlocked
  <2>9. CASE Undo(f)
    <3>1. CASE root' = [root EXCEPT ![R(f)] = HardReset(R(f), fin[f].local)]
      BY <1>2, <3>1 DEF HardReset
    <3>2. CASE root' = [root EXCEPT ![R(f)] = [HardReset(R(f), fin[f].local) EXCEPT !.lock = NoOne]]
      BY <1>2, <3>2 DEF HardReset
    <3>3. QED BY <2>9, <3>1, <3>2 DEF Undo
  <2>10. CASE Reverify(f) \/ Confirm(f)
    BY <2>1, <2>2, <2>10 DEF Reverify, Confirm, Fetched
  <2>11. CASE Fails(f)
    <3>1. CASE root' = [root EXCEPT ![R(f)] = Unlocked(R(f))]
      BY <1>2, <3>1 DEF Unlocked
    <3>2. QED BY <2>1, <2>11, <3>1 DEF Fails
  <2>12. CASE Start(f) \/ CheckLease(f) \/ NoteBase(f) \/ Recheck(f) \/ Get(f) \/ Close(f)
              \/ Mark(f) \/ Checks(f) \/ Crash(f)
    BY <2>1, <2>12 DEF Start, CheckLease, NoteBase, Recheck, Get, Close, Mark, Checks, Crash
  <2>13. QED
    BY <1>4, <2>3, <2>4, <2>5, <2>6, <2>7, <2>8, <2>9, <2>10, <2>11, <2>12
    DEF StepOf, Continues
<1>5. ASSUME NEW r \in Root,
             Refresh(r) \/ RefreshPublish(r) \/ RefreshForward(r) \/ OperatorEdits(r) \/ Incident(r)
      PROVE  root'[r].tracking \in {root[r].tracking, origin, origin'}
  <2> USE DEF RootState
  <2>1. CASE Refresh(r)
    BY <1>2, <2>1 DEF Refresh
  <2>2. CASE RefreshPublish(r)
    BY <1>2, <2>2 DEF RefreshPublish
  <2>3. CASE RefreshForward(r)
    BY <1>2, <2>3 DEF RefreshForward
  <2>4. CASE OperatorEdits(r) \/ Incident(r)
    BY <1>2, <2>4 DEF OperatorEdits, Incident
  <2>5. QED BY <1>5, <2>1, <2>2, <2>3, <2>4
<1>6. ASSUME NEW r \in Root
      PROVE  root'[r].tracking \in {root[r].tracking, origin, origin'}
  <2>1. CASE UNCHANGED root
    BY <2>1
  <2>2. ASSUME NEW f \in Finalizer, StepOf(f)
        PROVE  root'[r].tracking \in {root[r].tracking, origin, origin'}
    BY <1>4, <2>2, RootMoves
  <2>3. ASSUME NEW q \in Root,
               Refresh(q) \/ RefreshPublish(q) \/ RefreshForward(q) \/ OperatorEdits(q) \/ Incident(q)
        PROVE  root'[r].tracking \in {root[r].tracking, origin, origin'}
    BY <1>5, <2>3, RootSteps
  <2>4. QED
    BY <2>1, <2>2, <2>3, RootsStay, NextIs DEF Environment, vars
<1>7. QED BY <1>3, <1>6 DEF Tracked

(* The commit a promotion resets to was on main when it was noted.          *)
LEMMA ResettableStep ==
  ASSUME Inv, Resettable, [Next]_vars
  PROVE  Resettable'
<1>1. /\ anc[origin] \subseteq anc'[origin'] /\ 0 \in anc[origin]
      /\ fin \in [Finalizer -> FinState]
  BY History DEF Inv, Graph, FinTyped
<1>2. ASSUME NEW f \in Finalizer, fin'[f].local \in {0, fin[f].local}
      PROVE  fin'[f].local \in anc'[origin']
  BY <1>1, <1>2 DEF Resettable
<1>3. ASSUME NEW f \in Finalizer, StepOf(f)
      PROVE  fin'[f].local \in anc'[origin']
  <2>1. \A s : Goto(f, s) => fin'[f].local = fin[f].local
    BY <1>1 DEF Goto, FinState
  <2>2. Ends(f) => fin'[f].local = 0
    BY <1>1 DEF Ends, Idle
  <2>3. CASE Start(f)
    BY <1>1, <1>2, <2>3 DEF Start, Idle
  <2>4. CASE CommitIncidents(f) \/ PushIncidents(f) \/ CheckLease(f) \/ Lock(f) \/ Merge(f)
               \/ Push(f) \/ Recheck(f) \/ Get(f) \/ Close(f) \/ Mark(f) \/ Checks(f)
               \/ MergeConflicts(f) \/ Fails(f) \/ Crash(f)
    BY <1>2, <2>1, <2>2, <2>4
    DEF CommitIncidents, PushIncidents, CheckLease, Lock, Merge, Push, Recheck, Get, Close, Mark,
        Checks, MergeConflicts, Fails, Crash
  <2>5. CASE Fetch(f) \/ Reach(f)
    <3>1. \A main, unproven : Integrated(f, main, unproven) => fin'[f].local = 0
      BY <1>1 DEF Integrated, Idle
    <3>2. CASE fin' = [fin EXCEPT ![f].pc = "sync", ![f].attempt = 1,
                                  ![f].base = MergeBase(fin[f].cand, origin)]
      BY <1>1, <1>2, <3>2 DEF FinState
    <3>3. QED BY <1>2, <2>5, <3>1, <3>2 DEF Fetch, Reach
  <2>6. CASE SyncMain(f)
    BY <1>1, <2>6 DEF SyncMain, FinState, Contains
  <2>7. CASE NoteBase(f)
    BY <1>1, <1>2, <2>7 DEF NoteBase, FinState
  <2>8. CASE Undo(f)
    BY <1>1, <1>2, <2>2, <2>8 DEF Undo, FinState
  <2>9. CASE Reverify(f) \/ Confirm(f)
    <3>1. Again(f) => fin'[f].local = 0
      BY <1>1 DEF Again, Idle
    <3>2. Advanced(f) => fin'[f].local = fin[f].local
      BY <1>1 DEF Advanced, FinState
    <3>3. QED BY <3>1, <3>2, <1>2, <2>1, <2>2, <2>9 DEF Reverify, Confirm
  <2>10. QED
    BY <1>3, <2>3, <2>4, <2>5, <2>6, <2>7, <2>8, <2>9 DEF StepOf, Continues
<1>4. ASSUME NEW f \in Finalizer, ~StepOf(f)
      PROVE  fin'[f] = fin[f]
  BY <1>4, NextIs, OthersStay, EnvironmentStays DEF vars
<1>5. QED BY <1>2, <1>3, <1>4 DEF Resettable

(* The other steps of a finalizer leave the head where it is.               *)
LEMMA HeadMoves ==
  ASSUME Inv, NEW f \in Finalizer, StepOf(f),
         ~CommitIncidents(f), ~SyncMain(f), ~Merge(f), ~Undo(f)
  PROVE  root'[R(f)].head = root[R(f)].head
<1>1. /\ root \in [Root -> RootState] /\ R(f) \in Root
  BY FinalizeAssumption DEF FinalizeAssumption, R, Inv, RootsTyped
<1> USE DEF RootState
<1>2. CASE UNCHANGED root
  BY <1>2
<1>3. CASE PushIncidents(f) \/ Push(f)
  BY <1>1, <1>3 DEF PushIncidents, Push
<1>4. CASE Lock(f)
  BY <1>1, <1>4 DEF Lock
<1>5. CASE Fetch(f) \/ Reach(f) \/ Reverify(f) \/ Confirm(f)
  <2>1. CASE root' = [root EXCEPT ![R(f)] = [Unlocked(R(f)) EXCEPT !.tracking = origin]]
    BY <1>1, <2>1 DEF Unlocked
  <2>2. CASE root' = [root EXCEPT ![R(f)].tracking = origin]
    BY <1>1, <2>2
  <2>3. QED BY <1>2, <1>5, <2>1, <2>2 DEF Fetch, Reach, Integrated, Reverify, Confirm, Fetched
<1>6. CASE MergeConflicts(f)
  BY <1>1, <1>6 DEF MergeConflicts, Unlocked
<1>7. CASE Fails(f)
  <2>1. CASE root' = [root EXCEPT ![R(f)] = Unlocked(R(f))]
    BY <1>1, <2>1 DEF Unlocked
  <2>2. QED BY <1>2, <1>7, <2>1 DEF Fails
<1>8. CASE Start(f) \/ CheckLease(f) \/ NoteBase(f) \/ Recheck(f) \/ Get(f) \/ Close(f)
            \/ Mark(f) \/ Checks(f) \/ Crash(f)
  BY <1>2, <1>8 DEF Start, CheckLease, NoteBase, Recheck, Get, Close, Mark, Checks, Crash
<1>9. QED BY <1>3, <1>4, <1>5, <1>6, <1>7, <1>8 DEF StepOf, Continues

(* Push and Undo settle a merge; no other step makes an unpublished head.   *)
LEMMA TakenBackStep ==
  ASSUME Inv, PublishInv, [Next]_vars
  PROVE  TakenBack'
<1>1. /\ anc[origin] \subseteq anc'[origin'] /\ origin \in anc[origin] /\ origin \in Made
      /\ \A c \in Made : anc'[c] = anc[c] /\ anc[c] \subseteq Made /\ (c \in merges <=> c \in merges')
      /\ \A c \in anc[origin] : c \in Made /\ anc[c] \subseteq anc[origin]
  BY History, StepInv DEF Inv, Graph, Grows
<1>2. /\ root \in [Root -> RootState] /\ fin \in [Finalizer -> FinState]
      /\ \A r \in Root : root[r].head \in Made
      /\ \A f \in Finalizer : R(f) \in Root
      /\ Mortal \subseteq Finalizer
  BY FinalizeAssumption DEF FinalizeAssumption, R, Inv, RootsTyped, RootState, FinTyped
<1> DEFINE Clean(h) == merges' \cap anc'[h] \subseteq anc'[origin']
<1>3. ASSUME NEW h \in Made, merges \cap anc[h] \subseteq anc[origin]
      PROVE  Clean(h)
  BY <1>1, <1>3
<1>4. ASSUME NEW h \in anc[origin]
      PROVE  Clean(h)
  BY <1>1, <1>3, <1>4
<1>5. Clean(origin')
  OBVIOUS
<1> HIDE DEF Clean
<1>6. ASSUME NEW r \in Root, ~MayDie(r), ~Unsettled(r), root'[r].head = root[r].head
      PROVE  Clean(root'[r].head)
  BY <1>2, <1>3, <1>6 DEF PublishInv, TakenBack
<1>7. ASSUME NEW f \in Finalizer, StepOf(f), ~MayDie(R(f)),
             \A g \in Finalizer : R(g) = R(f) => fin'[g].pc \notin {"push", "undo"}
      PROVE  Clean(root'[R(f)].head)
  <2>1. f \notin Mortal
    BY <1>7 DEF MayDie
  <2>2. \A s : Goto(f, s) => fin'[f].pc = s
    BY <1>2 DEF Goto, FinState
  <2>3. CASE Push(f)
    <3>1. origin' = root[R(f)].head /\ root' = [root EXCEPT ![R(f)].tracking = root[R(f)].head]
      BY <2>2, <2>3, <1>7 DEF Push
    <3>2. root'[R(f)].head = root[R(f)].head
      BY <3>1, <1>2 DEF RootState
    <3>3. QED BY <3>1, <3>2, <1>5
  <2>4. CASE Undo(f)
    <3>1. root'[R(f)].head = fin[f].local
      <4>1. root[R(f)] \in RootState
        BY <1>2
      <4>2. /\ HardReset(R(f), fin[f].local).head = fin[f].local
            /\ [HardReset(R(f), fin[f].local) EXCEPT !.lock = NoOne].head = fin[f].local
        BY <4>1 DEF HardReset, RootState
      <4>3. QED BY <4>2, <1>2, <2>4 DEF Undo
    <3>2. QED BY <3>1, <1>4 DEF PublishInv, Resettable
  <2>5. CASE ~Push(f) /\ ~Undo(f)
    <3>1. fin[f].pc \notin {"push", "undo"}
      BY <2>1, <2>5, <1>7
      DEF StepOf, Continues, Start, CommitIncidents, PushIncidents, CheckLease, Lock, Fetch, SyncMain,
          NoteBase, Merge, MergeConflicts, Reach, Recheck, Get, Close, Mark, Reverify, Checks,
          Confirm, Fails, Crash, At
    <3>2. ~Unsettled(R(f))
      BY <3>1, <1>7, OthersStay DEF Unsettled
    <3>3. CASE CommitIncidents(f)
      <4>1. CASE root' = [root EXCEPT ![R(f)].tracking = origin]
        <5>1. root'[R(f)].head = root[R(f)].head
          BY <4>1, <1>2 DEF RootState
        <5>2. QED BY <5>1, <3>2, <1>2, <1>6, <1>7
      <4>2. CASE /\ Room /\ AddCommit({origin})
                 /\ root' = [root EXCEPT ![R(f)].head = NewCommit, ![R(f)].tracking = origin,
                                         ![R(f)].dirt = @ \ {"incidents"}]
        <5>1. root'[R(f)].head = NewCommit
          BY <4>2, <1>2 DEF RootState
        <5>2. merges' = merges /\ tip' = tip /\ origin' = origin
          BY <3>3 DEF CommitIncidents
        <5>3. {origin, origin} = {origin}
          OBVIOUS
        <5>4. Adds(origin, origin)
          BY <4>2, <5>2, <5>3 DEF Adds
        <5>5. anc'[NewCommit] = {NewCommit} \cup anc[origin] /\ NewCommit \notin Made
          BY <5>4, <1>1, AddedCommit DEF Inv
        <5>6. merges \subseteq Made
          BY DEF Inv, Graph
        <5>7. QED BY <5>1, <5>2, <5>5, <5>6, <1>1 DEF Clean
      <4>3. QED BY <3>3, <4>1, <4>2 DEF CommitIncidents
    <3>4. CASE SyncMain(f)
      <4>1. root'[R(f)].head = origin
        BY <3>4, <1>2 DEF SyncMain, RootState
      <4>2. QED BY <4>1, <1>1, <1>4
    <3>5. CASE Merge(f)
      BY <3>5, <2>2, <1>7 DEF Merge
    <3>6. CASE ~CommitIncidents(f) /\ ~SyncMain(f) /\ ~Merge(f)
      <4>1. root'[R(f)].head = root[R(f)].head
        BY <2>5, <3>6, <1>7, HeadMoves
      <4>2. QED BY <4>1, <3>2, <1>2, <1>6, <1>7
    <3>7. QED BY <3>3, <3>4, <3>5, <3>6
  <2>6. QED BY <2>3, <2>4, <2>5
<1>8. ASSUME NEW r \in Root, ~MayDie(r), ~Unsettled(r),
             Refresh(r) \/ RefreshPublish(r) \/ RefreshForward(r) \/ OperatorEdits(r) \/ Incident(r)
      PROVE  Clean(root'[r].head)
  <2>1. CASE RefreshForward(r)
    <3>1. root'[r].head \in {root[r].head, root[r].tracking}
      BY <2>1, <1>2 DEF RefreshForward, RootState
    <3>2. QED BY <3>1, <1>4, <1>6, <1>8 DEF PublishInv, Tracked
  <2>2. CASE ~RefreshForward(r)
    BY <2>2, <1>6, <1>8, RootSteps
  <2>3. QED BY <2>1, <2>2
<1>9. ASSUME NEW r \in Root, ~MayDie(r),
             \A g \in Finalizer : R(g) = r => fin'[g].pc \notin {"push", "undo"}
      PROVE  Clean(root'[r].head)
  <2>1. CASE UNCHANGED <<root, fin>>
    BY <2>1, <1>6, <1>9 DEF Unsettled
  <2>2. ASSUME NEW f \in Finalizer, StepOf(f)
        PROVE  Clean(root'[r].head)
    <3>1. CASE R(f) = r
      BY <3>1, <2>2, <1>7, <1>9
    <3>2. CASE R(f) # r
      <4>1. root'[r] = root[r]
        BY <3>2, <2>2, RootMoves
      <4>2. ~Unsettled(r)
        BY <3>2, <2>2, <1>9, OthersStay DEF Unsettled
      <4>3. QED BY <4>1, <4>2, <1>6, <1>9
    <3>3. QED BY <3>1, <3>2
  <2>3. ASSUME NEW q \in Root,
               Refresh(q) \/ RefreshPublish(q) \/ RefreshForward(q) \/ OperatorEdits(q) \/ Incident(q)
        PROVE  Clean(root'[r].head)
    <3>1. ~Unsettled(r)
      BY <2>3, <1>9, EnvironmentStays DEF Environment, Unsettled
    <3>2. r # q => root'[r].head = root[r].head
      BY <2>3, RootSteps
    <3>3. QED BY <3>1, <3>2, <2>3, <1>6, <1>8, <1>9
  <2>4. QED
    BY <2>1, <2>2, <2>3, RootsStay, NextIs DEF Environment, vars
<1>10. QED BY <1>9 DEF TakenBack, Unsettled, MayDie, Clean, R

(* Holds throughout, for any clones and controllers.                        *)
LEMMA PublishInvariant == Spec => []PublishInv
<1>1. Inv /\ PublishInv /\ [Next]_vars => PublishInv'
  BY TrackedStep, ResettableStep, TakenBackStep DEF PublishInv
<1>2. QED BY InitPublish, Invariant, <1>1, PTL DEF Spec

(* In a clone whose finalizers do not die, every promotion merge of local   *)
(* main is on origin's main once the lock is given back: also when others   *)
(* work in the clone, and main is refreshed there, at the same time.        *)
THEOREM Published ==
  Spec => [](\A r \in Root :
               ~MayDie(r) /\ (\A f \in Finalizer : R(f) = r => fin[f].pc \notin Locked)
                 => merges \cap anc[root[r].head] \subseteq anc[origin])
<1>1. PublishInv => \A r \in Root :
        ~MayDie(r) /\ (\A f \in Finalizer : R(f) = r => fin[f].pc \notin Locked)
          => merges \cap anc[root[r].head] \subseteq anc[origin]
  BY DEF PublishInv, TakenBack, Unsettled, Locked
<1>2. QED BY <1>1, PublishInvariant, PTL

(* When no finalizer dies, that is all of RootPublished.                    *)
THEOREM PublishedUnlessKilled ==
  ASSUME Mortal = {}
  PROVE  Spec => []RootPublished
<1>1. PublishInv => RootPublished
  BY DEF PublishInv, TakenBack, Unsettled, MayDie, Locked, RootPublished, Contains
<1>2. QED BY <1>1, PublishInvariant, PTL
=============================================================================

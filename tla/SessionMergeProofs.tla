------------------------- MODULE SessionMergeProofs -------------------------
(***************************************************************************)
(* Proofs of the safety of SessionMerge.                                   *)
(*                                                                         *)
(* Two facts about the repository carry the proofs.  Versions of a file    *)
(* never go back along a line of descent, whatever is committed, merged or *)
(* squashed, since an edit is new and a merge takes the younger side; and  *)
(* main is a line: of two of its commits one descends from the other, so   *)
(* that the merge base of main and a commit that was put onto a commit of  *)
(* main is that commit, however far main has moved on.                     *)
(***************************************************************************)
EXTENDS SessionMerge, TLAPS, WellFoundedInduction

-----------------------------------------------------------------------------
(* Types                                                                   *)

Kinds == {"None", "Awaiting", "Approved", "Resolving"}
Approvals == [kind : Kinds, commit : Nat, target : Nat, paths : SUBSET Files, running : BOOLEAN]
Pcs == {"unborn", "down", "pruning", "idle", "turn", "created", "offering", "proposed",
        "describing", "approved", "ready", "checked", "preparing", "merged", "cleaned"}
Readers == Sessions \cup {None}

Commits == [tree : [Files -> Int], parents : Seq(Nat), ancestors : SUBSET Nat]
Worktrees == [branch : Nat, tree : {NoTree} \cup [Files -> Int], mergeHead : Nat,
              merges : SUBSET (Nat \X Nat)]
Stored == [worktree : BOOLEAN, source : Readers, approval : Approvals, asked : BOOLEAN]
Actors == [pc : Pcs, approval : Approvals, turn : {"none", "task", "resolution"},
           commit : Nat, keep : BOOLEAN, source : Readers, queued : BOOLEAN]

Types ==
  /\ edits \in [worktrees : Nat, root : Nat] /\ turns \in Nat /\ faults \in Nat
  /\ commits \in Seq(Commits) /\ main \in DOMAIN commits /\ root \in [Files -> Int]
  /\ wt \in [Sessions -> Worktrees] /\ store \in [Sessions -> Stored]
  /\ actor \in [Sessions -> Actors]
  /\ pruner \in [pc : {"none", "looked", "claimed", "removed"}, target : Readers, force : BOOLEAN]
  /\ consent \in [Sessions -> SUBSET Int] /\ regained \in SUBSET Sessions

-----------------------------------------------------------------------------
(* The repository                                                          *)

\* Every version that has been written, but for conflict markers.
Latest == edits.worktrees + edits.root
Trees == [Files -> 0..Latest]

TreeOf(c) == commits[c].tree
ParentsOf(c) == commits[c].parents
Lineage(c, parents) == {c} \cup UNION {Ancestors(parents[i]) : i \in DOMAIN parents}

\* A commit descends from its parents, and its files are no older than theirs.
CommitInv(x) ==
  /\ TreeOf(x) \in Trees
  /\ x \in Ancestors(x) /\ 1 \in Ancestors(x) /\ Ancestors(x) \subseteq 1..x
  /\ ParentsOf(x) \in Seq(DOMAIN commits)
  /\ ParentsOf(x) # <<>> => Ancestors(x) = Lineage(x, ParentsOf(x))
  /\ \A y \in Ancestors(x) :
       /\ Ancestors(y) \subseteq Ancestors(x)
       /\ \A f \in Files : TreeOf(y)[f] <= TreeOf(x)[f]
GraphInv == \A x \in DOMAIN commits : CommitInv(x)

\* The ancestors of a commit are a line.
Line(c) == \A a, b \in Ancestors(c) : a <= b => a \in Ancestors(b)
RootInv == root \in Trees /\ \A f \in Files : TreeOf(main)[f] <= root[f]
RepositoryInv == GraphInv /\ Line(main) /\ RootInv

\* A commit was put onto an earlier one: it descends from none in between.
Onto(x, m) ==
  /\ m \in Ancestors(x) /\ m # x
  /\ \A g \in Ancestors(x) : m \in Ancestors(g) => g \in {m, x}

-----------------------------------------------------------------------------
(* Worktrees                                                               *)

\* A merge that was recorded is the approved commit on a commit of main.
Squashes(approved, id) ==
  /\ approved \in DOMAIN commits /\ id \in DOMAIN commits
  /\ \E m \in Ancestors(main) :
       /\ Onto(id, m)
       /\ \A f \in Files : TreeOf(id)[f] \in {TreeOf(m)[f], TreeOf(approved)[f]}

\* A file in a worktree is no older than what it was written over, or has the
\* markers of a conflict that is stored.
FileInv(s, f) ==
  \/ /\ wt[s].tree[f] = Marks
     /\ wt[s].mergeHead # 0
     /\ store[s].approval.kind = "Resolving" /\ f \in store[s].approval.paths
  \/ /\ wt[s].tree[f] \in 0..Latest
     /\ TreeOf(wt[s].branch)[f] <= wt[s].tree[f]
     /\ wt[s].mergeHead # 0 => TreeOf(wt[s].mergeHead)[f] <= wt[s].tree[f]
WorktreeInv(s) ==
  /\ wt[s].branch \in {0} \cup DOMAIN commits
  /\ wt[s].mergeHead \in {0} \cup DOMAIN commits
  /\ \A pair \in wt[s].merges : Squashes(pair[1], pair[2])
  /\ Present(s) => wt[s].branch # 0 /\ \A f \in Files : FileInv(s, f)

-----------------------------------------------------------------------------
(* Sessions                                                                *)

ApprovalInv(a) ==
  /\ a.kind # "None" => a.commit \in DOMAIN commits
  /\ a.kind = "Resolving" => a.target \in DOMAIN commits
  /\ a.running => a.kind = "Resolving"
StoreInv(s) ==
  /\ ApprovalInv(store[s].approval) /\ ~store[s].approval.running
  /\ store[s].asked => store[s].approval.kind = "Awaiting"

\* What an actor knows at each of its steps.
Merges == {"approved", "ready", "checked", "merged", "cleaned"}
Believes(s) ==
  /\ store[s].approval = Paused(actor[s].approval)
  /\ store[s].asked <=> actor[s].approval.kind = "Awaiting"
ActorInv(s) ==
  /\ ApprovalInv(actor[s].approval)
  /\ actor[s].approval.running /\ actor[s].queued => actor[s].pc \in {"idle", "preparing"}
  /\ actor[s].pc \notin {"down", "pruning"} => Believes(s)
  /\ actor[s].pc \in Merges =>
       actor[s].approval.kind = "Approved" /\ actor[s].commit \in DOMAIN commits
  /\ actor[s].pc = "checked" => Present(s) /\ wt[s].mergeHead = 0
  /\ actor[s].pc = "proposed" => actor[s].commit \in {0} \cup DOMAIN commits
  /\ actor[s].pc = "describing" =>
       actor[s].commit \in DOMAIN commits /\ ParentsOf(actor[s].commit) # <<>>
  /\ actor[s].pc \in {"proposed", "describing"} /\ Present(s) =>
       \A f \in Files : wt[s].tree[f] # Marks

\* A session is claimed by the pruner that is at work on it, and by no other.
PrunerInv ==
  /\ pruner.pc # "none" => pruner.target \in Sessions
  /\ \A s \in Sessions :
       actor[s].pc = "pruning" <=> pruner.pc \in {"claimed", "removed"} /\ pruner.target = s
  /\ pruner.pc = "removed" => ~Present(pruner.target)

\* A merge under way keeps the worktree if a fork reads it.
ReadersInv ==
  \A s, r \in Sessions :
    /\ actor[s].pc \in {"ready", "checked", "merged"}
    /\ store[r].source = s /\ r \notin regained
    => actor[s].keep

SessionInv(s) == WorktreeInv(s) /\ StoreInv(s) /\ ActorInv(s)

-----------------------------------------------------------------------------
(* Consent                                                                 *)

\* What a commit holds beside what it was put onto, the user has approved.
Adds(s, c, m) == \A f \in Files : TreeOf(c)[f] \in {TreeOf(m)[f]} \cup consent[s]
Given(s) == Files # {} => consent[s] # {}
Covered(s, c) ==
  /\ c \in DOMAIN commits
  /\ \/ \A f \in Files : TreeOf(c)[f] \in consent[s]
     \/ \E m \in Ancestors(main) : Onto(c, m) /\ Adds(s, c, m)

\* An approved commit is merged with a commit of main it does not descend from.
Conflicting(a) ==
  a.kind = "Resolving" /\ a.target \in Ancestors(main) /\ a.target \notin Ancestors(a.commit)

\* A turn resolves the conflict, or will.
Resolves(s) ==
  /\ actor[s].approval.running
  /\ \/ actor[s].pc = "idle" /\ actor[s].queued
     \/ actor[s].pc \in {"turn", "created", "offering"} /\ actor[s].turn = "resolution"

\* The files that prepare_resolution checks out.
Prepared(a) == Merged(TreeOf(Base(a.target, a.commit)), TreeOf(a.commit), TreeOf(a.target))

\* The approved merge moves main only to what is covered.
MergingInv(s, c) ==
  actor[s].pc \in {"approved", "ready", "checked"} => Given(s) /\ Covered(s, Recorded(s, c))
\* So does what a conflict is resolved with: the files that are checked out,
PreparingInv(s, a) ==
  actor[s].pc = "preparing" =>
    /\ Given(s) /\ Conflicting(a)
    /\ \A f \in Files : /\ Prepared(a)[f] \in {Marks, TreeOf(a.target)[f]} \cup consent[s]
                        /\ Prepared(a)[f] = Marks => f \in a.paths
\* those that are edited,
ResolvingInv(s, a) ==
  Resolves(s) =>
    /\ Given(s) /\ Conflicting(a) /\ ResolutionPending(s, a)
    /\ \A f \in Files : wt[s].tree[f] \in {Marks, TreeOf(a.target)[f]} \cup consent[s]
\* and the commit that is offered without a question.
ResolvedInv(s, a, c) ==
  actor[s].pc \in {"proposed", "describing"} /\ SkipsQuestion(s) =>
    /\ actor[s].pc = "describing" /\ Given(s) /\ Conflicting(a)
    /\ ParentsOf(c) = <<a.commit, a.target>>
    /\ Adds(s, c, a.target)

ConsentInv(s) ==
  LET a == actor[s].approval
      c == actor[s].commit
  IN MergingInv(s, c) /\ PreparingInv(s, a) /\ ResolvingInv(s, a) /\ ResolvedInv(s, a, c)

MergeInv ==
  /\ Types /\ RepositoryInv /\ PrunerInv /\ ReadersInv
  /\ \A s \in Sessions : SessionInv(s) /\ ConsentInv(s)

-----------------------------------------------------------------------------
(* Merge bases and merges                                                  *)

\* A set of numbers has a least one ...
LEMMA Least ==
  ASSUME NEW S, S \subseteq Nat, S # {}
  PROVE  \E m \in S : \A k \in S : m <= k
<1> DEFINE R == OpToRel(<, Nat)
<1>1. IsWellFoundedOn(R, Nat)
  BY NatLessThanWellFounded
<1>2. \A x, y \in Nat : y < x => <<y, x>> \in R
  BY DEF OpToRel
<1> HIDE DEF R
<1>3. PICK m \in S : \A y \in S : ~(<<y, m>> \in R)
  BY <1>1, WFMin
<1>4. \A k \in S : ~(k < m)
  BY <1>2, <1>3
<1> QED BY <1>4, <1>3

\* ... and, when it is bounded, a greatest one.
LEMMA Greatest ==
  ASSUME NEW n \in Nat, NEW S, S \subseteq 0..n, S # {}
  PROVE  \E m \in S : \A k \in S : k <= m
<1> DEFINE T == {n - k : k \in S}
<1>1. PICK s \in S : TRUE
  OBVIOUS
<1>2. n - s \in T /\ T \subseteq Nat
  OBVIOUS
<1>3. PICK t \in T : \A k \in T : t <= k
  BY <1>2, Least
<1>4. PICK m \in S : t = n - m
  BY <1>3
<1>5. \A k \in S : n - m <= n - k
  BY <1>3, <1>4
<1> QED BY <1>4, <1>5

\* Versions are counted.
LEMMA LatestNat ==
  ASSUME Types
  PROVE  Latest \in Nat
BY DEF Types, Latest

\* What commits are.
LEMMA CommitFacts ==
  ASSUME Types, GraphInv, NEW x \in DOMAIN commits
  PROVE  /\ x \in Nat /\ x # 0 /\ TreeOf(x) \in Trees
         /\ x \in Ancestors(x) /\ Ancestors(x) \subseteq DOMAIN commits
         /\ \A y \in Ancestors(x) : y <= x /\ Ancestors(y) \subseteq Ancestors(x)
         /\ \A y \in Ancestors(x), f \in Files : TreeOf(y)[f] <= TreeOf(x)[f]
         /\ \A f \in Files : TreeOf(x)[f] \in 0..Latest
<1>1. DOMAIN commits = 1..Len(commits) /\ Len(commits) \in Nat
  BY DEF Types
<1>2. /\ TreeOf(x) \in Trees /\ x \in Ancestors(x) /\ Ancestors(x) \subseteq 1..x
      /\ \A y \in Ancestors(x) : /\ Ancestors(y) \subseteq Ancestors(x)
                               /\ \A f \in Files : TreeOf(y)[f] <= TreeOf(x)[f]
  BY DEF GraphInv, CommitInv
<1>3. \A f \in Files : TreeOf(x)[f] \in 0..Latest
  BY <1>2 DEF Trees
<1> QED BY <1>1, <1>2, <1>3

\* Two commits have a merge base: the youngest commit that both descend from.
LEMMA BaseIs ==
  ASSUME Types, GraphInv, NEW a \in DOMAIN commits, NEW b \in DOMAIN commits
  PROVE  /\ Base(a, b) \in Ancestors(a) /\ Base(a, b) \in Ancestors(b)
         /\ \A d \in Ancestors(a) \cap Ancestors(b) : d <= Base(a, b)
<1> DEFINE common == Ancestors(a) \cap Ancestors(b)
<1>1. 1 \in common /\ common \subseteq 0..a /\ a \in Nat
  BY DEF GraphInv, CommitInv, Types
<1>2. \E c \in common : \A d \in common : d <= c
  BY <1>1, Greatest
<1> QED BY <1>2 DEF Base

\* The merge base of a line and a commit that was put onto one of its commits
\* is that commit, however long the line has become.
LEMMA BaseOnto ==
  ASSUME Types, GraphInv, NEW a \in DOMAIN commits, NEW b \in DOMAIN commits, Line(a),
         NEW m \in Ancestors(a), Onto(b, m), b \notin Ancestors(a)
  PROVE  Base(a, b) = m
<1> DEFINE g == Base(a, b)
<1>1. g \in Ancestors(a) /\ g \in Ancestors(b) /\ m <= g
  BY BaseIs DEF Onto
<1>2. m \in Ancestors(g)
  BY <1>1 DEF Line
<1> QED BY <1>1, <1>2 DEF Onto

\* A merged file is that of one side, no older than either, or has markers.
LEMMA MergedFile ==
  ASSUME NEW base \in Trees, NEW ours \in Trees, NEW theirs \in Trees, NEW f \in Files,
         Types, base[f] <= ours[f], base[f] <= theirs[f]
  PROVE  LET t == Merged(base, ours, theirs)[f] IN
         /\ t \in {ours[f], theirs[f], Marks}
         /\ t # Marks => t \in 0..Latest /\ ours[f] <= t /\ theirs[f] <= t
         /\ t = ours[f] \/ ours[f] = base[f] \/ t = Marks
         /\ t = theirs[f] \/ theirs[f] = base[f] \/ t = Marks
         /\ ours[f] = base[f] => t = theirs[f]
         /\ theirs[f] = base[f] => t = ours[f]
BY DEF Merged, Marks, Trees, Types, Latest

\* Files that are checked out have their types.
LEMMA MergedType ==
  ASSUME NEW base \in [Files -> Int], NEW ours \in [Files -> Int], NEW theirs \in [Files -> Int]
  PROVE  Merged(base, ours, theirs) \in [Files -> Int]
BY DEF Merged, Marks

\* The sides of a merge may change places.
LEMMA MergedConflicts ==
  ASSUME NEW base \in Trees, NEW ours \in Trees, NEW theirs \in Trees, Types
  PROVE  \A f \in Files : Merged(base, ours, theirs)[f] = Marks
                            <=> Merged(base, theirs, ours)[f] = Marks
BY DEF Merged, Marks, Trees, Types, Latest

-----------------------------------------------------------------------------
(* How the repository grows                                                *)

\* Commits are only added, and so are versions.
Grows ==
  /\ \A x \in DOMAIN commits : x \in DOMAIN commits' /\ commits'[x] = commits[x]
  /\ Latest <= Latest'
\* Main moves forward along a line.
Forward ==
  /\ Line(main)' /\ main' \in DOMAIN commits'
  /\ Ancestors(main) \subseteq Ancestors(main)'
  /\ \A f \in Files : TreeOf(main)[f] <= TreeOf(main)'[f]

\* Commits that stay the same are still a graph, while versions are added.
LEMMA SameGrows ==
  ASSUME Types, GraphInv, UNCHANGED commits, Latest <= Latest', Latest \in Nat, Latest' \in Nat
  PROVE  Grows /\ GraphInv'
<1>1. Trees \subseteq Trees'
  BY DEF Trees
<1>2. ASSUME NEW x \in DOMAIN commits PROVE CommitInv(x)'
  BY <1>1 DEF GraphInv, CommitInv, TreeOf, ParentsOf, Ancestors, Lineage
<1> QED BY <1>2 DEF Grows, GraphInv

\* A commit that takes its parents further is added to the graph.
LEMMA NewCommit ==
  ASSUME Types, GraphInv, NEW tree \in Trees, NEW parents \in Seq(DOMAIN commits),
         parents # <<>>,
         \A i \in DOMAIN parents, f \in Files : TreeOf(parents[i])[f] <= tree[f],
         NEW new, new = Len(commits) + 1,
         commits' = Append(commits, Commit(tree, parents)), UNCHANGED edits
  PROVE  /\ commits' \in Seq(Commits) /\ Grows /\ GraphInv'
         /\ DOMAIN commits' = DOMAIN commits \cup {new} /\ new \notin DOMAIN commits
         /\ TreeOf(new)' = tree /\ ParentsOf(new)' = parents
         /\ Ancestors(new)' = Lineage(new, parents)
<1> DEFINE c == Commit(tree, parents)
<1>1. new \in Nat /\ DOMAIN commits = 1..(new - 1) /\ c.tree = tree /\ c.parents = parents
      /\ c.ancestors = Lineage(new, parents) /\ parents \in Seq(Nat) /\ parents # <<>>
  BY DEF Types, Commit, Lineage
<1>2. \A i \in DOMAIN parents : parents[i] \in DOMAIN commits
  OBVIOUS
<1>3. \A x \in DOMAIN commits : x \in Ancestors(x) /\ 1 \in Ancestors(x) /\ Ancestors(x) \subseteq 1..x
  BY DEF GraphInv, CommitInv
<1>4. Lineage(new, parents) \subseteq 1..new /\ new \in Lineage(new, parents)
  BY <1>1, <1>2, <1>3 DEF Lineage
<1>5. c \in Commits
  <2>1. tree \in [Files -> Int]
    BY DEF Trees, Types, Latest
  <2>2. Lineage(new, parents) \in SUBSET Nat
    BY <1>1, <1>4
  <2> QED BY <1>1, <2>1, <2>2 DEF Commits, Commit
<1>6. PICK i \in DOMAIN parents : TRUE
  BY <1>1
<1>7. 1 \in Lineage(new, parents)
  BY <1>2, <1>3, <1>6 DEF Lineage
<1> HIDE DEF c
<1>8. /\ commits' \in Seq(Commits) /\ DOMAIN commits' = 1..new
      /\ \A x \in DOMAIN commits : x \in DOMAIN commits' /\ commits'[x] = commits[x]
      /\ commits'[new] = c
  BY <1>1, <1>5 DEF Types, c
<1>9. Latest' = Latest /\ Trees' = Trees /\ Grows
  BY <1>8 DEF Latest, Trees, Grows, Types
<1>10. \A x \in DOMAIN commits : Ancestors(x)' = Ancestors(x) /\ TreeOf(x)' = TreeOf(x)
  BY <1>8 DEF Ancestors, TreeOf
<1>11. Ancestors(new)' = Lineage(new, parents) /\ TreeOf(new)' = tree
       /\ ParentsOf(new)' = parents
  BY <1>1, <1>8 DEF Ancestors, TreeOf, ParentsOf
<1>12. DOMAIN commits' = DOMAIN commits \cup {new} /\ new \notin DOMAIN commits
  BY <1>1, <1>8
<1>13. ASSUME NEW x \in DOMAIN commits PROVE CommitInv(x)'
  <2>1. CommitInv(x)
    BY DEF GraphInv
  <2>2. Ancestors(x) \subseteq DOMAIN commits
    BY <1>1, <2>1 DEF CommitInv
  <2>3. ParentsOf(x)' = ParentsOf(x) /\ ParentsOf(x) \in Seq(DOMAIN commits)
    BY <1>8, <2>1 DEF ParentsOf, CommitInv
  <2>4. ParentsOf(x) # <<>> => Ancestors(x)' = Lineage(x, ParentsOf(x))'
    <3>1. \A k \in DOMAIN ParentsOf(x) : ParentsOf(x)[k] \in DOMAIN commits
      BY <2>3
    <3>2. Lineage(x, ParentsOf(x))' = Lineage(x, ParentsOf(x))
      BY <1>10, <2>3, <3>1 DEF Lineage
    <3> QED BY <1>10, <2>1, <3>2 DEF CommitInv
  <2>5. ParentsOf(x)' \in Seq(DOMAIN commits')
    BY <2>3, <1>12
  <2>6. \A y \in Ancestors(x)' : Ancestors(y)' \subseteq Ancestors(x)'
                              /\ \A f \in Files : TreeOf(y)'[f] <= TreeOf(x)'[f]
    BY <1>10, <2>1, <2>2 DEF CommitInv
  <2> QED BY <1>9, <1>10, <2>1, <2>3, <2>4, <2>5, <2>6 DEF CommitInv
<1>14. CommitInv(new)'
  <2>1. Lineage(new, parents)' = Lineage(new, parents)
    BY <1>2, <1>10 DEF Lineage
  <2>2. parents \in Seq(DOMAIN commits')
    BY <1>12
  <2>3. ASSUME NEW y \in Lineage(new, parents), y # new
        PROVE  /\ Ancestors(y)' \subseteq Lineage(new, parents)
               /\ \A f \in Files : TreeOf(y)'[f] <= tree[f]
    <3>1. PICK k \in DOMAIN parents : y \in Ancestors(parents[k])
      BY <2>3 DEF Lineage
    <3>2. CommitInv(parents[k])
      BY <1>2 DEF GraphInv
    <3>3. y \in DOMAIN commits /\ Ancestors(y) \subseteq Ancestors(parents[k])
      <4>1. parents[k] \in 1..(new - 1) /\ y \in 1..parents[k]
        BY <1>1, <1>2, <1>3, <3>1
      <4>2. y \in DOMAIN commits
        BY <1>1, <4>1
      <4> QED BY <3>1, <3>2, <4>2 DEF CommitInv
    <3>4. ASSUME NEW f \in Files PROVE TreeOf(y)[f] <= tree[f]
      <4>1. TreeOf(y)[f] <= TreeOf(parents[k])[f] /\ TreeOf(parents[k])[f] <= tree[f]
        BY <3>1, <3>2 DEF CommitInv
      <4>2. TreeOf(y) \in Trees /\ TreeOf(parents[k]) \in Trees /\ Latest \in Nat
        BY <1>2, <3>3, CommitFacts, LatestNat
      <4>3. TreeOf(y)[f] \in Int /\ TreeOf(parents[k])[f] \in Int /\ tree[f] \in Int
        BY <4>2 DEF Trees
      <4> QED BY <4>1, <4>3
    <3> QED BY <1>10, <3>3, <3>4 DEF Lineage
  <2>4. ASSUME NEW f \in Files PROVE tree[f] <= tree[f]
    <3>1. tree[f] \in Int
      BY DEF Trees
    <3> QED BY <3>1
  <2> QED BY <1>1, <1>4, <1>7, <1>9, <1>11, <2>1, <2>2, <2>3, <2>4 DEF CommitInv
<1> QED BY <1>8, <1>9, <1>11, <1>12, <1>13, <1>14 DEF GraphInv

\* Main goes to a commit on top of it.
LEMMA MainMoves ==
  ASSUME Types, GraphInv, Line(main), Grows, GraphInv', DOMAIN commits' \subseteq Nat,
         NEW new \in DOMAIN commits', main' = new, ParentsOf(new)' = <<main>>
  PROVE  Forward /\ Ancestors(new)' = {new} \cup Ancestors(main)
<1>1. main \in DOMAIN commits /\ Ancestors(main)  \subseteq DOMAIN commits
      /\ main \in Ancestors(main)
  BY DEF Types, GraphInv, CommitInv
<1>2. CommitInv(new)'
  BY DEF GraphInv
<1>3. \A x \in DOMAIN commits : commits[x] = commits'[x]
  BY DEF Grows
<1>4. \A x \in DOMAIN commits : Ancestors(x)' = Ancestors(x) /\ TreeOf(x)' = TreeOf(x)
  BY <1>3 DEF Ancestors, TreeOf
<1>5. Ancestors(new)' = {new} \cup Ancestors(main)
  <2>1. ParentsOf(new)' # <<>> /\ DOMAIN ParentsOf(new)' = {1} /\ ParentsOf(new)'[1] = main
    OBVIOUS
  <2>2. Ancestors(new)' = Lineage(new, ParentsOf(new))'
    BY <1>2, <2>1 DEF CommitInv
  <2>3. commits'[main].ancestors = Ancestors(main)
    BY <1>1, <1>3 DEF Ancestors
  <2>4. Lineage(new, ParentsOf(new))' = {new} \cup commits'[main].ancestors
    BY <2>1 DEF Lineage, Ancestors
  <2> QED BY <2>2, <2>3, <2>4
<1>6. ASSUME NEW a \in Ancestors(main)', NEW b \in Ancestors(main)', a <= b
      PROVE  a \in Ancestors(b)'
  <2>1. a \in {new} \cup Ancestors(main) /\ b \in {new} \cup Ancestors(main)
    BY <1>5, <1>6
  <2>2. CASE b = new
    BY <1>5, <2>1, <2>2
  <2>3. CASE a # new /\ b # new
    BY <1>1, <1>4, <1>6, <2>1, <2>3 DEF Line
  <2>4. CASE a = new /\ b # new
    <3>1. b \in Ancestors(main)' /\ CommitInv(b)' /\ b \in Ancestors(new)'
      BY <1>1, <1>5, <2>1, <2>4 DEF GraphInv, Grows
    <3>2. b <= new /\ b \in Nat /\ new \in Nat
      BY <1>2, <3>1 DEF CommitInv
    <3> QED BY <1>6, <2>4, <3>2
  <2> QED BY <2>2, <2>3, <2>4
<1>7. Ancestors(main)' = {new} \cup Ancestors(main)
  BY <1>5
<1>8. \A f \in Files : TreeOf(main)[f] <= TreeOf(main)'[f]
  <2>1. main \in Ancestors(new)' /\ TreeOf(main)' = TreeOf(new)'
    BY <1>1, <1>5 DEF TreeOf
  <2>2. TreeOf(main)' = commits'[new].tree /\ commits'[main].tree = TreeOf(main)
    BY <1>1, <1>3 DEF TreeOf
  <2>3. \A y \in Ancestors(new)' : \A f \in Files : commits'[y].tree[f] <= commits'[new].tree[f]
    BY <1>2 DEF CommitInv, TreeOf
  <2> QED BY <2>1, <2>2, <2>3
<1> QED BY <1>5, <1>6, <1>7, <1>8 DEF Forward, Line

-----------------------------------------------------------------------------
(* What growth leaves true                                                 *)

\* What a commit is does not change.
LEMMA Stable ==
  ASSUME Types, GraphInv, Grows, Forward
  PROVE  /\ \A x \in DOMAIN commits :
              /\ x \in DOMAIN commits'
              /\ Ancestors(x)' = Ancestors(x) /\ TreeOf(x)' = TreeOf(x)
              /\ ParentsOf(x)' = ParentsOf(x)
         /\ \A x \in DOMAIN commits : \A m : Onto(x, m) => Onto(x, m)'
         /\ \A m \in Ancestors(main) : m \in DOMAIN commits /\ m \in Ancestors(main)'
<1>1. \A x \in DOMAIN commits :
        /\ x \in DOMAIN commits'
        /\ Ancestors(x)' = Ancestors(x) /\ TreeOf(x)' = TreeOf(x) /\ ParentsOf(x)' = ParentsOf(x)
  BY DEF Grows, Ancestors, TreeOf, ParentsOf
<1>2. ASSUME NEW x \in DOMAIN commits, NEW m, Onto(x, m) PROVE Onto(x, m)'
  <2>1. Ancestors(x) \subseteq DOMAIN commits
    BY CommitFacts
  <2>2. \A g \in Ancestors(x) : Ancestors(g)' = Ancestors(g)
    BY <1>1, <2>1
  <2> QED BY <1>1, <1>2, <2>2 DEF Onto
<1>3. \A m \in Ancestors(main) : m \in DOMAIN commits /\ m \in Ancestors(main)'
  BY CommitFacts DEF Forward, Types
<1> QED BY <1>1, <1>2, <1>3

\* A merge that was recorded stays one.
LEMMA StableSquashes ==
  ASSUME Types, GraphInv, Grows, Forward, NEW a, NEW id, Squashes(a, id)
  PROVE  Squashes(a, id)'
<1>1. PICK m \in Ancestors(main) :
        /\ Onto(id, m)
        /\ \A f \in Files : TreeOf(id)[f] \in {TreeOf(m)[f], TreeOf(a)[f]}
  BY DEF Squashes
<1>2. m \in DOMAIN commits /\ m \in Ancestors(main)' /\ Onto(id, m)'
  BY <1>1, Stable DEF Squashes
<1>3. TreeOf(id)' = TreeOf(id) /\ TreeOf(m)' = TreeOf(m) /\ TreeOf(a)' = TreeOf(a)
      /\ a \in DOMAIN commits' /\ id \in DOMAIN commits'
  BY <1>2, Stable DEF Squashes
<1> QED BY <1>1, <1>2, <1>3 DEF Squashes

\* The commits of an approval stay.
LEMMA StableApprovals ==
  ASSUME Types, GraphInv, Grows, Forward, NEW a, ApprovalInv(a)
  PROVE  ApprovalInv(a)' /\ (Conflicting(a) => Conflicting(a)')
<1>1. ApprovalInv(a)'
  BY DEF ApprovalInv, Grows
<1>2. ASSUME Conflicting(a) PROVE Conflicting(a)'
  <2>1. a.commit \in DOMAIN commits
    BY <1>2 DEF ApprovalInv, Conflicting
  <2>2. Ancestors(a.commit)' = Ancestors(a.commit) /\ a.target \in Ancestors(main)'
    BY <1>2, <2>1, Stable DEF Conflicting
  <2> QED BY <1>2, <2>2 DEF Conflicting
<1> QED BY <1>1, <1>2

\* The merge base of two commits stays.
LEMMA StableBase ==
  ASSUME Types, GraphInv, Grows, Forward, NEW a, ApprovalInv(a), a.kind = "Resolving"
  PROVE  /\ Prepared(a)' = Prepared(a)
         /\ TreeOf(a.target)' = TreeOf(a.target)
<1>1. a.commit \in DOMAIN commits /\ a.target \in DOMAIN commits
  BY DEF ApprovalInv
<1>2. Ancestors(a.commit)' = Ancestors(a.commit) /\ Ancestors(a.target)' = Ancestors(a.target)
      /\ TreeOf(a.commit)' = TreeOf(a.commit) /\ TreeOf(a.target)' = TreeOf(a.target)
  BY <1>1, Stable
<1>3. Base(a.target, a.commit)' = Base(a.target, a.commit)
  BY <1>2 DEF Base
<1>4. Base(a.target, a.commit) \in DOMAIN commits
  BY <1>1, BaseIs, CommitFacts
<1>5. TreeOf(Base(a.target, a.commit))' = TreeOf(Base(a.target, a.commit))
  BY <1>3, <1>4 DEF Grows, TreeOf
<1> QED BY <1>2, <1>5 DEF Prepared, Merged

\* What the user has approved stays approved, while main moves forward.
LEMMA StableCovered ==
  ASSUME Types, GraphInv, Grows, Forward, NEW s \in Sessions, NEW c,
         Covered(s, c), consent[s] \subseteq consent'[s]
  PROVE  Covered(s, c)'
<1>1. c \in DOMAIN commits /\ c \in DOMAIN commits' /\ TreeOf(c)' = TreeOf(c)
  BY Stable DEF Covered
<1>2. CASE \A f \in Files : TreeOf(c)[f] \in consent[s]
  BY <1>1, <1>2 DEF Covered
<1>3. CASE \E m \in Ancestors(main) : Onto(c, m) /\ Adds(s, c, m)
  <2>1. PICK m \in Ancestors(main) : Onto(c, m) /\ Adds(s, c, m)
    BY <1>3
  <2>2. m \in Ancestors(main)' /\ Onto(c, m)' /\ TreeOf(m)' = TreeOf(m)
    BY <1>1, <2>1, Stable
  <2>3. Adds(s, c, m)'
    BY <1>1, <2>1, <2>2 DEF Adds
  <2> QED BY <1>1, <2>2, <2>3 DEF Covered
<1> QED BY <1>2, <1>3 DEF Covered

\* A worktree that is left alone, while its conflict is not forgotten.
LEMMA KeepsWorktree ==
  ASSUME Types, GraphInv, Grows, Forward, Latest' \in Nat, NEW t \in Sessions, WorktreeInv(t),
         wt'[t] = wt[t],
         store[t].approval.kind = "Resolving" =>
           /\ store'[t].approval.kind = "Resolving"
           /\ store'[t].approval.paths = store[t].approval.paths
  PROVE  WorktreeInv(t)'
<1>1. \A pair \in wt[t].merges : Squashes(pair[1], pair[2])'
  BY StableSquashes DEF WorktreeInv
<1>2. wt[t].branch \in {0} \cup DOMAIN commits' /\ wt[t].mergeHead \in {0} \cup DOMAIN commits'
  BY Stable DEF WorktreeInv
<1>3. ASSUME Present(t), NEW f \in Files PROVE FileInv(t, f)'
  <2>1. FileInv(t, f) /\ wt[t].branch \in DOMAIN commits
    BY <1>3 DEF WorktreeInv
  <2>2. TreeOf(wt[t].branch)' = TreeOf(wt[t].branch)
        /\ (wt[t].mergeHead # 0 => TreeOf(wt[t].mergeHead)' = TreeOf(wt[t].mergeHead))
    BY <2>1 DEF TreeOf, Grows, WorktreeInv
  <2>3. 0..Latest \subseteq 0..Latest'
    BY LatestNat DEF Grows
  <2> QED BY <2>1, <2>2, <2>3 DEF FileInv, TreeOf
<1>4. Present(t)' <=> Present(t)
  BY DEF Present
<1> QED BY <1>1, <1>2, <1>3, <1>4 DEF WorktreeInv

\* What the actor of a session knows stays true while others act.
Apart(t) ==
  /\ actor'[t] = actor[t]
  /\ store'[t].approval = store[t].approval /\ store'[t].asked = store[t].asked
  /\ wt'[t].tree = wt[t].tree /\ wt'[t].mergeHead = wt[t].mergeHead
  /\ wt'[t].merges = wt[t].merges
  /\ wt'[t].branch = wt[t].branch \/ wt[t].mergeHead = 0

\* A session of which nothing more is stored keeps what is stored.
LEMMA KeepsStore ==
  ASSUME Types, GraphInv, Grows, Forward, NEW t \in Sessions, StoreInv(t),
         store'[t].approval = store[t].approval, store'[t].asked = store[t].asked
  PROVE  StoreInv(t)'
BY StableApprovals DEF StoreInv

\* An actor that does nothing knows what it knew, while its worktree stays.
LEMMA KeepsActor ==
  ASSUME Types, GraphInv, Grows, Forward, NEW t \in Sessions, ActorInv(t), Apart(t)
  PROVE  ActorInv(t)'
<1>1. PICK a, c : a = actor[t].approval /\ c = actor[t].commit
  OBVIOUS
<1>2. ApprovalInv(a) /\ ApprovalInv(a)'
  BY <1>1, StableApprovals DEF ActorInv
<1>3. ApprovalInv(actor[t].approval)'
  BY <1>1, <1>2 DEF ApprovalInv, Apart
<1>4. (Present(t)' <=> Present(t)) /\ (Believes(t) => Believes(t)')
  BY DEF Present, Believes, Apart
<1>5. actor[t].pc = "describing" => ParentsOf(c)' # <<>> /\ c \in DOMAIN commits'
  BY <1>1, Stable DEF ActorInv
<1>6. actor'[t] = actor[t] /\ wt'[t].tree = wt[t].tree /\ wt'[t].mergeHead = wt[t].mergeHead
  BY DEF Apart
<1>7. \A x \in DOMAIN commits : x \in DOMAIN commits'
  BY DEF Grows
<1> QED BY <1>1, <1>3, <1>4, <1>5, <1>6, <1>7 DEF ActorInv, ParentsOf

\* The approval and the commit that an actor comes to have.
LEMMA ConsentOf ==
  ASSUME NEW s \in Sessions, NEW a, a = actor'[s].approval, NEW c, c = actor'[s].commit,
         MergingInv(s, c)', PreparingInv(s, a)', ResolvingInv(s, a)', ResolvedInv(s, a, c)'
  PROVE  ConsentInv(s)'
<1>1. PICK r : r = Recorded(s, c)'
  OBVIOUS
<1>2. Recorded(s, actor[s].commit)' = r /\ Recorded(s, c)' = r
  BY <1>1 DEF Recorded
<1>3. MergingInv(s, actor[s].commit)'
  BY <1>2 DEF MergingInv, Covered, Adds, Onto, Ancestors, TreeOf
<1>4. Conflicting(a)' <=> Conflicting(actor[s].approval)'
  BY DEF Conflicting, Ancestors
<1>5. Prepared(a)' = Prepared(actor[s].approval)'
  BY DEF Prepared, Merged, TreeOf, Base, Ancestors
<1>6. PreparingInv(s, actor[s].approval)'
  BY <1>4, <1>5 DEF PreparingInv, TreeOf
<1>7. ResolvingInv(s, actor[s].approval)'
  BY <1>4 DEF ResolvingInv, ResolutionPending, TreeOf
<1>8. ResolvedInv(s, actor[s].approval, actor[s].commit)'
  BY <1>4 DEF ResolvedInv, ParentsOf, Adds, TreeOf
<1> QED BY <1>3, <1>6, <1>7, <1>8 DEF ConsentInv

\* What an approved merge may bring to main, it may bring later.
LEMMA MergingGoesOn ==
  ASSUME Types, GraphInv, Grows, Forward, NEW s \in Sessions, NEW c, MergingInv(s, c),
         actor[s].pc \in {"approved", "ready", "checked"}, wt'[s].merges = wt[s].merges,
         consent[s] \subseteq consent'[s]
  PROVE  MergingInv(s, c)'
<1>1. PICK r : r = Recorded(s, c)
  OBVIOUS
<1>2. Covered(s, r)' /\ Given(s)'
  BY <1>1, StableCovered DEF MergingInv, Given
<1>3. Recorded(s, c)' = r
  BY <1>1 DEF Recorded
<1>4. Covered(s, Recorded(s, c))' <=> Covered(s, r)'
  BY <1>3 DEF Covered, Adds, Onto, Ancestors, TreeOf
<1> QED BY <1>2, <1>4 DEF MergingInv

\* What else an actor that is left alone may bring to main.
LEMMA BesideResolving ==
  ASSUME Types, GraphInv, Grows, Forward, NEW t \in Sessions, ActorInv(t), ConsentInv(t),
         actor'[t] = actor[t], wt'[t].merges = wt[t].merges, consent[t] \subseteq consent'[t],
         NEW a, a = actor[t].approval, ResolvingInv(t, a)'
  PROVE  ConsentInv(t)'
<1>0. PICK c : c = actor[t].commit
  OBVIOUS
<1>1. actor'[t] = actor[t] /\ actor'[t].approval = a /\ actor'[t].commit = c
  BY <1>0
<1>2. Given(t) => Given(t)'
  BY DEF Given
<1>3. ApprovalInv(a) /\ (Conflicting(a) => Conflicting(a)')
  BY <1>0, StableApprovals DEF ActorInv
<1>4. a.kind = "Resolving" => Prepared(a)' = Prepared(a) /\ TreeOf(a.target)' = TreeOf(a.target)
  BY <1>3, StableBase
<1>5. MergingInv(t, c)'
  <2>1. MergingInv(t, c)
    BY <1>0 DEF ConsentInv
  <2>2. CASE actor[t].pc \in {"approved", "ready", "checked"}
    BY <2>1, <2>2, MergingGoesOn
  <2>3. CASE actor[t].pc \notin {"approved", "ready", "checked"}
    BY <1>1, <2>3 DEF MergingInv
  <2> QED BY <2>2, <2>3
<1>8. ResolvedInv(t, a, c)'
  <2>1. SUFFICES ASSUME actor[t].pc = "describing", Given(t), Conflicting(a),
                        ParentsOf(c) = <<a.commit, a.target>>, Adds(t, c, a.target)
                 PROVE  /\ Given(t)' /\ Conflicting(a)'
                        /\ ParentsOf(c)' = <<a.commit, a.target>> /\ Adds(t, c, a.target)'
    BY <1>0, <1>1 DEF ConsentInv, ResolvedInv, SkipsQuestion
  <2>2. c \in DOMAIN commits /\ a.target \in DOMAIN commits
    BY <1>0, <1>3, <2>1 DEF ActorInv, ApprovalInv, Conflicting
  <2>3. commits'[c] = commits[c] /\ commits'[a.target] = commits[a.target]
    BY <2>2 DEF Grows
  <2>4. ParentsOf(c)' = ParentsOf(c) /\ Adds(t, c, a.target)'
    BY <2>1, <2>3 DEF Adds, TreeOf, ParentsOf
  <2> QED BY <1>2, <1>3, <2>1, <2>4
<1>9. PreparingInv(t, a)'
  <2>1. SUFFICES ASSUME actor[t].pc = "preparing", PreparingInv(t, a)
                 PROVE  PreparingInv(t, a)'
    BY <1>0, <1>1 DEF ConsentInv, PreparingInv
  <2>2. Given(t) /\ Conflicting(a) /\ a.kind = "Resolving"
    BY <2>1 DEF PreparingInv, Conflicting
  <2> QED BY <1>2, <1>3, <1>4, <2>1, <2>2 DEF PreparingInv
<1> QED BY <1>1, <1>5, <1>8, <1>9, ConsentOf

\* An actor that does nothing merges what it would have merged.
LEMMA KeepsConsent ==
  ASSUME Types, GraphInv, Grows, Forward, NEW t \in Sessions, ActorInv(t), ConsentInv(t),
         Apart(t), consent[t] \subseteq consent'[t]
  PROVE  ConsentInv(t)'
<1>0. PICK a : a = actor[t].approval
  OBVIOUS
<1>1. actor'[t] = actor[t] /\ wt'[t].merges = wt[t].merges
  BY DEF Apart
<1>2. Given(t) => Given(t)'
  BY DEF Given
<1>3. ApprovalInv(a) /\ (Conflicting(a) => Conflicting(a)')
  BY <1>0, StableApprovals DEF ActorInv
<1>4. a.kind = "Resolving" => TreeOf(a.target)' = TreeOf(a.target)
  BY <1>3, StableBase
<1>6. Resolves(t)' => Resolves(t) /\ wt[t].mergeHead = a.target /\ a.target # 0
  <2>1. Resolves(t)' => Resolves(t)
    BY DEF Resolves, Apart
  <2>2. Resolves(t) => wt[t].mergeHead = a.target /\ Conflicting(a)
    BY <1>0 DEF ConsentInv, ResolvingInv, ResolutionPending
  <2>3. Conflicting(a) => a.target # 0
    BY <1>3, CommitFacts DEF ApprovalInv, Conflicting
  <2> QED BY <2>1, <2>2, <2>3
<1>7. ResolvingInv(t, a)'
  <2>1. SUFFICES ASSUME Resolves(t)'
                 PROVE  /\ Given(t)' /\ Conflicting(a)' /\ ResolutionPending(t, a)'
                        /\ \A f \in Files :
                             wt'[t].tree[f] \in {Marks, TreeOf(a.target)'[f]} \cup consent'[t]
    BY DEF ResolvingInv
  <2>2. /\ Given(t) /\ Conflicting(a) /\ ResolutionPending(t, a)
        /\ \A f \in Files : wt[t].tree[f] \in {Marks, TreeOf(a.target)[f]} \cup consent[t]
    BY <1>0, <1>6, <2>1 DEF ConsentInv, ResolvingInv
  <2>3. ResolutionPending(t, a)'
    BY <1>6, <2>1, <2>2 DEF ResolutionPending, Apart
  <2>4. TreeOf(a.target)' = TreeOf(a.target) /\ wt'[t].tree = wt[t].tree
    BY <1>4, <2>2 DEF Conflicting, Apart
  <2> QED BY <1>2, <1>3, <2>2, <2>3, <2>4
<1> QED BY <1>0, <1>1, <1>7, BesideResolving

-----------------------------------------------------------------------------
(* Steps of one session                                                    *)

\* The repository is left alone, but for the edits that are counted.
LEMMA Still ==
  ASSUME Types, RepositoryInv, UNCHANGED repository, edits' \in [worktrees : Nat, root : Nat],
         Latest <= Latest'
  PROVE  Grows /\ Forward /\ GraphInv' /\ RootInv' /\ Latest' \in Nat
<1>1. Latest' \in Nat /\ Latest \in Nat
  BY DEF Types, Latest
<1>2. Grows /\ GraphInv'
  BY <1>1, SameGrows DEF repository, RepositoryInv
<1>3. UNCHANGED <<commits, main, root>>
  BY DEF repository
<1>4. main \in DOMAIN commits /\ TreeOf(main) \in Trees
  BY CommitFacts DEF Types, RepositoryInv
<1>5. Forward
  <2>1. \A f \in Files : TreeOf(main)[f] <= TreeOf(main)[f]
    BY <1>4, LatestNat DEF Trees
  <2> QED BY <1>3, <1>4, <2>1 DEF Forward, Line, Ancestors, TreeOf, RepositoryInv
<1>6. RootInv'
  BY <1>1, <1>3 DEF RootInv, RepositoryInv, Trees, TreeOf
<1> QED BY <1>1, <1>2, <1>5, <1>6

\* The pruner keeps its claim while no actor is claimed or let go.
LEMMA KeepsPruner ==
  ASSUME Types, PrunerInv, UNCHANGED pruner,
         \A t \in Sessions : /\ actor'[t].pc = "pruning" <=> actor[t].pc = "pruning"
                             /\ actor[t].pc = "pruning" => wt'[t].tree = wt[t].tree
  PROVE  PrunerInv'
BY DEF PrunerInv, Present

\* Where a merge still relies on having looked for readers.
Reading == {"ready", "checked", "merged"}

\* Merges go on to keep a worktree that is read, while no fork is added.
LEMMA KeepsReaders ==
  ASSUME Types, ReadersInv, regained \subseteq regained',
         \A t \in Sessions :
           /\ store'[t].source \in {store[t].source, None}
           /\ actor'[t].pc \in Reading => actor[t].pc \in Reading /\ actor'[t].keep = actor[t].keep
  PROVE  ReadersInv'
BY MergeAssumption DEF ReadersInv, Reading

\* The others are left alone.
Only(s) ==
  \A t \in Sessions \ {s} :
    /\ actor'[t] = actor[t] /\ store'[t] = store[t] /\ wt'[t] = wt[t]
    /\ consent[t] \subseteq consent'[t]

\* A session keeps its part of the invariant when another one acts.
LEMMA ApartKeeps ==
  ASSUME Types, GraphInv, Grows, Forward, NEW t \in Sessions, SessionInv(t), ConsentInv(t),
         Apart(t), WorktreeInv(t)', consent[t] \subseteq consent'[t]
  PROVE  SessionInv(t)' /\ ConsentInv(t)'
<1>1. store'[t].approval = store[t].approval /\ store'[t].asked = store[t].asked
  BY DEF Apart
<1>2. StoreInv(t)'
  BY <1>1, KeepsStore DEF SessionInv
<1> QED BY <1>2, KeepsActor, KeepsConsent DEF SessionInv

\* So do all the sessions but the one that acts,
LEMMA OtherKeeps ==
  ASSUME Types, GraphInv, Grows, Forward, Latest' \in Nat, NEW t \in Sessions,
         SessionInv(t), ConsentInv(t),
         wt'[t] = wt[t], actor'[t] = actor[t], store'[t].approval = store[t].approval,
         store'[t].asked = store[t].asked, consent[t] \subseteq consent'[t]
  PROVE  SessionInv(t)' /\ ConsentInv(t)'
<1>1. Apart(t)
  BY DEF Apart
<1>2. WorktreeInv(t)'
  BY KeepsWorktree DEF SessionInv
<1> QED BY <1>1, <1>2, ApartKeeps

\* which leaves the one that acts to be looked at.
LEMMA OneMoves ==
  ASSUME MergeInv, Types', GraphInv', RootInv', Grows, Forward,
         NEW s \in Sessions, Only(s), SessionInv(s)', ConsentInv(s)',
         UNCHANGED pruner, actor[s].pc # "pruning", actor'[s].pc # "pruning", ReadersInv'
  PROVE  MergeInv'
<1>1. Latest' \in Nat
  BY DEF Types, Latest
<1>2. ASSUME NEW t \in Sessions PROVE SessionInv(t)' /\ ConsentInv(t)'
  BY <1>1, OtherKeeps DEF Only, MergeInv, RepositoryInv
<1>3. PrunerInv'
  BY KeepsPruner DEF Only, MergeInv
<1> QED BY <1>2, <1>3 DEF MergeInv, RepositoryInv, Forward

\* A session that is down.
LEMMA DownFields ==
  /\ Down \in Actors /\ Down.pc = "down" /\ Down.approval = NoApproval
  /\ NoApproval.kind = "None" /\ ~NoApproval.running
BY DEF Down, NoApproval, Actors, Approvals, Pcs, Kinds, Readers

\* A process that has ended knows nothing and merges nothing.
LEMMA DownKeeps ==
  ASSUME Types, NEW s \in Sessions, actor'[s] = Down
  PROVE  ActorInv(s)' /\ ConsentInv(s)' /\ Down \in Actors /\ Down.pc = "down"
<1>1. Down.pc = "down" /\ Down.approval = NoApproval /\ ~NoApproval.running
      /\ NoApproval.kind = "None" /\ Down \in Actors
  BY DownFields
<1>2. ActorInv(s)'
  BY <1>1 DEF ActorInv, ApprovalInv, Merges
<1>3. ConsentInv(s)'
  BY <1>1 DEF ConsentInv, MergingInv, PreparingInv, ResolvingInv, ResolvedInv, Resolves
<1> QED BY <1>1, <1>2, <1>3

\* A session that merges and resolves nothing.
LEMMA QuietKeeps ==
  ASSUME NEW s \in Sessions,
         actor'[s].pc \notin {"approved", "ready", "checked", "preparing", "proposed", "describing"},
         ~actor'[s].approval.running
  PROVE  ConsentInv(s)'
BY DEF ConsentInv, MergingInv, PreparingInv, ResolvingInv, ResolvedInv, Resolves

\* A paused approval is stored.
LEMMA PausedFields ==
  ASSUME NEW a \in Approvals
  PROVE  /\ Paused(a) \in Approvals
         /\ Paused(a).kind = a.kind /\ Paused(a).commit = a.commit
         /\ Paused(a).target = a.target /\ Paused(a).paths = a.paths /\ ~Paused(a).running
BY DEF Paused, Approvals

\* What is asked, and what was answered.
LEMMA AskedFields ==
  ASSUME NEW c \in Nat
  PROVE  /\ NoApproval \in Approvals /\ Awaiting(c) \in Approvals /\ Approved(c) \in Approvals
         /\ Awaiting(c).kind = "Awaiting" /\ Awaiting(c).commit = c /\ ~Awaiting(c).running
         /\ Approved(c).kind = "Approved" /\ Approved(c).commit = c /\ ~Approved(c).running
         /\ NoApproval.kind = "None" /\ ~NoApproval.running
<1>1. /\ NoApproval \in Approvals /\ NoApproval.kind = "None" /\ ~NoApproval.running
      /\ NoApproval = [kind |-> "None", commit |-> 0, target |-> 0, paths |-> {},
                       running |-> FALSE]
  BY DEF NoApproval, Approvals, Kinds
<1> QED BY <1>1 DEF Awaiting, Approved, Approvals, Kinds

\* Approvals and what the actor goes on with have their types.
LEMMA ApprovalTypes ==
  ASSUME NEW a \in Approvals, NEW c \in Nat, NEW t \in Nat, NEW P \in SUBSET Files
  PROVE  /\ NoApproval \in Approvals /\ Awaiting(c) \in Approvals /\ Approved(c) \in Approvals
         /\ Resolving(c, t, P) \in Approvals /\ Paused(a) \in Approvals
         /\ TaskStarted(a) \in Approvals
         /\ Awaiting(c).kind = "Awaiting" /\ Awaiting(c).commit = c /\ ~Awaiting(c).running
         /\ Approved(c).kind = "Approved" /\ Approved(c).commit = c /\ ~Approved(c).running
         /\ NoApproval.kind = "None" /\ ~NoApproval.running
         /\ Paused(a).kind = a.kind /\ Paused(a).commit = a.commit
         /\ Paused(a).target = a.target /\ Paused(a).paths = a.paths /\ ~Paused(a).running
         /\ TaskStarted(a) \in {NoApproval, Paused(a)}
         /\ a.kind = "Resolving" => TaskStarted(a) = Paused(a)
<1>1. /\ NoApproval \in Approvals /\ NoApproval.kind = "None" /\ ~NoApproval.running
      /\ NoApproval = [kind |-> "None", commit |-> 0, target |-> 0, paths |-> {},
                       running |-> FALSE]
  BY DEF NoApproval, Approvals, Kinds
<1>2. /\ Awaiting(c) \in Approvals /\ Approved(c) \in Approvals
      /\ Awaiting(c).kind = "Awaiting" /\ Awaiting(c).commit = c /\ ~Awaiting(c).running
      /\ Approved(c).kind = "Approved" /\ Approved(c).commit = c /\ ~Approved(c).running
  BY <1>1 DEF Awaiting, Approved, Approvals, Kinds
<1>3. Resolving(c, t, P) \in Approvals
  BY DEF Resolving, Approvals, Kinds
<1>4. Paused(a) \in Approvals
      /\ Paused(a).kind = a.kind /\ Paused(a).commit = a.commit
      /\ Paused(a).target = a.target /\ Paused(a).paths = a.paths /\ ~Paused(a).running
  BY DEF Paused, Approvals
<1>5. TaskStarted(a) \in {NoApproval, Paused(a)}
      /\ (a.kind = "Resolving" => TaskStarted(a) = Paused(a))
  BY DEF TaskStarted
<1> QED BY <1>1, <1>2, <1>3, <1>4, <1>5

\* To pause an approval again changes nothing.
LEMMA PausedIsPaused ==
  ASSUME NEW a \in Approvals, ~a.running
  PROVE  Paused(a) = a
<1>1. a.running = FALSE /\ "running" \in DOMAIN a
  BY DEF Approvals
<1>2. Paused(a) = [x \in DOMAIN a |-> IF x = "running" THEN FALSE ELSE a[x]]
  BY <1>1 DEF Paused
<1>3. \A x \in DOMAIN a : (IF x = "running" THEN FALSE ELSE a[x]) = a[x]
  BY <1>1
<1>4. a = [x \in DOMAIN a |-> a[x]]
  BY DEF Approvals
<1> QED BY <1>2, <1>3, <1>4

\* An actor at rest is an actor.
LEMMA IdleType ==
  ASSUME Types, NEW s \in Sessions
  PROVE  /\ Idle(s) \in Actors /\ Idle(s).pc = "idle" /\ Idle(s).commit = 0
         /\ Idle(s).approval = NoApproval /\ Idle(s).turn = "none"
BY DEF Types, Idle, Down, NoApproval, Actors, Approvals, Pcs, Kinds, Readers

\* What record_merge leaves in the store and in the actor.
LEMMA Recording ==
  ASSUME Types, NEW s \in Sessions, NEW next \in Approvals, NEW rest \in Actors,
         \/ RecordMerge(s, next, rest)
         \/ /\ Fault /\ store' = Records(s, next)[3]
            /\ actor' = [actor EXCEPT ![s] = [rest EXCEPT !.approval = next]]
  PROVE  /\ store' \in [Sessions -> Stored] /\ actor' \in [Sessions -> Actors] /\ faults' \in Nat
         /\ \A t \in Sessions \ {s} : store'[t] = store[t] /\ actor'[t] = actor[t]
         /\ store'[s].worktree = store[s].worktree /\ store'[s].source = store[s].source
         /\ store'[s].approval \in {store[s].approval, Paused(next)}
         /\ store'[s].asked => next.kind = "Awaiting" /\ store'[s].approval = Paused(next)
         /\ \/ /\ actor'[s] = [rest EXCEPT !.approval = next]
               /\ store'[s].approval = Paused(next)
               /\ store'[s].asked <=> next.kind = "Awaiting"
            \/ actor'[s] = Down
<1> DEFINE steps == Records(s, next)
<1>1. Paused(next) \in Approvals /\ Down \in Actors
  BY DEF Paused, Approvals, Down, NoApproval, Actors, Pcs, Kinds, Readers
<1>2. PICK one, two, three :
        /\ one = [store EXCEPT ![s].asked = FALSE]
        /\ two = [one EXCEPT ![s].approval = Paused(next)]
        /\ three = [two EXCEPT ![s].asked = (next.kind = "Awaiting")]
        /\ steps = <<one, two, three>>
  BY DEF Records
<1> HIDE DEF steps
<1>3. /\ one \in [Sessions -> Stored] /\ \A t \in Sessions \ {s} : one[t] = store[t]
      /\ one[s] = [store[s] EXCEPT !.asked = FALSE] /\ one[s] \in Stored
  <2>1. store[s] \in Stored
    BY DEF Types
  <2>2. [store[s] EXCEPT !.asked = FALSE] \in Stored
    BY <2>1 DEF Stored
  <2>3. one = [store EXCEPT ![s] = [store[s] EXCEPT !.asked = FALSE]]
    BY <1>2
  <2> QED BY <2>1, <2>2, <2>3 DEF Types
<1>6. /\ two \in [Sessions -> Stored] /\ \A t \in Sessions \ {s} : two[t] = store[t]
      /\ two[s] = [one[s] EXCEPT !.approval = Paused(next)] /\ two[s] \in Stored
  <2>1. [one[s] EXCEPT !.approval = Paused(next)] \in Stored
    BY <1>1, <1>3 DEF Stored
  <2>2. two = [one EXCEPT ![s] = [one[s] EXCEPT !.approval = Paused(next)]]
    BY <1>2
  <2> QED BY <1>3, <2>1, <2>2
<1>7. /\ three \in [Sessions -> Stored] /\ \A t \in Sessions \ {s} : three[t] = store[t]
      /\ three[s] = [two[s] EXCEPT !.asked = (next.kind = "Awaiting")]
  <2>1. [two[s] EXCEPT !.asked = (next.kind = "Awaiting")] \in Stored
    BY <1>6 DEF Stored
  <2>2. three = [two EXCEPT ![s] = [two[s] EXCEPT !.asked = (next.kind = "Awaiting")]]
    BY <1>2
  <2> QED BY <1>6, <2>1, <2>2
<1>8. /\ one[s].worktree = store[s].worktree /\ one[s].source = store[s].source
      /\ one[s].approval = store[s].approval /\ ~one[s].asked /\ ~two[s].asked
      /\ two[s].worktree = store[s].worktree /\ two[s].source = store[s].source
      /\ two[s].approval = Paused(next)
      /\ three[s].worktree = store[s].worktree /\ three[s].source = store[s].source
      /\ three[s].approval = Paused(next)
      /\ three[s].asked <=> next.kind = "Awaiting"
  <2>1. store[s] \in Stored
    BY DEF Types
  <2> QED BY <1>3, <1>6, <1>7, <2>1 DEF Stored
<1>9. ASSUME NEW st \in {one, two, three}
      PROVE  /\ st \in [Sessions -> Stored] /\ \A t \in Sessions \ {s} : st[t] = store[t]
             /\ st[s].worktree = store[s].worktree /\ st[s].source = store[s].source
             /\ st[s].approval \in {store[s].approval, Paused(next)}
             /\ st[s].asked => next.kind = "Awaiting" /\ st[s].approval = Paused(next)
  <2>1. CASE st = one
    BY <1>3, <1>8, <2>1
  <2>2. CASE st = two
    BY <1>6, <1>8, <2>2
  <2>3. CASE st = three
    BY <1>7, <1>8, <2>3
  <2> QED BY <2>1, <2>2, <2>3
<1>10. ASSUME NEW act \in Actors, actor' = [actor EXCEPT ![s] = act]
       PROVE  /\ actor' \in [Sessions -> Actors] /\ actor'[s] = act
              /\ \A t \in Sessions \ {s} : actor'[t] = actor[t]
  BY <1>10 DEF Types
<1>4. CASE store' = steps[3] /\ actor' = [actor EXCEPT ![s] = [rest EXCEPT !.approval = next]]
           /\ (UNCHANGED faults \/ Fault)
  <2>1. PICK act : act = [rest EXCEPT !.approval = next]
    OBVIOUS
  <2>2. act \in Actors
    BY <2>1 DEF Actors
  <2>3. store' = three /\ store' \in {one, two, three}
    BY <1>2, <1>4
  <2>4. faults' \in Nat
    BY <1>4 DEF Fault, Types
  <2>5. actor' = [actor EXCEPT ![s] = act]
    BY <1>4, <2>1
  <2>6. /\ actor' \in [Sessions -> Actors] /\ actor'[s] = act
        /\ \A t \in Sessions \ {s} : actor'[t] = actor[t]
    BY <1>10, <2>2, <2>5
  <2>7. /\ store' \in [Sessions -> Stored] /\ \A t \in Sessions \ {s} : store'[t] = store[t]
        /\ store'[s].worktree = store[s].worktree /\ store'[s].source = store[s].source
        /\ store'[s].approval \in {store[s].approval, Paused(next)}
        /\ store'[s].asked => next.kind = "Awaiting" /\ store'[s].approval = Paused(next)
    BY <1>9, <2>3
  <2>8. store'[s].approval = Paused(next) /\ (store'[s].asked <=> next.kind = "Awaiting")
    BY <1>8, <2>3
  <2> QED BY <2>1, <2>4, <2>6, <2>7, <2>8
<1>5. CASE Fault /\ store' \in {steps[1], steps[2]} /\ actor' = [actor EXCEPT ![s] = Down]
  <2>1. store' \in {one, two, three}
    BY <1>2, <1>5
  <2>2. faults' \in Nat
    BY <1>5 DEF Fault, Types
  <2>3. /\ actor' \in [Sessions -> Actors] /\ actor'[s] = Down
        /\ \A t \in Sessions \ {s} : actor'[t] = actor[t]
    BY <1>1, <1>5, <1>10
  <2>4. /\ store' \in [Sessions -> Stored] /\ \A t \in Sessions \ {s} : store'[t] = store[t]
        /\ store'[s].worktree = store[s].worktree /\ store'[s].source = store[s].source
        /\ store'[s].approval \in {store[s].approval, Paused(next)}
        /\ store'[s].asked => next.kind = "Awaiting" /\ store'[s].approval = Paused(next)
    BY <1>9, <2>1
  <2> QED BY <2>2, <2>3, <2>4
<1> QED BY <1>4, <1>5 DEF RecordMerge, steps

\* A record that is made beside other changes.
LEMMA RecordedBeside ==
  ASSUME MergeInv, NEW s \in Sessions, NEW next \in Approvals, NEW rest \in Actors,
         \/ RecordMerge(s, next, rest)
         \/ /\ Fault /\ store' = Records(s, next)[3]
            /\ actor' = [actor EXCEPT ![s] = [rest EXCEPT !.approval = next]],
         edits' \in [worktrees : Nat, root : Nat], turns' \in Nat, commits' \in Seq(Commits),
         root' \in [Files -> Int], wt' \in [Sessions -> Worktrees],
         consent' \in [Sessions -> SUBSET Int], UNCHANGED <<regained, pruner>>,
         GraphInv', RootInv', Grows, Forward, WorktreeInv(s)',
         \A t \in Sessions \ {s} : wt'[t] = wt[t] /\ consent[t] \subseteq consent'[t],
         actor[s].pc # "pruning", ApprovalInv(next)',
         rest.pc \in {"idle", "turn", "created", "offering", "preparing", "approved"},
         rest.pc = "approved" => next.kind = "Approved" /\ rest.commit \in DOMAIN commits',
         next.running => rest.pc = "preparing",
         actor'[s] = [rest EXCEPT !.approval = next] => ConsentInv(s)'
  PROVE  MergeInv'
<1>1. Types /\ GraphInv /\ StoreInv(s) /\ StoreInv(s) /\ ReadersInv
  BY DEF MergeInv, SessionInv, RepositoryInv
<1>2. /\ store' \in [Sessions -> Stored] /\ actor' \in [Sessions -> Actors] /\ faults' \in Nat
      /\ \A t \in Sessions \ {s} : store'[t] = store[t] /\ actor'[t] = actor[t]
      /\ store'[s].worktree = store[s].worktree /\ store'[s].source = store[s].source
      /\ store'[s].approval \in {store[s].approval, Paused(next)}
      /\ store'[s].asked => next.kind = "Awaiting" /\ store'[s].approval = Paused(next)
      /\ \/ /\ actor'[s] = [rest EXCEPT !.approval = next]
            /\ store'[s].approval = Paused(next)
            /\ store'[s].asked <=> next.kind = "Awaiting"
         \/ actor'[s] = Down
  BY <1>1, Recording
<1>3. Types' /\ Only(s)
  BY <1>1, <1>2 DEF Types, Only, Forward
<1>4. StoreInv(s)'
  <2>1. PICK old, new : old = store[s].approval /\ new = store'[s].approval
    OBVIOUS
  <2>2. ApprovalInv(old)' /\ ~old.running
    BY <1>1, <2>1, StableApprovals DEF StoreInv
  <2>3. ApprovalInv(Paused(next))' /\ ~Paused(next).running
    BY PausedFields DEF ApprovalInv
  <2>4. new \in {old, Paused(next)}
    BY <1>2, <2>1
  <2>5. ApprovalInv(new)' /\ ~new.running
    BY <2>2, <2>3, <2>4
  <2>6. store'[s].asked => new.kind = "Awaiting"
    BY <1>2, <2>1, PausedFields
  <2> QED BY <2>1, <2>5, <2>6 DEF StoreInv, ApprovalInv
<1>5. CASE actor'[s] = Down
  <2>1. ActorInv(s)' /\ ConsentInv(s)' /\ actor'[s].pc = "down"
    BY <1>1, <1>5, DownKeeps
  <2>2. ReadersInv'
    <3>1. \A t \in Sessions :
            /\ store'[t].source = store[t].source
            /\ actor'[t].pc \in Reading => actor'[t] = actor[t]
      BY <1>2, <2>1 DEF Reading
    <3> QED BY <1>1, <3>1, KeepsReaders
  <2> QED BY <1>3, <1>4, <2>1, <2>2, OneMoves DEF SessionInv
<1>6. CASE /\ actor'[s] = [rest EXCEPT !.approval = next]
           /\ store'[s].approval = Paused(next)
           /\ store'[s].asked <=> next.kind = "Awaiting"
  <2>1. actor'[s].pc = rest.pc /\ actor'[s].approval = next /\ actor'[s].commit = rest.commit
    BY <1>6 DEF Actors
  <2>2. ActorInv(s)'
    <3>1. ApprovalInv(actor[s].approval)'
      BY <2>1 DEF ApprovalInv
    <3>2. Believes(s)'
      BY <1>6, <2>1 DEF Believes
    <3> QED BY <2>1, <3>1, <3>2 DEF ActorInv, Merges
  <2>3. ReadersInv'
    <3>1. \A t \in Sessions :
            /\ store'[t].source = store[t].source
            /\ actor'[t].pc \in Reading => actor'[t] = actor[t]
      BY <1>2, <2>1 DEF Reading
    <3> QED BY <1>1, <3>1, KeepsReaders
  <2> QED BY <1>3, <1>4, <1>6, <2>1, <2>2, <2>3, OneMoves DEF SessionInv
<1> QED BY <1>2, <1>5, <1>6

\* A record that is made while the repository and the worktrees rest.
LEMMA RecordedAlone ==
  ASSUME MergeInv, NEW s \in Sessions, NEW next \in Approvals, NEW rest \in Actors,
         RecordMerge(s, next, rest), UNCHANGED <<repository, wt, edits, regained, pruner>>,
         turns' \in Nat, consent' \in [Sessions -> SUBSET Int],
         \A t \in Sessions \ {s} : consent[t] \subseteq consent'[t],
         actor[s].pc # "pruning", ApprovalInv(next),
         store[s].approval.kind = "Resolving" =>
           next.kind = "Resolving" /\ next.paths = store[s].approval.paths,
         rest.pc \in {"idle", "turn", "created", "offering", "preparing", "approved"},
         rest.pc = "approved" => next.kind = "Approved" /\ rest.commit \in DOMAIN commits,
         next.running => rest.pc = "preparing",
         actor'[s] = [rest EXCEPT !.approval = next] => ConsentInv(s)'
  PROVE  MergeInv'
<1>1. Types /\ GraphInv /\ WorktreeInv(s) /\ RepositoryInv
  BY DEF MergeInv, SessionInv, RepositoryInv
<1>2. Latest' = Latest /\ edits' \in [worktrees : Nat, root : Nat] /\ Latest \in Nat
  BY <1>1, LatestNat DEF Latest, Types
<1>3. Grows /\ Forward /\ GraphInv' /\ RootInv' /\ Latest' \in Nat
  BY <1>1, <1>2, Still
<1>4. store'[s].approval \in {store[s].approval, Paused(next)}
  BY <1>1, Recording
<1>5. WorktreeInv(s)'
  <2>1. store[s].approval.kind = "Resolving" =>
          /\ store'[s].approval.kind = "Resolving"
          /\ store'[s].approval.paths = store[s].approval.paths
    BY <1>4, PausedFields
  <2>2. wt'[s] = wt[s]
    OBVIOUS
  <2> QED BY <1>1, <1>3, <2>1, <2>2, KeepsWorktree
<1>6. ApprovalInv(next)' /\ (rest.pc = "approved" => rest.commit \in DOMAIN commits')
  BY <1>1, <1>3, StableApprovals DEF Grows
<1>7. UNCHANGED <<commits, main, root>>
  BY DEF repository
<1>8. commits' \in Seq(Commits) /\ root' \in [Files -> Int] /\ wt' \in [Sessions -> Worktrees]
      /\ \A t \in Sessions : wt'[t] = wt[t]
  BY <1>1, <1>7 DEF Types
<1> QED BY <1>2, <1>3, <1>5, <1>6, <1>8, RecordedBeside

\* A step of an actor that records nothing, beside other changes ...
LEMMA ActsBeside ==
  ASSUME MergeInv, NEW s \in Sessions, NEW act \in Actors, actor' = [actor EXCEPT ![s] = act],
         UNCHANGED <<store, regained, pruner>>,
         edits' \in [worktrees : Nat, root : Nat], turns' \in Nat, faults' \in Nat,
         commits' \in Seq(Commits), root' \in [Files -> Int], wt' \in [Sessions -> Worktrees],
         consent' \in [Sessions -> SUBSET Int],
         GraphInv', RootInv', Grows, Forward, WorktreeInv(s)',
         \A t \in Sessions \ {s} : wt'[t] = wt[t] /\ consent[t] \subseteq consent'[t],
         actor[s].pc # "pruning", act.pc # "pruning",
         \/ act.pc \notin Reading
         \/ actor[s].pc \in Reading /\ act.keep = actor[s].keep
         \/ ReadersInv',
         ActorInv(s)', ConsentInv(s)'
  PROVE  MergeInv'
<1>1. Types /\ GraphInv /\ RepositoryInv /\ StoreInv(s) /\ ReadersInv
  BY DEF MergeInv, SessionInv, RepositoryInv
<1>2. actor' \in [Sessions -> Actors] /\ actor'[s] = act
      /\ \A t \in Sessions \ {s} : actor'[t] = actor[t]
  BY <1>1 DEF Types
<1>3. Types' /\ Only(s) /\ store'[s] = store[s]
  BY <1>1, <1>2 DEF Types, Only, Forward
<1>4. StoreInv(s)'
  BY <1>1, <1>3, KeepsStore
<1>5. ReadersInv'
  <2>1. CASE act.pc \notin Reading \/ (actor[s].pc \in Reading /\ act.keep = actor[s].keep)
    <3>1. \A t \in Sessions :
            /\ store'[t].source = store[t].source
            /\ actor'[t].pc \in Reading => actor[t].pc \in Reading /\ actor'[t].keep = actor[t].keep
      BY <1>2, <2>1
    <3> QED BY <1>1, <3>1, KeepsReaders
  <2> QED BY <2>1
<1> QED BY <1>2, <1>3, <1>4, <1>5, OneMoves DEF SessionInv

\* ... and while the repository and the worktrees rest.
LEMMA ActsAlone ==
  ASSUME MergeInv, NEW s \in Sessions, NEW act \in Actors, actor' = [actor EXCEPT ![s] = act],
         UNCHANGED <<repository, wt, store, edits, regained, pruner>>,
         turns' \in Nat, faults' \in Nat, consent' \in [Sessions -> SUBSET Int],
         \A t \in Sessions \ {s} : consent[t] \subseteq consent'[t],
         actor[s].pc # "pruning", act.pc # "pruning",
         \/ act.pc \notin Reading
         \/ actor[s].pc \in Reading /\ act.keep = actor[s].keep
         \/ ReadersInv',
         ActorInv(s)', ConsentInv(s)'
  PROVE  MergeInv'
<1>1. Types /\ GraphInv /\ WorktreeInv(s) /\ RepositoryInv
  BY DEF MergeInv, SessionInv, RepositoryInv
<1>2. UNCHANGED <<commits, main, root>>
  BY DEF repository
<1>3. /\ commits' \in Seq(Commits) /\ root' \in [Files -> Int] /\ wt' \in [Sessions -> Worktrees]
      /\ \A t \in Sessions : wt'[t] = wt[t] /\ store'[t] = store[t]
  BY <1>1, <1>2 DEF Types
<1>4. Latest' = Latest /\ edits' \in [worktrees : Nat, root : Nat] /\ Latest \in Nat
  BY <1>1, LatestNat DEF Latest, Types
<1>5. Grows /\ Forward /\ GraphInv' /\ RootInv' /\ Latest' \in Nat
  BY <1>1, <1>4, Still
<1>6. WorktreeInv(s)'
  BY <1>1, <1>3, <1>5, KeepsWorktree
<1> QED BY <1>3, <1>4, <1>5, <1>6, ActsBeside

-----------------------------------------------------------------------------
(* The life of a session and its tasks                                     *)

\* What is known of one session.
LEMMA StoredBelief ==
  ASSUME MergeInv, NEW s \in Sessions
  PROVE  /\ Types /\ store[s] \in Stored /\ actor[s] \in Actors /\ wt[s] \in Worktrees
         /\ store[s].approval \in Approvals /\ actor[s].approval \in Approvals
         /\ ApprovalInv(store[s].approval) /\ ApprovalInv(actor[s].approval)
         /\ SessionInv(s) /\ ConsentInv(s)
         /\ actor[s].pc \notin {"down", "pruning"} => Believes(s)
BY DEF MergeInv, Types, SessionInv, StoreInv, ActorInv, Stored, Actors

\* The consent that is withdrawn is that of the session alone.
LEMMA Revoked ==
  ASSUME Types, NEW s \in Sessions, Revoke(s)
  PROVE  /\ consent' \in [Sessions -> SUBSET Int] /\ UNCHANGED regained
         /\ \A t \in Sessions \ {s} : consent[t] \subseteq consent'[t]
BY DEF Revoke, Types

\* A record that ends the merge and leaves nothing to resolve.
LEMMA QuietRecord ==
  ASSUME MergeInv, NEW s \in Sessions, NEW next \in Approvals, NEW rest \in Actors,
         RecordMerge(s, next, rest), UNCHANGED <<repository, wt, edits, pruner>>, Revoke(s),
         turns' \in Nat, actor[s].pc # "pruning", ApprovalInv(next), ~next.running,
         store[s].approval.kind = "Resolving" =>
           next.kind = "Resolving" /\ next.paths = store[s].approval.paths,
         rest.pc \in {"idle", "turn"}
  PROVE  MergeInv'
<1>1. Types
  BY DEF MergeInv
<1>2. /\ consent' \in [Sessions -> SUBSET Int] /\ UNCHANGED regained
      /\ \A t \in Sessions \ {s} : consent[t] \subseteq consent'[t]
  BY <1>1, Revoked
<1>3. actor'[s] = [rest EXCEPT !.approval = next] => ConsentInv(s)'
  <2>1. SUFFICES ASSUME actor'[s] = [rest EXCEPT !.approval = next] PROVE ConsentInv(s)'
    OBVIOUS
  <2>2. actor'[s].pc = rest.pc /\ actor'[s].approval = next
    BY <2>1 DEF Actors
  <2> QED BY <2>2, QuietKeeps
<1> QED BY <1>2, <1>3, RecordedAlone

\* A session is activated: what was approved, or never asked, is asked again.
LEMMA ResumeKeeps ==
  ASSUME MergeInv, NEW s \in Sessions, Resume(s)
  PROVE  MergeInv'
<1>1. PICK a : a = store[s].approval
  OBVIOUS
<1>2. /\ Types /\ store[s] \in Stored /\ a \in Approvals /\ ApprovalInv(a) /\ StoreInv(s)
      /\ a.commit \in Nat
  BY <1>1, StoredBelief DEF SessionInv, Approvals
<1>3. /\ UNCHANGED <<repository, wt, pruner, edits, turns>> /\ Revoke(s)
      /\ actor[s].pc = "down"
  BY DEF Resume
<1>4. consent' \in [Sessions -> SUBSET Int] /\ turns' \in Nat /\ UNCHANGED regained
      /\ \A t \in Sessions \ {s} : consent[t] \subseteq consent'[t]
  BY <1>2, <1>3, Revoked DEF Types
<1>5. CASE Recovers(a, store[s].asked)
  <2>1. PICK next : next = Awaiting(a.commit)
    OBVIOUS
  <2>2. RecordMerge(s, next, Idle(s))
    BY <1>1, <1>5, <2>1 DEF Resume
  <2>3. next \in Approvals /\ next.kind = "Awaiting" /\ next.commit = a.commit /\ ~next.running
    BY <1>2, <2>1, ApprovalTypes
  <2>4. ApprovalInv(next) /\ a.kind # "Resolving"
    BY <1>2, <1>5, <2>3 DEF ApprovalInv, Recovers
  <2>5. Idle(s) \in Actors /\ Idle(s).pc = "idle"
    BY <1>2, IdleType
  <2> QED BY <1>1, <1>3, <1>4, <2>2, <2>3, <2>4, <2>5, QuietRecord
<1>6. CASE ~Recovers(a, store[s].asked)
  <2>1. PICK act : act = [Idle(s) EXCEPT !.approval = a]
    OBVIOUS
  <2>2. actor' = [actor EXCEPT ![s] = act] /\ UNCHANGED <<store, faults>>
    BY <1>1, <1>6, <2>1 DEF Resume
  <2>3. act \in Actors /\ act.pc = "idle" /\ act.approval = a
    BY <1>2, <2>1, IdleType DEF Actors
  <2>4. actor'[s] = act
    BY <1>2, <2>2 DEF Types
  <2>5. ~a.running /\ Paused(a) = a
    BY <1>1, <1>2, PausedIsPaused DEF StoreInv
  <2>6. store[s].asked <=> a.kind = "Awaiting"
    BY <1>1, <1>2, <1>6 DEF Recovers, StoreInv
  <2>7. ActorInv(s)'
    <3>1. Believes(s)'
      BY <1>1, <2>2, <2>3, <2>4, <2>5, <2>6 DEF Believes
    <3>2. ApprovalInv(actor[s].approval)'
      BY <1>2, <1>3, <2>3, <2>4 DEF ApprovalInv, repository
    <3> QED BY <2>3, <2>4, <3>1, <3>2 DEF ActorInv, Merges
  <2>8. ConsentInv(s)'
    BY <2>3, <2>4, <2>5, QuietKeeps
  <2>9. faults' \in Nat
    BY <1>2, <2>2 DEF Types
  <2> QED BY <1>3, <1>4, <2>2, <2>3, <2>7, <2>8, <2>9, ActsAlone DEF Reading
<1> QED BY <1>5, <1>6

\* A task begins: the question it finds is withdrawn, a resolution is paused.
LEMMA BeginTaskKeeps ==
  ASSUME MergeInv, NEW s \in Sessions, BeginTask(s)
  PROVE  MergeInv'
<1>1. PICK a : a = actor[s].approval
  OBVIOUS
<1>2. PICK next : next = TaskStarted(a)
  OBVIOUS
<1>3. PICK rest : rest = [actor[s] EXCEPT !.pc = "turn", !.turn = "task"]
  OBVIOUS
<1>4. /\ Types /\ actor[s] \in Actors /\ a \in Approvals /\ ApprovalInv(a) /\ a.commit \in Nat
      /\ store[s].approval = Paused(a) /\ actor[s].pc = "idle"
  BY <1>1, StoredBelief DEF Believes, BeginTask, Approvals
<1>5. next \in {NoApproval, Paused(a)} /\ (a.kind = "Resolving" => next = Paused(a))
      /\ next \in Approvals
  BY <1>2, <1>4, ApprovalTypes
<1>6. ~next.running /\ ApprovalInv(next)
  BY <1>4, <1>5, ApprovalTypes DEF ApprovalInv
<1>7. store[s].approval.kind = "Resolving" =>
        next.kind = "Resolving" /\ next.paths = store[s].approval.paths
  BY <1>4, <1>5, PausedFields
<1>8. rest \in Actors /\ rest.pc = "turn"
  BY <1>3, <1>4 DEF Actors, Pcs
<1>9. RecordMerge(s, next, rest) /\ UNCHANGED <<repository, wt, edits, pruner>> /\ Revoke(s)
  BY <1>1, <1>2, <1>3 DEF BeginTask
<1>10. turns' \in Nat
  BY <1>4 DEF BeginTask, More, Types
<1> QED BY <1>4, <1>5, <1>6, <1>7, <1>8, <1>9, <1>10, QuietRecord

\* A resolution is interrupted.
LEMMA InterruptKeeps ==
  ASSUME MergeInv, NEW s \in Sessions, Interrupt(s)
  PROVE  MergeInv'
<1>1. PICK a : a = actor[s].approval
  OBVIOUS
<1>2. /\ Types /\ a \in Approvals /\ ApprovalInv(a) /\ actor[s].pc \in {"idle", "turn"}
      /\ store[s].approval = Paused(a)
  BY <1>1, StoredBelief DEF Believes, Interrupt
<1>3. PICK next : next = Paused(a)
  OBVIOUS
<1>4. next \in Approvals /\ ~next.running /\ ApprovalInv(next)
  BY <1>2, <1>3, PausedFields DEF ApprovalInv
<1>5. Idle(s) \in Actors /\ Idle(s).pc = "idle"
  BY <1>2, IdleType
<1>6. RecordMerge(s, next, Idle(s)) /\ UNCHANGED <<repository, wt, edits, pruner>> /\ Revoke(s)
  BY <1>1, <1>3 DEF Interrupt
<1>7. turns' \in Nat
  BY <1>2 DEF Interrupt, Types
<1> QED BY <1>2, <1>3, <1>4, <1>5, <1>6, <1>7, QuietRecord

\* The process ends, and with it what the actor knew.
LEMMA LeaveKeeps ==
  ASSUME MergeInv, NEW s \in Sessions, Leave(s)
  PROVE  MergeInv'
<1>1. Types /\ actor[s].pc # "pruning" /\ UNCHANGED <<repository, wt, store, pruner, edits, turns>>
      /\ actor' = [actor EXCEPT ![s] = Down] /\ Revoke(s) /\ faults' \in Nat
  BY DEF MergeInv, Leave, Fault, Types
<1>2. actor'[s] = Down
  BY <1>1 DEF Types
<1>3. ActorInv(s)' /\ ConsentInv(s)' /\ Down \in Actors /\ Down.pc = "down"
  BY <1>1, <1>2, DownKeeps
<1>4. turns' \in Nat
  BY <1>1 DEF Types
<1> QED BY <1>1, <1>3, <1>4, Revoked, ActsAlone DEF Reading

\* While a task goes on, no merge is under way and nothing is offered.
LEMMA TaskGoesOn ==
  ASSUME MergeInv, NEW s \in Sessions, NEW act \in Actors, actor' = [actor EXCEPT ![s] = act],
         UNCHANGED <<repository, wt, store, pruner, edits, turns, faults, observed>>,
         actor[s].pc \in {"idle", "turn", "created"},
         act.pc \in {"idle", "turn", "created", "offering"},
         act.approval = actor[s].approval, act.approval.running /\ act.queued => act.pc = "idle",
         Resolves(s)' => Resolves(s)
  PROVE  MergeInv'
<1>1. PICK a, c : a = actor[s].approval /\ c = act.commit
  OBVIOUS
<1>2. /\ Types /\ actor[s] \in Actors /\ ApprovalInv(a) /\ ConsentInv(s) /\ Believes(s)
  BY <1>1, StoredBelief
<1>3. actor'[s] = act /\ UNCHANGED <<commits, main, root, consent, regained>>
  BY <1>2 DEF Types, repository, observed
<1>4. ActorInv(s)'
  <2>1. ApprovalInv(actor[s].approval)'
    BY <1>1, <1>2, <1>3 DEF ApprovalInv
  <2>2. Believes(s)'
    BY <1>2, <1>3 DEF Believes
  <2> QED BY <1>3, <2>1, <2>2 DEF ActorInv, Merges
<1>5. ConsentInv(s)'
  <2>1. MergingInv(s, c)' /\ PreparingInv(s, a)' /\ ResolvedInv(s, a, c)'
    BY <1>3 DEF MergingInv, PreparingInv, ResolvedInv
  <2>2. ResolvingInv(s, a)'
    <3>1. ResolvingInv(s, a)
      BY <1>1, <1>2 DEF ConsentInv
    <3> QED BY <1>3, <3>1 DEF ResolvingInv, Given, Conflicting, ResolutionPending, Ancestors, TreeOf
  <2> QED BY <1>1, <1>3, <2>1, <2>2, ConsentOf
<1>6. consent' \in [Sessions -> SUBSET Int] /\ turns' \in Nat /\ faults' \in Nat
  BY <1>2, <1>3 DEF Types
<1> QED BY <1>3, <1>4, <1>5, <1>6, ActsAlone DEF Reading

\* The queued message begins the resolution, or finds it paused.
LEMMA ResolveMergeKeeps ==
  ASSUME MergeInv, NEW s \in Sessions, ResolveMerge(s)
  PROVE  MergeInv'
<1>1. PICK pc, turn :
        /\ pc = IF actor[s].approval.running THEN "turn" ELSE actor[s].pc
        /\ turn = IF actor[s].approval.running /\ actor[s].pc = "idle" THEN "resolution"
                  ELSE actor[s].turn
  OBVIOUS
<1>2. PICK act : act = [actor[s] EXCEPT !.queued = FALSE, !.pc = pc, !.turn = turn]
  OBVIOUS
<1>3. /\ actor[s] \in Actors /\ actor[s].pc \in {"idle", "turn"} /\ actor[s].queued /\ Types
      /\ actor[s].approval.running => actor[s].pc = "idle"
  BY StoredBelief DEF ResolveMerge, SessionInv, ActorInv
<1>4. /\ act \in Actors /\ act.pc \in {"idle", "turn"} /\ ~act.queued
      /\ act.approval = actor[s].approval
  BY <1>1, <1>2, <1>3 DEF Actors, Pcs
<1>5. actor' = [actor EXCEPT ![s] = act]
  BY <1>1, <1>2, <1>3 DEF ResolveMerge, Types
<1>6. actor'[s] = act
  BY <1>3, <1>5 DEF Types
<1>7. Resolves(s)' => Resolves(s)
  BY <1>3, <1>4, <1>6 DEF Resolves
<1> QED BY <1>3, <1>4, <1>5, <1>7, TaskGoesOn DEF ResolveMerge

\* A task ends with nothing to offer.
LEMMA EndTaskKeeps ==
  ASSUME MergeInv, NEW s \in Sessions, EndTask(s)
  PROVE  MergeInv'
<1>1. PICK act : act = [actor[s] EXCEPT !.pc = "idle", !.turn = "none", !.source = None]
  OBVIOUS
<1>2. actor[s] \in Actors /\ actor[s].pc \in {"turn", "created"} /\ Types
      /\ ~(actor[s].approval.running /\ actor[s].queued)
  BY StoredBelief DEF EndTask, SessionInv, ActorInv
<1>3. /\ act \in Actors /\ act.pc = "idle" /\ act.turn = "none"
      /\ act.approval = actor[s].approval /\ act.queued = actor[s].queued
  BY <1>1, <1>2 DEF Actors, Pcs, Readers
<1>4. actor' = [actor EXCEPT ![s] = act]
  BY <1>1, <1>2 DEF EndTask, Types
<1>5. actor'[s] = act
  BY <1>2, <1>4 DEF Types
<1>6. Resolves(s)' => Resolves(s)
  BY <1>2, <1>3, <1>5 DEF Resolves
<1> QED BY <1>2, <1>3, <1>4, <1>6, TaskGoesOn DEF EndTask

\* A task completes.
LEMMA CompleteTaskKeeps ==
  ASSUME MergeInv, NEW s \in Sessions, CompleteTask(s)
  PROVE  MergeInv'
<1>1. PICK act : act = [actor[s] EXCEPT !.pc = "offering", !.source = None]
  OBVIOUS
<1>2. actor[s] \in Actors /\ actor[s].pc \in {"turn", "created"} /\ Types
      /\ ~(actor[s].approval.running /\ actor[s].queued)
  BY StoredBelief DEF CompleteTask, SessionInv, ActorInv
<1>3. /\ act \in Actors /\ act.pc = "offering" /\ act.turn = actor[s].turn
      /\ act.approval = actor[s].approval /\ act.queued = actor[s].queued
  BY <1>1, <1>2 DEF Actors, Pcs, Readers
<1>4. actor' = [actor EXCEPT ![s] = act]
  BY <1>1, <1>2 DEF CompleteTask, Types
<1>5. actor'[s] = act
  BY <1>2, <1>4 DEF Types
<1>6. Resolves(s)' => Resolves(s)
  BY <1>2, <1>3, <1>5 DEF Resolves
<1> QED BY <1>2, <1>3, <1>4, <1>6, TaskGoesOn DEF CompleteTask

-----------------------------------------------------------------------------
(* The merge                                                               *)

\* What a session that merges knows.
LEMMA MergeKnows ==
  ASSUME MergeInv, NEW s \in Sessions, actor[s].pc \in Merges
  PROVE  /\ Types /\ actor[s] \in Actors /\ Believes(s) /\ ApprovalInv(actor[s].approval)
         /\ actor[s].approval.kind = "Approved" /\ ~actor[s].approval.running
         /\ actor[s].commit \in DOMAIN commits /\ actor[s].commit \in Nat
         /\ store[s].approval.kind = "Approved" /\ WorktreeInv(s)
<1>1. /\ Types /\ actor[s] \in Actors /\ ApprovalInv(actor[s].approval)
      /\ SessionInv(s) /\ Believes(s) /\ actor[s].approval \in Approvals
  BY StoredBelief DEF Merges
<1>2. /\ actor[s].approval.kind = "Approved" /\ ~actor[s].approval.running
      /\ actor[s].commit \in DOMAIN commits
  BY <1>1 DEF SessionInv, ActorInv, ApprovalInv
<1>3. store[s].approval.kind = "Approved"
  BY <1>1, <1>2, PausedFields DEF Believes
<1> QED BY <1>1, <1>2, <1>3 DEF Actors, SessionInv

\* A merge that goes on.
LEMMA MergeGoesOn ==
  ASSUME MergeInv, NEW s \in Sessions, actor[s].pc \in Merges, NEW act \in Actors,
         act.pc \in Merges, act.approval = actor[s].approval, act.commit = actor[s].commit,
         actor'[s] = act, store'[s] = store[s], \A x \in DOMAIN commits : x \in DOMAIN commits',
         act.pc = "checked" => Present(s)' /\ wt'[s].mergeHead = 0
  PROVE  ActorInv(s)'
<1>1. /\ Believes(s) /\ ApprovalInv(act.approval) /\ actor[s].approval.kind = "Approved"
      /\ ~act.approval.running /\ actor[s].commit \in DOMAIN commits
  BY MergeKnows
<1>2. Believes(s)'
  BY <1>1 DEF Believes, Merges
<1>3. ApprovalInv(actor[s].approval)'
  BY <1>1 DEF ApprovalInv
<1> QED BY <1>1, <1>2, <1>3 DEF ActorInv, Merges

\* The merge looks for readers of its worktree.
LEMMA WorktreeCleanupKeeps ==
  ASSUME MergeInv, NEW s \in Sessions, WorktreeCleanup(s)
  PROVE  MergeInv'
<1>1. PICK c : c = actor[s].commit
  OBVIOUS
<1>2. PICK act : act = [actor[s] EXCEPT !.pc = "ready", !.keep = HasReaders(s)]
  OBVIOUS
<1>3. /\ actor[s].pc = "approved"
      /\ UNCHANGED <<repository, wt, store, pruner, edits, turns, faults, observed>>
  BY DEF WorktreeCleanup
<1>4. Types /\ actor[s] \in Actors /\ ~actor[s].approval.running /\ ConsentInv(s)
  BY <1>3, MergeKnows, StoredBelief DEF Merges
<1>5. act \in Actors /\ act.pc = "ready" /\ act.approval = actor[s].approval /\ act.commit = c
      /\ act.keep = HasReaders(s)
  <2>1. HasReaders(s) \in BOOLEAN
    BY DEF HasReaders
  <2> QED BY <1>1, <1>2, <1>4, <2>1 DEF Actors, Pcs
<1>6. actor' = [actor EXCEPT ![s] = act] /\ actor'[s] = act
  BY <1>2, <1>4 DEF WorktreeCleanup, Types
<1>7. UNCHANGED <<commits, main, root, consent, regained, store, wt>>
  BY <1>3 DEF repository, observed
<1>8. ActorInv(s)'
  BY <1>1, <1>3, <1>5, <1>6, <1>7, MergeGoesOn DEF Merges
<1>9. ConsentInv(s)'
  <2>1. MergingInv(s, c)'
    <3>1. MergingInv(s, c)
      BY <1>1, <1>4 DEF ConsentInv
    <3>2. RepositoryInv /\ GraphInv /\ Latest \in Nat
      BY <1>4, LatestNat DEF MergeInv, RepositoryInv
    <3>3. Latest' = Latest /\ edits' \in [worktrees : Nat, root : Nat]
      BY <1>3, <1>4 DEF Latest, Types
    <3>4. Grows /\ Forward
      BY <1>3, <1>4, <3>2, <3>3, Still
    <3> QED BY <1>3, <1>4, <1>7, <3>1, <3>2, <3>4, MergingGoesOn
  <2>2. PICK a : a = act.approval
    OBVIOUS
  <2>3. PreparingInv(s, a)' /\ ResolvedInv(s, a, c)' /\ ResolvingInv(s, a)'
    BY <1>4, <1>5, <1>6 DEF PreparingInv, ResolvedInv, ResolvingInv, Resolves
  <2> QED BY <1>5, <1>6, <2>1, <2>2, <2>3, ConsentOf
<1>10. ReadersInv'
  <2>1. ReadersInv
    BY DEF MergeInv
  <2>2. \A r \in Sessions : actor'[r] # actor[r] => r = s
    BY <1>4, <1>6 DEF Types
  <2>3. \A r \in Sessions : store[r].source = s => act.keep
    BY <1>5 DEF HasReaders
  <2>4. ASSUME NEW t \in Sessions, NEW r \in Sessions,
               actor'[t].pc \in {"ready", "checked", "merged"}, store[r].source = t, r \notin regained
        PROVE  actor'[t].keep
    <3>1. CASE t = s
      BY <1>6, <2>3, <2>4, <3>1
    <3>2. CASE t # s
      BY <2>1, <2>2, <2>4, <3>2 DEF ReadersInv
    <3> QED BY <3>1, <3>2
  <2> QED BY <1>7, <2>4 DEF ReadersInv
<1>11. consent' \in [Sessions -> SUBSET Int] /\ turns' \in Nat /\ faults' \in Nat
  BY <1>3, <1>4, <1>7 DEF Types
<1> QED BY <1>3, <1>5, <1>6, <1>7, <1>8, <1>9, <1>10, <1>11, ActsAlone

\* The approved commit is in main already.
LEMMA AlreadyMergedKeeps ==
  ASSUME MergeInv, NEW s \in Sessions, AlreadyMerged(s)
  PROVE  MergeInv'
<1>1. PICK act : act = [actor[s] EXCEPT !.pc = "merged"]
  OBVIOUS
<1>2. /\ actor[s].pc = "checked"
      /\ UNCHANGED <<repository, wt, store, pruner, edits, turns, faults, observed>>
  BY DEF AlreadyMerged
<1>3. Types /\ actor[s] \in Actors /\ ~actor[s].approval.running
  BY <1>2, MergeKnows DEF Merges
<1>4. act \in Actors /\ act.pc = "merged" /\ act.approval = actor[s].approval
      /\ act.commit = actor[s].commit /\ act.keep = actor[s].keep
  BY <1>1, <1>3 DEF Actors, Pcs
<1>5. actor' = [actor EXCEPT ![s] = act] /\ actor'[s] = act
  BY <1>1, <1>3 DEF AlreadyMerged, Goto, Types
<1>6. UNCHANGED <<commits, main, root, consent, regained, store, wt>>
  BY <1>2 DEF repository, observed
<1>7. ActorInv(s)'
  BY <1>2, <1>4, <1>5, <1>6, MergeGoesOn DEF Merges
<1>8. ConsentInv(s)'
  BY <1>3, <1>4, <1>5, QuietKeeps
<1>9. consent' \in [Sessions -> SUBSET Int] /\ turns' \in Nat /\ faults' \in Nat
  BY <1>2, <1>3, <1>6 DEF Types
<1> QED BY <1>2, <1>4, <1>5, <1>6, <1>7, <1>8, <1>9, ActsAlone DEF Reading

\* A merge that is offered again.
LEMMA OfferAgainKeeps ==
  ASSUME MergeInv, NEW s \in Sessions, actor[s].pc \in Merges, OfferAgain(s),
         UNCHANGED <<repository, wt, pruner, edits, turns>>
  PROVE  MergeInv'
<1>1. PICK c, next : c = actor[s].commit /\ next = Awaiting(c)
  OBVIOUS
<1>2. Types /\ c \in DOMAIN commits /\ c \in Nat /\ store[s].approval.kind = "Approved"
      /\ actor[s] \in Actors
  BY <1>1, MergeKnows
<1>3. next \in Approvals /\ next.kind = "Awaiting" /\ next.commit = c /\ ~next.running
  BY <1>1, <1>2, AskedFields
<1>4. ApprovalInv(next)
  BY <1>2, <1>3 DEF ApprovalInv
<1>5. Idle(s) \in Actors /\ Idle(s).pc = "idle"
  BY <1>2, IdleType
<1>6. RecordMerge(s, next, Idle(s)) /\ Revoke(s)
  BY <1>1 DEF OfferAgain
<1>7. turns' \in Nat
  BY <1>2 DEF Types
<1> QED BY <1>2, <1>3, <1>4, <1>5, <1>6, <1>7, QuietRecord DEF Merges

\* A merge that is refused is offered again.
LEMMA MergeFailsKeeps ==
  ASSUME MergeInv, NEW s \in Sessions, MergeFails(s)
  PROVE  MergeInv'
BY OfferAgainKeeps DEF MergeFails, Merges

\* The commit that main would take instead of an approved one.
LEMMA RecordedIs ==
  ASSUME NEW s \in Sessions, NEW c, WorktreeInv(s)
  PROVE  Recorded(s, c) = c \/ Squashes(c, Recorded(s, c))
<1>1. CASE \E pair \in wt[s].merges : pair[1] = c
  <2>1. PICK pair \in wt[s].merges : pair[1] = c /\ Recorded(s, c) = pair[2]
    BY <1>1 DEF Recorded
  <2> QED BY <2>1 DEF WorktreeInv
<1>2. CASE ~\E pair \in wt[s].merges : pair[1] = c
  BY <1>2 DEF Recorded
<1> QED BY <1>1, <1>2

\* The user's answer covers the commit, also when it was squashed before.
LEMMA AnswerKeeps ==
  ASSUME MergeInv, NEW s \in Sessions, NEW merge \in BOOLEAN, Answer(s, merge)
  PROVE  MergeInv'
<1>1. PICK c, r : c = actor[s].approval.commit /\ r = Recorded(s, c)
  OBVIOUS
<1>2. /\ actor[s].pc = "idle" /\ actor[s].approval.kind = "Awaiting"
      /\ UNCHANGED <<repository, wt, pruner, edits, turns>>
  BY DEF Answer
<1>3. /\ Types /\ actor[s].approval \in Approvals /\ ApprovalInv(actor[s].approval)
      /\ Believes(s) /\ WorktreeInv(s) /\ c \in Nat
  BY <1>1, <1>2, StoredBelief DEF SessionInv, Approvals
<1>4. c \in DOMAIN commits /\ store[s].approval.kind = "Awaiting"
  BY <1>1, <1>2, <1>3, PausedFields DEF ApprovalInv, Believes
<1>5. turns' \in Nat /\ Idle(s) \in Actors /\ Idle(s).pc = "idle"
  BY <1>2, <1>3, IdleType DEF Types
<1>6. CASE merge
  <2>1. PICK next, rest : next = Approved(c) /\ rest = [Idle(s) EXCEPT !.pc = "approved", !.commit = c]
    OBVIOUS
  <2>2. /\ RecordMerge(s, next, rest) /\ UNCHANGED regained
        /\ consent' = [consent EXCEPT ![s] = Versions(commits[c].tree)]
    BY <1>1, <1>6, <2>1 DEF Answer
  <2>3. next \in Approvals /\ next.kind = "Approved" /\ next.commit = c /\ ~next.running
    BY <1>3, <2>1, AskedFields
  <2>4. rest \in Actors /\ rest.pc = "approved" /\ rest.commit = c
    BY <1>3, <1>5, <2>1 DEF Actors, Pcs
  <2>5. /\ consent' \in [Sessions -> SUBSET Int] /\ consent'[s] = Versions(TreeOf(c))
        /\ \A t \in Sessions \ {s} : consent[t] \subseteq consent'[t]
    <3>1. GraphInv /\ Latest \in Nat
      BY <1>3, LatestNat DEF MergeInv, RepositoryInv
    <3>2. Versions(TreeOf(c)) \subseteq Int
      BY <1>3, <1>4, <3>1, CommitFacts DEF Versions
    <3> QED BY <1>3, <2>2, <3>2 DEF Types, TreeOf
  <2>6. actor'[s] = [rest EXCEPT !.approval = next] => ConsentInv(s)'
    <3>1. SUFFICES ASSUME actor'[s] = [rest EXCEPT !.approval = next] PROVE ConsentInv(s)'
      OBVIOUS
    <3>2. actor'[s].pc = "approved" /\ actor'[s].approval = next /\ actor'[s].commit = c
      BY <2>4, <3>1 DEF Actors
    <3>3. PreparingInv(s, next)' /\ ResolvedInv(s, next, c)' /\ ResolvingInv(s, next)'
      BY <2>3, <3>2 DEF PreparingInv, ResolvedInv, ResolvingInv, Resolves
    <3>4. Given(s)'
      BY <2>5 DEF Given, Versions
    <3>5. Recorded(s, c)' = r
      BY <1>1, <1>2 DEF Recorded
    <3>6. r \in DOMAIN commits
          /\ \/ r = c
             \/ \E m \in Ancestors(main) :
                  Onto(r, m) /\ \A f \in Files : TreeOf(r)[f] \in {TreeOf(m)[f], TreeOf(c)[f]}
      BY <1>1, <1>3, <1>4, RecordedIs DEF Squashes
    <3>7. \A f \in Files : TreeOf(c)[f] \in consent'[s]
      BY <2>5 DEF Versions
    <3>8. UNCHANGED <<commits, main>>
      BY <1>2 DEF repository
    <3>9. Covered(s, r)'
      BY <3>6, <3>7, <3>8 DEF Covered, Adds, Onto, Ancestors, TreeOf
    <3>10. Covered(s, Recorded(s, c))' <=> Covered(s, r)'
      BY <3>5 DEF Covered, Adds, Onto, Ancestors, TreeOf
    <3>11. MergingInv(s, c)'
      BY <3>4, <3>9, <3>10 DEF MergingInv
    <3> QED BY <3>2, <3>3, <3>11, ConsentOf
  <2>7. ApprovalInv(next)
    BY <1>4, <2>3 DEF ApprovalInv
  <2> QED BY <1>2, <1>4, <1>5, <2>2, <2>3, <2>4, <2>5, <2>6, <2>7, RecordedAlone
<1>7. CASE ~merge
  <2>1. RecordMerge(s, NoApproval, Idle(s)) /\ Revoke(s)
    BY <1>7 DEF Answer
  <2>2. NoApproval \in Approvals /\ ApprovalInv(NoApproval) /\ ~NoApproval.running
    BY <1>3, AskedFields DEF ApprovalInv
  <2> QED BY <1>2, <1>4, <1>5, <2>1, <2>2, QuietRecord
<1> QED BY <1>6, <1>7

\* An approved branch that main does not descend from: where it left main and,
\* of every file that it changed since then, that the change is approved.
LEMMA ApprovedBranch ==
  ASSUME MergeInv, NEW s \in Sessions, actor[s].pc = "checked", IsApproved(s),
         ~Integrated(wt[s].branch), NEW base, base = Base(main, wt[s].branch)
  PROVE  /\ Given(s) /\ wt[s].branch \in DOMAIN commits /\ base \in DOMAIN commits
         /\ base \in Ancestors(main) /\ base \in Ancestors(wt[s].branch)
         /\ \A f \in Files : \/ TreeOf(wt[s].branch)[f] \in consent[s]
                             \/ TreeOf(wt[s].branch)[f] = TreeOf(base)[f]
<1>1. PICK b : b = wt[s].branch
  OBVIOUS
<1>2. /\ Types /\ GraphInv /\ Line(main) /\ WorktreeInv(s) /\ main \in DOMAIN commits
      /\ MergingInv(s, actor[s].commit) /\ Present(s)
  BY StoredBelief DEF MergeInv, RepositoryInv, SessionInv, ActorInv, ConsentInv, Types
<1>3. b \in DOMAIN commits /\ b = Recorded(s, actor[s].commit) /\ b \notin Ancestors(main)
  BY <1>1, <1>2 DEF WorktreeInv, IsApproved, Integrated
<1>4. Given(s) /\ Covered(s, b)
  BY <1>2, <1>3 DEF MergingInv
<1>5. base \in Ancestors(main) /\ base \in Ancestors(b) /\ base \in DOMAIN commits
  BY <1>1, <1>2, <1>3, BaseIs, CommitFacts
<1>6. ASSUME NEW m \in Ancestors(main), Onto(b, m) PROVE base = m
  BY <1>1, <1>2, <1>3, <1>6, BaseOnto
<1>7. \A f \in Files : TreeOf(b)[f] \in consent[s] \/ TreeOf(b)[f] = TreeOf(base)[f]
  BY <1>4, <1>6 DEF Covered, Adds
<1> QED BY <1>1, <1>3, <1>4, <1>5, <1>7

\* A conflict is recorded: the approved commit and main have merge base and files.
LEMMA ConflictKeeps ==
  ASSUME MergeInv, NEW s \in Sessions, Conflict(s)
  PROVE  MergeInv'
<1>1. PICK b, base : b = wt[s].branch /\ base = Base(main, b)
  OBVIOUS
<1>2. PICK next, rest : /\ next = Resolving(b, main, Conflicts(Squash(s)))
                        /\ rest = [Idle(s) EXCEPT !.pc = "preparing"]
  OBVIOUS
<1>3. /\ actor[s].pc = "checked" /\ IsApproved(s) /\ ~Integrated(b)
      /\ Conflicts(Squash(s)) # {} /\ RecordMerge(s, next, rest)
      /\ UNCHANGED <<repository, wt, pruner, edits, turns, observed>>
  BY <1>1, <1>2 DEF Conflict, Conflicted, CanMove, Refused
<1>4. /\ Types /\ actor[s] \in Actors /\ store[s].approval.kind = "Approved" /\ GraphInv
      /\ main \in DOMAIN commits /\ main \in Nat
  BY <1>3, MergeKnows, CommitFacts DEF Merges, MergeInv, RepositoryInv, Types
<1>5. /\ Given(s) /\ b \in DOMAIN commits /\ b \in Nat /\ base \in DOMAIN commits
      /\ base \in Ancestors(main) /\ base \in Ancestors(b)
      /\ \A f \in Files : TreeOf(b)[f] \in consent[s] \/ TreeOf(b)[f] = TreeOf(base)[f]
  BY <1>1, <1>3, <1>4, ApprovedBranch, CommitFacts
<1>6. /\ TreeOf(base) \in Trees /\ TreeOf(main) \in Trees /\ TreeOf(b) \in Trees
      /\ \A f \in Files : TreeOf(base)[f] <= TreeOf(main)[f] /\ TreeOf(base)[f] <= TreeOf(b)[f]
  BY <1>4, <1>5, CommitFacts
<1>7. Squash(s) = Merged(TreeOf(base), TreeOf(main), TreeOf(b))
  BY <1>1 DEF Squash, TreeOf, Tip
<1>8. PICK paths : paths = Conflicts(Squash(s)) /\ paths \in SUBSET Files /\ paths # {}
  BY <1>3 DEF Conflicts
<1>9. next \in Approvals /\ next.kind = "Resolving" /\ next.commit = b /\ next.target = main
      /\ next.paths = paths /\ next.running
  BY <1>2, <1>4, <1>5, <1>8 DEF Resolving, Approvals, Kinds
<1>10. rest \in Actors /\ rest.pc = "preparing"
  BY <1>2, <1>4, IdleType DEF Actors, Pcs
<1>11. main \notin Ancestors(b)
  <2>1. SUFFICES ASSUME main \in Ancestors(b) PROVE FALSE
    OBVIOUS
  <2>2. base = main
    <3>1. main <= base /\ base <= main /\ base \in Nat
      BY <1>1, <1>4, <1>5, <2>1, BaseIs, CommitFacts
    <3> QED BY <1>4, <3>1
  <2>3. \A f \in Files : Squash(s)[f] = TreeOf(b)[f]
    BY <1>4, <1>6, <1>7, <2>2, MergedFile
  <2>4. \A f \in Files : TreeOf(b)[f] # Marks
    BY <1>6, <1>4, LatestNat DEF Trees, Marks
  <2> QED BY <1>8, <2>3, <2>4 DEF Conflicts
<1>12. Conflicting(next) /\ ApprovalInv(next)
  BY <1>4, <1>5, <1>9, <1>11, CommitFacts DEF Conflicting, ApprovalInv
<1>13. \A f \in Files : /\ Prepared(next)[f] \in {Marks, TreeOf(main)[f]} \cup consent[s]
                        /\ Prepared(next)[f] = Marks => f \in next.paths
  <2>1. Prepared(next) = Merged(TreeOf(base), TreeOf(b), TreeOf(main))
    BY <1>1, <1>9 DEF Prepared
  <2>2. TAKE f \in Files
  <2>3. PICK t : t = Prepared(next)[f]
    OBVIOUS
  <2>4. t \in {TreeOf(b)[f], TreeOf(main)[f], Marks}
        /\ (TreeOf(b)[f] = TreeOf(base)[f] => t = TreeOf(main)[f])
    BY <1>4, <1>6, <2>1, <2>3, MergedFile
  <2>5. CASE t = Marks
    <3>1. Merged(TreeOf(base), TreeOf(b), TreeOf(main))[f] = Marks
            <=> Merged(TreeOf(base), TreeOf(main), TreeOf(b))[f] = Marks
      BY <1>4, <1>6, MergedConflicts
    <3>2. Squash(s)[f] = Marks
      BY <1>7, <2>1, <2>3, <2>5, <3>1
    <3> QED BY <1>8, <1>9, <2>3, <2>5, <3>2 DEF Conflicts
  <2>6. CASE t # Marks
    BY <1>5, <2>3, <2>4, <2>6
  <2> QED BY <2>5, <2>6
<1>14. UNCHANGED <<commits, main, root, consent, regained>>
  BY <1>3 DEF repository, observed
<1>15. actor'[s] = [rest EXCEPT !.approval = next] => ConsentInv(s)'
  <2>1. SUFFICES ASSUME actor'[s] = [rest EXCEPT !.approval = next] PROVE ConsentInv(s)'
    OBVIOUS
  <2>2. PICK c : c = actor'[s].commit
    OBVIOUS
  <2>3. actor'[s].pc = "preparing" /\ actor'[s].approval = next
    BY <1>10, <2>1 DEF Actors
  <2>4. MergingInv(s, c)' /\ ResolvedInv(s, next, c)' /\ ResolvingInv(s, next)'
    BY <2>3 DEF MergingInv, ResolvedInv, ResolvingInv, Resolves
  <2>5. Prepared(next)' = Prepared(next) /\ Conflicting(next)' /\ TreeOf(next.target)' = TreeOf(main)
    BY <1>9, <1>12, <1>14 DEF Prepared, Conflicting, Ancestors, TreeOf, Base, Merged
  <2>6. PreparingInv(s, next)'
    BY <1>5, <1>13, <1>14, <2>5 DEF PreparingInv, Given
  <2> QED BY <2>2, <2>3, <2>4, <2>6, ConsentOf
<1>16. turns' \in Nat /\ consent' \in [Sessions -> SUBSET Int]
       /\ \A t \in Sessions \ {s} : consent[t] \subseteq consent'[t]
  BY <1>3, <1>4, <1>14 DEF Types
<1> QED BY <1>3, <1>4, <1>9, <1>10, <1>12, <1>14, <1>15, <1>16, RecordedAlone

\* The files of the resolution: no older than either side, or with markers.
LEMMA PreparedFile ==
  ASSUME Types, GraphInv, NEW a, ApprovalInv(a), a.kind = "Resolving", NEW f \in Files
  PROVE  \/ Prepared(a)[f] = Marks
         \/ /\ Prepared(a)[f] \in 0..Latest
            /\ TreeOf(a.commit)[f] <= Prepared(a)[f] /\ TreeOf(a.target)[f] <= Prepared(a)[f]
<1>1. PICK base : base = Base(a.target, a.commit)
  OBVIOUS
<1>2. a.commit \in DOMAIN commits /\ a.target \in DOMAIN commits
  BY DEF ApprovalInv
<1>3. base \in Ancestors(a.commit) /\ base \in Ancestors(a.target) /\ base \in DOMAIN commits
  BY <1>1, <1>2, BaseIs, CommitFacts
<1>4. /\ TreeOf(base) \in Trees /\ TreeOf(a.commit) \in Trees /\ TreeOf(a.target) \in Trees
      /\ TreeOf(base)[f] <= TreeOf(a.commit)[f] /\ TreeOf(base)[f] <= TreeOf(a.target)[f]
  BY <1>2, <1>3, CommitFacts
<1>5. Prepared(a) = Merged(TreeOf(base), TreeOf(a.commit), TreeOf(a.target))
  BY <1>1 DEF Prepared
<1> QED BY <1>4, <1>5, MergedFile

\* The files of a conflict are files.
LEMMA PreparedType ==
  ASSUME Types, GraphInv, NEW a, ApprovalInv(a), a.kind = "Resolving"
  PROVE  Prepared(a) \in [Files -> Int]
<1>1. PICK base : base = Base(a.target, a.commit)
  OBVIOUS
<1>2. a.commit \in DOMAIN commits /\ a.target \in DOMAIN commits
  BY DEF ApprovalInv
<1>3. base \in DOMAIN commits
  BY <1>1, <1>2, BaseIs, CommitFacts
<1>4. \A x \in DOMAIN commits : TreeOf(x) \in [Files -> Int]
  BY CommitFacts, LatestNat DEF Trees
<1>5. Prepared(a) = Merged(TreeOf(base), TreeOf(a.commit), TreeOf(a.target))
  BY <1>1 DEF Prepared
<1>6. /\ TreeOf(base) \in [Files -> Int] /\ TreeOf(a.commit) \in [Files -> Int]
      /\ TreeOf(a.target) \in [Files -> Int]
  BY <1>2, <1>3, <1>4
<1> QED BY <1>5, <1>6, MergedType

\* The files of the conflict are checked out into a clean worktree.
LEMMA PrepareKeeps ==
  ASSUME MergeInv, NEW s \in Sessions, Prepare(s)
  PROVE  MergeInv'
<1>1. PICK a, c, ready :
        /\ a = actor[s].approval /\ c = actor[s].commit
        /\ ready = (wt[s].branch = a.commit /\ Clean(s))
  OBVIOUS
<1>2. PICK act : act = [actor[s] EXCEPT !.pc = "idle", !.queued = ready]
  OBVIOUS
<1>3. /\ actor[s].pc = "preparing"
      /\ UNCHANGED <<repository, store, pruner, edits, turns, faults, observed>>
  BY DEF Prepare
<1>4. UNCHANGED <<commits, main, root, consent, regained, store>>
  BY <1>3 DEF repository, observed
<1>5. /\ Types /\ GraphInv /\ RepositoryInv /\ actor[s] \in Actors /\ wt[s] \in Worktrees
      /\ a \in Approvals /\ ApprovalInv(a) /\ Believes(s) /\ WorktreeInv(s)
      /\ Given(s) /\ Conflicting(a)
      /\ \A f \in Files : /\ Prepared(a)[f] \in {Marks, TreeOf(a.target)[f]} \cup consent[s]
                          /\ Prepared(a)[f] = Marks => f \in a.paths
  BY <1>1, <1>3, StoredBelief DEF SessionInv, ConsentInv, PreparingInv, MergeInv, RepositoryInv
<1>6. /\ a.kind = "Resolving" /\ a.commit \in DOMAIN commits /\ a.target \in DOMAIN commits
      /\ a.target \in Nat /\ a.target # 0 /\ Prepared(a) \in [Files -> Int]
  BY <1>5, CommitFacts, PreparedType DEF ApprovalInv, Conflicting
<1>7. act \in Actors /\ act.pc = "idle" /\ act.approval = a /\ act.commit = c /\ act.queued = ready
  BY <1>1, <1>2, <1>5 DEF Actors, Pcs
<1>8. actor' = [actor EXCEPT ![s] = act] /\ actor'[s] = act
  BY <1>1, <1>2, <1>5 DEF Prepare, Types
<1>9. Latest' = Latest /\ Latest \in Nat /\ edits' \in [worktrees : Nat, root : Nat]
  BY <1>3, <1>5, LatestNat DEF Latest, Types
<1>10. Grows /\ Forward /\ GraphInv' /\ RootInv'
  BY <1>3, <1>5, <1>9, Still
<1>11. ActorInv(s)'
  <2>1. ApprovalInv(actor[s].approval)' /\ Believes(s)'
    BY <1>1, <1>4, <1>5, <1>7, <1>8 DEF ApprovalInv, Believes
  <2> QED BY <1>7, <1>8, <2>1 DEF ActorInv, Merges
<1>12. MergingInv(s, c)' /\ PreparingInv(s, a)' /\ ResolvedInv(s, a, c)'
  BY <1>7, <1>8 DEF MergingInv, PreparingInv, ResolvedInv
<1>13. turns' \in Nat /\ faults' \in Nat /\ consent' \in [Sessions -> SUBSET Int]
       /\ commits' \in Seq(Commits) /\ root' \in [Files -> Int]
  BY <1>3, <1>4, <1>5 DEF Types
<1>14. CASE ready
  <2>1. PICK w : w = [wt[s] EXCEPT !.mergeHead = a.target, !.tree = Prepared(a)]
    OBVIOUS
  <2>2. wt[s].branch = a.commit /\ wt[s].tree = Tip(s).tree /\ wt[s].mergeHead = 0 /\ Tip(s).tree = TreeOf(a.commit)
    BY <1>1, <1>14 DEF Clean, Tip, TreeOf
  <2>3. wt' = [wt EXCEPT ![s] = w]
    <3>1. Prepared(a) = Merged(commits[Base(a.target, wt[s].branch)].tree, Tip(s).tree, commits[a.target].tree)
      BY <2>2 DEF Prepared, TreeOf
    <3>2. wt' = [wt EXCEPT ![s].mergeHead = a.target, ![s].tree = Prepared(a)]
      BY <1>1, <1>14, <3>1 DEF Prepare
    <3> QED BY <1>5, <2>1, <3>2 DEF Types
  <2>4. /\ w \in Worktrees /\ w.branch = a.commit /\ w.mergeHead = a.target /\ w.tree = Prepared(a)
        /\ w.merges = wt[s].merges
    BY <1>5, <1>6, <2>1, <2>2 DEF Worktrees
  <2>5. wt' \in [Sessions -> Worktrees] /\ wt'[s] = w /\ \A t \in Sessions \ {s} : wt'[t] = wt[t]
    BY <1>5, <2>3, <2>4 DEF Types
  <2>6. WorktreeInv(s)'
    <3>1. \A pair \in wt[s].merges : Squashes(pair[1], pair[2])'
      BY <1>5, <1>10, StableSquashes DEF WorktreeInv
    <3>2. store[s].approval.kind = "Resolving" /\ store[s].approval.paths = a.paths
      BY <1>1, <1>5, <1>6, PausedFields DEF Believes
    <3>3. ASSUME NEW f \in Files PROVE FileInv(s, f)'
      <4>1. \/ Prepared(a)[f] = Marks /\ f \in a.paths
            \/ /\ Prepared(a)[f] \in 0..Latest
               /\ TreeOf(a.commit)[f] <= Prepared(a)[f] /\ TreeOf(a.target)[f] <= Prepared(a)[f]
        BY <1>5, <1>6, PreparedFile
      <4>2. wt'[s].branch = a.commit /\ wt'[s].mergeHead = a.target /\ wt'[s].tree = Prepared(a)
        BY <2>4, <2>5
      <4>3. CASE Prepared(a)[f] = Marks /\ f \in a.paths
        BY <1>4, <1>6, <3>2, <4>2, <4>3 DEF FileInv
      <4>4. CASE /\ Prepared(a)[f] \in 0..Latest
                 /\ TreeOf(a.commit)[f] <= Prepared(a)[f] /\ TreeOf(a.target)[f] <= Prepared(a)[f]
        BY <1>4, <1>9, <4>2, <4>4 DEF FileInv, TreeOf
      <4> QED BY <4>1, <4>3, <4>4
    <3>4. /\ wt'[s].branch = a.commit /\ wt'[s].mergeHead = a.target
          /\ wt'[s].merges = wt[s].merges /\ a.commit # 0
      BY <1>5, <1>6, <2>4, <2>5, CommitFacts
    <3> QED BY <1>4, <1>6, <3>1, <3>3, <3>4 DEF WorktreeInv
  <2>7. ResolvingInv(s, a)'
    <3>1. ResolutionPending(s, a)' /\ Given(s)' /\ Conflicting(a)'
      BY <1>4, <1>5, <2>4, <2>5 DEF ResolutionPending, Given, Conflicting, Ancestors
    <3>2. \A f \in Files : wt'[s].tree[f] \in {Marks, TreeOf(a.target)[f]} \cup consent[s]
      BY <1>5, <2>4, <2>5
    <3> QED BY <1>4, <3>1, <3>2 DEF ResolvingInv, TreeOf
  <2>8. ConsentInv(s)'
    BY <1>7, <1>8, <1>12, <2>7, ConsentOf
  <2> QED BY <1>3, <1>4, <1>7, <1>8, <1>9, <1>10, <1>11, <1>13, <2>5, <2>6, <2>8, ActsBeside
          DEF Reading
<1>15. CASE ~ready
  <2>1. UNCHANGED wt
    BY <1>1, <1>15 DEF Prepare
  <2>2. ResolvingInv(s, a)'
    BY <1>7, <1>8, <1>15 DEF ResolvingInv, Resolves
  <2>3. ConsentInv(s)'
    BY <1>7, <1>8, <1>12, <2>2, ConsentOf
  <2> QED BY <1>3, <1>4, <1>7, <1>8, <1>11, <1>13, <2>1, <2>3, ActsAlone DEF Reading
<1> QED BY <1>14, <1>15

-----------------------------------------------------------------------------
(* Commits of a worktree                                                   *)

\* What commit_snapshot commits: a resolution that is the one stored, or files
\* with no merge pending; in both cases files without conflict markers.
Committable(s, k) ==
  /\ CanCommit(s, k)
  /\ \/ k = NoApproval
     \/ ApprovalInv(k) /\ store[s].approval = Paused(k) /\ k \in Approvals

\* What commit_snapshot commits takes the branch, and the target of a resolution, further.
LEMMA SnapshotFiles ==
  ASSUME MergeInv, NEW s \in Sessions, NEW k, Committable(s, k)
  PROVE  /\ wt[s].tree \in Trees /\ wt[s].branch \in DOMAIN commits
         /\ \A f \in Files : /\ TreeOf(wt[s].branch)[f] <= wt[s].tree[f]
                             /\ wt[s].mergeHead # 0 => TreeOf(wt[s].mergeHead)[f] <= wt[s].tree[f]
<1>1. /\ Types /\ wt[s] \in Worktrees /\ WorktreeInv(s) /\ Present(s)
      /\ NoApproval.kind = "None"
  BY StoredBelief, AskedFields DEF SessionInv, Committable, CanCommit
<1>2. wt[s].branch \in DOMAIN commits /\ wt[s].tree \in [Files -> Int]
  BY <1>1 DEF WorktreeInv, Present, Worktrees
<1>3. ASSUME NEW f \in Files
      PROVE  /\ wt[s].tree[f] \in 0..Latest /\ TreeOf(wt[s].branch)[f] <= wt[s].tree[f]
             /\ wt[s].mergeHead # 0 => TreeOf(wt[s].mergeHead)[f] <= wt[s].tree[f]
  <2>1. FileInv(s, f)
    BY <1>1 DEF WorktreeInv
  <2>2. ~(/\ wt[s].tree[f] = Marks /\ wt[s].mergeHead # 0
          /\ store[s].approval.kind = "Resolving" /\ f \in store[s].approval.paths)
    <3>1. CASE k = NoApproval
      BY <1>1, <3>1 DEF Committable, CanCommit
    <3>2. CASE store[s].approval = Paused(k) /\ k \in Approvals
      <4>1. k.kind = store[s].approval.kind /\ k.paths = store[s].approval.paths
        BY <3>2, PausedFields
      <4> QED BY <4>1 DEF Committable, CanCommit
    <3> QED BY <3>1, <3>2 DEF Committable
  <2> QED BY <2>1, <2>2 DEF FileInv
<1>4. wt[s].tree \in Trees
  BY <1>2, <1>3 DEF Trees
<1> QED BY <1>2, <1>3, <1>4

\* A commit is added beside main.
LEMMA BesideMain ==
  ASSUME Types, RepositoryInv, Grows, Latest' = Latest, UNCHANGED <<main, root>>
  PROVE  Forward /\ RootInv'
<1>1. /\ main \in DOMAIN commits /\ commits'[main] = commits[main] /\ main \in DOMAIN commits'
      /\ \A x \in Ancestors(main) : x \in DOMAIN commits /\ commits'[x] = commits[x]
  BY CommitFacts DEF Grows, Types, RepositoryInv
<1>2. \A f \in Files : TreeOf(main)[f] <= TreeOf(main)[f]
  BY <1>1, CommitFacts DEF RepositoryInv
<1> QED BY <1>1, <1>2 DEF Forward, Line, RepositoryInv, RootInv, Trees, Ancestors, TreeOf

\* commit_snapshot adds at most one commit.
LEMMA SnapshotGrows ==
  ASSUME MergeInv, NEW s \in Sessions, NEW k, Committable(s, k), NEW id,
         id = SnapshotId(s, k), commits' = Snapshot(s, k), UNCHANGED <<main, root, edits>>
  PROVE  /\ commits' \in Seq(Commits) /\ GraphInv' /\ RootInv' /\ Grows /\ Forward
         /\ Latest' = Latest /\ Latest \in Nat
         /\ id \in DOMAIN commits' /\ id \in Nat /\ id # 0 /\ TreeOf(id)' = wt[s].tree
         /\ AsCommitted(s, k) => id = wt[s].branch
         /\ ~AsCommitted(s, k) => id \notin DOMAIN commits /\ ParentsOf(id)' = Parents(s, k)
<1>1. /\ Types /\ RepositoryInv /\ GraphInv /\ WorktreeInv(s) /\ wt[s].tree \in Trees
      /\ wt[s].branch \in DOMAIN commits
      /\ \A f \in Files : /\ TreeOf(wt[s].branch)[f] <= wt[s].tree[f]
                          /\ wt[s].mergeHead # 0 => TreeOf(wt[s].mergeHead)[f] <= wt[s].tree[f]
  BY SnapshotFiles DEF MergeInv, RepositoryInv, SessionInv
<1>2. Latest' = Latest /\ Latest \in Nat
  BY <1>1, LatestNat DEF Latest
<1>3. CASE AsCommitted(s, k)
  <2>1. id = wt[s].branch /\ UNCHANGED commits
    BY <1>3 DEF SnapshotId, Snapshot
  <2>2. Grows /\ Forward /\ GraphInv' /\ RootInv'
    <3>1. UNCHANGED repository /\ edits' \in [worktrees : Nat, root : Nat]
      BY <1>1, <2>1 DEF repository, Types
    <3> QED BY <1>1, <1>2, <3>1, Still
  <2>3. commits' \in Seq(Commits) /\ id \in DOMAIN commits' /\ id \in Nat /\ id # 0
    BY <1>1, <2>1, CommitFacts DEF Types
  <2>4. TreeOf(id)' = wt[s].tree
    BY <1>3, <2>1 DEF AsCommitted, Tip, TreeOf
  <2> QED BY <1>2, <1>3, <2>1, <2>2, <2>3, <2>4
<1>4. CASE ~AsCommitted(s, k)
  <2>1. PICK parents, new : parents = Parents(s, k) /\ new = Len(commits) + 1
    OBVIOUS
  <2>2. /\ parents \in Seq(DOMAIN commits) /\ parents # <<>>
        /\ \A i \in DOMAIN parents, f \in Files : TreeOf(parents[i])[f] <= wt[s].tree[f]
    <3>1. CASE parents = <<wt[s].branch>>
      BY <1>1, <3>1
    <3>2. CASE parents # <<wt[s].branch>>
      <4>1. k.kind = "Resolving" /\ ResolutionPending(s, k) /\ parents = <<wt[s].branch, k.target>>
        BY <2>1, <3>2 DEF Parents
      <4>2. k.target \in DOMAIN commits
        BY <4>1, AskedFields DEF Committable, ApprovalInv
      <4>3. wt[s].mergeHead = k.target /\ k.target # 0
        BY <1>1, <4>1, <4>2, CommitFacts DEF ResolutionPending
      <4>4. DOMAIN parents = {1, 2} /\ parents[1] = wt[s].branch /\ parents[2] = k.target
        BY <4>1
      <4> QED BY <1>1, <4>1, <4>2, <4>3, <4>4
    <3> QED BY <3>1, <3>2
  <2>3. id = new /\ commits' = Append(commits, Commit(wt[s].tree, parents))
    BY <1>4, <2>1 DEF SnapshotId, Snapshot
  <2>4. /\ commits' \in Seq(Commits) /\ Grows /\ GraphInv'
        /\ DOMAIN commits' = DOMAIN commits \cup {new} /\ new \notin DOMAIN commits
        /\ TreeOf(new)' = wt[s].tree /\ ParentsOf(new)' = parents
    BY <1>1, <2>1, <2>2, <2>3, NewCommit
  <2>6. Forward /\ RootInv'
    BY <1>1, <1>2, <2>4, BesideMain
  <2>8. new \in Nat /\ new # 0
    BY <1>1, <2>1 DEF Types
  <2> QED BY <1>2, <1>4, <2>1, <2>3, <2>4, <2>6, <2>8
<1> QED BY <1>3, <1>4

\* The worktree after it, on the commit of its files.
LEMMA SnapshotWorktree ==
  ASSUME MergeInv, NEW s \in Sessions, NEW k, Committable(s, k), NEW id,
         Grows, Forward, Latest' = Latest, id \in DOMAIN commits', id # 0,
         TreeOf(id)' = wt[s].tree, wt'[s] = [wt[s] EXCEPT !.branch = id]
  PROVE  WorktreeInv(s)'
<1>1. /\ Types /\ GraphInv /\ WorktreeInv(s) /\ wt[s].tree \in Trees /\ wt[s] \in Worktrees
      /\ \A f \in Files : wt[s].mergeHead # 0 => TreeOf(wt[s].mergeHead)[f] <= wt[s].tree[f]
  BY SnapshotFiles, StoredBelief DEF MergeInv, RepositoryInv, SessionInv
<1>2. /\ wt'[s].branch = id /\ wt'[s].tree = wt[s].tree /\ wt'[s].mergeHead = wt[s].mergeHead
      /\ wt'[s].merges = wt[s].merges
  BY <1>1 DEF Worktrees
<1>3. \A pair \in wt[s].merges : Squashes(pair[1], pair[2])'
  BY <1>1, StableSquashes DEF WorktreeInv
<1>4. /\ wt[s].mergeHead \in {0} \cup DOMAIN commits'
      /\ wt[s].mergeHead # 0 => commits'[wt[s].mergeHead] = commits[wt[s].mergeHead]
  BY <1>1 DEF WorktreeInv, Grows
<1>5. ASSUME NEW f \in Files PROVE FileInv(s, f)'
  <2>1. wt[s].tree[f] \in 0..Latest' /\ commits'[id].tree[f] = wt[s].tree[f]
    BY <1>1 DEF Trees, TreeOf
  <2>2. commits'[id].tree[f] <= wt[s].tree[f]
    BY <2>1
  <2>3. wt[s].mergeHead # 0 => commits'[wt[s].mergeHead].tree[f] <= wt[s].tree[f]
    BY <1>1, <1>4 DEF TreeOf
  <2> QED BY <1>2, <2>1, <2>2, <2>3 DEF FileInv, TreeOf
<1> QED BY <1>2, <1>3, <1>4, <1>5 DEF WorktreeInv

\* The worktree is committed before main is touched.
LEMMA CheckpointKeeps ==
  ASSUME MergeInv, NEW s \in Sessions, Checkpoint(s)
  PROVE  MergeInv'
<1>1. /\ actor[s].pc = "ready" /\ UNCHANGED <<main, root, pruner, edits, turns>>
  BY DEF Checkpoint
<1>2. Types /\ actor[s] \in Actors /\ ~actor[s].approval.running /\ wt[s] \in Worktrees
      /\ ConsentInv(s)
  BY <1>1, MergeKnows, StoredBelief DEF Merges
<1>3. CASE CanCommit(s, NoApproval)
  <2>1. PICK id : id = SnapshotId(s, NoApproval)
    OBVIOUS
  <2>2. PICK act, w, c : /\ act = [actor[s] EXCEPT !.pc = "checked"]
                         /\ w = [wt[s] EXCEPT !.branch = id] /\ c = actor[s].commit
    OBVIOUS
  <2>3. /\ commits' = Snapshot(s, NoApproval) /\ Committable(s, NoApproval)
        /\ UNCHANGED <<store, faults, consent, regained>>
    BY <1>3 DEF Checkpoint, Committable, observed
  <2>4. /\ commits' \in Seq(Commits) /\ GraphInv' /\ RootInv' /\ Grows /\ Forward
        /\ Latest' = Latest /\ Latest \in Nat
        /\ id \in DOMAIN commits' /\ id \in Nat /\ id # 0 /\ TreeOf(id)' = wt[s].tree
    BY <1>1, <2>1, <2>3, SnapshotGrows
  <2>5. w \in Worktrees /\ wt' = [wt EXCEPT ![s] = w]
    BY <1>2, <1>3, <2>1, <2>2, <2>4 DEF Checkpoint, Worktrees, Types
  <2>6. wt' \in [Sessions -> Worktrees] /\ wt'[s] = w /\ \A t \in Sessions \ {s} : wt'[t] = wt[t]
    BY <1>2, <2>5 DEF Types
  <2>7. WorktreeInv(s)'
    BY <2>2, <2>3, <2>4, <2>6, SnapshotWorktree
  <2>8. act \in Actors /\ act.pc = "checked" /\ act.approval = actor[s].approval
        /\ act.commit = c /\ act.keep = actor[s].keep
    BY <1>2, <2>2 DEF Actors, Pcs
  <2>9. actor' = [actor EXCEPT ![s] = act] /\ actor'[s] = act
    BY <1>2, <1>3, <2>2 DEF Checkpoint, Goto, Types
  <2>10. ActorInv(s)'
    <3>1. wt'[s].tree = wt[s].tree /\ wt'[s].mergeHead = 0 /\ wt[s].tree # NoTree
      BY <1>2, <1>3, <2>2, <2>6, AskedFields DEF Worktrees, CanCommit, Present
    <3>2. Present(s)' /\ \A x \in DOMAIN commits : x \in DOMAIN commits'
      BY <2>4, <3>1 DEF Present, Grows
    <3> QED BY <1>1, <2>2, <2>3, <2>8, <2>9, <3>1, <3>2, MergeGoesOn DEF Merges
  <2>11. ConsentInv(s)'
    <3>1. wt'[s].merges = wt[s].merges
      BY <1>2, <2>2, <2>6 DEF Worktrees
    <3>2. MergingInv(s, c)'
      BY <1>1, <1>2, <2>2, <2>3, <2>4, <3>1, MergingGoesOn DEF ConsentInv, MergeInv, RepositoryInv
    <3>3. PICK a : a = act.approval
      OBVIOUS
    <3>4. PreparingInv(s, a)' /\ ResolvedInv(s, a, c)' /\ ResolvingInv(s, a)'
      BY <1>2, <2>8, <2>9 DEF PreparingInv, ResolvedInv, ResolvingInv, Resolves
    <3> QED BY <2>8, <2>9, <3>2, <3>3, <3>4, ConsentOf
  <2>12. /\ edits' \in [worktrees : Nat, root : Nat] /\ turns' \in Nat /\ faults' \in Nat
         /\ root' \in [Files -> Int] /\ consent' \in [Sessions -> SUBSET Int]
    BY <1>1, <1>2, <2>3 DEF Types
  <2> QED BY <1>1, <2>3, <2>4, <2>6, <2>7, <2>8, <2>9, <2>10, <2>11, <2>12, ActsBeside DEF Reading
<1>4. CASE ~CanCommit(s, NoApproval)
  <2>1. OfferAgain(s) /\ UNCHANGED <<repository, wt>>
    BY <1>1, <1>4 DEF Checkpoint, repository
  <2> QED BY <1>1, <2>1, OfferAgainKeeps DEF Merges
<1> QED BY <1>3, <1>4

\* The worktree is committed for the offer, a resolution with both its parents.
LEMMA ProposeKeeps ==
  ASSUME MergeInv, NEW s \in Sessions, Propose(s)
  PROVE  MergeInv'
<1>1. PICK a, id, offered :
        /\ a = actor[s].approval /\ id = SnapshotId(s, a)
        /\ offered = IF a.kind # "Resolving" /\ Integrated(id) THEN 0 ELSE id
  OBVIOUS
<1>2. /\ actor[s].pc = "offering"
      /\ UNCHANGED <<main, root, store, pruner, edits, turns, faults, consent, regained>>
  BY DEF Propose, observed
<1>3. /\ Types /\ actor[s] \in Actors /\ wt[s] \in Worktrees /\ a \in Approvals /\ ApprovalInv(a)
      /\ store[s].approval = Paused(a) /\ Believes(s) /\ ConsentInv(s) /\ GraphInv
      /\ ~(a.running /\ actor[s].queued)
  BY <1>1, <1>2, StoredBelief DEF Believes, MergeInv, RepositoryInv, SessionInv, ActorInv
<1>4. /\ edits' \in [worktrees : Nat, root : Nat] /\ turns' \in Nat /\ faults' \in Nat
      /\ root' \in [Files -> Int] /\ consent' \in [Sessions -> SUBSET Int]
  BY <1>2, <1>3 DEF Types
<1>5. CASE CanCommit(s, a)
  <2>1. PICK pc : pc = IF offered = 0 \/ AsCommitted(s, a) THEN "proposed" ELSE "describing"
    OBVIOUS
  <2>2. PICK act, w : /\ act = [actor[s] EXCEPT !.commit = offered, !.pc = pc]
                      /\ w = [wt[s] EXCEPT !.branch = id]
    OBVIOUS
  <2>3. commits' = Snapshot(s, a) /\ Committable(s, a)
    BY <1>1, <1>3, <1>5 DEF Propose, Committable
  <2>4. /\ commits' \in Seq(Commits) /\ GraphInv' /\ RootInv' /\ Grows /\ Forward
        /\ Latest' = Latest /\ Latest \in Nat
        /\ id \in DOMAIN commits' /\ id \in Nat /\ id # 0 /\ TreeOf(id)' = wt[s].tree
        /\ ~AsCommitted(s, a) => id \notin DOMAIN commits /\ ParentsOf(id)' = Parents(s, a)
    BY <1>1, <1>2, <2>3, SnapshotGrows
  <2>5. w \in Worktrees /\ wt' = [wt EXCEPT ![s] = w]
    BY <1>1, <1>3, <1>5, <2>2, <2>4 DEF Propose, Worktrees, Types
  <2>6. wt' \in [Sessions -> Worktrees] /\ wt'[s] = w /\ \A t \in Sessions \ {s} : wt'[t] = wt[t]
    BY <1>3, <2>5 DEF Types
  <2>7. WorktreeInv(s)'
    BY <2>2, <2>3, <2>4, <2>6, SnapshotWorktree
  <2>8. /\ act \in Actors /\ act.pc = pc /\ pc \in {"proposed", "describing"}
        /\ act.approval = a /\ act.commit = offered /\ act.queued = actor[s].queued
        /\ act.turn = actor[s].turn
    BY <1>1, <1>3, <2>1, <2>2, <2>4 DEF Actors, Pcs
  <2>9. actor' = [actor EXCEPT ![s] = act] /\ actor'[s] = act
    BY <1>1, <1>3, <1>5, <2>1, <2>2 DEF Propose, Types
  <2>10. pc = "describing" => offered = id /\ ParentsOf(id)' = Parents(s, a)
    BY <1>1, <2>1, <2>4
  <2>11. wt'[s].tree = wt[s].tree /\ \A f \in Files : wt[s].tree[f] # Marks
    <3>1. wt[s].tree \in Trees
      BY <2>3, SnapshotFiles
    <3> QED BY <1>3, <2>2, <2>4, <2>6, <3>1 DEF Worktrees, Trees, Marks
  <2>12. ActorInv(s)'
    <3>1. ApprovalInv(actor[s].approval)'
      BY <1>3, <2>4, <2>8, <2>9 DEF ApprovalInv, Grows
    <3>2. Believes(s)'
      BY <1>1, <1>2, <1>3, <2>8, <2>9 DEF Believes
    <3>3. offered \in {0} \cup DOMAIN commits'
      BY <1>1, <2>4
    <3>4. pc = "describing" => ParentsOf(actor[s].commit)' # <<>> /\ offered \in DOMAIN commits'
      <4>1. Parents(s, a) # <<>>
        BY DEF Parents
      <4> QED BY <2>4, <2>8, <2>9, <2>10, <4>1 DEF ParentsOf
    <3> QED BY <1>3, <2>8, <2>9, <2>11, <3>1, <3>2, <3>3, <3>4 DEF ActorInv, Merges
  <2>13. ResolvedInv(s, a, offered)'
    <3>1. SUFFICES ASSUME a.kind = "Resolving", a.running, actor[s].turn = "resolution"
                   PROVE  /\ pc = "describing" /\ Given(s)' /\ Conflicting(a)'
                          /\ ParentsOf(offered)' = <<a.commit, a.target>>
                          /\ Adds(s, offered, a.target)'
      BY <2>8, <2>9 DEF ResolvedInv, SkipsQuestion
    <3>2. Resolves(s)
      BY <1>1, <1>2, <3>1 DEF Resolves
    <3>3. /\ Given(s) /\ Conflicting(a) /\ ResolutionPending(s, a)
          /\ \A f \in Files : wt[s].tree[f] \in {Marks, TreeOf(a.target)[f]} \cup consent[s]
      BY <1>1, <1>3, <3>2 DEF ConsentInv, ResolvingInv
    <3>4. Parents(s, a) = <<a.commit, a.target>> /\ offered = id
      BY <1>1, <3>1, <3>3 DEF Parents, ResolutionPending
    <3>5. pc = "describing"
      BY <2>1, <2>4, <3>4 DEF AsCommitted
    <3>6. Given(s)' /\ Conflicting(a)'
      BY <1>2, <1>3, <2>4, <3>3, StableApprovals DEF Given
    <3>7. a.target \in DOMAIN commits /\ commits'[a.target] = commits[a.target]
      BY <1>3, <2>4, <3>1 DEF ApprovalInv, Grows
    <3>8. Adds(s, offered, a.target)'
      BY <1>2, <2>4, <2>11, <3>3, <3>4, <3>7 DEF Adds, TreeOf
    <3>9. ParentsOf(offered)' = <<a.commit, a.target>>
      BY <2>10, <3>4, <3>5 DEF ParentsOf
    <3> QED BY <3>5, <3>6, <3>8, <3>9
  <2>14. ConsentInv(s)'
    <3>1. MergingInv(s, offered)' /\ PreparingInv(s, a)' /\ ResolvingInv(s, a)'
      BY <2>8, <2>9 DEF MergingInv, PreparingInv, ResolvingInv, Resolves
    <3> QED BY <2>8, <2>9, <2>13, <3>1, ConsentOf
  <2> QED BY <1>2, <1>4, <2>4, <2>6, <2>7, <2>8, <2>9, <2>12, <2>14, ActsBeside DEF Reading
<1>6. CASE ~CanCommit(s, a)
  <2>1. PICK act : act = [actor[s] EXCEPT !.pc = "idle", !.turn = "none"]
    OBVIOUS
  <2>2. act \in Actors /\ act.pc = "idle" /\ act.approval = a /\ act.queued = actor[s].queued
    BY <1>1, <1>3, <2>1 DEF Actors, Pcs
  <2>3. actor' = [actor EXCEPT ![s] = act] /\ actor'[s] = act /\ UNCHANGED <<repository, wt>>
    BY <1>1, <1>2, <1>3, <1>6, <2>1 DEF Propose, Types, repository
  <2>4. UNCHANGED commits
    BY <2>3 DEF repository
  <2>5. ActorInv(s)'
    <3>1. ApprovalInv(actor[s].approval)' /\ Believes(s)'
      BY <1>1, <1>2, <1>3, <2>2, <2>3, <2>4 DEF ApprovalInv, Believes
    <3> QED BY <2>2, <2>3, <3>1 DEF ActorInv, Merges
  <2>6. ConsentInv(s)'
    <3>1. PICK c : c = act.commit
      OBVIOUS
    <3>2. MergingInv(s, c)' /\ PreparingInv(s, a)' /\ ResolvingInv(s, a)' /\ ResolvedInv(s, a, c)'
      BY <1>3, <2>2, <2>3 DEF MergingInv, PreparingInv, ResolvingInv, ResolvedInv, Resolves
    <3> QED BY <2>2, <2>3, <3>1, <3>2, ConsentOf
  <2> QED BY <1>2, <1>4, <2>2, <2>3, <2>5, <2>6, ActsAlone DEF Reading
<1> QED BY <1>5, <1>6

\* MERGE_HEAD is cleared when no file has conflict markers.
LEMMA ClearHead ==
  ASSUME MergeInv, NEW s \in Sessions, actor[s].pc \in {"proposed", "describing"},
         UNCHANGED commits, Grows, Forward, Latest' = Latest,
         wt'[s] = [wt[s] EXCEPT !.mergeHead = 0]
  PROVE  WorktreeInv(s)'
<1>1. /\ Types /\ GraphInv /\ WorktreeInv(s) /\ wt[s] \in Worktrees /\ ActorInv(s)
  BY StoredBelief DEF MergeInv, RepositoryInv, SessionInv
<1>2. /\ wt'[s].branch = wt[s].branch /\ wt'[s].tree = wt[s].tree /\ wt'[s].mergeHead = 0
      /\ wt'[s].merges = wt[s].merges
  BY <1>1 DEF Worktrees
<1>3. \A pair \in wt[s].merges : Squashes(pair[1], pair[2])'
  BY <1>1, StableSquashes DEF WorktreeInv
<1>4. ASSUME Present(s), NEW f \in Files PROVE FileInv(s, f)'
  <2>1. FileInv(s, f) /\ wt[s].tree[f] # Marks
    BY <1>1, <1>4 DEF WorktreeInv, ActorInv
  <2>2. wt[s].tree[f] \in 0..Latest' /\ commits'[wt[s].branch].tree[f] <= wt[s].tree[f]
    BY <2>1 DEF FileInv, TreeOf
  <2> QED BY <1>2, <2>2 DEF FileInv, TreeOf
<1>5. Present(s)' <=> Present(s)
  BY <1>2 DEF Present
<1> QED BY <1>1, <1>2, <1>3, <1>4, <1>5 DEF WorktreeInv

\* The worktree changed while its commit was described.
LEMMA OfferFailsKeeps ==
  ASSUME MergeInv, NEW s \in Sessions, OfferFails(s)
  PROVE  MergeInv'
<1>1. PICK a, w : a = actor[s].approval /\ w = [wt[s] EXCEPT !.mergeHead = 0]
  OBVIOUS
<1>2. PICK act : act = [actor[s] EXCEPT !.pc = "idle", !.turn = "none", !.commit = 0]
  OBVIOUS
<1>3. /\ actor[s].pc = "describing"
      /\ UNCHANGED <<repository, commits, main, root, store, pruner, edits, turns, faults, consent, regained>>
  BY DEF OfferFails, observed, repository
<1>4. /\ Types /\ actor[s] \in Actors /\ wt[s] \in Worktrees /\ ApprovalInv(a) /\ Believes(s)
      /\ ~(a.running /\ actor[s].queued) /\ RepositoryInv
  BY <1>1, <1>3, StoredBelief DEF MergeInv, SessionInv, ActorInv
<1>5. Latest' = Latest /\ Latest \in Nat /\ edits' \in [worktrees : Nat, root : Nat]
  BY <1>3, <1>4, LatestNat DEF Latest, Types
<1>6. Grows /\ Forward /\ GraphInv' /\ RootInv'
  BY <1>3, <1>4, <1>5, Still
<1>7. w \in Worktrees /\ wt' = [wt EXCEPT ![s] = w]
  BY <1>1, <1>4 DEF OfferFails, Worktrees, Types
<1>8. wt' \in [Sessions -> Worktrees] /\ wt'[s] = w /\ \A t \in Sessions \ {s} : wt'[t] = wt[t]
  BY <1>4, <1>7 DEF Types
<1>9. WorktreeInv(s)'
  BY <1>1, <1>3, <1>5, <1>6, <1>8, ClearHead
<1>10. act \in Actors /\ act.pc = "idle" /\ act.approval = a /\ act.queued = actor[s].queued
  BY <1>1, <1>2, <1>4 DEF Actors, Pcs
<1>11. actor' = [actor EXCEPT ![s] = act] /\ actor'[s] = act
  BY <1>2, <1>4 DEF OfferFails, Types
<1>12. ActorInv(s)'
  <2>1. ApprovalInv(actor[s].approval)' /\ Believes(s)'
    BY <1>1, <1>3, <1>4, <1>10, <1>11 DEF ApprovalInv, Believes
  <2> QED BY <1>10, <1>11, <2>1 DEF ActorInv, Merges
<1>13. ConsentInv(s)'
  <2>1. PICK c : c = act.commit
    OBVIOUS
  <2>2. MergingInv(s, c)' /\ PreparingInv(s, a)' /\ ResolvingInv(s, a)' /\ ResolvedInv(s, a, c)'
    BY <1>4, <1>10, <1>11 DEF MergingInv, PreparingInv, ResolvingInv, ResolvedInv, Resolves
  <2> QED BY <1>10, <1>11, <2>1, <2>2, ConsentOf
<1>14. /\ turns' \in Nat /\ faults' \in Nat /\ commits' \in Seq(Commits)
       /\ root' \in [Files -> Int] /\ consent' \in [Sessions -> SUBSET Int]
  BY <1>3, <1>4 DEF Types
<1> QED BY <1>3, <1>5, <1>6, <1>8, <1>9, <1>10, <1>11, <1>12, <1>13, <1>14, ActsBeside
        DEF Reading

\* A described commit replaces one of the same files and parents.
LEMMA DescribedGrows ==
  ASSUME MergeInv, NEW s \in Sessions, actor[s].pc = "describing", Describable(s),
         NEW b, b = wt[s].branch, NEW new, new = Len(commits) + 1,
         commits' = Append(commits, Commit(Tip(s).tree, Tip(s).parents)),
         UNCHANGED <<main, root, edits>>
  PROVE  /\ commits' \in Seq(Commits) /\ Grows /\ Forward /\ GraphInv' /\ RootInv'
         /\ Latest' = Latest /\ Latest \in Nat
         /\ new \in DOMAIN commits' /\ new \notin DOMAIN commits /\ new \in Nat /\ new # 0
         /\ b \in DOMAIN commits /\ b = actor[s].commit /\ TreeOf(b) \in Trees
         /\ TreeOf(new)' = TreeOf(b) /\ ParentsOf(b) \in Seq(DOMAIN commits)
         /\ Ancestors(new)' = Lineage(new, ParentsOf(b)) /\ wt[s].tree = TreeOf(b)
<1>1. /\ Types /\ RepositoryInv /\ GraphInv /\ ActorInv(s)
  BY StoredBelief DEF MergeInv, RepositoryInv, SessionInv
<1>2. /\ b \in DOMAIN commits /\ b = actor[s].commit /\ ParentsOf(b) # <<>>
      /\ wt[s].tree = TreeOf(b) /\ Tip(s).tree = TreeOf(b) /\ Tip(s).parents = ParentsOf(b)
  BY <1>1 DEF Describable, ActorInv, Tip, TreeOf, ParentsOf
<1>3. CommitInv(b) /\ TreeOf(b) \in Trees /\ ParentsOf(b) \in Seq(DOMAIN commits)
  BY <1>1, <1>2 DEF GraphInv, CommitInv
<1>4. ASSUME NEW i \in DOMAIN ParentsOf(b), NEW f \in Files
      PROVE  TreeOf(ParentsOf(b)[i])[f] <= TreeOf(b)[f]
  <2>1. ParentsOf(b)[i] \in DOMAIN commits
    BY <1>3
  <2>2. ParentsOf(b)[i] \in Ancestors(ParentsOf(b)[i])
    BY <1>1, <2>1, CommitFacts
  <2>3. ParentsOf(b)[i] \in Ancestors(b)
    BY <1>2, <1>3, <2>2 DEF CommitInv, Lineage
  <2> QED BY <1>3, <2>3 DEF CommitInv
<1>5. /\ commits' \in Seq(Commits) /\ Grows /\ GraphInv'
      /\ DOMAIN commits' = DOMAIN commits \cup {new} /\ new \notin DOMAIN commits
      /\ TreeOf(new)' = TreeOf(b) /\ Ancestors(new)' = Lineage(new, ParentsOf(b))
  BY <1>1, <1>2, <1>3, <1>4, NewCommit
<1>6. Latest' = Latest /\ Latest \in Nat
  BY <1>1, LatestNat DEF Latest
<1>7. Forward /\ RootInv'
  BY <1>1, <1>5, <1>6, BesideMain
<1>8. new \in Nat /\ new # 0
  BY <1>1 DEF Types
<1> QED BY <1>2, <1>3, <1>5, <1>6, <1>7, <1>8

\* A resolution that is offered was put onto the commit of main it resolves, so
\* that main may take it without asking again.
LEMMA OfferKeeps ==
  ASSUME MergeInv, NEW s \in Sessions, Offer(s)
  PROVE  MergeInv'
<1>1. PICK a, c, old :
        /\ a = actor[s].approval /\ old = actor[s].commit
        /\ c = IF actor[s].pc = "describing" THEN Len(commits) + 1 ELSE old
  OBVIOUS
<1>2. /\ actor[s].pc \in {"proposed", "describing"}
      /\ actor[s].pc = "describing" => Describable(s)
      /\ commits' = Described(s)
      /\ wt' = [wt EXCEPT ![s].mergeHead = 0,
                          ![s].branch = IF actor[s].pc = "describing" THEN c ELSE @]
      /\ UNCHANGED <<main, root, pruner, edits, turns>>
  BY <1>1 DEF Offer
<1>3. /\ Types /\ actor[s] \in Actors /\ wt[s] \in Worktrees /\ a \in Approvals /\ ApprovalInv(a)
      /\ ActorInv(s) /\ WorktreeInv(s) /\ ConsentInv(s) /\ GraphInv /\ RepositoryInv
  BY <1>1, StoredBelief DEF MergeInv, RepositoryInv, SessionInv
<1>4. Idle(s) \in Actors /\ Idle(s).pc = "idle"
  BY <1>3, IdleType
<1>5. /\ edits' \in [worktrees : Nat, root : Nat] /\ turns' \in Nat /\ root' \in [Files -> Int]
  BY <1>2, <1>3 DEF Types
<1>6. /\ commits' \in Seq(Commits) /\ Grows /\ Forward /\ GraphInv' /\ RootInv'
      /\ Latest' = Latest /\ Latest \in Nat
      /\ wt' \in [Sessions -> Worktrees] /\ \A t \in Sessions \ {s} : wt'[t] = wt[t]
      /\ WorktreeInv(s)' /\ c \in {0} \cup DOMAIN commits' /\ c \in Nat
      /\ wt'[s].merges = wt[s].merges
  <2>1. CASE actor[s].pc = "proposed"
    <3>1. PICK w : w = [wt[s] EXCEPT !.mergeHead = 0]
      OBVIOUS
    <3>2. UNCHANGED <<commits, repository>>
      BY <1>2, <2>1 DEF Described, repository
    <3>3. Latest' = Latest /\ Latest \in Nat
      BY <1>2, <1>3, LatestNat DEF Latest
    <3>4. Grows /\ Forward /\ GraphInv' /\ RootInv'
      BY <1>3, <1>5, <3>2, <3>3, Still
    <3>5. w \in Worktrees /\ wt' = [wt EXCEPT ![s] = w] /\ w.merges = wt[s].merges
      BY <1>2, <1>3, <2>1, <3>1 DEF Worktrees, Types
    <3>6. wt' \in [Sessions -> Worktrees] /\ wt'[s] = w /\ \A t \in Sessions \ {s} : wt'[t] = wt[t]
      BY <1>3, <3>5 DEF Types
    <3>7. WorktreeInv(s)'
      BY <2>1, <3>1, <3>2, <3>3, <3>4, <3>6, ClearHead
    <3>8. c \in {0} \cup DOMAIN commits /\ c \in Nat /\ commits' \in Seq(Commits)
      BY <1>1, <1>3, <2>1, <3>2, CommitFacts DEF ActorInv, Types
    <3> QED BY <3>2, <3>3, <3>4, <3>5, <3>6, <3>7, <3>8
  <2>2. CASE actor[s].pc = "describing"
    <3>1. PICK b, w : b = wt[s].branch /\ w = [wt[s] EXCEPT !.mergeHead = 0, !.branch = c]
      OBVIOUS
    <3>2. /\ commits' \in Seq(Commits) /\ Grows /\ Forward /\ GraphInv' /\ RootInv'
          /\ Latest' = Latest /\ Latest \in Nat
          /\ c \in DOMAIN commits' /\ c \in Nat /\ c # 0 /\ TreeOf(b) \in Trees
          /\ TreeOf(c)' = TreeOf(b) /\ wt[s].tree = TreeOf(b)
      BY <1>1, <1>2, <2>2, <3>1, DescribedGrows DEF Described
    <3>3. /\ w \in Worktrees /\ wt' = [wt EXCEPT ![s] = w] /\ w.merges = wt[s].merges
          /\ w.branch = c /\ w.mergeHead = 0 /\ w.tree = TreeOf(b)
      BY <1>2, <1>3, <2>2, <3>1, <3>2 DEF Worktrees, Types
    <3>4. wt' \in [Sessions -> Worktrees] /\ wt'[s] = w /\ \A t \in Sessions \ {s} : wt'[t] = wt[t]
      BY <1>3, <3>3 DEF Types
    <3>5. WorktreeInv(s)'
      <4>1. \A pair \in wt[s].merges : Squashes(pair[1], pair[2])'
        BY <1>3, <3>2, StableSquashes DEF WorktreeInv
      <4>2. ASSUME NEW f \in Files PROVE FileInv(s, f)'
        <5>1. w.tree[f] \in 0..Latest' /\ commits'[c].tree[f] = w.tree[f]
          BY <3>2, <3>3 DEF Trees, TreeOf
        <5>2. commits'[c].tree[f] <= w.tree[f]
          BY <3>2, <5>1
        <5> QED BY <3>3, <3>4, <5>1, <5>2 DEF FileInv, TreeOf
      <4> QED BY <3>2, <3>3, <3>4, <4>1, <4>2 DEF WorktreeInv
    <3> QED BY <3>2, <3>3, <3>4, <3>5
  <2> QED BY <1>2, <2>1, <2>2
<1>7. CASE c # 0 /\ SkipsQuestion(s)
  <2>1. PICK next, rest : next = Approved(c) /\ rest = [Idle(s) EXCEPT !.pc = "approved", !.commit = c]
    OBVIOUS
  <2>2. RecordMerge(s, next, rest) /\ UNCHANGED <<consent, regained>>
    BY <1>1, <1>7, <2>1 DEF Offer, observed
  <2>3. next \in Approvals /\ next.kind = "Approved" /\ next.commit = c /\ ~next.running
    BY <1>6, <2>1, AskedFields
  <2>4. rest \in Actors /\ rest.pc = "approved" /\ rest.commit = c
    BY <1>4, <1>6, <2>1 DEF Actors, Pcs
  <2>5. /\ actor[s].pc = "describing" /\ Given(s) /\ Conflicting(a)
        /\ ParentsOf(old) = <<a.commit, a.target>> /\ Adds(s, old, a.target)
    BY <1>1, <1>2, <1>3, <1>7 DEF ConsentInv, ResolvedInv
  <2>6. /\ c \in DOMAIN commits' /\ c \notin DOMAIN commits /\ old \in DOMAIN commits
        /\ TreeOf(c)' = TreeOf(old) /\ Ancestors(c)' = Lineage(c, ParentsOf(old))
    BY <1>1, <1>2, <2>5, DescribedGrows DEF Described
  <2>7. Covered(s, c)'
    <3>1. /\ a.commit \in DOMAIN commits /\ a.target \in DOMAIN commits
          /\ a.target \in Ancestors(main)
      BY <1>3, <2>5 DEF ApprovalInv, Conflicting
    <3>2. /\ \A x \in DOMAIN commits : Ancestors(x)' = Ancestors(x) /\ TreeOf(x)' = TreeOf(x)
          /\ \A x \in Ancestors(main) : x \in Ancestors(main)'
      BY <1>3, <1>6, Stable
    <3>3. ParentsOf(old)[1] = a.commit /\ ParentsOf(old)[2] = a.target
          /\ DOMAIN ParentsOf(old) = {1, 2}
      BY <2>5
    <3>4. Ancestors(c)' = {c} \cup Ancestors(a.commit) \cup Ancestors(a.target)
      BY <2>6, <3>3 DEF Lineage
    <3>5. Onto(c, a.target)'
      <4>1. a.target \in Ancestors(c)' /\ a.target # c
        BY <1>3, <2>6, <3>1, <3>4, CommitFacts
      <4>2. ASSUME NEW g \in Ancestors(c)', a.target \in Ancestors(g)'
            PROVE  g \in {a.target, c}
        <5>1. CASE g \in Ancestors(a.commit)
          <6>1. g \in DOMAIN commits /\ Ancestors(g) \subseteq Ancestors(a.commit)
            BY <1>3, <3>1, <5>1, CommitFacts
          <6> QED BY <2>5, <3>2, <4>2, <6>1 DEF Conflicting
        <5>2. CASE g \in Ancestors(a.target)
          <6>1. g \in DOMAIN commits /\ g <= a.target /\ g \in Nat
            BY <1>3, <3>1, <5>2, CommitFacts
          <6>2. a.target \in Ancestors(g)
            BY <3>2, <4>2, <6>1
          <6>3. a.target <= g /\ a.target \in Nat
            BY <1>3, <3>1, <6>1, <6>2, CommitFacts
          <6> QED BY <6>1, <6>3
        <5> QED BY <3>4, <4>2, <5>1, <5>2
      <4> QED BY <4>1, <4>2 DEF Onto
    <3>6. commits'[c].tree = TreeOf(old) /\ commits'[a.target].tree = TreeOf(a.target)
      BY <2>6, <3>1, <3>2 DEF TreeOf
    <3>7. Adds(s, c, a.target)'
      BY <2>2, <2>5, <3>6 DEF Adds, TreeOf
    <3> QED BY <2>6, <3>1, <3>2, <3>5, <3>7 DEF Covered
  <2>8. Recorded(s, c)' = c
    <3>1. \A pair \in wt[s].merges : pair[1] \in DOMAIN commits
      BY <1>3 DEF WorktreeInv, Squashes
    <3> QED BY <1>6, <2>6, <3>1 DEF Recorded
  <2>9. actor'[s] = [rest EXCEPT !.approval = next] => ConsentInv(s)'
    <3>1. SUFFICES ASSUME actor'[s] = [rest EXCEPT !.approval = next] PROVE ConsentInv(s)'
      OBVIOUS
    <3>2. actor'[s].pc = "approved" /\ actor'[s].approval = next /\ actor'[s].commit = c
      BY <2>4, <3>1 DEF Actors
    <3>3. PreparingInv(s, next)' /\ ResolvedInv(s, next, c)' /\ ResolvingInv(s, next)'
      BY <2>3, <3>2 DEF PreparingInv, ResolvedInv, ResolvingInv, Resolves
    <3>4. Covered(s, Recorded(s, c))'
      BY <2>7, <2>8 DEF Covered, Adds, Onto, Ancestors, TreeOf
    <3>5. MergingInv(s, c)'
      BY <2>2, <2>5, <3>4 DEF MergingInv, Given
    <3> QED BY <3>2, <3>3, <3>5, ConsentOf
  <2>10. ApprovalInv(next)'
    BY <1>6, <1>7, <2>3 DEF ApprovalInv
  <2>11. consent' \in [Sessions -> SUBSET Int] /\ \A t \in Sessions : consent[t] \subseteq consent'[t]
    BY <1>3, <2>2 DEF Types
  <2>12. UNCHANGED <<regained, pruner>> /\ actor[s].pc # "pruning"
         /\ rest.commit \in DOMAIN commits'
    BY <1>2, <2>2, <2>4, <2>6
  <2> QED BY <1>5, <1>6, <2>2, <2>3, <2>4, <2>9, <2>10, <2>11, <2>12, RecordedBeside
<1>8. CASE ~(c # 0 /\ SkipsQuestion(s))
  <2>1. PICK next : next = IF c = 0 THEN NoApproval ELSE Awaiting(c)
    OBVIOUS
  <2>2. RecordMerge(s, next, Idle(s)) /\ Revoke(s)
    BY <1>1, <1>8, <2>1 DEF Offer
  <2>3. /\ next \in Approvals /\ ~next.running /\ next.kind \in {"None", "Awaiting"}
        /\ next.kind = "Awaiting" => next.commit = c /\ c # 0
    BY <1>6, <2>1, AskedFields
  <2>4. ApprovalInv(next)'
    BY <1>6, <2>3 DEF ApprovalInv
  <2>5. actor'[s] = [Idle(s) EXCEPT !.approval = next] => ConsentInv(s)'
    <3>1. SUFFICES ASSUME actor'[s] = [Idle(s) EXCEPT !.approval = next] PROVE ConsentInv(s)'
      OBVIOUS
    <3>2. actor'[s].pc = "idle" /\ actor'[s].approval = next
      BY <1>4, <3>1 DEF Actors
    <3> QED BY <2>3, <3>2, QuietKeeps
  <2>6. /\ consent' \in [Sessions -> SUBSET Int] /\ UNCHANGED regained
        /\ \A t \in Sessions \ {s} : consent[t] \subseteq consent'[t]
    BY <1>3, <2>2, Revoked
  <2> QED BY <1>2, <1>4, <1>5, <1>6, <2>2, <2>3, <2>4, <2>5, <2>6, RecordedBeside
<1> QED BY <1>7, <1>8

-----------------------------------------------------------------------------
(* Removal of a worktree                                                   *)

\* Nothing is left of a worktree but its branch and its recorded merges.
LEMMA GoneWorktree ==
  ASSUME Types, GraphInv, Grows, Forward, NEW s \in Sessions, WorktreeInv(s),
         wt[s] \in Worktrees, NEW w, w = Removed \/ w \in PartlyRemoved(s), wt'[s] = w
  PROVE  WorktreeInv(s)' /\ w \in Worktrees /\ w.tree = NoTree
<1>1. /\ Removed.branch = 0 /\ Removed.tree = NoTree /\ Removed.mergeHead = 0
      /\ Removed.merges = {} /\ Removed \in Worktrees
  BY DEF Removed, Worktrees
<1>2. /\ w \in Worktrees /\ w.branch \in {0, wt[s].branch} /\ w.tree = NoTree /\ w.mergeHead = 0
      /\ w.merges \subseteq wt[s].merges
  <2>1. CASE w = Removed
    BY <1>1, <2>1
  <2>2. CASE w \in PartlyRemoved(s)
    <3>1. PICK b \in {0, wt[s].branch}, m \in {{}, wt[s].merges} :
            w = [Removed EXCEPT !.branch = b, !.merges = m]
      BY <2>2 DEF PartlyRemoved
    <3>2. b \in Nat /\ m \in SUBSET (Nat \X Nat) /\ m \subseteq wt[s].merges
      BY DEF Worktrees
    <3> QED BY <1>1, <3>1, <3>2 DEF Worktrees
  <2> QED BY <2>1, <2>2
<1>3. \A pair \in w.merges : Squashes(pair[1], pair[2])'
  BY <1>2, StableSquashes DEF WorktreeInv
<1>4. w.branch \in {0} \cup DOMAIN commits' /\ ~Present(s)'
  BY <1>2 DEF WorktreeInv, Grows, Present
<1> QED BY <1>2, <1>3, <1>4 DEF WorktreeInv

\* The worktree is forgotten and the approval ends.
LEMMA FinishKeeps ==
  ASSUME MergeInv, NEW s \in Sessions, Finish(s)
  PROVE  MergeInv'
<1>1. /\ actor[s].pc = "cleaned" /\ UNCHANGED <<repository, wt, pruner, edits, turns>> /\ Revoke(s)
  BY DEF Finish
<1>2. /\ Types /\ store[s] \in Stored /\ store[s].approval.kind = "Approved" /\ StoreInv(s)
      /\ WorktreeInv(s) /\ RepositoryInv /\ ReadersInv /\ None \in Readers
  BY <1>1, MergeKnows, StoredBelief DEF Merges, SessionInv, MergeInv, Readers
<1>3. PICK cleared, ended :
        /\ cleared = [store[s] EXCEPT !.worktree = FALSE, !.source = None]
        /\ ended = [cleared EXCEPT !.approval = NoApproval, !.asked = FALSE]
  OBVIOUS
<1>4. /\ cleared \in Stored /\ ended \in Stored
      /\ cleared.source = None /\ ended.source = None /\ ended.approval = NoApproval /\ ~ended.asked
      /\ cleared.approval = store[s].approval /\ cleared.asked = store[s].asked
  BY <1>2, <1>3, AskedFields DEF Stored
<1>5. PICK st, act :
        /\ store' = [store EXCEPT ![s] = st] /\ actor' = [actor EXCEPT ![s] = act] /\ faults' \in Nat
        /\ (st = ended /\ act = Idle(s)) \/ (st = cleared /\ act = Down)
  <2>1. CASE /\ store' = [store EXCEPT ![s] = ended] /\ actor' = [actor EXCEPT ![s] = Idle(s)]
             /\ UNCHANGED faults
    BY <1>2, <2>1 DEF Types
  <2>2. CASE store' = [store EXCEPT ![s] = cleared] /\ actor' = [actor EXCEPT ![s] = Down] /\ Fault
    <3>1. faults' \in Nat
      BY <1>2, <2>2 DEF Types, Fault
    <3> QED BY <2>2, <3>1
  <2>3. /\ [store EXCEPT ![s].worktree = FALSE, ![s].source = None] = [store EXCEPT ![s] = cleared]
        /\ [[store EXCEPT ![s] = cleared] EXCEPT ![s].approval = NoApproval, ![s].asked = FALSE]
             = [store EXCEPT ![s] = ended]
    BY <1>2, <1>3 DEF Types
  <2> QED BY <2>1, <2>2, <2>3 DEF Finish
<1>6. /\ act \in Actors /\ act.pc \in {"idle", "down"} /\ act.approval = NoApproval /\ st \in Stored
  <2>1. Down \in Actors /\ Down.pc = "down" /\ Down.approval = NoApproval
    BY DownFields
  <2> QED BY <1>2, <1>4, <1>5, <2>1, IdleType
<1>7. /\ store' \in [Sessions -> Stored] /\ actor' \in [Sessions -> Actors]
      /\ store'[s] = st /\ actor'[s] = act
      /\ \A t \in Sessions \ {s} : store'[t] = store[t] /\ actor'[t] = actor[t]
  BY <1>2, <1>5, <1>6 DEF Types
<1>8. UNCHANGED <<commits, main, root>>
  BY <1>1 DEF repository
<1>9. /\ consent' \in [Sessions -> SUBSET Int] /\ UNCHANGED regained
      /\ \A t \in Sessions \ {s} : consent[t] \subseteq consent'[t]
  BY <1>1, <1>2, Revoked
<1>10. Types' /\ Only(s)
  BY <1>1, <1>2, <1>5, <1>7, <1>8, <1>9 DEF Types, Only
<1>11. Latest' = Latest /\ Latest \in Nat /\ edits' \in [worktrees : Nat, root : Nat]
  BY <1>1, <1>2, LatestNat DEF Latest, Types
<1>12. Grows /\ Forward /\ GraphInv' /\ RootInv' /\ Latest' \in Nat
  BY <1>1, <1>2, <1>11, Still
<1>13. WorktreeInv(s)'
  BY <1>1, <1>2, <1>12, KeepsWorktree DEF RepositoryInv
<1>14. StoreInv(s)'
  <2>1. ApprovalInv(NoApproval)' /\ ~NoApproval.running
    BY AskedFields DEF ApprovalInv
  <2>2. CASE st = ended
    BY <1>4, <1>7, <2>1, <2>2 DEF StoreInv, ApprovalInv
  <2>3. CASE st = cleared
    BY <1>2, <1>4, <1>7, <1>12, <2>3, KeepsStore DEF RepositoryInv
  <2> QED BY <1>5, <2>2, <2>3
<1>15. ActorInv(s)' /\ ConsentInv(s)'
  <2>1. NoApproval \in Approvals /\ NoApproval.kind = "None" /\ ~NoApproval.running
    BY AskedFields
  <2>2. ApprovalInv(actor[s].approval)'
    BY <1>6, <1>7, <2>1 DEF ApprovalInv
  <2>3. act.pc = "idle" => Believes(s)'
    <3>1. Paused(NoApproval) = NoApproval
      BY <2>1, PausedIsPaused
    <3>2. act.pc = "idle" => st = ended
      BY <1>5 DEF Down
    <3> QED BY <1>4, <1>6, <1>7, <2>1, <3>1, <3>2 DEF Believes
  <2> QED BY <1>6, <1>7, <2>1, <2>2, <2>3, QuietKeeps DEF ActorInv, Merges
<1>16. ReadersInv'
  <2>1. \A t \in Sessions :
          /\ store'[t].source \in {store[t].source, None}
          /\ actor'[t].pc \in Reading => actor'[t] = actor[t]
    BY <1>4, <1>5, <1>6, <1>7 DEF Reading
  <2> QED BY <1>2, <1>9, <2>1, KeepsReaders
<1> QED BY <1>1, <1>6, <1>7, <1>10, <1>12, <1>13, <1>14, <1>15, <1>16, OneMoves DEF SessionInv

\* The merged worktree is removed, or kept and offered again.
LEMMA CleanupKeeps ==
  ASSUME MergeInv, NEW s \in Sessions, Cleanup(s)
  PROVE  MergeInv'
<1>1. /\ actor[s].pc = "merged" /\ UNCHANGED <<repository, pruner, edits, turns>>
  BY DEF Cleanup
<1>2. /\ Types /\ actor[s] \in Actors /\ wt[s] \in Worktrees /\ ~actor[s].approval.running
      /\ actor[s].commit \in DOMAIN commits /\ actor[s].commit \in Nat
      /\ WorktreeInv(s) /\ RepositoryInv
  BY <1>1, MergeKnows, StoredBelief DEF Merges, MergeInv
<1>3. UNCHANGED <<commits, main, root>>
  BY <1>1 DEF repository
<1>4. Latest' = Latest /\ Latest \in Nat /\ edits' \in [worktrees : Nat, root : Nat]
  BY <1>1, <1>2, LatestNat DEF Latest, Types
<1>5. Grows /\ Forward /\ GraphInv' /\ RootInv'
  BY <1>1, <1>2, <1>4, Still
<1>6. turns' \in Nat /\ commits' \in Seq(Commits) /\ root' \in [Files -> Int]
  BY <1>1, <1>2, <1>3 DEF Types
<1>7. ASSUME NEW w, w = Removed \/ w \in PartlyRemoved(s), wt' = [wt EXCEPT ![s] = w]
      PROVE  /\ wt' \in [Sessions -> Worktrees] /\ \A t \in Sessions \ {s} : wt'[t] = wt[t]
             /\ WorktreeInv(s)'
  <2>1. wt'[s] = w
    BY <1>2, <1>7 DEF Types
  <2>2. WorktreeInv(s)' /\ w \in Worktrees
    BY <1>2, <1>5, <1>7, <2>1, GoneWorktree DEF RepositoryInv
  <2> QED BY <1>2, <1>7, <2>2 DEF Types
<1>8. CASE /\ wt' = [wt EXCEPT ![s] = Removed] /\ Goto(s, "cleaned")
           /\ UNCHANGED <<store, faults, observed>>
  <2>1. PICK act : act = [actor[s] EXCEPT !.pc = "cleaned"]
    OBVIOUS
  <2>2. act \in Actors /\ act.pc = "cleaned" /\ act.approval = actor[s].approval
        /\ act.commit = actor[s].commit
    BY <1>2, <2>1 DEF Actors, Pcs
  <2>3. actor' = [actor EXCEPT ![s] = act] /\ actor'[s] = act
    BY <1>2, <1>8, <2>1 DEF Goto, Types
  <2>4. ActorInv(s)'
    BY <1>1, <1>3, <1>8, <2>2, <2>3, MergeGoesOn DEF Merges
  <2>5. ConsentInv(s)'
    BY <1>2, <2>2, <2>3, QuietKeeps
  <2>6. faults' \in Nat /\ consent' \in [Sessions -> SUBSET Int] /\ UNCHANGED <<consent, regained>>
    BY <1>2, <1>8 DEF Types, observed
  <2> QED BY <1>1, <1>4, <1>5, <1>6, <1>7, <1>8, <2>2, <2>3, <2>4, <2>5, <2>6, ActsBeside DEF Reading
<1>9. ASSUME Fault, Revoke(s), NEW w \in PartlyRemoved(s), wt' = [wt EXCEPT ![s] = w],
             \/ actor' = [actor EXCEPT ![s] = Down] /\ UNCHANGED store
             \/ LET again == Awaiting(actor[s].commit) IN
                /\ actor' = [actor EXCEPT ![s] = [Idle(s) EXCEPT !.approval = again]]
                /\ store' = Records(s, again)[3]
      PROVE  MergeInv'
  <2>1. /\ consent' \in [Sessions -> SUBSET Int] /\ UNCHANGED regained
        /\ \A t \in Sessions \ {s} : consent[t] \subseteq consent'[t]
    BY <1>2, <1>9, Revoked
  <2>2. CASE actor' = [actor EXCEPT ![s] = Down] /\ UNCHANGED store
    <3>1. actor'[s] = Down
      BY <1>2, <2>2 DEF Types
    <3>2. ActorInv(s)' /\ ConsentInv(s)' /\ Down \in Actors /\ Down.pc = "down"
      BY <1>2, <3>1, DownKeeps
    <3>3. faults' \in Nat
      BY <1>2, <1>9 DEF Fault, Types
    <3> QED BY <1>1, <1>4, <1>5, <1>6, <1>7, <1>9, <2>1, <2>2, <3>2, <3>3, ActsBeside DEF Reading
  <2>3. PICK next : next = Awaiting(actor[s].commit)
    OBVIOUS
  <2>4. CASE /\ actor' = [actor EXCEPT ![s] = [Idle(s) EXCEPT !.approval = next]]
             /\ store' = Records(s, next)[3]
    <3>1. next \in Approvals /\ next.kind = "Awaiting" /\ next.commit = actor[s].commit
          /\ ~next.running
      BY <1>2, <2>3, AskedFields
    <3>2. ApprovalInv(next)'
      BY <1>2, <1>3, <3>1 DEF ApprovalInv
    <3>3. Idle(s) \in Actors /\ Idle(s).pc = "idle"
      BY <1>2, IdleType
    <3>4. actor'[s] = [Idle(s) EXCEPT !.approval = next] => ConsentInv(s)'
      <4>1. SUFFICES ASSUME actor'[s] = [Idle(s) EXCEPT !.approval = next] PROVE ConsentInv(s)'
        OBVIOUS
      <4>2. actor'[s].pc = "idle" /\ actor'[s].approval = next
        BY <3>3, <4>1 DEF Actors
      <4> QED BY <3>1, <4>2, QuietKeeps
    <3> QED BY <1>1, <1>4, <1>5, <1>6, <1>7, <1>9, <2>1, <2>4, <3>1, <3>2, <3>3, <3>4, RecordedBeside
  <2> QED BY <1>9, <2>2, <2>3, <2>4
<1>10. CASE OfferAgain(s) /\ UNCHANGED wt
  BY <1>1, <1>10, OfferAgainKeeps DEF Merges
<1> QED BY <1>8, <1>9, <1>10 DEF Cleanup

-----------------------------------------------------------------------------
(* Worktrees that are created, edited and given up                         *)

\* A new worktree holds the files of its commit.
LEMMA NewWorktree ==
  ASSUME Types', GraphInv', NEW s \in Sessions, NEW id \in DOMAIN commits',
         wt'[s] = [branch |-> id, tree |-> TreeOf(id)', mergeHead |-> 0, merges |-> {}]
  PROVE  WorktreeInv(s)'
<1>1. wt'[s].branch = id /\ wt'[s].tree = commits'[id].tree /\ wt'[s].mergeHead = 0
      /\ wt'[s].merges = {} /\ id # 0
  BY DEF TreeOf, Types
<1>2. Latest' \in Nat /\ commits'[id].tree \in Trees'
  BY DEF Types, Latest, GraphInv, CommitInv, TreeOf
<1>3. \A f \in Files : commits'[id].tree[f] \in 0..Latest' /\ commits'[id].tree[f] <= commits'[id].tree[f]
  BY <1>2 DEF Trees
<1> QED BY <1>1, <1>3 DEF WorktreeInv, FileInv, TreeOf

\* A session without a branch resolves no conflict.
LEMMA NoBranchNoResolution ==
  ASSUME MergeInv, NEW s \in Sessions, wt[s].branch = 0 \/ wt[s].mergeHead = 0
  PROVE  ~Resolves(s)
<1>1. PICK a : a = actor[s].approval
  OBVIOUS
<1>2. Types /\ GraphInv /\ ApprovalInv(a) /\ (Resolves(s) => Conflicting(a) /\ ResolutionPending(s, a))
  BY <1>1, StoredBelief DEF MergeInv, RepositoryInv, ConsentInv, ResolvingInv
<1>3. Conflicting(a) => a.commit # 0 /\ a.target # 0
  BY <1>2, CommitFacts DEF ApprovalInv, Conflicting
<1> QED BY <1>2, <1>3 DEF ResolutionPending

\* A worktree is made from main, or from a checkpoint of the source.
LEMMA FirstWriteKeeps ==
  ASSUME MergeInv, NEW s \in Sessions, FirstWrite(s)
  PROVE  MergeInv'
<1>1. PICK source : source = store[s].source
  OBVIOUS
<1>2. /\ actor[s].pc = "turn" /\ wt[s].branch = 0
      /\ UNCHANGED <<main, root, pruner, edits, turns, consent, regained>>
  BY DEF FirstWrite, observed
<1>3. /\ Types /\ store[s] \in Stored /\ actor[s] \in Actors /\ source \in Readers
      /\ SessionInv(s) /\ ConsentInv(s) /\ Believes(s) /\ RepositoryInv /\ GraphInv /\ ReadersInv
      /\ ~Resolves(s) /\ ~Present(s) /\ PrunerInv
      /\ ~(actor[s].approval.running /\ actor[s].queued)
  <2>1. ~Present(s)
    BY <1>2, StoredBelief DEF SessionInv, WorktreeInv
  <2> QED BY <1>1, <1>2, <2>1, StoredBelief, NoBranchNoResolution
          DEF MergeInv, RepositoryInv, Stored, SessionInv, ActorInv
<1>4. PICK id, w :
        /\ w = [branch |-> id, tree |-> TreeOf(id)', mergeHead |-> 0, merges |-> {}]
        /\ commits' \in Seq(Commits) /\ Grows /\ Forward /\ GraphInv' /\ RootInv'
        /\ Latest' = Latest /\ Latest \in Nat /\ id \in DOMAIN commits'
        /\ w \in Worktrees /\ wt' \in [Sessions -> Worktrees] /\ wt'[s] = w
        /\ \A t \in Sessions \ {s} : WorktreeInv(t)' /\ wt'[t].tree = wt[t].tree
             /\ wt'[t].mergeHead = wt[t].mergeHead /\ wt'[t].merges = wt[t].merges
             /\ (wt'[t].branch = wt[t].branch \/ wt[t].mergeHead = 0)
  <2>1. CASE source = None
    <3>1. PICK id, w : /\ id = main
                    /\ w = [branch |-> id, tree |-> TreeOf(main), mergeHead |-> 0, merges |-> {}]
      OBVIOUS
    <3>2. wt' = [wt EXCEPT ![s] = w] /\ UNCHANGED commits
      BY <1>1, <2>1, <3>1 DEF FirstWrite, TreeOf
    <3>3. Latest' = Latest /\ Latest \in Nat /\ edits' \in [worktrees : Nat, root : Nat]
      BY <1>2, <1>3, LatestNat DEF Latest, Types
    <3>4. UNCHANGED repository
      BY <1>2, <3>2 DEF repository
    <3>5. Grows /\ Forward /\ GraphInv' /\ RootInv'
      BY <1>3, <3>3, <3>4, Still
    <3>6. commits' \in Seq(Commits) /\ id \in DOMAIN commits' /\ TreeOf(id)' = TreeOf(main)
      BY <1>2, <1>3, <3>1, <3>2 DEF Types, TreeOf
    <3>7. w \in Worktrees
      <4>1. main \in Nat /\ TreeOf(main) \in [Files -> Int]
        BY <1>3, <3>3, CommitFacts DEF Trees, Types
      <4> QED BY <3>1, <4>1 DEF Worktrees
    <3>8. wt' \in [Sessions -> Worktrees] /\ wt'[s] = w /\ \A t \in Sessions \ {s} : wt'[t] = wt[t]
      BY <1>3, <3>2, <3>7 DEF Types
    <3>9. ASSUME NEW t \in Sessions \ {s} PROVE WorktreeInv(t)'
      <4>1. store'[t] = store[t]
        BY <1>3 DEF FirstWrite, Types
      <4>2. WorktreeInv(t) /\ Latest' \in Nat /\ wt'[t] = wt[t]
        BY <3>3, <3>8, StoredBelief DEF SessionInv
      <4>3. Types /\ GraphInv /\ Grows /\ Forward
        BY <1>3, <3>5
      <4> QED BY <4>1, <4>2, <4>3, KeepsWorktree
    <3>10. w = [branch |-> id, tree |-> TreeOf(id)', mergeHead |-> 0, merges |-> {}]
      BY <3>1, <3>6
    <3>11. \A t \in Sessions \ {s} : WorktreeInv(t)' /\ wt'[t].tree = wt[t].tree
             /\ wt'[t].mergeHead = wt[t].mergeHead /\ wt'[t].merges = wt[t].merges
             /\ (wt'[t].branch = wt[t].branch \/ wt[t].mergeHead = 0)
      BY <3>8, <3>9
    <3> QED BY <3>3, <3>5, <3>6, <3>7, <3>8, <3>10, <3>11
  <2>2. CASE source # None
    <3>1. PICK id : id = SnapshotId(source, NoApproval)
      OBVIOUS
    <3>2. /\ source \in Sessions /\ Committable(source, NoApproval)
          /\ commits' = Snapshot(source, NoApproval)
          /\ wt' = [wt EXCEPT ![source].branch = id,
                      ![s] = [branch |-> id, tree |-> wt[source].tree, mergeHead |-> 0, merges |-> {}]]
      BY <1>1, <1>3, <2>2, <3>1 DEF FirstWrite, Committable, Readers
    <3>3. source # s /\ wt[source].mergeHead = 0 /\ wt[source] \in Worktrees
      BY <1>3, <3>2, StoredBelief, AskedFields DEF Committable, CanCommit
    <3>4. /\ commits' \in Seq(Commits) /\ GraphInv' /\ RootInv' /\ Grows /\ Forward
          /\ Latest' = Latest /\ Latest \in Nat
          /\ id \in DOMAIN commits' /\ id \in Nat /\ id # 0 /\ TreeOf(id)' = wt[source].tree
      BY <1>2, <3>1, <3>2, SnapshotGrows
    <3>5. PICK w, v :
            /\ w = [branch |-> id, tree |-> wt[source].tree, mergeHead |-> 0, merges |-> {}]
            /\ v = [wt[source] EXCEPT !.branch = id]
      OBVIOUS
    <3>6. /\ w \in Worktrees /\ v \in Worktrees /\ v.tree = wt[source].tree
          /\ v.mergeHead = wt[source].mergeHead /\ v.merges = wt[source].merges
      BY <3>3, <3>4, <3>5 DEF Worktrees
    <3>7. wt' = [wt EXCEPT ![source] = v, ![s] = w]
      BY <1>3, <3>2, <3>5 DEF Types
    <3>8. /\ wt' \in [Sessions -> Worktrees] /\ wt'[s] = w /\ wt'[source] = v
          /\ \A t \in Sessions \ {s, source} : wt'[t] = wt[t]
      <4>1. wt \in [Sessions -> Worktrees]
        BY <1>3 DEF Types
      <4>2. PICK between : between = [wt EXCEPT ![source] = v]
        OBVIOUS
      <4>3. /\ between \in [Sessions -> Worktrees] /\ between[source] = v
            /\ \A t \in Sessions \ {source} : between[t] = wt[t]
        BY <3>2, <3>6, <4>1, <4>2
      <4>4. wt' = [between EXCEPT ![s] = w]
        BY <3>7, <4>2
      <4> QED BY <3>3, <3>6, <4>3, <4>4
    <3>9. WorktreeInv(source)'
      BY <3>2, <3>4, <3>5, <3>8, SnapshotWorktree
    <3>10. ASSUME NEW t \in Sessions \ {s, source} PROVE WorktreeInv(t)'
      <4>1. store'[t] = store[t]
        BY <1>3 DEF FirstWrite, Types
      <4>2. WorktreeInv(t) /\ Latest' \in Nat
        BY <3>4, StoredBelief DEF SessionInv
      <4> QED BY <1>3, <3>4, <3>8, <4>1, <4>2, KeepsWorktree
    <3>11. w = [branch |-> id, tree |-> TreeOf(id)', mergeHead |-> 0, merges |-> {}]
      BY <3>4, <3>5
    <3>12. \A t \in Sessions \ {s} : WorktreeInv(t)' /\ wt'[t].tree = wt[t].tree
             /\ wt'[t].mergeHead = wt[t].mergeHead /\ wt'[t].merges = wt[t].merges
             /\ (wt'[t].branch = wt[t].branch \/ wt[t].mergeHead = 0)
      BY <3>3, <3>6, <3>8, <3>9, <3>10
    <3> QED BY <3>4, <3>6, <3>8, <3>11, <3>12
  <2> QED BY <2>1, <2>2
<1>5. PICK st, act :
        /\ store' = [store EXCEPT ![s] = st] /\ actor' = [actor EXCEPT ![s] = act] /\ faults' \in Nat
        /\ st \in Stored /\ st.approval = store[s].approval /\ st.asked = store[s].asked
        /\ st.source \in {store[s].source, None}
        /\ act \in Actors
        /\ \/ act = Down
           \/ /\ act.pc = "created" /\ act.approval = actor[s].approval
              /\ act.turn = actor[s].turn /\ act.queued = actor[s].queued
  <2>1. CASE /\ store' = [store EXCEPT ![s].worktree = TRUE, ![s].source = None]
             /\ actor' = [actor EXCEPT ![s].pc = "created", ![s].source = source]
             /\ UNCHANGED faults
    <3>1. PICK st, act : /\ st = [store[s] EXCEPT !.worktree = TRUE, !.source = None]
                         /\ act = [actor[s] EXCEPT !.pc = "created", !.source = source]
      OBVIOUS
    <3>2. store' = [store EXCEPT ![s] = st] /\ actor' = [actor EXCEPT ![s] = act]
      BY <1>3, <2>1, <3>1 DEF Types
    <3>3. /\ st \in Stored /\ st.approval = store[s].approval /\ st.asked = store[s].asked
          /\ st.source = None
      BY <1>3, <3>1 DEF Stored, Readers
    <3>4. /\ act \in Actors /\ act.pc = "created" /\ act.approval = actor[s].approval
          /\ act.turn = actor[s].turn /\ act.queued = actor[s].queued
      BY <1>3, <3>1 DEF Actors, Pcs
    <3>5. faults' \in Nat
      BY <1>3, <2>1 DEF Types
    <3> QED BY <3>2, <3>3, <3>4, <3>5
  <2>2. CASE Fault /\ actor' = [actor EXCEPT ![s] = Down] /\ UNCHANGED store
    <3>1. faults' \in Nat
      BY <1>3, <2>2 DEF Fault, Types
    <3>2. store' = [store EXCEPT ![s] = store[s]]
      BY <1>3, <2>2 DEF Types
    <3> QED BY <1>3, <2>2, <3>1, <3>2, DownFields
  <2> QED BY <1>1, <2>1, <2>2 DEF FirstWrite
<1>6. /\ store' \in [Sessions -> Stored] /\ actor' \in [Sessions -> Actors]
      /\ store'[s] = st /\ actor'[s] = act
      /\ \A t \in Sessions \ {s} : store'[t] = store[t] /\ actor'[t] = actor[t]
  BY <1>3, <1>5 DEF Types
<1>7. Types'
  BY <1>2, <1>3, <1>4, <1>5, <1>6 DEF Types, Forward
<1>8. WorktreeInv(s)'
  BY <1>4, <1>7, NewWorktree
<1>9. StoreInv(s)'
  BY <1>3, <1>4, <1>5, <1>6, KeepsStore DEF SessionInv
<1>10. ActorInv(s)' /\ ConsentInv(s)'
  <2>1. CASE act = Down
    BY <1>3, <1>6, <2>1, DownKeeps
  <2>2. CASE /\ act.pc = "created" /\ act.approval = actor[s].approval
             /\ act.turn = actor[s].turn /\ act.queued = actor[s].queued
    <3>1. PICK a, c : a = act.approval /\ c = act.commit
      OBVIOUS
    <3>2. ApprovalInv(actor[s].approval)' /\ Believes(s)'
      <4>1. ApprovalInv(a)
        BY <2>2, <3>1, StoredBelief
      <4> QED BY <1>3, <1>4, <1>5, <1>6, <2>2, <3>1, <4>1 DEF ApprovalInv, Believes, Grows
    <3>3. ActorInv(s)'
      BY <1>3, <1>6, <2>2, <3>2 DEF ActorInv, Merges
    <3>4. ~Resolves(s)'
      BY <1>2, <1>3, <1>6, <2>2 DEF Resolves
    <3>5. MergingInv(s, c)' /\ PreparingInv(s, a)' /\ ResolvingInv(s, a)' /\ ResolvedInv(s, a, c)'
      BY <1>6, <2>2, <3>4 DEF MergingInv, PreparingInv, ResolvingInv, ResolvedInv
    <3> QED BY <1>6, <3>1, <3>3, <3>5, ConsentOf
  <2> QED BY <1>5, <2>1, <2>2
<1>11. ASSUME NEW t \in Sessions \ {s} PROVE SessionInv(t)' /\ ConsentInv(t)'
  <2>1. Apart(t) /\ WorktreeInv(t)'
    BY <1>4, <1>6 DEF Apart
  <2> QED BY <1>2, <1>3, <1>4, <2>1, StoredBelief, ApartKeeps
<1>12. PrunerInv'
  <2>1. actor'[s].pc # "pruning"
    BY <1>5, <1>6, DownFields
  <2> QED BY <1>2, <1>3, <1>4, <1>6, <2>1, KeepsPruner
<1>13. ReadersInv'
  <2>1. \A t \in Sessions :
          /\ store'[t].source \in {store[t].source, None}
          /\ actor'[t].pc \in Reading => actor'[t] = actor[t]
    <3>1. actor'[s].pc \notin Reading
      BY <1>5, <1>6, DownFields DEF Reading
    <3> QED BY <1>5, <1>6, <3>1
  <2> QED BY <1>2, <1>3, <2>1, KeepsReaders
<1>14. SessionInv(s)' /\ RepositoryInv'
  BY <1>4, <1>8, <1>9, <1>10 DEF SessionInv, RepositoryInv, Forward
<1> QED BY <1>7, <1>10, <1>11, <1>12, <1>13, <1>14 DEF MergeInv

\* An edit is younger than all that was written, and covered when the user has
\* approved the conflict that it resolves.
LEMMA ChangeGrows ==
  ASSUME MergeInv, NEW s \in Sessions, NEW f \in Files, Present(s), Change(s, f),
         UNCHANGED repository, NEW fresh, fresh = Fresh
  PROVE  /\ Grows /\ Forward /\ GraphInv' /\ RootInv' /\ edits' \in [worktrees : Nat, root : Nat]
         /\ Latest' \in Nat /\ Latest \in Nat /\ fresh \in Nat /\ Latest' = fresh /\ Latest < fresh
         /\ consent' \in [Sessions -> SUBSET Int] /\ UNCHANGED regained
         /\ \A t \in Sessions : consent[t] \subseteq consent'[t]
         /\ actor[s].approval.kind = "Resolving" /\ consent[s] # {} => fresh \in consent'[s]
         /\ wt' \in [Sessions -> Worktrees] /\ \A t \in Sessions \ {s} : wt'[t] = wt[t]
         /\ wt'[s].branch = wt[s].branch /\ wt'[s].mergeHead = wt[s].mergeHead
         /\ wt'[s].merges = wt[s].merges /\ Present(s)'
         /\ wt'[s].tree[f] = fresh /\ \A g \in Files \ {f} : wt'[s].tree[g] = wt[s].tree[g]
<1>1. Types /\ RepositoryInv /\ wt[s] \in Worktrees
  BY StoredBelief DEF MergeInv
<1>2. edits' \in [worktrees : Nat, root : Nat]
      /\ edits'.worktrees = edits.worktrees + 1 /\ edits'.root = edits.root
  BY <1>1 DEF Change, Types
<1>3. Latest \in Nat /\ fresh = Latest + 1 /\ Latest' = Latest + 1
  <2>1. edits.worktrees \in Nat /\ edits.root \in Nat
    BY <1>1 DEF Types
  <2>2. fresh = edits.worktrees + edits.root + 1
    BY DEF Fresh
  <2> QED BY <1>2, <2>1, <2>2 DEF Latest
<1>4. Grows /\ Forward /\ GraphInv' /\ RootInv'
  BY <1>1, <1>2, <1>3, Still
<1>5. PICK more :
        /\ more = IF consent[s] # {} /\ actor[s].approval.kind = "Resolving"
                  THEN consent[s] \cup {fresh} ELSE consent[s]
        /\ consent' = [consent EXCEPT ![s] = more]
  BY DEF Change
<1>6. more \in SUBSET Int /\ consent[s] \subseteq more
  BY <1>1, <1>3, <1>5 DEF Types
<1>7. consent' \in [Sessions -> SUBSET Int] /\ \A t \in Sessions : consent[t] \subseteq consent'[t]
      /\ consent'[s] = more
  BY <1>1, <1>5, <1>6 DEF Types
<1>8. PICK tree, w : tree = [wt[s].tree EXCEPT ![f] = fresh] /\ w = [wt[s] EXCEPT !.tree = tree]
  OBVIOUS
<1>9. wt[s].tree \in [Files -> Int]
  BY <1>1 DEF Worktrees, Present
<1>10. tree \in [Files -> Int] /\ tree[f] = fresh /\ \A g \in Files \ {f} : tree[g] = wt[s].tree[g]
  BY <1>3, <1>8, <1>9
<1>11. tree # NoTree
  <2>1. DOMAIN NoTree = {}
    BY DEF NoTree
  <2> QED BY <1>10, <2>1
<1>12. w \in Worktrees /\ w.branch = wt[s].branch /\ w.mergeHead = wt[s].mergeHead
       /\ w.merges = wt[s].merges /\ w.tree = tree
  BY <1>1, <1>8, <1>10 DEF Worktrees
<1>13. wt' = [wt EXCEPT ![s] = w]
  BY <1>1, <1>8 DEF Change, Types
<1>14. wt' \in [Sessions -> Worktrees] /\ wt'[s] = w /\ \A t \in Sessions \ {s} : wt'[t] = wt[t]
  BY <1>1, <1>12, <1>13 DEF Types
<1>15. Present(s)'
  BY <1>11, <1>12, <1>14 DEF Present
<1>16. UNCHANGED regained
  BY DEF Change
<1> QED BY <1>2, <1>3, <1>4, <1>5, <1>7, <1>10, <1>12, <1>14, <1>15, <1>16

\* So it keeps what is known of the worktree and of the conflict.
LEMMA ChangeKeeps ==
  ASSUME MergeInv, NEW s \in Sessions, NEW f \in Files, Present(s), Change(s, f),
         UNCHANGED <<repository, store>>, NEW a, a = actor[s].approval, Resolves(s)' => Resolves(s)
  PROVE  WorktreeInv(s)' /\ ResolvingInv(s, a)'
<1>1. PICK fresh : fresh = Fresh
  OBVIOUS
<1>2. /\ Grows /\ Forward /\ GraphInv' /\ RootInv' /\ edits' \in [worktrees : Nat, root : Nat]
      /\ Latest' \in Nat /\ Latest \in Nat /\ fresh \in Nat /\ Latest' = fresh /\ Latest < fresh
      /\ consent[s] \subseteq consent'[s]
      /\ (a.kind = "Resolving" /\ consent[s] # {} => fresh \in consent'[s])
      /\ wt'[s].branch = wt[s].branch /\ wt'[s].mergeHead = wt[s].mergeHead
      /\ wt'[s].merges = wt[s].merges /\ Present(s)'
      /\ wt'[s].tree[f] = fresh /\ \A g \in Files \ {f} : wt'[s].tree[g] = wt[s].tree[g]
  BY <1>1, ChangeGrows
<1>3. Types /\ GraphInv /\ WorktreeInv(s) /\ ApprovalInv(a) /\ ResolvingInv(s, a)
  BY StoredBelief DEF MergeInv, RepositoryInv, SessionInv, ConsentInv
<1>4. /\ wt[s].branch \in DOMAIN commits /\ wt[s].mergeHead \in {0} \cup DOMAIN commits
      /\ \A g \in Files : FileInv(s, g)
      /\ wt[s].branch # 0
  BY <1>3 DEF WorktreeInv
<1>5. \A x \in DOMAIN commits : /\ x \in DOMAIN commits' /\ commits'[x] = commits[x]
                               /\ \A g \in Files : TreeOf(x)[g] \in 0..Latest
  BY <1>2, <1>3, CommitFacts DEF Grows
<1>6. WorktreeInv(s)'
  <2>1. \A pair \in wt[s].merges : Squashes(pair[1], pair[2])'
    BY <1>2, <1>3, StableSquashes DEF WorktreeInv
  <2>2. FileInv(s, f)'
    <3>1. \A x \in DOMAIN commits : commits'[x].tree[f] <= fresh
      BY <1>2, <1>5 DEF TreeOf
    <3> QED BY <1>2, <1>4, <3>1 DEF FileInv, TreeOf
  <2>3. ASSUME NEW g \in Files \ {f} PROVE FileInv(s, g)'
    <3>1. FileInv(s, g) /\ wt'[s].tree[g] = wt[s].tree[g] /\ store' = store
      BY <1>2, <1>4
    <3>2. 0..Latest \subseteq 0..Latest'
      BY <1>2
    <3> QED BY <1>2, <1>4, <1>5, <3>1, <3>2 DEF FileInv, TreeOf
  <2>4. \A g \in Files : FileInv(s, g)'
    BY <2>2, <2>3
  <2>5. /\ wt'[s].branch \in {0} \cup DOMAIN commits' /\ wt'[s].branch # 0
        /\ wt'[s].mergeHead \in {0} \cup DOMAIN commits' /\ wt'[s].merges = wt[s].merges
    BY <1>2, <1>4, <1>5
  <2> QED BY <2>1, <2>4, <2>5 DEF WorktreeInv
<1>7. ResolvingInv(s, a)'
  <2>1. SUFFICES ASSUME Resolves(s) PROVE ResolvingInv(s, a)'
    BY DEF ResolvingInv
  <2>2. /\ Given(s) /\ Conflicting(a) /\ ResolutionPending(s, a) /\ a.kind = "Resolving"
        /\ \A g \in Files : wt[s].tree[g] \in {Marks, TreeOf(a.target)[g]} \cup consent[s]
    BY <1>3, <2>1 DEF ResolvingInv, Conflicting
  <2>3. Given(s)' /\ fresh \in consent'[s]
    BY <1>2, <2>2 DEF Given
  <2>4. Conflicting(a)' /\ TreeOf(a.target)' = TreeOf(a.target)
    BY <1>2, <1>3, <2>2, StableApprovals, StableBase
  <2>5. ResolutionPending(s, a)'
    BY <1>2, <2>2 DEF ResolutionPending
  <2>6. \A g \in Files : wt'[s].tree[g] \in {Marks, TreeOf(a.target)'[g]} \cup consent'[s]
    BY <1>2, <2>2, <2>3, <2>4
  <2> QED BY <2>3, <2>4, <2>5, <2>6 DEF ResolvingInv
<1> QED BY <1>6, <1>7

\* The user edits the worktree of any session.
LEMMA UserEditsKeeps ==
  ASSUME MergeInv, NEW s \in Sessions, NEW f \in Files, UserEdits(s, f)
  PROVE  MergeInv'
<1>1. PICK a, fresh : a = actor[s].approval /\ fresh = Fresh
  OBVIOUS
<1>2. /\ Present(s) /\ Change(s, f)
      /\ UNCHANGED <<repository, commits, main, root, store, actor, pruner, turns, faults>>
  BY DEF UserEdits, repository
<1>3. /\ Grows /\ Forward /\ GraphInv' /\ RootInv' /\ edits' \in [worktrees : Nat, root : Nat]
      /\ Latest' \in Nat /\ fresh \in Nat
      /\ consent' \in [Sessions -> SUBSET Int] /\ UNCHANGED regained
      /\ \A t \in Sessions : consent[t] \subseteq consent'[t]
      /\ wt' \in [Sessions -> Worktrees] /\ \A t \in Sessions \ {s} : wt'[t] = wt[t]
      /\ wt'[s].branch = wt[s].branch /\ wt'[s].mergeHead = wt[s].mergeHead
      /\ wt'[s].merges = wt[s].merges /\ Present(s)'
      /\ wt'[s].tree[f] = fresh /\ \A g \in Files \ {f} : wt'[s].tree[g] = wt[s].tree[g]
  BY <1>1, <1>2, ChangeGrows
<1>4. Types /\ GraphInv /\ RepositoryInv /\ SessionInv(s) /\ ConsentInv(s) /\ ReadersInv /\ PrunerInv
  BY StoredBelief DEF MergeInv, RepositoryInv
<1>5. Types'
  BY <1>2, <1>3, <1>4 DEF Types
<1>6. WorktreeInv(s)' /\ ResolvingInv(s, a)'
  <2>1. Resolves(s)' => Resolves(s)
    BY <1>2 DEF Resolves
  <2> QED BY <1>1, <1>2, <2>1, ChangeKeeps
<1>7. StoreInv(s)'
  BY <1>2, <1>3, <1>4, KeepsStore DEF SessionInv
<1>8. ActorInv(s)'
  <2>1. ActorInv(s) /\ ApprovalInv(actor[s].approval)'
    BY <1>2, <1>4 DEF SessionInv, ActorInv, ApprovalInv
  <2>2. Believes(s)' <=> Believes(s)
    BY <1>2 DEF Believes
  <2>3. actor[s].pc \in {"proposed", "describing"} => \A g \in Files : wt'[s].tree[g] # Marks
    BY <1>2, <1>3, <2>1 DEF ActorInv, Marks
  <2>4. actor' = actor /\ commits' = commits
    BY <1>2
  <2> QED BY <1>3, <2>1, <2>2, <2>3, <2>4 DEF ActorInv, ParentsOf
<1>9. ConsentInv(s)'
  <2>1. ActorInv(s) /\ actor'[s] = actor[s] /\ consent[s] \subseteq consent'[s]
    BY <1>2, <1>3, <1>4 DEF SessionInv
  <2> QED BY <1>1, <1>3, <1>4, <1>6, <2>1, BesideResolving
<1>10. ASSUME NEW t \in Sessions \ {s} PROVE SessionInv(t)' /\ ConsentInv(t)'
  <2>1. SessionInv(t) /\ ConsentInv(t)
    BY StoredBelief
  <2> QED BY <1>2, <1>3, <1>4, <2>1, OtherKeeps
<1>11. PrunerInv'
  BY <1>2, <1>3, <1>4 DEF PrunerInv, Present
<1>12. ReadersInv'
  BY <1>2, <1>3, <1>4 DEF ReadersInv
<1> QED BY <1>3, <1>5, <1>6, <1>7, <1>8, <1>9, <1>10, <1>11, <1>12
        DEF MergeInv, SessionInv, RepositoryInv, Forward

\* So does a task.
LEMMA EditKeeps ==
  ASSUME MergeInv, NEW s \in Sessions, NEW f \in Files, Edit(s, f)
  PROVE  MergeInv'
<1>1. PICK a, act : /\ a = actor[s].approval
                    /\ act = [actor[s] EXCEPT !.pc = "turn", !.source = None]
  OBVIOUS
<1>2. /\ Present(s) /\ Change(s, f) /\ actor[s].pc \in {"turn", "created"}
      /\ UNCHANGED <<repository, commits, main, root, store, pruner, turns, faults>>
  BY DEF Edit, repository
<1>3. /\ Grows /\ Forward /\ GraphInv' /\ RootInv' /\ edits' \in [worktrees : Nat, root : Nat]
      /\ consent' \in [Sessions -> SUBSET Int] /\ UNCHANGED regained
      /\ \A t \in Sessions : consent[t] \subseteq consent'[t]
      /\ wt' \in [Sessions -> Worktrees] /\ \A t \in Sessions \ {s} : wt'[t] = wt[t]
  BY <1>2, ChangeGrows
<1>4. /\ Types /\ actor[s] \in Actors /\ ApprovalInv(a) /\ Believes(s)
      /\ ~(a.running /\ actor[s].queued)
  BY <1>1, <1>2, StoredBelief DEF SessionInv, ActorInv
<1>5. /\ act \in Actors /\ act.pc = "turn" /\ act.approval = a /\ act.queued = actor[s].queued
      /\ act.turn = actor[s].turn
  BY <1>1, <1>4 DEF Actors, Pcs, Readers
<1>6. actor' = [actor EXCEPT ![s] = act]
  BY <1>1, <1>4 DEF Edit, Types
<1>7. actor'[s] = act
  BY <1>4, <1>6 DEF Types
<1>8. WorktreeInv(s)' /\ ResolvingInv(s, a)'
  <2>1. Resolves(s)' => Resolves(s)
    BY <1>1, <1>2, <1>5, <1>7 DEF Resolves
  <2> QED BY <1>1, <1>2, <2>1, ChangeKeeps
<1>9. ActorInv(s)'
  <2>1. ApprovalInv(actor[s].approval)' /\ Believes(s)'
    BY <1>1, <1>2, <1>4, <1>5, <1>7 DEF ApprovalInv, Believes
  <2> QED BY <1>4, <1>5, <1>7, <2>1 DEF ActorInv, Merges
<1>10. ConsentInv(s)'
  <2>1. PICK c : c = act.commit
    OBVIOUS
  <2>2. MergingInv(s, c)' /\ PreparingInv(s, a)' /\ ResolvedInv(s, a, c)'
    BY <1>5, <1>7 DEF MergingInv, PreparingInv, ResolvedInv
  <2> QED BY <1>5, <1>7, <1>8, <2>1, <2>2, ConsentOf
<1>11. /\ turns' \in Nat /\ faults' \in Nat /\ commits' \in Seq(Commits)
       /\ root' \in [Files -> Int]
  BY <1>2, <1>4 DEF Types
<1> QED BY <1>2, <1>3, <1>5, <1>6, <1>8, <1>9, <1>10, <1>11, ActsBeside DEF Reading

\* The worktree of a first write that failed goes, and the fork reads its source.
LEMMA DiscardUnusedKeeps ==
  ASSUME MergeInv, NEW s \in Sessions, DiscardUnused(s)
  PROVE  MergeInv'
<1>1. /\ actor[s].pc = "created" /\ Clean(s) /\ wt[s].mergeHead = 0
      /\ UNCHANGED <<repository, commits, main, root, pruner, edits, turns, consent>>
  BY DEF DiscardUnused, repository, Clean
<1>2. /\ Types /\ store[s] \in Stored /\ actor[s] \in Actors /\ wt[s] \in Worktrees
      /\ SessionInv(s) /\ WorktreeInv(s) /\ Believes(s) /\ RepositoryInv /\ GraphInv
      /\ ReadersInv /\ PrunerInv /\ ~Resolves(s)
      /\ ~(actor[s].approval.running /\ actor[s].queued)
  BY <1>1, StoredBelief, NoBranchNoResolution
     DEF MergeInv, RepositoryInv, SessionInv, ActorInv
<1>3. PICK rest, restored, dropped :
        /\ rest = [actor[s] EXCEPT !.pc = "turn", !.source = None]
        /\ restored = [store[s] EXCEPT !.worktree = FALSE, !.source = actor[s].source]
        /\ dropped = [store[s] EXCEPT !.worktree = FALSE, !.source = None]
  OBVIOUS
<1> DEFINE Becomes(st, act, w) ==
       /\ store' = [store EXCEPT ![s] = st] /\ actor' = [actor EXCEPT ![s] = act]
       /\ wt' = [wt EXCEPT ![s] = w] /\ (w = Removed \/ w \in PartlyRemoved(s))
       /\ act \in {Down, rest} /\ st \in {store[s], restored, dropped}
       /\ regained \subseteq regained' /\ regained' \subseteq regained \cup {s}
       /\ st.source # None => st.source = store[s].source \/ s \in regained'
       /\ faults' \in Nat
<1>4. \E st, act, w : Becomes(st, act, w)
  <2>1. store = [store EXCEPT ![s] = store[s]] /\ restored.source = actor[s].source
        /\ dropped.source = None /\ faults \in Nat
    BY <1>2, <1>3 DEF Types, Stored
  <2>2. CASE /\ wt' = [wt EXCEPT ![s] = Removed]
             /\ store' = [store EXCEPT ![s].worktree = FALSE, ![s].source = actor[s].source]
             /\ actor' = [actor EXCEPT ![s] = rest]
             /\ regained' = IF actor[s].source = None THEN regained ELSE regained \cup {s}
             /\ UNCHANGED faults
    <3>1. store' = [store EXCEPT ![s] = restored]
      BY <1>2, <1>3, <2>2 DEF Types
    <3>2. /\ regained \subseteq regained' /\ regained' \subseteq regained \cup {s}
          /\ restored.source # None => s \in regained'
      BY <2>1, <2>2
    <3>3. Becomes(restored, rest, Removed)
      BY <2>1, <2>2, <3>1, <3>2
    <3> QED BY <3>3
  <2>3. CASE /\ Fault /\ \E v \in PartlyRemoved(s) : wt' = [wt EXCEPT ![s] = v]
             /\ \E a \in {Down, rest} : actor' = [actor EXCEPT ![s] = a]
             /\ UNCHANGED <<store, regained>>
    <3>1. PICK v \in PartlyRemoved(s), a \in {Down, rest} :
            wt' = [wt EXCEPT ![s] = v] /\ actor' = [actor EXCEPT ![s] = a]
      BY <2>3
    <3>2. faults' \in Nat /\ store' = [store EXCEPT ![s] = store[s]] /\ regained' = regained
      BY <2>1, <2>3 DEF Fault
    <3>3. Becomes(store[s], a, v)
      BY <3>1, <3>2
    <3> QED BY <3>3
  <2>4. CASE /\ Fault /\ wt' = [wt EXCEPT ![s] = Removed]
             /\ store' = [store EXCEPT ![s].worktree = FALSE, ![s].source = None]
             /\ actor' = [actor EXCEPT ![s] = Down] /\ UNCHANGED regained
    <3>1. store' = [store EXCEPT ![s] = dropped]
      BY <1>2, <1>3, <2>4 DEF Types
    <3>2. faults' \in Nat /\ regained' = regained
      BY <2>1, <2>4 DEF Fault
    <3>3. Becomes(dropped, Down, Removed)
      BY <2>1, <2>4, <3>1, <3>2
    <3> QED BY <3>3
  <2> HIDE DEF Becomes
  <2> QED BY <1>3, <2>2, <2>3, <2>4 DEF DiscardUnused
<1>4a. PICK st, act, w : Becomes(st, act, w)
  BY <1>4
<1>5. st \in Stored /\ st.approval = store[s].approval /\ st.asked = store[s].asked
  <2>1. restored \in Stored /\ restored.approval = store[s].approval /\ restored.asked = store[s].asked
    <3>1. actor[s].source \in Readers
      BY <1>2 DEF Actors
    <3> QED BY <1>2, <1>3, <3>1 DEF Stored
  <2>2. dropped \in Stored /\ dropped.approval = store[s].approval /\ dropped.asked = store[s].asked
    BY <1>2, <1>3 DEF Stored, Readers
  <2> QED BY <1>2, <1>4a, <2>1, <2>2
<1>6. /\ act \in Actors /\ act.pc \in {"down", "turn"}
      /\ act = rest => /\ act.pc = "turn" /\ act.approval = actor[s].approval
                       /\ act.turn = actor[s].turn /\ act.queued = actor[s].queued
  BY <1>2, <1>3, <1>4a, DownFields DEF Actors, Pcs, Readers
<1>7. /\ store' \in [Sessions -> Stored] /\ actor' \in [Sessions -> Actors]
      /\ store'[s] = st /\ actor'[s] = act /\ wt'[s] = w
      /\ \A t \in Sessions \ {s} :
           store'[t] = store[t] /\ actor'[t] = actor[t] /\ wt'[t] = wt[t]
  BY <1>2, <1>4a, <1>5, <1>6 DEF Types
<1>8. Latest' = Latest /\ Latest \in Nat /\ edits' \in [worktrees : Nat, root : Nat]
  BY <1>1, <1>2, LatestNat DEF Latest, Types
<1>9. Grows /\ Forward /\ GraphInv' /\ RootInv'
  BY <1>1, <1>2, <1>8, Still
<1>10. WorktreeInv(s)' /\ w \in Worktrees
  BY <1>2, <1>4a, <1>7, <1>9, GoneWorktree
<1>11. Types' /\ Only(s)
  <2>1. wt' \in [Sessions -> Worktrees] /\ regained' \subseteq Sessions
    BY <1>2, <1>4a, <1>10 DEF Types
  <2> QED BY <1>1, <1>2, <1>4a, <1>7, <2>1 DEF Types, Only
<1>12. StoreInv(s)'
  BY <1>2, <1>5, <1>7, <1>9, KeepsStore DEF SessionInv
<1>13. ActorInv(s)' /\ ConsentInv(s)'
  <2>1. CASE act = Down
    BY <1>2, <1>7, <2>1, DownKeeps
  <2>2. CASE act = rest
    <3>1. PICK a, c : a = act.approval /\ c = act.commit
      OBVIOUS
    <3>2. ApprovalInv(actor[s].approval)' /\ Believes(s)'
      <4>1. ApprovalInv(a)
        BY <1>6, <2>2, <3>1, StoredBelief
      <4> QED BY <1>1, <1>2, <1>5, <1>6, <1>7, <2>2, <3>1, <4>1 DEF ApprovalInv, Believes
    <3>3. ActorInv(s)'
      BY <1>2, <1>6, <1>7, <2>2, <3>2 DEF ActorInv, Merges
    <3>4. ~Resolves(s)'
      BY <1>1, <1>2, <1>6, <1>7, <2>2 DEF Resolves
    <3>5. MergingInv(s, c)' /\ PreparingInv(s, a)' /\ ResolvingInv(s, a)' /\ ResolvedInv(s, a, c)'
      BY <1>6, <1>7, <2>2, <3>4 DEF MergingInv, PreparingInv, ResolvingInv, ResolvedInv
    <3> QED BY <1>7, <3>1, <3>3, <3>5, ConsentOf
  <2> QED BY <1>4a, <2>1, <2>2
<1>14. ReadersInv'
  <2>1. \A t \in Sessions : actor'[t].pc \in {"ready", "checked", "merged"} => t # s
    BY <1>6, <1>7
  <2>2. ASSUME NEW t \in Sessions, NEW r \in Sessions,
               actor'[t].pc \in {"ready", "checked", "merged"},
               store'[r].source = t, r \notin regained'
        PROVE  actor'[t].keep
    <3>1. t # s /\ actor'[t] = actor[t] /\ r \notin regained /\ store[r].source = t
      BY <1>4a, <1>7, <2>1, <2>2, MergeAssumption
    <3> QED BY <1>2, <2>2, <3>1 DEF ReadersInv
  <2> QED BY <2>2 DEF ReadersInv
<1> QED BY <1>1, <1>6, <1>7, <1>9, <1>10, <1>11, <1>12, <1>13, <1>14, OneMoves DEF SessionInv

\* A fork of a session that may lose its source may lose it too.
LEMMA ForkKeeps ==
  ASSUME MergeInv, NEW p \in Sessions, NEW s \in Sessions, Fork(p, s)
  PROVE  MergeInv'
<1>1. PICK st, act, source :
        /\ source = IF store[p].worktree THEN p ELSE store[p].source
        /\ st = [store[s] EXCEPT !.source = source] /\ act = [actor[s] EXCEPT !.pc = "idle"]
  OBVIOUS
<1>2. /\ actor[p].pc = "idle" /\ actor[s].pc = "unborn" /\ p # s
      /\ store' = [store EXCEPT ![s].source = source]
      /\ actor' = [actor EXCEPT ![p] = Down, ![s].pc = "idle"]
      /\ regained' = IF ~store[p].worktree /\ p \in regained THEN regained \cup {s} ELSE regained
      /\ UNCHANGED <<repository, commits, main, root, wt, pruner, edits, turns, faults, consent>>
  BY <1>1 DEF Fork, repository
<1>3. /\ Types /\ store[s] \in Stored /\ store[p] \in Stored /\ actor[s] \in Actors
      /\ SessionInv(s) /\ SessionInv(p) /\ Believes(s) /\ RepositoryInv /\ GraphInv
      /\ ReadersInv /\ PrunerInv
      /\ ~(actor[s].approval.running /\ actor[s].queued) /\ Down \in Actors /\ Down.pc = "down"
  BY <1>2, StoredBelief, DownFields DEF MergeInv, RepositoryInv, SessionInv, ActorInv
<1>4. /\ st \in Stored /\ st.approval = store[s].approval /\ st.asked = store[s].asked
      /\ st.source = source
  <2>1. source \in Readers
    BY <1>1, <1>3 DEF Stored, Readers
  <2> QED BY <1>1, <1>3, <2>1 DEF Stored
<1>5. /\ act \in Actors /\ act.pc = "idle" /\ act.approval = actor[s].approval
      /\ act.queued = actor[s].queued /\ act.commit = actor[s].commit
  BY <1>1, <1>3 DEF Actors, Pcs
<1>6. /\ store' \in [Sessions -> Stored] /\ store'[s] = st
      /\ \A t \in Sessions \ {s} : store'[t] = store[t]
  <2>1. store' = [store EXCEPT ![s] = st]
    BY <1>1, <1>2, <1>3 DEF Types
  <2> QED BY <1>3, <1>4, <2>1 DEF Types
<1>7. /\ actor' \in [Sessions -> Actors] /\ actor'[s] = act /\ actor'[p] = Down
      /\ \A t \in Sessions \ {s, p} : actor'[t] = actor[t]
  <2>1. actor \in [Sessions -> Actors]
    BY <1>3 DEF Types
  <2>2. PICK left : left = [actor EXCEPT ![p] = Down]
    OBVIOUS
  <2>3. left \in [Sessions -> Actors] /\ left[s] = actor[s] /\ left[p] = Down
        /\ \A t \in Sessions \ {p} : left[t] = actor[t]
    BY <1>2, <1>3, <2>1, <2>2
  <2>4. actor' = [left EXCEPT ![s] = act]
    BY <1>1, <1>2, <2>2, <2>3
  <2> QED BY <1>2, <1>5, <2>3, <2>4
<1>8. Latest' = Latest /\ Latest \in Nat /\ edits' \in [worktrees : Nat, root : Nat]
  BY <1>2, <1>3, LatestNat DEF Latest, Types
<1>9. Grows /\ Forward /\ GraphInv' /\ RootInv' /\ Latest' \in Nat
  BY <1>2, <1>3, <1>8, Still
<1>10. Types'
  BY <1>2, <1>3, <1>6, <1>7 DEF Types
<1>11. SessionInv(s)' /\ ConsentInv(s)'
  <2>1. WorktreeInv(s)'
    BY <1>2, <1>3, <1>4, <1>6, <1>9, KeepsWorktree DEF SessionInv
  <2>2. StoreInv(s)'
    BY <1>3, <1>4, <1>6, <1>9, KeepsStore DEF SessionInv
  <2>3. PICK a, c : a = act.approval /\ c = act.commit
    OBVIOUS
  <2>4. ApprovalInv(actor[s].approval)' /\ Believes(s)'
    <3>1. ApprovalInv(a)
      BY <1>5, <2>3, StoredBelief
    <3> QED BY <1>2, <1>3, <1>4, <1>5, <1>6, <1>7, <2>3, <3>1 DEF ApprovalInv, Believes
  <2>5. ActorInv(s)'
    BY <1>3, <1>5, <1>7, <2>4 DEF ActorInv, Merges
  <2>6. ~Resolves(s)'
    BY <1>3, <1>5, <1>7 DEF Resolves
  <2>7. MergingInv(s, c)' /\ PreparingInv(s, a)' /\ ResolvingInv(s, a)' /\ ResolvedInv(s, a, c)'
    BY <1>5, <1>7, <2>6 DEF MergingInv, PreparingInv, ResolvingInv, ResolvedInv
  <2> QED BY <1>7, <2>1, <2>2, <2>3, <2>5, <2>7, ConsentOf DEF SessionInv
<1>12. SessionInv(p)' /\ ConsentInv(p)'
  <2>1. store'[p] = store[p] /\ wt'[p] = wt[p]
    BY <1>2, <1>6
  <2>2. WorktreeInv(p)'
    BY <1>3, <1>9, <2>1, KeepsWorktree DEF SessionInv
  <2>3. StoreInv(p)'
    BY <1>3, <1>9, <2>1, KeepsStore DEF SessionInv
  <2>4. ActorInv(p)' /\ ConsentInv(p)'
    BY <1>3, <1>7, DownKeeps
  <2> QED BY <2>2, <2>3, <2>4 DEF SessionInv
<1>13. ASSUME NEW t \in Sessions \ {s, p} PROVE SessionInv(t)' /\ ConsentInv(t)'
  <2>1. SessionInv(t) /\ ConsentInv(t)
    BY StoredBelief
  <2> QED BY <1>2, <1>3, <1>6, <1>7, <1>9, <2>1, OtherKeeps
<1>14. PrunerInv'
  <2>1. \A t \in Sessions : actor'[t].pc = "pruning" <=> actor[t].pc = "pruning"
    BY <1>2, <1>3, <1>5, <1>7
  <2> QED BY <1>2, <1>3, <2>1, KeepsPruner
<1>15. ReadersInv'
  <2>1. regained \subseteq regained'
    BY <1>2
  <2>2. ASSUME NEW t \in Sessions, NEW r \in Sessions,
               actor'[t].pc \in {"ready", "checked", "merged"},
               store'[r].source = t, r \notin regained'
        PROVE  actor'[t].keep
    <3>1. t # s /\ t # p /\ actor'[t] = actor[t]
      BY <1>3, <1>5, <1>7, <2>2
    <3>2. CASE r # s
      BY <1>3, <1>6, <2>1, <2>2, <3>1, <3>2 DEF ReadersInv
    <3>3. CASE r = s
      <4>1. store[p].source = t /\ p \notin regained
        BY <1>1, <1>2, <1>4, <1>6, <2>2, <3>1, <3>3
      <4> QED BY <1>3, <2>2, <3>1, <4>1 DEF ReadersInv
    <3> QED BY <3>2, <3>3
  <2> QED BY <2>2 DEF ReadersInv
<1> QED BY <1>9, <1>10, <1>11, <1>12, <1>13, <1>14, <1>15
        DEF MergeInv, RepositoryInv, Forward

-----------------------------------------------------------------------------
(* The user in the checkout of main                                        *)

\* No session takes part in what the user does there.
LEMMA UserKeeps ==
  ASSUME MergeInv, UNCHANGED <<wt, store, actor, pruner, consent, regained>>,
         Types', GraphInv', RootInv', Grows, Forward
  PROVE  MergeInv'
<1>1. Latest' \in Nat
  BY DEF Types, Latest
<1>2. ASSUME NEW t \in Sessions PROVE SessionInv(t)' /\ ConsentInv(t)'
  <2>1. SessionInv(t) /\ ConsentInv(t) /\ Types /\ GraphInv
    BY StoredBelief DEF MergeInv, RepositoryInv
  <2> QED BY <1>1, <2>1, OtherKeeps
<1>3. PrunerInv' /\ ReadersInv'
  BY DEF MergeInv, PrunerInv, ReadersInv, Present
<1> QED BY <1>2, <1>3 DEF MergeInv, RepositoryInv, Forward

\* What the user writes there is younger than main.
LEMMA UserEditsRootKeeps ==
  ASSUME MergeInv, NEW f \in Files, UserEditsRoot(f)
  PROVE  MergeInv'
<1>1. PICK fresh : fresh = Fresh
  OBVIOUS
<1>2. /\ Types /\ RepositoryInv /\ GraphInv /\ RootInv /\ Line(main) /\ main \in DOMAIN commits
      /\ UNCHANGED <<commits, main, wt, store, actor, pruner, turns, faults, consent, regained>>
      /\ root' = [root EXCEPT ![f] = fresh]
  BY <1>1 DEF MergeInv, RepositoryInv, UserEditsRoot, observed, Types
<1>3. edits' \in [worktrees : Nat, root : Nat]
      /\ edits'.worktrees = edits.worktrees /\ edits'.root = edits.root + 1
  BY <1>2 DEF UserEditsRoot, Types
<1>4. Latest \in Nat /\ fresh \in Nat /\ Latest < fresh /\ Latest' = fresh
  <2>1. edits.worktrees \in Nat /\ edits.root \in Nat
    BY <1>2 DEF Types
  <2>2. fresh = edits.worktrees + edits.root + 1
    BY <1>1 DEF Fresh
  <2> QED BY <1>3, <2>1, <2>2 DEF Latest
<1>5. Grows /\ GraphInv'
  BY <1>2, <1>4, SameGrows
<1>6. \A g \in Files : TreeOf(main)[g] \in 0..Latest
  BY <1>2, CommitFacts
<1>7. Forward
  BY <1>2, <1>4, <1>6 DEF Forward, Line, Ancestors, TreeOf
<1>8. RootInv' /\ root' \in [Files -> Int]
  <2>1. root \in Trees /\ \A g \in Files : TreeOf(main)[g] <= root[g]
    BY <1>2 DEF RootInv
  <2>2. root' \in [Files -> 0..fresh]
    BY <1>2, <1>4, <2>1 DEF Trees
  <2>3. \A g \in Files : TreeOf(main)[g] <= root'[g]
    BY <1>2, <1>4, <1>6, <2>1 DEF Trees
  <2> QED BY <1>2, <1>4, <2>2, <2>3 DEF RootInv, Trees, TreeOf
<1>9. Types'
  BY <1>2, <1>3, <1>8 DEF Types
<1> QED BY <1>2, <1>5, <1>7, <1>8, <1>9, UserKeeps

\* Reverted files are those of main.
LEMMA UserRevertsKeeps ==
  ASSUME MergeInv, UserReverts
  PROVE  MergeInv'
<1>1. /\ Types /\ RepositoryInv /\ GraphInv /\ Line(main) /\ main \in DOMAIN commits
      /\ UNCHANGED <<commits, main, wt, store, actor, pruner, edits, turns, faults, consent, regained>>
      /\ root' = TreeOf(main)
  BY DEF MergeInv, RepositoryInv, UserReverts, observed, Types, TreeOf
<1>2. Latest \in Nat /\ Latest' = Latest
  BY <1>1, LatestNat DEF Latest
<1>3. Grows /\ GraphInv'
  BY <1>1, <1>2, SameGrows
<1>4. TreeOf(main) \in Trees /\ \A g \in Files : TreeOf(main)[g] \in 0..Latest
  BY <1>1, CommitFacts
<1>5. Forward
  BY <1>1, <1>2, <1>4 DEF Forward, Line, Ancestors, TreeOf
<1>6. RootInv' /\ root' \in [Files -> Int]
  BY <1>1, <1>2, <1>4 DEF RootInv, Trees, TreeOf
<1>7. Types'
  BY <1>1, <1>6 DEF Types
<1> QED BY <1>1, <1>3, <1>5, <1>6, <1>7, UserKeeps

\* Main moves to a new commit on top of it.
LEMMA MainGrows ==
  ASSUME Types, RepositoryInv, NEW tree \in Trees, \A f \in Files : TreeOf(main)[f] <= tree[f],
         NEW new, new = Len(commits) + 1, commits' = Append(commits, Commit(tree, <<main>>)),
         main' \in {main, new}, UNCHANGED edits
  PROVE  /\ commits' \in Seq(Commits) /\ Grows /\ Forward /\ GraphInv'
         /\ new \in DOMAIN commits' /\ new \notin DOMAIN commits /\ new \in Nat /\ new # 0
         /\ TreeOf(new)' = tree /\ Ancestors(new)' = {new} \cup Ancestors(main)
         /\ Latest' = Latest /\ Latest \in Nat
<1>1. GraphInv /\ Line(main) /\ main \in DOMAIN commits /\ new \in Nat /\ new # 0
  BY DEF RepositoryInv, Types
<1>2. PICK parents : parents = <<main>>
  OBVIOUS
<1>3. parents \in Seq(DOMAIN commits) /\ parents # <<>> /\ DOMAIN parents = {1} /\ parents[1] = main
  BY <1>1, <1>2
<1>4. \A i \in DOMAIN parents, f \in Files : TreeOf(parents[i])[f] <= tree[f]
  BY <1>3
<1>5. /\ commits' \in Seq(Commits) /\ Grows /\ GraphInv'
      /\ DOMAIN commits' = DOMAIN commits \cup {new} /\ new \notin DOMAIN commits
      /\ TreeOf(new)' = tree /\ ParentsOf(new)' = parents
      /\ Ancestors(new)' = Lineage(new, parents)
  BY <1>1, <1>2, <1>3, <1>4, NewCommit
<1>6. Ancestors(new)' = {new} \cup Ancestors(main)
  BY <1>3, <1>5 DEF Lineage
<1>7. Latest' = Latest /\ Latest \in Nat
  BY LatestNat DEF Latest
<1>8. DOMAIN commits' \subseteq Nat
  BY <1>5
<1>9. Forward
  <2>1. CASE main' = new
    <3>1. ParentsOf(new)' = <<main>> /\ new \in DOMAIN commits'
      BY <1>2, <1>5
    <3> QED BY <1>1, <1>5, <1>8, <2>1, <3>1, MainMoves
  <2>2. CASE main' = main
    <3>1. /\ commits'[main] = commits[main] /\ main \in DOMAIN commits'
          /\ \A x \in Ancestors(main) : x \in DOMAIN commits /\ commits'[x] = commits[x]
      BY <1>1, <1>5, CommitFacts DEF Grows
    <3>2. \A f \in Files : TreeOf(main)[f] <= TreeOf(main)[f]
      BY <1>1, CommitFacts
    <3> QED BY <1>1, <2>2, <3>1, <3>2 DEF Forward, Line, Ancestors, TreeOf
  <2> QED BY <2>1, <2>2
<1> QED BY <1>1, <1>5, <1>6, <1>7, <1>9

\* The user commits what is checked out.
LEMMA UserCommitsKeeps ==
  ASSUME MergeInv, UserCommits
  PROVE  MergeInv'
<1>1. PICK new, tree : new = Len(commits) + 1 /\ tree = root
  OBVIOUS
<1>2. /\ Types /\ RepositoryInv /\ RootInv /\ root \in [Files -> Int]
      /\ UNCHANGED <<root, wt, store, actor, pruner, edits, turns, faults, consent, regained>>
  BY DEF MergeInv, RepositoryInv, UserCommits, observed, Types
<1>3. tree \in Trees /\ \A f \in Files : TreeOf(main)[f] <= tree[f]
  BY <1>1, <1>2 DEF RootInv
<1>4. commits' = Append(commits, Commit(tree, <<main>>)) /\ main' = new
  <2>1. commits' = Append(commits, Commit(tree, <<main>>)) /\ main' = Len(commits')
    BY <1>1 DEF UserCommits
  <2>2. Len(Append(commits, Commit(tree, <<main>>))) = new
    BY <1>1, <1>2 DEF Types
  <2> QED BY <2>1, <2>2
<1>5. /\ commits' \in Seq(Commits) /\ Grows /\ Forward /\ GraphInv' /\ new \in DOMAIN commits'
      /\ TreeOf(new)' = tree /\ Latest' = Latest /\ Latest \in Nat
  BY <1>1, <1>2, <1>3, <1>4, MainGrows
<1>6. RootInv'
  <2>1. commits'[main'].tree = tree /\ root' = tree /\ Trees' = Trees
    BY <1>1, <1>2, <1>4, <1>5 DEF TreeOf, Trees
  <2>2. \A f \in Files : tree[f] <= tree[f]
    BY <1>3, <1>5 DEF Trees
  <2> QED BY <1>3, <2>1, <2>2 DEF RootInv, TreeOf
<1>7. Types'
  BY <1>2, <1>4, <1>5 DEF Types
<1> QED BY <1>2, <1>5, <1>6, <1>7, UserKeeps

-----------------------------------------------------------------------------
(* The pruner                                                              *)

NoStore == [worktree |-> FALSE, source |-> None, approval |-> NoApproval, asked |-> FALSE]

\* The pruner takes a session that is down, its worktree and what is stored of it.
LEMMA PruneKeeps ==
  ASSUME MergeInv, NEW s \in Sessions, actor[s].pc \in {"down", "pruning"},
         NEW p \in {"down", "pruning"}, Goto(s, p),
         NEW w, w = wt[s] \/ w = Removed \/ w \in PartlyRemoved(s), wt' = [wt EXCEPT ![s] = w],
         NEW st, st = store[s] \/ (st = NoStore /\ ~Present(s) /\ w = wt[s]),
         store' = [store EXCEPT ![s] = st],
         UNCHANGED <<repository, edits, observed>>, turns' \in Nat, faults' \in Nat,
         pruner' \in [pc : {"none", "looked", "claimed", "removed"}, target : Readers, force : BOOLEAN],
         PrunerInv'
  PROVE  MergeInv'
<1>1. PICK act : act = [actor[s] EXCEPT !.pc = p]
  OBVIOUS
<1>2. /\ Types /\ actor[s] \in Actors /\ store[s] \in Stored /\ wt[s] \in Worktrees
      /\ SessionInv(s) /\ WorktreeInv(s) /\ RepositoryInv /\ GraphInv /\ ReadersInv
      /\ ~(actor[s].approval.running /\ actor[s].queued)
      /\ UNCHANGED <<commits, main, root, consent, regained>>
  BY StoredBelief DEF MergeInv, RepositoryInv, SessionInv, ActorInv, repository, observed
<1>3. act \in Actors /\ act.pc = p /\ act.approval = actor[s].approval
  BY <1>1, <1>2 DEF Actors, Pcs
<1>4. actor' \in [Sessions -> Actors] /\ actor'[s] = act
      /\ \A t \in Sessions \ {s} : actor'[t] = actor[t]
  <2>1. actor' = [actor EXCEPT ![s] = act]
    BY <1>1, <1>2 DEF Goto, Types
  <2> QED BY <1>2, <1>3, <2>1 DEF Types
<1>5. NoStore \in Stored /\ NoStore.source = None /\ NoStore.approval = NoApproval /\ ~NoStore.asked
  BY AskedFields DEF NoStore, Stored, Readers
<1>6. store' \in [Sessions -> Stored] /\ store'[s] = st
      /\ \A t \in Sessions \ {s} : store'[t] = store[t]
  BY <1>2, <1>5 DEF Types
<1>7. Latest' = Latest /\ Latest \in Nat /\ edits' \in [worktrees : Nat, root : Nat]
  BY <1>2, LatestNat DEF Latest, Types
<1>8. Grows /\ Forward /\ GraphInv' /\ RootInv' /\ Latest' \in Nat
  BY <1>2, <1>7, Still
<1>9. wt'[s] = w /\ \A t \in Sessions \ {s} : wt'[t] = wt[t]
  BY <1>2 DEF Types
<1>10. WorktreeInv(s)' /\ w \in Worktrees
  <2>1. CASE w = Removed \/ w \in PartlyRemoved(s)
    BY <1>2, <1>8, <1>9, <2>1, GoneWorktree
  <2>2. CASE w = wt[s] /\ st = store[s]
    BY <1>2, <1>6, <1>8, <1>9, <2>2, KeepsWorktree
  <2>3. CASE w = wt[s] /\ ~Present(s)
    <3>1. \A pair \in wt[s].merges : Squashes(pair[1], pair[2])'
      BY <1>2, <1>8, StableSquashes DEF WorktreeInv
    <3> QED BY <1>2, <1>9, <2>3, <3>1 DEF WorktreeInv, Present
  <2> QED BY <2>1, <2>2, <2>3
<1>11. wt' \in [Sessions -> Worktrees]
  BY <1>2, <1>10 DEF Types
<1>12. Types'
  BY <1>2, <1>4, <1>6, <1>7, <1>11 DEF Types
<1>13. StoreInv(s)'
  <2>1. CASE st = store[s]
    BY <1>2, <1>6, <1>8, <2>1, KeepsStore DEF SessionInv
  <2>2. CASE st = NoStore
    BY <1>5, <1>6, <2>2, AskedFields DEF StoreInv, ApprovalInv
  <2> QED BY <2>1, <2>2
<1>14. ActorInv(s)' /\ ConsentInv(s)'
  <2>1. PICK a, c : a = act.approval /\ c = act.commit
    OBVIOUS
  <2>2. ApprovalInv(actor[s].approval)'
    <3>1. ApprovalInv(a)
      BY <1>3, <2>1, StoredBelief
    <3> QED BY <1>2, <1>4, <2>1, <3>1 DEF ApprovalInv
  <2>3. ~(act.approval.running /\ act.queued)
    BY <1>1, <1>2, <1>3 DEF Actors
  <2>4. ActorInv(s)'
    BY <1>3, <1>4, <2>2, <2>3 DEF ActorInv, Merges
  <2>5. MergingInv(s, c)' /\ PreparingInv(s, a)' /\ ResolvingInv(s, a)' /\ ResolvedInv(s, a, c)'
    BY <1>3, <1>4 DEF MergingInv, PreparingInv, ResolvingInv, ResolvedInv, Resolves
  <2> QED BY <1>4, <2>1, <2>4, <2>5, ConsentOf
<1>15. ASSUME NEW t \in Sessions \ {s} PROVE SessionInv(t)' /\ ConsentInv(t)'
  <2>1. SessionInv(t) /\ ConsentInv(t)
    BY StoredBelief
  <2> QED BY <1>2, <1>4, <1>6, <1>8, <1>9, <2>1, OtherKeeps
<1>16. ReadersInv'
  <2>1. \A t \in Sessions :
          /\ store'[t].source \in {store[t].source, None}
          /\ actor'[t].pc \in Reading => actor'[t] = actor[t]
    BY <1>3, <1>4, <1>5, <1>6 DEF Reading
  <2> QED BY <1>2, <2>1, KeepsReaders
<1> QED BY <1>8, <1>10, <1>12, <1>13, <1>14, <1>15, <1>16
        DEF MergeInv, SessionInv, RepositoryInv, Forward

\* What the pruner does while it holds no session.
LEMMA PruneLooksKeeps ==
  ASSUME MergeInv, NEW s \in Sessions, NEW force \in BOOLEAN, PruneLooks(s, force)
  PROVE  MergeInv'
<1>1. /\ Types /\ RepositoryInv /\ GraphInv /\ PrunerInv /\ ReadersInv
      /\ UNCHANGED <<repository, commits, main, root, wt, store, actor, edits, faults, consent, regained>>
      /\ pruner.pc = "none" /\ pruner' = [pc |-> "looked", target |-> s, force |-> force]
      /\ turns' \in Nat
  BY DEF MergeInv, RepositoryInv, PruneLooks, repository, observed, More, Types
<1>2. Latest' = Latest /\ Latest \in Nat /\ edits' \in [worktrees : Nat, root : Nat]
  BY <1>1, LatestNat DEF Latest, Types
<1>3. Grows /\ Forward /\ GraphInv' /\ RootInv' /\ Latest' \in Nat
  BY <1>1, <1>2, Still
<1>4. PrunerInv'
  BY <1>1 DEF PrunerInv
<1>5. Types'
  BY <1>1 DEF Types, Readers
<1>6. ASSUME NEW t \in Sessions PROVE SessionInv(t)' /\ ConsentInv(t)'
  <2>1. SessionInv(t) /\ ConsentInv(t)
    BY StoredBelief
  <2> QED BY <1>1, <1>3, <2>1, OtherKeeps
<1>7. ReadersInv'
  BY <1>1 DEF ReadersInv
<1> QED BY <1>3, <1>4, <1>5, <1>6, <1>7 DEF MergeInv, RepositoryInv, Forward

\* Only a session that is down is claimed.
LEMMA PruneClaimsKeeps ==
  ASSUME MergeInv, PruneClaims
  PROVE  MergeInv'
<1>1. PICK s : s = pruner.target
  OBVIOUS
<1>2. /\ Types /\ PrunerInv /\ pruner.pc = "looked" /\ s \in Sessions
      /\ UNCHANGED <<repository, wt, store, edits, turns, faults, observed>>
      /\ pruner \in [pc : {"none", "looked", "claimed", "removed"}, target : Readers, force : BOOLEAN]
  BY <1>1 DEF MergeInv, PruneClaims, PrunerInv, Types
<1>3. /\ wt' = [wt EXCEPT ![s] = wt[s]] /\ store' = [store EXCEPT ![s] = store[s]]
      /\ turns' \in Nat /\ faults' \in Nat /\ wt' = wt
  BY <1>2 DEF Types
<1>4. CASE actor[s].pc = "down" /\ Goto(s, "pruning") /\ pruner' = [pruner EXCEPT !.pc = "claimed"]
  <2>1. /\ pruner' \in [pc : {"none", "looked", "claimed", "removed"}, target : Readers, force : BOOLEAN]
        /\ pruner'.pc = "claimed" /\ pruner'.target = s
    BY <1>1, <1>2, <1>4
  <2>2. \A t \in Sessions : actor'[t].pc = IF t = s THEN "pruning" ELSE actor[t].pc
    BY <1>2, <1>4 DEF Goto, Types, Actors
  <2>3. \A t \in Sessions : actor[t].pc # "pruning"
    BY <1>2 DEF PrunerInv
  <2>4. PrunerInv'
    BY <1>2, <2>1, <2>2, <2>3 DEF PrunerInv
  <2>5. PICK p, w, st :
          /\ p = "pruning" /\ Goto(s, p) /\ w = wt[s] /\ st = store[s]
          /\ wt' = [wt EXCEPT ![s] = w] /\ store' = [store EXCEPT ![s] = st]
    BY <1>3, <1>4
  <2>6. actor[s].pc \in {"down", "pruning"} /\ p \in {"down", "pruning"}
    BY <1>4, <2>5
  <2>7. UNCHANGED <<repository, edits, observed>> /\ turns' \in Nat /\ faults' \in Nat
        /\ s \in Sessions
    BY <1>2, <1>3
  <2> QED BY <2>1, <2>4, <2>5, <2>6, <2>7, PruneKeeps
<1>5. CASE pruner' = [pruner EXCEPT !.pc = "none"] /\ UNCHANGED actor
  <2>1. /\ pruner' \in [pc : {"none", "looked", "claimed", "removed"}, target : Readers, force : BOOLEAN]
        /\ pruner'.pc = "none" /\ PrunerInv'
    BY <1>2, <1>5 DEF PrunerInv
  <2>2. /\ RepositoryInv /\ GraphInv /\ ReadersInv
        /\ UNCHANGED <<commits, main, root, consent, regained>>
    BY <1>2 DEF MergeInv, RepositoryInv, repository, observed
  <2>3. Latest' = Latest /\ Latest \in Nat /\ edits' \in [worktrees : Nat, root : Nat]
    BY <1>2, LatestNat DEF Latest, Types
  <2>4. Grows /\ Forward /\ GraphInv' /\ RootInv' /\ Latest' \in Nat
    BY <1>2, <2>2, <2>3, Still
  <2>5. Types' /\ ReadersInv'
    BY <1>2, <1>5, <2>1, <2>2 DEF Types, ReadersInv
  <2>6. ASSUME NEW t \in Sessions PROVE SessionInv(t)' /\ ConsentInv(t)'
    <3>1. SessionInv(t) /\ ConsentInv(t)
      BY StoredBelief
    <3> QED BY <1>2, <1>5, <2>2, <2>4, <3>1, OtherKeeps
  <2> QED BY <2>1, <2>4, <2>5, <2>6 DEF MergeInv, RepositoryInv, Forward
<1> QED BY <1>1, <1>2, <1>4, <1>5 DEF PruneClaims

\* What the pruner removes and records is that of the session it claimed.
LEMMA PruneRemovesKeeps ==
  ASSUME MergeInv, PruneRemoves
  PROVE  MergeInv'
<1>1. PICK s : s = pruner.target
  OBVIOUS
<1>2. /\ Types /\ PrunerInv /\ pruner.pc = "claimed" /\ s \in Sessions /\ actor[s].pc = "pruning"
      /\ UNCHANGED <<repository, store, edits, turns, observed>>
      /\ pruner \in [pc : {"none", "looked", "claimed", "removed"}, target : Readers, force : BOOLEAN]
      /\ actor[s] \in Actors /\ actor \in [Sessions -> Actors]
  BY <1>1 DEF MergeInv, PruneRemoves, PrunerInv, Types
<1>3. store' = [store EXCEPT ![s] = store[s]] /\ turns' \in Nat
  BY <1>2 DEF Types
<1>4. ASSUME PruneMay(s), wt' = [wt EXCEPT ![s] = Removed],
             pruner' = [pruner EXCEPT !.pc = "removed"], UNCHANGED <<actor, faults>>
      PROVE  MergeInv'
  <2>1. /\ pruner' \in [pc : {"none", "looked", "claimed", "removed"}, target : Readers, force : BOOLEAN]
        /\ pruner'.pc = "removed" /\ pruner'.target = s /\ faults' \in Nat
    BY <1>1, <1>2, <1>4 DEF Types
  <2>2. Goto(s, "pruning")
    BY <1>2, <1>4 DEF Goto, Actors
  <2>3. ~Present(s)'
    BY <1>2, <1>4 DEF Present, Removed, Types
  <2>4. PrunerInv'
    BY <1>1, <1>2, <1>4, <2>1, <2>3 DEF PrunerInv, Present
  <2> QED BY <1>2, <1>3, <1>4, <2>1, <2>2, <2>4, PruneKeeps
<1>5. ASSUME NEW w, w = wt[s] \/ w \in PartlyRemoved(s), wt' = [wt EXCEPT ![s] = w],
             pruner' = [pruner EXCEPT !.pc = "none"], Goto(s, "down"), faults' \in Nat
      PROVE  MergeInv'
  <2>1. /\ pruner' \in [pc : {"none", "looked", "claimed", "removed"}, target : Readers, force : BOOLEAN]
        /\ pruner'.pc = "none"
    BY <1>2, <1>5
  <2>2. \A t \in Sessions : actor'[t].pc = IF t = s THEN "down" ELSE actor[t].pc
    BY <1>2, <1>5 DEF Goto, Actors
  <2>3. PrunerInv'
    BY <1>1, <1>2, <2>1, <2>2 DEF PrunerInv
  <2> QED BY <1>2, <1>3, <1>5, <2>1, <2>3, PruneKeeps
<1>6. wt = [wt EXCEPT ![s] = wt[s]]
  BY <1>2 DEF Types
<1>7. faults' = faults \/ Fault => faults' \in Nat
  BY <1>2 DEF Fault, Types
<1> QED BY <1>1, <1>2, <1>4, <1>5, <1>6, <1>7 DEF PruneRemoves

\* The pruner records that the worktree is gone and lets the session go.
LEMMA PruneRecordsKeeps ==
  ASSUME MergeInv, PruneRecords
  PROVE  MergeInv'
<1>1. PICK s : s = pruner.target
  OBVIOUS
<1>2. /\ Types /\ PrunerInv /\ pruner.pc = "removed" /\ s \in Sessions /\ actor[s].pc = "pruning"
      /\ ~Present(s) /\ Goto(s, "down") /\ pruner' = [pruner EXCEPT !.pc = "none"]
      /\ UNCHANGED <<repository, wt, edits, turns, observed>>
      /\ pruner \in [pc : {"none", "looked", "claimed", "removed"}, target : Readers, force : BOOLEAN]
      /\ actor \in [Sessions -> Actors]
  BY <1>1 DEF MergeInv, PruneRecords, PrunerInv, Types
<1>3. /\ wt' = [wt EXCEPT ![s] = wt[s]] /\ turns' \in Nat /\ faults' \in Nat
  BY <1>2 DEF PruneRecords, Fault, Types
<1>4. PICK st : /\ st = store[s] \/ st = NoStore
                /\ store' = [store EXCEPT ![s] = st]
  <2>1. store = [store EXCEPT ![s] = store[s]]
    BY <1>2 DEF Types
  <2> QED BY <1>1, <2>1 DEF PruneRecords, NoStore
<1>5. /\ pruner' \in [pc : {"none", "looked", "claimed", "removed"}, target : Readers, force : BOOLEAN]
      /\ pruner'.pc = "none"
  BY <1>2
<1>6. \A t \in Sessions : actor'[t].pc = IF t = s THEN "down" ELSE actor[t].pc
  BY <1>2 DEF Goto, Actors
<1>7. PrunerInv'
  BY <1>1, <1>2, <1>5, <1>6 DEF PrunerInv
<1> QED BY <1>2, <1>3, <1>4, <1>5, <1>7, PruneKeeps

-----------------------------------------------------------------------------
(* Main takes the approved merge                                           *)

\* What a merge that goes on knows: the approved commit, and clean files.
LEMMA MovingKnows ==
  ASSUME MergeInv, NEW s \in Sessions, actor[s].pc = "checked", CanMove(s), ~Conflicted(s),
         NEW b, b = wt[s].branch, NEW base, base = Base(main, b)
  PROVE  /\ Types /\ RepositoryInv /\ GraphInv /\ Line(main) /\ main \in DOMAIN commits
         /\ wt[s] \in Worktrees /\ WorktreeInv(s) /\ actor[s].commit \in DOMAIN commits
         /\ IsApproved(s) /\ b \notin Ancestors(main) /\ root = TreeOf(main)
         /\ b \in DOMAIN commits /\ base \in DOMAIN commits /\ Given(s)
         /\ base \in Ancestors(main) /\ base \in Ancestors(b)
         /\ \A f \in Files : TreeOf(b)[f] \in consent[s] \/ TreeOf(b)[f] = TreeOf(base)[f]
         /\ Present(s) /\ wt[s].mergeHead = 0
<1>1. IsApproved(s) /\ ~Integrated(b) /\ RootIsClean
  BY DEF CanMove, Refused
<1>2. /\ Given(s) /\ b \in DOMAIN commits /\ base \in DOMAIN commits
      /\ base \in Ancestors(main) /\ base \in Ancestors(b)
      /\ \A f \in Files : TreeOf(b)[f] \in consent[s] \/ TreeOf(b)[f] = TreeOf(base)[f]
  BY <1>1, ApprovedBranch
<1>3. /\ Types /\ RepositoryInv /\ GraphInv /\ Line(main) /\ main \in DOMAIN commits
      /\ wt[s] \in Worktrees /\ WorktreeInv(s) /\ Present(s) /\ wt[s].mergeHead = 0
  BY StoredBelief DEF MergeInv, RepositoryInv, SessionInv, ActorInv, Types
<1>4. actor[s].commit \in DOMAIN commits
  BY MergeKnows DEF Merges
<1>5. b \notin Ancestors(main) /\ root = TreeOf(main)
  BY <1>1 DEF Integrated, RootIsClean, TreeOf
<1> QED BY <1>1, <1>2, <1>3, <1>4, <1>5

\* One commit on top of main: main has no file that it does not take further.
LEMMA FastForwardIs ==
  ASSUME MergeInv, NEW s \in Sessions, actor[s].pc = "checked", CanMove(s), ~Conflicted(s),
         FastForward(s), NEW b, b = wt[s].branch
  PROVE  /\ ParentsOf(b) = <<main>> /\ Tip(s).tree = TreeOf(b) /\ Base(main, b) = main
         /\ TreeOf(b) \in Trees /\ \A f \in Files : TreeOf(main)[f] <= TreeOf(b)[f]
<1>1. PICK base : base = Base(main, b)
  OBVIOUS
<1>2. Types /\ GraphInv /\ main \in DOMAIN commits /\ b \in DOMAIN commits
  BY <1>1, MovingKnows
<1>3. ParentsOf(b) = <<main>> /\ Tip(s).tree = TreeOf(b)
  BY DEF FastForward, Tip, ParentsOf, TreeOf
<1>4. main \in Ancestors(b)
  <2>1. main \in Ancestors(main)
    BY <1>2, CommitFacts
  <2>2. DOMAIN ParentsOf(b) = {1} /\ ParentsOf(b)[1] = main /\ ParentsOf(b) # <<>>
    BY <1>3
  <2>3. CommitInv(b)
    BY <1>2 DEF GraphInv
  <2> QED BY <2>1, <2>2, <2>3 DEF CommitInv, Lineage
<1>5. TreeOf(b) \in Trees /\ \A f \in Files : TreeOf(main)[f] <= TreeOf(b)[f]
  BY <1>2, <1>4, CommitFacts
<1>6. base = main
  <2>1. base \in Ancestors(main) /\ main \in Ancestors(main) /\ main \in Nat
        /\ base <= main /\ base \in Nat
    BY <1>1, <1>2, BaseIs, CommitFacts
  <2>2. main <= base
    BY <1>1, <1>2, <1>4, <2>1, BaseIs
  <2> QED BY <2>1, <2>2
<1> QED BY <1>1, <1>3, <1>5, <1>6

\* A squash takes from the approved commit what its base has not, and nothing
\* else: so it is that commit put onto main, and again what the user approved.
LEMMA SquashIs ==
  ASSUME MergeInv, NEW s \in Sessions, actor[s].pc = "checked", CanMove(s), ~Conflicted(s),
         ~FastForward(s), NEW b, b = wt[s].branch, NEW k, k = actor[s].commit,
         NEW tree, tree = Squash(s)
  PROVE  /\ tree \in Trees /\ CanCheckout(s, tree)
         /\ \A f \in Files :
              /\ TreeOf(main)[f] <= tree[f] /\ TreeOf(b)[f] <= tree[f]
              /\ tree[f] \in {TreeOf(main)[f], TreeOf(b)[f]}
              /\ tree[f] \in {TreeOf(main)[f]} \cup consent[s]
              /\ tree[f] \in {TreeOf(main)[f], TreeOf(k)[f]}
<1>1. PICK base : base = Base(main, b)
  OBVIOUS
<1>2. /\ Types /\ GraphInv /\ Line(main) /\ main \in DOMAIN commits /\ WorktreeInv(s)
      /\ IsApproved(s) /\ b \notin Ancestors(main)
      /\ b \in DOMAIN commits /\ base \in DOMAIN commits
      /\ base \in Ancestors(main) /\ base \in Ancestors(b)
      /\ \A f \in Files : TreeOf(b)[f] \in consent[s] \/ TreeOf(b)[f] = TreeOf(base)[f]
  BY <1>1, MovingKnows
<1>3. Conflicts(tree) = {} /\ CanCheckout(s, tree)
  BY DEF CanMove, Refused, Conflicted
<1>4. /\ TreeOf(base) \in Trees /\ TreeOf(main) \in Trees /\ TreeOf(b) \in Trees
      /\ \A f \in Files : TreeOf(base)[f] <= TreeOf(main)[f] /\ TreeOf(base)[f] <= TreeOf(b)[f]
  BY <1>2, CommitFacts
<1>5. tree = Merged(TreeOf(base), TreeOf(main), TreeOf(b))
  BY <1>1 DEF Squash, TreeOf, Tip
<1>6. ASSUME NEW f \in Files
      PROVE  /\ TreeOf(main)[f] <= tree[f] /\ TreeOf(b)[f] <= tree[f] /\ tree[f] \in 0..Latest
             /\ tree[f] \in {TreeOf(main)[f], TreeOf(b)[f]}
             /\ TreeOf(b)[f] = TreeOf(base)[f] => tree[f] = TreeOf(main)[f]
  <2>1. PICK t : t = tree[f]
    OBVIOUS
  <2>2. t # Marks
    BY <1>3, <2>1 DEF Conflicts
  <2>3. /\ t \in {TreeOf(main)[f], TreeOf(b)[f], Marks}
        /\ t # Marks => t \in 0..Latest /\ TreeOf(main)[f] <= t /\ TreeOf(b)[f] <= t
        /\ TreeOf(b)[f] = TreeOf(base)[f] => t = TreeOf(main)[f]
    BY <1>2, <1>4, <1>5, <2>1, MergedFile
  <2> QED BY <2>1, <2>2, <2>3
<1>7. tree \in Trees
  <2>1. tree \in [Files -> Int]
    BY <1>4, <1>5, <1>2, LatestNat DEF Merged, Marks, Trees
  <2> QED BY <1>6, <2>1 DEF Trees
<1>8. \/ b = k
      \/ \E m \in Ancestors(main) :
           Onto(b, m) /\ \A f \in Files : TreeOf(b)[f] \in {TreeOf(m)[f], TreeOf(k)[f]}
  <2>1. b = Recorded(s, k)
    BY <1>2 DEF IsApproved
  <2>2. b = k \/ Squashes(k, b)
    BY <1>2, <2>1, RecordedIs
  <2> QED BY <2>2 DEF Squashes
<1>9. ASSUME NEW f \in Files PROVE tree[f] \in {TreeOf(main)[f], TreeOf(k)[f]}
  <2>1. CASE b = k
    BY <1>6, <2>1
  <2>2. CASE b # k
    <3>1. PICK m \in Ancestors(main) :
            Onto(b, m) /\ \A g \in Files : TreeOf(b)[g] \in {TreeOf(m)[g], TreeOf(k)[g]}
      BY <1>8, <2>2
    <3>2. base = m
      BY <1>1, <1>2, <3>1, BaseOnto
    <3> QED BY <1>6, <3>1, <3>2
  <2> QED BY <2>1, <2>2
<1>10. \A f \in Files : tree[f] \in {TreeOf(main)[f]} \cup consent[s]
  BY <1>2, <1>6
<1> QED BY <1>3, <1>6, <1>7, <1>9, <1>10

\* A worktree whose refs and files are those before a squash or after it.
BeingSquashed(s, id, tree, w) ==
  \/ w = wt[s]
  \/ \E branch \in {wt[s].branch, id}, merges \in {wt[s].merges, Squashed(s, id).merges} :
       w = [wt[s] EXCEPT !.branch = branch, !.merges = merges, !.tree = Checkout(s, tree)]

\* The repository and the worktree while a squash is put onto main.
LEMMA SquashKeeps ==
  ASSUME MergeInv, NEW s \in Sessions, actor[s].pc = "checked", CanMove(s), ~Conflicted(s),
         ~FastForward(s), NEW id, id = Len(commits) + 1, NEW tree, tree = Squash(s),
         commits' = Append(commits, Commit(tree, <<main>>)), main' \in {main, id}, root' = tree,
         UNCHANGED <<store, edits>>, NEW w, wt' = [wt EXCEPT ![s] = w],
         BeingSquashed(s, id, tree, w)
  PROVE  /\ commits' \in Seq(Commits) /\ Grows /\ Forward /\ GraphInv' /\ RootInv'
         /\ root' \in [Files -> Int] /\ wt' \in [Sessions -> Worktrees] /\ wt'[s] = w
         /\ \A t \in Sessions \ {s} : wt'[t] = wt[t]
         /\ WorktreeInv(s)'
<1>1. PICK b, k : b = wt[s].branch /\ k = actor[s].commit
  OBVIOUS
<1>2. /\ Types /\ RepositoryInv /\ GraphInv /\ Line(main) /\ main \in DOMAIN commits
      /\ wt[s] \in Worktrees /\ WorktreeInv(s) /\ k \in DOMAIN commits /\ b \in DOMAIN commits
      /\ Present(s) /\ wt[s].mergeHead = 0
  BY <1>1, MovingKnows
<1>3. /\ tree \in Trees /\ CanCheckout(s, tree)
      /\ \A f \in Files :
           /\ TreeOf(main)[f] <= tree[f] /\ TreeOf(b)[f] <= tree[f]
           /\ tree[f] \in {TreeOf(main)[f], TreeOf(k)[f]}
  BY <1>1, SquashIs
<1>4. /\ commits' \in Seq(Commits) /\ Grows /\ Forward /\ GraphInv'
      /\ id \in DOMAIN commits' /\ id \notin DOMAIN commits /\ id \in Nat /\ id # 0
      /\ TreeOf(id)' = tree /\ Ancestors(id)' = {id} \cup Ancestors(main)
      /\ Latest' = Latest /\ Latest \in Nat
  BY <1>2, <1>3, MainGrows
<1>5. root' \in [Files -> Int]
  BY <1>3, <1>4 DEF Trees
<1>6. RootInv'
  <2>1. CASE main' = id
    <3>1. commits'[main'].tree = tree /\ Trees' = Trees
      BY <1>4, <2>1 DEF TreeOf, Trees
    <3>2. \A f \in Files : tree[f] <= tree[f]
      BY <1>3, <1>4 DEF Trees
    <3> QED BY <1>3, <3>1, <3>2 DEF RootInv, TreeOf
  <2>2. CASE main' = main
    <3>1. commits'[main'].tree = TreeOf(main) /\ Trees' = Trees
      BY <1>2, <1>4, <2>2 DEF TreeOf, Trees, Grows
    <3> QED BY <1>3, <3>1 DEF RootInv, TreeOf
  <2> QED BY <2>1, <2>2
<1>7. Squashes(k, id)'
  <2>1. \A x \in DOMAIN commits : Ancestors(x)' = Ancestors(x) /\ TreeOf(x)' = TreeOf(x)
    BY <1>2, <1>4, Stable
  <2>2. main \in Ancestors(main) /\ main \in Nat /\ Ancestors(main) \subseteq DOMAIN commits
        /\ \A g \in Ancestors(main) : g <= main /\ g \in Nat
    BY <1>2, CommitFacts
  <2>3. PICK m : m = main
    OBVIOUS
  <2>4. m \in Ancestors(main)'
    BY <2>2, <2>3, <1>4 DEF Forward
  <2>5. Onto(id, m)'
    <3>1. m \in Ancestors(id)' /\ m # id
      BY <1>2, <1>4, <2>2, <2>3
    <3>2. ASSUME NEW g \in Ancestors(id)', m \in Ancestors(g)' PROVE g \in {m, id}
      <4>1. CASE g \in Ancestors(main)
        <5>1. m \in Ancestors(g) /\ g <= m /\ g \in Nat
          BY <2>1, <2>2, <2>3, <3>2, <4>1
        <5>2. m <= g /\ m \in Nat
          BY <1>2, <2>2, <4>1, <5>1, <2>3, CommitFacts
        <5> QED BY <5>1, <5>2
      <4> QED BY <1>4, <3>2, <4>1
    <3> QED BY <3>1, <3>2 DEF Onto
  <2>6. commits'[id].tree = tree /\ commits'[m].tree = TreeOf(main) /\ commits'[k].tree = TreeOf(k)
    BY <1>2, <1>4, <2>1, <2>3 DEF TreeOf
  <2>7. k \in DOMAIN commits'
    BY <1>2, <1>4 DEF Grows
  <2> QED BY <1>3, <1>4, <2>4, <2>5, <2>6, <2>7 DEF Squashes, TreeOf
<1>8. CASE w = wt[s]
  <2>1. wt' = wt
    BY <1>2, <1>8 DEF Types
  <2>2. wt'[s] = wt[s] /\ store'[s] = store[s] /\ Latest' \in Nat
    BY <1>4, <2>1
  <2>3. WorktreeInv(s)'
    BY <1>2, <1>4, <2>2, KeepsWorktree
  <2>4. wt' \in [Sessions -> Worktrees]
    BY <1>2, <2>1 DEF Types
  <2> QED BY <1>4, <1>5, <1>6, <1>8, <2>1, <2>3, <2>4
<1>9. ASSUME NEW branch \in {b, id}, NEW merges \in {wt[s].merges, Squashed(s, id).merges},
             w = [wt[s] EXCEPT !.branch = branch, !.merges = merges, !.tree = Checkout(s, tree)]
      PROVE  /\ wt' \in [Sessions -> Worktrees] /\ wt'[s] = w
             /\ \A t \in Sessions \ {s} : wt'[t] = wt[t]
             /\ WorktreeInv(s)'
  <2>1. PICK files : files = Checkout(s, tree)
    OBVIOUS
  <2>2. /\ wt[s].tree \in [Files -> Int] /\ wt[s].branch # 0
        /\ \A f \in Files : wt[s].tree[f] \in 0..Latest /\ TreeOf(b)[f] <= wt[s].tree[f]
    BY <1>1, <1>2 DEF Worktrees, Present, WorktreeInv, FileInv
  <2>3. /\ files \in [Files -> Int]
        /\ \A f \in Files : \/ files[f] = tree[f] /\ tree[f] # TreeOf(b)[f]
                            \/ files[f] = wt[s].tree[f] /\ tree[f] = TreeOf(b)[f]
    <3>1. Tip(s).tree = TreeOf(b) /\ tree \in [Files -> Int]
      BY <1>1, <1>3, <1>4 DEF Tip, TreeOf, Trees
    <3>2. files = [f \in Files |-> IF tree[f] # TreeOf(b)[f] THEN tree[f] ELSE wt[s].tree[f]]
      BY <2>1, <3>1 DEF Checkout
    <3> QED BY <2>2, <3>1, <3>2
  <2>4. \A f \in Files : files[f] \in 0..Latest /\ tree[f] <= files[f] /\ TreeOf(b)[f] <= files[f]
    <3>1. ASSUME NEW f \in Files
          PROVE  files[f] \in 0..Latest /\ tree[f] <= files[f] /\ TreeOf(b)[f] <= files[f]
      <4>1. tree[f] \in 0..Latest /\ TreeOf(b)[f] <= tree[f]
        BY <1>3 DEF Trees
      <4> QED BY <1>4, <2>2, <2>3, <4>1
    <3> QED BY <3>1
  <2>5. /\ merges \in SUBSET (Nat \X Nat)
        /\ \A pair \in merges : pair \in wt[s].merges \/ pair = <<k, id>>
    <3>1. PICK more : more = {p \in wt[s].merges : p[1] # k} \cup {<<k, id>>}
      OBVIOUS
    <3>2. k \in Nat /\ wt[s].merges \in SUBSET (Nat \X Nat)
      BY <1>2, CommitFacts DEF Worktrees
    <3>3. Squashed(s, id).merges = more
      <4>1. Squashed(s, id) = [wt[s] EXCEPT !.branch = id, !.tree = Checkout(s, Squash(s)),
                                            !.merges = more]
        BY <1>1, <3>1 DEF Squashed
      <4> QED BY <1>2, <4>1 DEF Worktrees
    <3>4. more \in SUBSET (Nat \X Nat)
      BY <1>4, <3>1, <3>2
    <3> QED BY <3>1, <3>2, <3>3, <3>4
  <2>6. /\ w \in Worktrees /\ w.branch = branch /\ w.mergeHead = 0 /\ w.merges = merges
        /\ w.tree = files
    <3>1. branch \in Nat
      BY <1>1, <1>2, <1>4, CommitFacts
    <3> QED BY <1>2, <1>9, <2>1, <2>3, <2>5, <3>1 DEF Worktrees
  <2>7. wt' \in [Sessions -> Worktrees] /\ wt'[s] = w /\ \A t \in Sessions \ {s} : wt'[t] = wt[t]
    BY <1>2, <2>6 DEF Types
  <2>8. \A pair \in merges : Squashes(pair[1], pair[2])'
    <3>1. \A pair \in wt[s].merges : Squashes(pair[1], pair[2])'
      BY <1>2, <1>4, StableSquashes DEF WorktreeInv
    <3>2. <<k, id>>[1] = k /\ <<k, id>>[2] = id
      OBVIOUS
    <3>3. \A pair : pair = <<k, id>> => Squashes(pair[1], pair[2])'
      BY <1>7, <3>2
    <3> QED BY <2>5, <3>1, <3>3
  <2>9. branch \in DOMAIN commits' /\ branch # 0 /\ commits'[branch].tree \in {tree, TreeOf(b)}
    BY <1>1, <1>2, <1>4, <2>2 DEF Grows, TreeOf
  <2>10. ASSUME NEW f \in Files PROVE FileInv(s, f)'
    <3>1. files[f] \in 0..Latest' /\ commits'[branch].tree[f] <= files[f]
      BY <1>4, <2>4, <2>9
    <3> QED BY <2>6, <2>7, <3>1 DEF FileInv, TreeOf
  <2> QED BY <2>6, <2>7, <2>8, <2>9, <2>10 DEF WorktreeInv
<1> QED BY <1>1, <1>4, <1>5, <1>6, <1>8, <1>9 DEF BeingSquashed

\* The repository while main moves to the branch itself.
LEMMA FastForwardKeeps ==
  ASSUME MergeInv, NEW s \in Sessions, actor[s].pc = "checked", CanMove(s), ~Conflicted(s),
         FastForward(s), NEW b, b = wt[s].branch, main' \in {main, b}, root' = TreeOf(b),
         UNCHANGED <<commits, wt, store, edits>>
  PROVE  /\ commits' \in Seq(Commits) /\ Grows /\ Forward /\ GraphInv' /\ RootInv'
         /\ root' \in [Files -> Int] /\ wt' \in [Sessions -> Worktrees]
         /\ WorktreeInv(s)'
<1>1. /\ Types /\ GraphInv /\ RepositoryInv /\ Line(main) /\ main \in DOMAIN commits
      /\ b \in DOMAIN commits /\ WorktreeInv(s)
  <2>1. PICK base : base = Base(main, b)
    OBVIOUS
  <2> QED BY <2>1, MovingKnows
<1>2. /\ ParentsOf(b) = <<main>> /\ TreeOf(b) \in Trees
      /\ \A f \in Files : TreeOf(main)[f] <= TreeOf(b)[f]
  BY FastForwardIs
<1>3. Latest' = Latest /\ Latest \in Nat
  BY <1>1, LatestNat DEF Latest
<1>4. Grows /\ GraphInv'
  BY <1>1, <1>3, SameGrows
<1>5. \A f \in Files : TreeOf(main)[f] <= TreeOf(main)[f] /\ TreeOf(b)[f] <= TreeOf(b)[f]
  BY <1>1, CommitFacts
<1>6. Forward
  <2>1. CASE main' = b
    <3>1. DOMAIN commits' \subseteq Nat /\ b \in DOMAIN commits' /\ ParentsOf(b)' = <<main>>
      BY <1>1, <1>2 DEF Types, ParentsOf
    <3> QED BY <1>1, <1>4, <2>1, <3>1, MainMoves
  <2>2. CASE main' = main
    BY <1>1, <1>5, <2>2 DEF Forward, Line, Ancestors, TreeOf
  <2> QED BY <2>1, <2>2
<1>7. RootInv' /\ root' \in [Files -> Int]
  <2>1. Trees' = Trees /\ commits'[main'].tree \in {TreeOf(main), TreeOf(b)}
    BY <1>3 DEF Trees, TreeOf
  <2>2. TreeOf(b) \in [Files -> Int]
    BY <1>2, <1>3 DEF Trees
  <2> QED BY <1>2, <1>5, <2>1, <2>2 DEF RootInv, TreeOf
<1>8. WorktreeInv(s)'
  BY <1>1, <1>3, <1>4, <1>6, KeepsWorktree
<1>9. commits' \in Seq(Commits) /\ wt' \in [Sessions -> Worktrees]
  BY <1>1 DEF Types
<1> QED BY <1>4, <1>6, <1>7, <1>8, <1>9

\* Main moves to the approved commit, or to its squash.
LEMMA MoveMainKeeps ==
  ASSUME MergeInv, NEW s \in Sessions, MoveMain(s)
  PROVE  MergeInv'
<1>1. PICK b, id, tree, act :
        /\ b = wt[s].branch /\ id = Len(commits) + 1 /\ tree = Squash(s)
        /\ act = [actor[s] EXCEPT !.pc = "merged"]
  OBVIOUS
<1>2. /\ actor[s].pc = "checked" /\ CanMove(s) /\ ~Conflicted(s) /\ Goto(s, "merged")
      /\ UNCHANGED <<store, pruner, edits, turns, faults, consent, regained>>
  BY DEF MoveMain, observed
<1>3. /\ Types /\ actor[s] \in Actors /\ ~actor[s].approval.running
  BY <1>2, MergeKnows DEF Merges
<1>4. /\ commits' \in Seq(Commits) /\ Grows /\ Forward /\ GraphInv' /\ RootInv'
      /\ root' \in [Files -> Int] /\ wt' \in [Sessions -> Worktrees]
      /\ WorktreeInv(s)' /\ \A t \in Sessions \ {s} : wt'[t] = wt[t]
  <2>1. CASE FastForward(s)
    <3>1. main' = b /\ root' = TreeOf(b) /\ UNCHANGED <<commits, wt>>
      BY <1>1, <2>1, FastForwardIs, <1>2 DEF MoveMain
    <3> QED BY <1>1, <1>2, <2>1, <3>1, FastForwardKeeps
  <2>2. CASE ~FastForward(s)
    <3>1. /\ commits' = Append(commits, Commit(tree, <<main>>)) /\ root' = tree
          /\ main' = Len(commits') /\ wt' = [wt EXCEPT ![s] = Squashed(s, Len(commits'))]
      BY <1>1, <2>2 DEF MoveMain
    <3>2. Len(commits') = id
      <4>1. Len(Append(commits, Commit(tree, <<main>>))) = id
        BY <1>1, <1>3 DEF Types
      <4> QED BY <3>1, <4>1
    <3>3. PICK w : w = Squashed(s, id)
      OBVIOUS
    <3>4. wt' = [wt EXCEPT ![s] = w] /\ main' \in {main, id}
      BY <3>1, <3>2, <3>3
    <3>5. BeingSquashed(s, id, tree, w)
      <4>1. wt[s] \in Worktrees
        BY <1>3 DEF Types
      <4>2. PICK more : more = {p \in wt[s].merges : p[1] # actor[s].commit}
                                 \cup {<<actor[s].commit, id>>}
        OBVIOUS
      <4>3. w = [wt[s] EXCEPT !.branch = id, !.tree = Checkout(s, tree), !.merges = more]
        BY <1>1, <3>3, <4>2 DEF Squashed
      <4>4. w = [wt[s] EXCEPT !.branch = id, !.merges = more, !.tree = Checkout(s, tree)]
        BY <4>1, <4>3 DEF Worktrees
      <4>5. more = w.merges
        BY <4>1, <4>3 DEF Worktrees
      <4> QED BY <3>3, <4>4, <4>5 DEF BeingSquashed
    <3> QED BY <1>1, <1>2, <2>2, <3>1, <3>4, <3>5, SquashKeeps
  <2> QED BY <2>1, <2>2
<1>5. act \in Actors /\ act.pc = "merged" /\ act.approval = actor[s].approval
      /\ act.commit = actor[s].commit /\ act.keep = actor[s].keep
  BY <1>1, <1>3 DEF Actors, Pcs
<1>6. actor' = [actor EXCEPT ![s] = act] /\ actor'[s] = act
  BY <1>1, <1>2, <1>3 DEF Goto, Types
<1>7. ActorInv(s)'
  <2>1. store'[s] = store[s] /\ \A x \in DOMAIN commits : x \in DOMAIN commits'
    BY <1>2, <1>4 DEF Grows
  <2> QED BY <1>2, <1>5, <1>6, <2>1, MergeGoesOn DEF Merges
<1>8. ConsentInv(s)'
  BY <1>3, <1>5, <1>6, QuietKeeps
<1>9. /\ edits' \in [worktrees : Nat, root : Nat] /\ turns' \in Nat /\ faults' \in Nat
      /\ consent' \in [Sessions -> SUBSET Int] /\ \A t \in Sessions : consent[t] \subseteq consent'[t]
  BY <1>2, <1>3 DEF Types
<1>10. actor[s].pc \in Reading
  BY <1>2 DEF Reading
<1> QED BY <1>2, <1>4, <1>5, <1>6, <1>7, <1>8, <1>9, <1>10, ActsBeside

\* The process may stop between any two of these.
LEMMA MoveMainStopsKeeps ==
  ASSUME MergeInv, NEW s \in Sessions, MoveMainStops(s)
  PROVE  MergeInv'
<1>1. PICK b, id, tree :
        b = wt[s].branch /\ id = Len(commits) + 1 /\ tree = Squash(s)
  OBVIOUS
<1>2. /\ actor[s].pc = "checked" /\ CanMove(s) /\ ~Conflicted(s) /\ Fault
      /\ actor' = [actor EXCEPT ![s] = Down]
      /\ UNCHANGED <<store, pruner, edits, turns, consent, regained>>
  BY DEF MoveMainStops, observed
<1>3. Types
  BY DEF MergeInv
<1>4. /\ commits' \in Seq(Commits) /\ Grows /\ Forward /\ GraphInv' /\ RootInv'
      /\ root' \in [Files -> Int] /\ wt' \in [Sessions -> Worktrees]
      /\ WorktreeInv(s)' /\ \A t \in Sessions \ {s} : wt'[t] = wt[t]
  <2>1. CASE FastForward(s)
    <3>1. main' = main /\ root' = TreeOf(b) /\ UNCHANGED <<commits, wt>>
      BY <1>1, <2>1, FastForwardIs, <1>2 DEF MoveMainStops
    <3> QED BY <1>1, <1>2, <2>1, <3>1, FastForwardKeeps
  <2>2. CASE ~FastForward(s)
    <3>1. commits' = Append(commits, Commit(tree, <<main>>)) /\ root' = tree
      BY <1>1, <2>2 DEF MoveMainStops
    <3>2. \/ UNCHANGED <<main, wt>>
          \/ \E branch \in {b, id}, merges \in {wt[s].merges, Squashed(s, id).merges}, m \in {main, id} :
               /\ wt' = [wt EXCEPT ![s].branch = branch, ![s].merges = merges,
                                   ![s].tree = Squashed(s, id).tree]
               /\ main' = m
      BY <1>1, <2>2 DEF MoveMainStops
    <3>3. CASE UNCHANGED <<main, wt>>
      <4>1. wt' = [wt EXCEPT ![s] = wt[s]]
        BY <1>3, <3>3 DEF Types
      <4> QED BY <1>1, <1>2, <2>2, <3>1, <3>3, <4>1, SquashKeeps DEF BeingSquashed
    <3>4. ASSUME NEW branch \in {b, id}, NEW merges \in {wt[s].merges, Squashed(s, id).merges},
                 wt' = [wt EXCEPT ![s].branch = branch, ![s].merges = merges,
                                  ![s].tree = Squashed(s, id).tree],
                 main' \in {main, id}
          PROVE  /\ commits' \in Seq(Commits) /\ Grows /\ Forward /\ GraphInv' /\ RootInv'
                 /\ root' \in [Files -> Int] /\ wt' \in [Sessions -> Worktrees]
                 /\ WorktreeInv(s)' /\ \A t \in Sessions \ {s} : wt'[t] = wt[t]
      <4>1. wt[s] \in Worktrees
        BY <1>3 DEF Types
      <4>2. Squashed(s, id).tree = Checkout(s, tree)
        BY <1>1, <4>1 DEF Squashed, Worktrees
      <4>3. PICK w : w = [wt[s] EXCEPT !.branch = branch, !.merges = merges,
                                       !.tree = Checkout(s, tree)]
        OBVIOUS
      <4>4. wt' = [wt EXCEPT ![s] = w]
        BY <1>3, <3>4, <4>2, <4>3 DEF Types
      <4>5. BeingSquashed(s, id, tree, w)
        BY <1>1, <4>3 DEF BeingSquashed
      <4> QED BY <1>1, <1>2, <2>2, <3>1, <3>4, <4>4, <4>5, SquashKeeps
    <3> QED BY <3>2, <3>3, <3>4
  <2> QED BY <2>1, <2>2
<1>5. ActorInv(s)' /\ ConsentInv(s)' /\ Down \in Actors /\ Down.pc = "down"
  <2>1. actor'[s] = Down
    BY <1>2, <1>3 DEF Types
  <2> QED BY <1>3, <2>1, DownKeeps
<1>6. /\ edits' \in [worktrees : Nat, root : Nat] /\ turns' \in Nat /\ faults' \in Nat
      /\ consent' \in [Sessions -> SUBSET Int] /\ \A t \in Sessions : consent[t] \subseteq consent'[t]
  BY <1>2, <1>3 DEF Types, Fault
<1> QED BY <1>2, <1>4, <1>5, <1>6, ActsBeside DEF Reading

-----------------------------------------------------------------------------
(* The invariant                                                           *)

\* The first session starts on the first commit, which nobody has changed.
LEMMA InitMerges ==
  ASSUME Init
  PROVE  MergeInv
<1>1. PICK empty : empty = [f \in Files |-> 0]
  OBVIOUS
<1>2. /\ commits = <<[tree |-> empty, parents |-> <<>>, ancestors |-> {1}]>>
      /\ main = 1 /\ root = empty /\ edits = [worktrees |-> 0, root |-> 0]
      /\ turns = 0 /\ faults = 0 /\ regained = {}
      /\ consent = [s \in Sessions |-> {}]
      /\ pruner = [pc |-> "none", target |-> None, force |-> FALSE]
  BY <1>1 DEF Init
<1>3. Latest = 0 /\ empty \in Trees /\ empty \in [Files -> Int] /\ \A f \in Files : empty[f] = 0
  BY <1>1, <1>2 DEF Latest, Trees
<1>4. /\ DOMAIN commits = {1} /\ TreeOf(1) = empty /\ ParentsOf(1) = <<>> /\ Ancestors(1) = {1}
      /\ commits \in Seq(Commits)
  <2>1. [tree |-> empty, parents |-> <<>>, ancestors |-> {1}] \in Commits
    BY <1>3 DEF Commits
  <2>2. PICK c : c = [tree |-> empty, parents |-> <<>>, ancestors |-> {1}]
    OBVIOUS
  <2>3. commits = <<c>> /\ c \in Commits
    BY <1>2, <2>1, <2>2
  <2>4. commits \in Seq(Commits) /\ DOMAIN commits = {1} /\ commits[1] = c
    BY <2>3
  <2>5. c.tree = empty /\ c.parents = <<>> /\ c.ancestors = {1}
    BY <2>2
  <2> QED BY <2>4, <2>5 DEF TreeOf, ParentsOf, Ancestors
<1>5. GraphInv
  <2>1. <<>> \in Seq(DOMAIN commits)
    OBVIOUS
  <2>2. TreeOf(1) \in Trees /\ \A f \in Files : TreeOf(1)[f] <= TreeOf(1)[f]
    BY <1>3, <1>4
  <2>3. 1 \in Ancestors(1) /\ Ancestors(1) \subseteq 1..1 /\ \A y \in Ancestors(1) : y = 1
    BY <1>4
  <2>4. CommitInv(1)
    BY <1>4, <2>1, <2>2, <2>3 DEF CommitInv
  <2> QED BY <1>4, <2>4 DEF GraphInv
<1>6. RepositoryInv
  BY <1>2, <1>3, <1>4, <1>5 DEF RepositoryInv, Line, RootInv
<1>7. NoApproval \in Approvals /\ NoApproval.kind = "None" /\ ~NoApproval.running
  BY AskedFields
<1>8. /\ wt \in [Sessions -> Worktrees] /\ \A s \in Sessions : wt[s] = Removed
      /\ Removed.branch = 0 /\ Removed.mergeHead = 0 /\ Removed.merges = {} /\ Removed.tree = NoTree
  BY DEF Init, Removed, Worktrees
<1>9. /\ store \in [Sessions -> Stored]
      /\ \A s \in Sessions : store[s].source = None /\ store[s].approval = NoApproval /\ ~store[s].asked
  BY <1>7 DEF Init, Stored, Readers
<1>10. /\ actor \in [Sessions -> Actors]
       /\ \A s \in Sessions : /\ actor[s].pc \in {"idle", "unborn"}
                              /\ actor[s].approval = NoApproval
  <2>1. ASSUME NEW s \in Sessions
        PROVE  /\ actor[s] \in Actors /\ actor[s].pc \in {"idle", "unborn"}
               /\ actor[s].approval = NoApproval
    <3>1. PICK pc : pc = IF s = First THEN "idle" ELSE "unborn"
      OBVIOUS
    <3>2. actor[s] = [Down EXCEPT !.pc = pc] /\ pc \in {"idle", "unborn"}
      BY <3>1 DEF Init
    <3> QED BY <3>2, DownFields DEF Actors, Pcs
  <2>2. actor = [s \in Sessions |-> actor[s]]
    BY DEF Init
  <2> QED BY <2>1, <2>2
<1>11. Types
  BY <1>2, <1>3, <1>4, <1>8, <1>9, <1>10 DEF Types, Readers
<1>12. ASSUME NEW s \in Sessions PROVE SessionInv(s) /\ ConsentInv(s)
  <2>1. WorktreeInv(s)
    BY <1>8 DEF WorktreeInv, Present
  <2>2. StoreInv(s)
    BY <1>7, <1>9 DEF StoreInv, ApprovalInv
  <2>3. Paused(NoApproval) = NoApproval
    BY <1>7, PausedIsPaused
  <2>4. ActorInv(s)
    BY <1>7, <1>9, <1>10, <2>3 DEF ActorInv, ApprovalInv, Believes, Merges
  <2>5. ConsentInv(s)
    BY <1>7, <1>10 DEF ConsentInv, MergingInv, PreparingInv, ResolvingInv, ResolvedInv, Resolves
  <2> QED BY <2>1, <2>2, <2>4, <2>5 DEF SessionInv
<1>13. PrunerInv /\ ReadersInv
  BY <1>2, <1>10 DEF PrunerInv, ReadersInv
<1> QED BY <1>6, <1>11, <1>12, <1>13 DEF MergeInv

\* Nothing happens.
LEMMA StutterKeeps ==
  ASSUME MergeInv, UNCHANGED vars
  PROVE  MergeInv'
<1>1. /\ Types /\ RepositoryInv
      /\ UNCHANGED <<repository, commits, main, root, wt, store, actor, pruner, edits, turns, faults,
                     consent, regained>>
  BY DEF MergeInv, vars, repository
<1>2. Latest' = Latest /\ Latest \in Nat /\ edits' \in [worktrees : Nat, root : Nat]
  BY <1>1, LatestNat DEF Latest, Types
<1>3. Grows /\ Forward /\ GraphInv' /\ RootInv'
  BY <1>1, <1>2, Still
<1>4. Types'
  BY <1>1 DEF Types
<1> QED BY <1>1, <1>3, <1>4, UserKeeps

\* Every step keeps the invariant.
LEMMA NextKeeps ==
  ASSUME MergeInv, [Next]_vars
  PROVE  MergeInv'
<1>1. ASSUME NEW s \in Sessions, Living(s) PROVE MergeInv'
  BY <1>1, ForkKeeps, LeaveKeeps, ResumeKeeps DEF Living
<1>2. ASSUME NEW s \in Sessions, Working(s) PROVE MergeInv'
  BY <1>2, BeginTaskKeeps, ResolveMergeKeeps, InterruptKeeps, EndTaskKeeps, CompleteTaskKeeps,
     FirstWriteKeeps, DiscardUnusedKeeps, EditKeeps, ProposeKeeps, OfferKeeps, OfferFailsKeeps,
     AnswerKeeps DEF Working
<1>3. ASSUME NEW s \in Sessions, Merging(s) PROVE MergeInv'
  BY <1>3, WorktreeCleanupKeeps, CheckpointKeeps, MoveMainKeeps, MoveMainStopsKeeps,
     AlreadyMergedKeeps, MergeFailsKeeps, ConflictKeeps, PrepareKeeps, CleanupKeeps, FinishKeeps
     DEF Merging
<1>4. CASE User
  BY <1>4, UserEditsKeeps, UserEditsRootKeeps, UserCommitsKeeps, UserRevertsKeeps DEF User
<1>5. CASE Pruning
  BY <1>5, PruneLooksKeeps, PruneClaimsKeeps, PruneRemovesKeeps, PruneRecordsKeeps DEF Pruning
<1>6. CASE UNCHANGED vars
  BY <1>6, StutterKeeps
<1> QED BY <1>1, <1>2, <1>3, <1>4, <1>5, <1>6 DEF Next

\* The invariant holds always: commits are a graph along which no file goes
\* back, main is a line of it, each actor knows what its session has stored, and
\* what a merge under way brings to main the user has approved.
THEOREM MergesAreSafe == Spec => []MergeInv
<1>1. Init => MergeInv
  BY InitMerges
<1>2. MergeInv /\ [Next]_vars => MergeInv'
  BY NextKeeps
<1> QED BY <1>1, <1>2, PTL DEF Spec

\* While a session rests, its merge question is pending exactly when an approval
\* awaits it, and the actor believes what is stored (session_actor.rs, merge.rs).
THEOREM QuestionsAlwaysMatch == Spec => []QuestionsMatch
<1>1. ASSUME MergeInv PROVE QuestionsMatch
  <2>1. ASSUME NEW s \in Sessions, actor[s].pc = "idle" PROVE Believes(s)
    BY <1>1, <2>1, StoredBelief
  <2> QED BY <2>1 DEF QuestionsMatch, Believes
<1> QED BY <1>1, MergesAreSafe, PTL

\* The state has its types in every reachable state.
THEOREM SessionMergeTypes == Spec => []TypeOK
<1>1. ASSUME MergeInv PROVE TypeOK
  <2>1. Types /\ GraphInv /\ root \in Trees /\ main \in DOMAIN commits
    BY <1>1 DEF MergeInv, RepositoryInv, RootInv, Types
  <2>2. Latest \in Nat /\ DOMAIN commits = 1..Len(commits) /\ Len(commits) \in Nat
    BY <2>1, LatestNat DEF Types
  <2>3. ASSUME NEW c \in DOMAIN commits PROVE commits[c].tree \in [Files -> Int]
    BY <2>1, <2>2, <2>3 DEF GraphInv, CommitInv, TreeOf, Trees
  <2>4. root \in [Files -> Nat]
    BY <2>1, <2>2 DEF Trees
  <2>5. ASSUME NEW s \in Sessions
        PROVE  /\ wt[s].branch \in 0..Len(commits)
               /\ Present(s) => wt[s].branch # 0 /\ wt[s].tree \in [Files -> Int]
               /\ store[s].source \in Sessions \cup {None}
               /\ ~store[s].approval.running
    <3>1. /\ WorktreeInv(s) /\ StoreInv(s) /\ wt[s] \in Worktrees /\ store[s] \in Stored
      BY <1>1, StoredBelief DEF SessionInv
    <3> QED BY <2>2, <3>1 DEF WorktreeInv, StoreInv, Worktrees, Stored, Present, Readers
  <2> QED BY <2>1, <2>3, <2>4, <2>5 DEF TypeOK
<1> QED BY <1>1, MergesAreSafe, PTL

-----------------------------------------------------------------------------
(* What a step may do                                                      *)

\* The repository changes with a first write, a commit that is offered or
\* checked, a merge, or with what the user does by hand.
LEMMA RepositoryChanges ==
  ASSUME [Next]_vars, ~UNCHANGED repository, ~UNCHANGED actor
  PROVE  \E t \in Sessions : FirstWrite(t) \/ Propose(t) \/ Offer(t) \/ Checkpoint(t)
                               \/ MoveMain(t) \/ MoveMainStops(t)
<1>1. ASSUME NEW t \in Sessions, Living(t) PROVE FALSE
  BY <1>1 DEF Living, Fork, Leave, Resume
<1>2. ASSUME NEW t \in Sessions, Working(t) PROVE FirstWrite(t) \/ Propose(t) \/ Offer(t)
  BY <1>2 DEF Working, BeginTask, ResolveMerge, Interrupt, EndTask, CompleteTask, DiscardUnused,
              Edit, OfferFails, Answer
<1>3. ASSUME NEW t \in Sessions, Merging(t) PROVE Checkpoint(t) \/ MoveMain(t) \/ MoveMainStops(t)
  BY <1>3 DEF Merging, WorktreeCleanup, AlreadyMerged, MergeFails, Conflict, Prepare, Cleanup, Finish
<1>4. ~User
  BY DEF User, UserEdits, UserEditsRoot, UserCommits, UserReverts
<1>5. ~Pruning
  BY DEF Pruning, PruneLooks, PruneClaims, PruneRemoves, PruneRecords
<1>6. ~UNCHANGED vars
  BY DEF vars
<1> QED BY <1>1, <1>2, <1>3, <1>4, <1>5, <1>6 DEF Next

\* While a session has checked its worktree, only its merge changes main.
LEMMA CheckedMoves ==
  ASSUME Types, [Next]_vars, NEW s \in Sessions, actor[s].pc = "checked", actor'[s] # actor[s]
  PROVE  MoveMain(s) \/ MoveMainStops(s) \/ UNCHANGED <<commits, main, root>>
<1>1. CASE UNCHANGED repository
  BY <1>1 DEF repository
<1>2. CASE ~UNCHANGED repository
  <2>1. PICK t \in Sessions : FirstWrite(t) \/ Propose(t) \/ Offer(t) \/ Checkpoint(t)
                                \/ MoveMain(t) \/ MoveMainStops(t)
    BY <1>2, RepositoryChanges
  <2>2. \E a : actor' = [actor EXCEPT ![t] = a]
    <3>1. ASSUME NEW next, NEW rest, RecordMerge(t, next, rest)
          PROVE  \E a : actor' = [actor EXCEPT ![t] = a]
      BY <3>1 DEF RecordMerge
    <3>2. CASE FirstWrite(t)
      <4>1. \/ actor' = [actor EXCEPT ![t] = Down]
            \/ actor' = [actor EXCEPT ![t].pc = "created", ![t].source = store[t].source]
        BY <3>2 DEF FirstWrite
      <4> QED BY <4>1
    <3>3. CASE Propose(t)
      BY <3>3 DEF Propose
    <3>4. CASE Offer(t)
      BY <3>1, <3>4 DEF Offer
    <3>5. CASE Checkpoint(t)
      BY <3>1, <3>5 DEF Checkpoint, OfferAgain, Goto
    <3>6. CASE MoveMain(t) \/ MoveMainStops(t)
      BY <3>6 DEF MoveMain, MoveMainStops, Goto
    <3> QED BY <2>1, <3>2, <3>3, <3>4, <3>5, <3>6
  <2>3. t = s
    BY <2>2 DEF Types
  <2>4. ~FirstWrite(s) /\ ~Propose(s) /\ ~Offer(s) /\ ~Checkpoint(s)
    BY DEF FirstWrite, Propose, Offer, Checkpoint
  <2> QED BY <2>1, <2>3, <2>4
<1> QED BY <1>1, <1>2

\* A merge brings to main what the user approved, over files that it has not
\* taken back, in a checkout that had no changes.
LEMMA MergeBrings ==
  ASSUME MergeInv, NEW s \in Sessions, MoveMain(s) \/ MoveMainStops(s), NEW f \in Files
  PROVE  /\ commits'[main'].tree[f] \in {TreeOf(main)[f]} \cup consent[s]
         /\ commits'[main'].tree[f] \in Int /\ TreeOf(main)[f] <= commits'[main'].tree[f]
         /\ root = TreeOf(main)
<1>1. PICK b, id, tree, base :
        b = wt[s].branch /\ id = Len(commits) + 1 /\ tree = Squash(s) /\ base = Base(main, b)
  OBVIOUS
<1>2. actor[s].pc = "checked" /\ CanMove(s) /\ ~Conflicted(s)
  BY DEF MoveMain, MoveMainStops
<1>3. /\ Types /\ GraphInv /\ main \in DOMAIN commits /\ b \in DOMAIN commits /\ root = TreeOf(main)
      /\ \A g \in Files : TreeOf(b)[g] \in consent[s] \/ TreeOf(b)[g] = TreeOf(base)[g]
  BY <1>1, <1>2, MovingKnows
<1>4. TreeOf(main)[f] \in Int /\ TreeOf(main)[f] <= TreeOf(main)[f] /\ Latest \in Nat
  BY <1>3, CommitFacts, LatestNat
<1>5. CASE FastForward(s)
  <2>1. base = main /\ TreeOf(b) \in Trees /\ TreeOf(main)[f] <= TreeOf(b)[f]
    BY <1>1, <1>2, <1>5, FastForwardIs
  <2>2. TreeOf(b)[f] \in Int
    BY <2>1 DEF Trees
  <2>3. commits' = commits /\ main' \in {main, b}
    BY <1>1, <1>5 DEF MoveMain, MoveMainStops
  <2>4. commits'[main'].tree[f] \in {TreeOf(main)[f], TreeOf(b)[f]}
    BY <2>3 DEF TreeOf
  <2> QED BY <1>3, <1>4, <2>1, <2>2, <2>4
<1>6. CASE ~FastForward(s)
  <2>1. /\ tree \in Trees /\ TreeOf(main)[f] <= tree[f]
        /\ tree[f] \in {TreeOf(main)[f]} \cup consent[s]
    BY <1>1, <1>2, <1>6, SquashIs
  <2>2. tree[f] \in Int
    BY <2>1 DEF Trees
  <2>3. PICK c : c = Commit(tree, <<main>>)
    OBVIOUS
  <2>4. commits' = Append(commits, c) /\ c.tree = tree
    BY <1>1, <1>6, <2>3 DEF MoveMain, MoveMainStops, Commit
  <2>5. /\ commits'[id] = c /\ commits'[main] = commits[main] /\ Len(commits') = id
    BY <1>1, <1>3, <2>4 DEF Types
  <2>6. main' \in {main, id}
    BY <1>1, <1>6, <2>5 DEF MoveMain, MoveMainStops
  <2>7. commits'[main'].tree[f] \in {TreeOf(main)[f], tree[f]}
    BY <2>4, <2>5, <2>6 DEF TreeOf
  <2> QED BY <1>3, <1>4, <2>1, <2>2, <2>7
<1> QED BY <1>5, <1>6

\* Main takes from a session only what the user said yes to (session_actor.rs,
\* merge/execution.rs): what a standing approval covers, or what main had.
THEOREM MainTakesTheApproved == Spec => MainIsApproved
<1>1. ASSUME MergeInv, [Next]_vars, NEW s \in Sessions, actor[s].pc = "checked",
             actor'[s] # actor[s], NEW f \in Files
      PROVE  commits'[main'].tree[f] \in Versions(commits[main].tree) \cup consent[s]
  <2>1. MoveMain(s) \/ MoveMainStops(s) \/ UNCHANGED <<commits, main, root>>
    BY <1>1, CheckedMoves DEF MergeInv
  <2>2. TreeOf(main)[f] \in Versions(commits[main].tree)
    BY DEF Versions, TreeOf
  <2>3. commits'[main'].tree[f] \in {TreeOf(main)[f]} \cup consent[s]
    BY <1>1, <2>1, MergeBrings DEF TreeOf
  <2> QED BY <2>2, <2>3
<1>2. MergeInv /\ [Next]_vars =>
        [\A s \in Sessions :
           actor[s].pc = "checked" /\ actor'[s] # actor[s] =>
             \A f \in Files : commits'[main'].tree[f] \in Versions(commits[main].tree) \cup consent[s]]_vars
  BY <1>1
<1> QED BY <1>2, MergesAreSafe, PTL DEF Spec, MainIsApproved

\* A merge takes no file of main back to an earlier version, and overwrites no
\* change in the user's checkout of main (worktrees/session.rs).
THEOREM MainGoesForward == Spec => MainKeepsItsWork
<1>1. ASSUME MergeInv, [Next]_vars, NEW s \in Sessions, NEW f \in Files,
             actor[s].pc = "checked", actor'[s] # actor[s]
      PROVE  /\ commits'[main'].tree[f] # commits[main].tree[f] =>
                  \A c \in Ancestors(main) : commits[c].tree[f] # commits'[main'].tree[f]
             /\ root[f] # commits[main].tree[f] => root'[f] = root[f]
  <2>1. MoveMain(s) \/ MoveMainStops(s) \/ UNCHANGED <<commits, main, root>>
    BY <1>1, CheckedMoves DEF MergeInv
  <2>2. CASE UNCHANGED <<commits, main, root>>
    BY <2>2
  <2>3. CASE MoveMain(s) \/ MoveMainStops(s)
    <3>1. PICK v : v = commits'[main'].tree[f]
      OBVIOUS
    <3>2. v \in Int /\ TreeOf(main)[f] <= v /\ root = TreeOf(main)
      BY <1>1, <2>3, <3>1, MergeBrings
    <3>3. ASSUME NEW c \in Ancestors(main), v # TreeOf(main)[f] PROVE TreeOf(c)[f] # v
      <4>1. Types /\ GraphInv /\ main \in DOMAIN commits
        BY <1>1 DEF MergeInv, RepositoryInv, Types
      <4>2. /\ TreeOf(c)[f] <= TreeOf(main)[f] /\ c \in DOMAIN commits
            /\ TreeOf(main)[f] \in 0..Latest
        BY <4>1, CommitFacts
      <4>3. TreeOf(c)[f] \in 0..Latest /\ Latest \in Nat
        BY <4>1, <4>2, CommitFacts, LatestNat
      <4> QED BY <3>2, <3>3, <4>2, <4>3
    <3> QED BY <3>1, <3>2, <3>3 DEF TreeOf
  <2> QED BY <2>1, <2>2, <2>3
<1>2. MergeInv /\ [Next]_vars =>
        [\A s \in Sessions, f \in Files :
           actor[s].pc = "checked" /\ actor'[s] # actor[s] =>
             /\ commits'[main'].tree[f] # commits[main].tree[f] =>
                  \A c \in Ancestors(main) : commits[c].tree[f] # commits'[main'].tree[f]
             /\ root[f] # commits[main].tree[f] => root'[f] = root[f]]_vars
  BY <1>1
<1> QED BY <1>2, MergesAreSafe, PTL DEF Spec, MainKeepsItsWork

\* What may change the files of a worktree.
Moves(t) == MoveMain(t) \/ MoveMainStops(t)
WorktreesChange(t) ==
  \/ FirstWrite(t) \/ DiscardUnused(t) \/ Propose(t) \/ Offer(t) \/ OfferFails(t)
  \/ Checkpoint(t) \/ Moves(t) \/ Prepare(t) \/ Cleanup(t)
  \/ \E f \in Files : Change(t, f)

\* A worktree changes with a task, an offer, a merge, an edit or its removal.
LEMMA WorktreesChanged ==
  ASSUME [Next]_vars, ~UNCHANGED wt
  PROVE  PruneRemoves \/ \E t \in Sessions : WorktreesChange(t)
<1>1. ASSUME NEW t \in Sessions, Living(t) PROVE FALSE
  BY <1>1 DEF Living, Fork, Leave, Resume
<1>2. ASSUME NEW t \in Sessions, Working(t) PROVE WorktreesChange(t)
  BY <1>2 DEF Working, BeginTask, ResolveMerge, Interrupt, EndTask, CompleteTask,
              Edit, Answer, WorktreesChange
<1>3. ASSUME NEW t \in Sessions, Merging(t) PROVE WorktreesChange(t)
  BY <1>3 DEF Merging, WorktreeCleanup, AlreadyMerged, MergeFails, Conflict, Finish,
              WorktreesChange, Moves
<1>4. CASE User
  BY <1>4 DEF User, UserEdits, UserEditsRoot, UserCommits, UserReverts, WorktreesChange
<1>5. CASE Pruning
  BY <1>5 DEF Pruning, PruneLooks, PruneClaims, PruneRecords
<1>6. ~UNCHANGED vars
  BY DEF vars
<1> QED BY <1>1, <1>2, <1>3, <1>4, <1>5, <1>6 DEF Next

\* Files with a version are a directory.
LEMMA FilesArePresent ==
  ASSUME NEW f \in Files, NEW tree \in [Files -> Int]
  PROVE  tree # NoTree
BY DEF NoTree

\* A worktree that is there has files, and there are files to have.
LEMMA PresentHasFiles ==
  ASSUME Types, NEW s \in Sessions, Present(s)
  PROVE  wt[s].tree \in [Files -> Int] /\ Files # {}
<1>1. wt[s].tree \in [Files -> Int] /\ wt[s].tree # NoTree
  BY DEF Types, Worktrees, Present
<1>2. ASSUME Files = {}, NEW tree \in [Files -> Int] PROVE tree = <<>>
  BY <1>2
<1> QED BY <1>1, <1>2 DEF NoTree

\* A worktree goes after a first write that failed, after a merge or when it is
\* pruned; whatever else happens to it, its files stay.
LEMMA TreesStay ==
  ASSUME MergeInv, [Next]_vars, NEW s \in Sessions, Present(s), ~Present(s)'
  PROVE  DiscardUnused(s) \/ Cleanup(s) \/ (PruneRemoves /\ pruner.target = s)
<1>1. /\ Types /\ wt \in [Sessions -> Worktrees] /\ wt[s] \in Worktrees /\ wt[s].branch # 0
      /\ wt[s].tree \in [Files -> Int] /\ Files # {} /\ wt[s].tree # NoTree
  <2>1. Types /\ WorktreeInv(s)
    BY DEF MergeInv, SessionInv
  <2> QED BY <2>1, PresentHasFiles DEF WorktreeInv, Types, Present
<1>2. wt'[s].tree = NoTree /\ ~UNCHANGED wt
  BY <1>1 DEF Present
<1>3. \A tree \in [Files -> Int] : tree # NoTree
  BY <1>1, FilesArePresent
<1>4. ASSUME NEW t \in Sessions, NEW w, wt' = [wt EXCEPT ![t] = w], w.tree # NoTree PROVE FALSE
  BY <1>1, <1>2, <1>4
<1>5. ASSUME NEW t \in Sessions, NEW w, wt' = [wt EXCEPT ![t] = w], t # s PROVE FALSE
  BY <1>1, <1>2, <1>5
<1>6. CASE PruneRemoves
  <2>1. PICK t : t = pruner.target
    OBVIOUS
  <2>2. ASSUME t # s PROVE FALSE
    <3>1. wt' = [wt EXCEPT ![t] = Removed] \/ (\E w : wt' = [wt EXCEPT ![t] = w]) \/ wt' = wt
      BY <1>6, <2>1 DEF PruneRemoves
    <3> QED BY <1>1, <1>2, <2>2, <3>1
  <2> QED BY <1>6, <2>1, <2>2
<1>7. ASSUME NEW t \in Sessions, WorktreesChange(t) PROVE DiscardUnused(s) \/ Cleanup(s)
  <2>1. wt[t] \in Worktrees
    BY <1>1
  <2>2. CASE FirstWrite(t)
    <3>1. PICK source, base : source = store[t].source /\ base = commits[main].tree
      OBVIOUS
    <3>2. t # s
      BY <1>1, <2>2 DEF FirstWrite
    <3>3. CASE source = None
      <4>1. \E w : wt' = [wt EXCEPT ![t] = w]
        BY <2>2, <3>1, <3>3 DEF FirstWrite
      <4> QED BY <1>5, <3>2, <4>1
    <3>4. CASE source # None
      <4>1. \E id, w : wt' = [wt EXCEPT ![source].branch = id, ![t] = w]
        BY <2>2, <3>1, <3>4 DEF FirstWrite
      <4>2. PICK id, w : wt' = [wt EXCEPT ![source].branch = id, ![t] = w]
        BY <4>1
      <4>3. PICK u : u = [wt[s] EXCEPT !.branch = id]
        OBVIOUS
      <4>4. u.tree = wt[s].tree
        BY <1>1, <4>3 DEF Worktrees
      <4>5. wt'[s] = IF source = s THEN u ELSE wt[s]
        BY <1>1, <3>2, <4>2, <4>3
      <4> QED BY <1>1, <1>2, <4>4, <4>5
    <3> QED BY <3>3, <3>4
  <2>3. ASSUME NEW u, wt' = [wt EXCEPT ![t] = u], u.tree = wt[t].tree PROVE FALSE
    BY <1>1, <1>2, <2>3
  <2>4. ASSUME NEW branch, NEW head, wt' = [wt EXCEPT ![t].branch = branch, ![t].mergeHead = head]
        PROVE  FALSE
    <3>1. PICK u : u = [wt[t] EXCEPT !.branch = branch, !.mergeHead = head]
      OBVIOUS
    <3>2. wt' = [wt EXCEPT ![t] = u] /\ u.tree = wt[t].tree
      BY <1>1, <2>1, <2>4, <3>1 DEF Worktrees
    <3> QED BY <2>3, <3>2
  <2>5. ASSUME NEW branch, wt' = [wt EXCEPT ![t].branch = branch] PROVE FALSE
    <3>1. PICK u : u = [wt[t] EXCEPT !.branch = branch]
      OBVIOUS
    <3>2. wt' = [wt EXCEPT ![t] = u] /\ u.tree = wt[t].tree
      BY <1>1, <2>1, <2>5, <3>1 DEF Worktrees
    <3> QED BY <2>3, <3>2
  <2>6. ASSUME NEW head, wt' = [wt EXCEPT ![t].mergeHead = head] PROVE FALSE
    <3>1. PICK u : u = [wt[t] EXCEPT !.mergeHead = head]
      OBVIOUS
    <3>2. wt' = [wt EXCEPT ![t] = u] /\ u.tree = wt[t].tree
      BY <1>1, <2>1, <2>6, <3>1 DEF Worktrees
    <3> QED BY <2>3, <3>2
  <2>7. ~Propose(t) /\ ~Checkpoint(t)
    <3>1. Propose(t) => \E branch : wt' = [wt EXCEPT ![t].branch = branch]
      BY <1>2 DEF Propose
    <3>2. Checkpoint(t) => \E branch : wt' = [wt EXCEPT ![t].branch = branch]
      BY <1>2 DEF Checkpoint
    <3> QED BY <2>5, <3>1, <3>2
  <2>8. ~OfferFails(t)
    BY <2>6 DEF OfferFails
  <2>9. ~Offer(t)
    <3>1. PICK c : c = IF actor[t].pc = "describing" THEN Len(commits) + 1 ELSE wt[t].branch
      OBVIOUS
    <3>2. Offer(t) => wt' = [wt EXCEPT ![t].mergeHead = 0, ![t].branch = c]
      BY <1>1, <3>1 DEF Offer
    <3>3. PICK u : u = [wt[t] EXCEPT !.mergeHead = 0, !.branch = c]
      OBVIOUS
    <3>4. u.tree = wt[t].tree
      BY <2>1, <3>3 DEF Worktrees
    <3>5. Offer(t) => wt' = [wt EXCEPT ![t] = u]
      BY <1>1, <2>1, <3>2, <3>3
    <3> QED BY <2>3, <3>4, <3>5
  <2>10. \A f \in Files : ~Change(t, f)
    <3>1. ASSUME NEW f \in Files, Change(t, f) PROVE FALSE
      <4>1. PICK v : v = Fresh
        OBVIOUS
      <4>2. wt' = [wt EXCEPT ![t].tree[f] = v]
        BY <3>1, <4>1 DEF Change
      <4>3. wt'[s].tree = IF t = s THEN [wt[s].tree EXCEPT ![f] = v] ELSE wt[s].tree
        BY <1>1, <4>2 DEF Worktrees
      <4>4. v \in Int
        BY <1>1, <4>1 DEF Fresh, Types
      <4> QED BY <1>1, <1>2, <1>3, <4>3, <4>4
    <3> QED BY <3>1
  <2>11. ~Prepare(t)
    <3>1. ASSUME Prepare(t) PROVE FALSE
      <4>1. PICK target, tree :
              /\ target = actor[t].approval.target
              /\ tree = Merged(commits[Base(target, wt[t].branch)].tree, Tip(t).tree,
                               commits[target].tree)
        OBVIOUS
      <4>2. wt' = [wt EXCEPT ![t].mergeHead = target, ![t].tree = tree]
        BY <1>2, <3>1, <4>1 DEF Prepare
      <4>3. PICK u : u = [wt[t] EXCEPT !.mergeHead = target, !.tree = tree]
        OBVIOUS
      <4>4. wt' = [wt EXCEPT ![t] = u] /\ u.tree = tree
        BY <1>1, <2>1, <4>2, <4>3 DEF Worktrees
      <4>5. PICK f \in Files : TRUE
        BY <1>1
      <4>6. tree # NoTree
        BY <4>1, <4>5 DEF Merged, NoTree
      <4> QED BY <1>4, <4>4, <4>6
    <3> QED BY <3>1
  <2>12. ~Moves(t)
    <3>1. PICK files : files = Checkout(t, Squash(t))
      OBVIOUS
    <3>2. PICK f \in Files : TRUE
      BY <1>1
    <3>3. files # NoTree
      BY <3>1, <3>2 DEF Checkout, NoTree
    <3>4. \A id : Squashed(t, id).tree = files
      BY <2>1, <3>1 DEF Squashed, Worktrees
    <3>5. ~MoveMain(t)
      <4>1. MoveMain(t) => \E id : wt' = [wt EXCEPT ![t] = Squashed(t, id)]
        BY <1>2 DEF MoveMain
      <4> QED BY <1>4, <3>3, <3>4, <4>1
    <3>6. ~MoveMainStops(t)
      <4>1. ASSUME MoveMainStops(t)
            PROVE  \E branch, merges :
                     wt' = [wt EXCEPT ![t].branch = branch, ![t].merges = merges, ![t].tree = files]
        <5>1. PICK id : id = Len(commits) + 1
          OBVIOUS
        <5>2. \E branch \in {wt[t].branch, id}, merges \in {wt[t].merges, Squashed(t, id).merges},
                 m \in {main, id} :
                /\ wt' = [wt EXCEPT ![t].branch = branch, ![t].merges = merges,
                                    ![t].tree = Squashed(t, id).tree]
                /\ main' = m
          BY <1>2, <4>1, <5>1 DEF MoveMainStops
        <5> QED BY <3>4, <5>2
      <4>2. ASSUME NEW branch, NEW merges,
                   wt' = [wt EXCEPT ![t].branch = branch, ![t].merges = merges, ![t].tree = files]
            PROVE  FALSE
        <5>1. PICK u : u = [wt[t] EXCEPT !.branch = branch, !.merges = merges, !.tree = files]
          OBVIOUS
        <5>2. wt' = [wt EXCEPT ![t] = u] /\ u.tree = files
          BY <1>1, <2>1, <4>2, <5>1 DEF Worktrees
        <5> QED BY <1>4, <3>3, <5>2
      <4> QED BY <4>1, <4>2
    <3> QED BY <3>5, <3>6 DEF Moves
  <2>13. ASSUME DiscardUnused(t) \/ Cleanup(t), t # s PROVE FALSE
    <3>1. \E w : wt' = [wt EXCEPT ![t] = w]
      BY <1>2, <2>13 DEF DiscardUnused, Cleanup
    <3> QED BY <1>5, <2>13, <3>1
  <2> QED BY <1>7, <2>2, <2>7, <2>8, <2>9, <2>10, <2>11, <2>12, <2>13 DEF WorktreesChange
<1> QED BY <1>2, <1>6, <1>7, WorktreesChanged

\* A worktree goes only when its files are those of a commit that main descends
\* from, unless its removal was forced or nothing was written in it
\* (merge/execution.rs, session/src/prune.rs, worktrees/session.rs).
THEOREM WorkIsNeverLost == Spec => NothingIsLost
<1>1. ASSUME MergeInv, [Next]_vars, NEW s \in Sessions, Present(s), ~Present(s)'
      PROVE  \/ actor[s].pc = "created"
             \/ actor[s].pc = "pruning" /\ pruner.force
             \/ \E c \in Ancestors(main) : commits[c].tree = wt[s].tree
  <2>1. WorktreeInv(s) /\ PrunerInv /\ wt[s].branch # 0
    BY <1>1 DEF MergeInv, SessionInv, WorktreeInv
  <2>2. ASSUME Integrated(wt[s].branch), Clean(s)
        PROVE  \E c \in Ancestors(main) : commits[c].tree = wt[s].tree
    BY <2>2 DEF Integrated, Clean, Tip
  <2>3. CASE DiscardUnused(s)
    BY <2>3 DEF DiscardUnused
  <2>4. CASE Cleanup(s)
    <3>1. ~UNCHANGED wt
      BY <1>1 DEF Present
    <3>2. Removable(s, actor[s].commit)
      BY <2>4, <3>1 DEF Cleanup
    <3> QED BY <2>2, <3>2 DEF Removable
  <2>5. CASE PruneRemoves /\ pruner.target = s
    <3>1. ~UNCHANGED wt
      BY <1>1 DEF Present
    <3>2. PruneMay(s) /\ pruner.pc = "claimed"
      BY <2>5, <3>1 DEF PruneRemoves
    <3>3. actor[s].pc = "pruning"
      BY <2>1, <2>5, <3>2 DEF PrunerInv
    <3> QED BY <1>1, <2>1, <2>2, <3>2, <3>3 DEF PruneMay
  <2> QED BY <1>1, <2>3, <2>4, <2>5, TreesStay
<1>2. MergeInv /\ [Next]_vars =>
        [\A s \in Sessions :
           \/ ~(Present(s) /\ ~Present(s)')
           \/ actor[s].pc = "created"
           \/ actor[s].pc = "pruning" /\ pruner.force
           \/ \E c \in Ancestors(main) : commits[c].tree = wt[s].tree]_vars
  BY <1>1
<1> QED BY <1>2, MergesAreSafe, PTL DEF Spec, NothingIsLost

\* A merge never removes the worktree that a fork still reads, but for one that
\* has regained its source (merge/execution.rs, session/src/persistence.rs).
THEOREM SourcesStay == Spec => ForksKeepTheirSource
<1>1. ASSUME MergeInv, [Next]_vars, NEW s \in Sessions, NEW r \in Sessions, Present(s),
             actor[s].pc = "merged", store[r].source = s, r \notin regained
      PROVE  Present(s)'
  <2>1. ReadersInv /\ PrunerInv
    BY <1>1 DEF MergeInv
  <2>2. actor[s].keep
    BY <1>1, <2>1 DEF ReadersInv
  <2>3. SUFFICES ASSUME ~Present(s)' PROVE FALSE
    OBVIOUS
  <2>4. CASE DiscardUnused(s)
    BY <1>1, <2>4 DEF DiscardUnused
  <2>5. CASE Cleanup(s)
    <3>1. UNCHANGED wt
      BY <2>2, <2>5 DEF Cleanup
    <3> QED BY <1>1, <2>3, <3>1 DEF Present
  <2>6. CASE PruneRemoves /\ pruner.target = s
    <3>1. actor[s].pc = "pruning"
      BY <2>1, <2>6 DEF PruneRemoves, PrunerInv
    <3> QED BY <1>1, <3>1
  <2> QED BY <1>1, <2>3, <2>4, <2>5, <2>6, TreesStay
<1>2. MergeInv /\ [Next]_vars =>
        [\A s, r \in Sessions :
           Present(s) /\ actor[s].pc = "merged" /\ store[r].source = s /\ r \notin regained
             => Present(s)']_vars
  BY <1>1
<1> QED BY <1>2, MergesAreSafe, PTL DEF Spec, ForksKeepTheirSource

=============================================================================

---------------------------- MODULE BallocProofs ----------------------------
(***************************************************************************)
(* Proofs about the block allocator.  First the inductive invariant and    *)
(* what it says of the tree walks, of the free blocks of a list and of a   *)
(* change to one list; then the steps of nova_new_blocks and               *)
(* nova_free_blocks, which preserve it; and the theorems: the safety       *)
(* properties of Balloc follow, the lists together are one pool of blocks, *)
(* a free coalesces with both neighbours, and -ENOSPC is justified.        *)
(***************************************************************************)
EXTENDS Balloc, TLAPS, FiniteSetTheorems, WellFoundedInduction

-----------------------------------------------------------------------------
(* Least and greatest elements, and what the tree walks return *)

\* A set of naturals that is not empty has a least element.
LEMMA LeastNatural ==
    ASSUME NEW S \in SUBSET Nat, S # {}
    PROVE  \E m \in S : \A k \in S : m <= k
<1> DEFINE R == {ss \in Nat \X Nat : ss[1] < ss[2]}
<1>1. IsWellFoundedOn(R, Nat)
  BY NatLessThanWellFounded, Zenon DEF OpToRel
<1>2. PICK m \in S : \A k \in S : ~ (<<k, m>> \in R)
  BY <1>1, WFMin, Zenon
<1>3. ASSUME NEW k \in S, ~ (m <= k)
      PROVE  FALSE
  <2>1. k \in Nat /\ m \in Nat /\ k < m
    BY <1>3
  <2>2. <<k, m>> \in R
    BY <2>1, Zenon
  <2> QED
    BY <1>2, <2>2, Zenon
<1> QED
  BY <1>3, Zenon

\* rb_first of a non-empty set of nodes is one of them, the lowest.
LEMMA LeftmostNode ==
    ASSUME NEW S \in SUBSET Node, S # {}, low \in [Node -> Block]
    PROVE  /\ Leftmost(S) \in S
           /\ \A m \in S : low[Leftmost(S)] <= low[m]
<1> DEFINE V == {low[n] : n \in S}
<1>1. V \in SUBSET Nat
  BY DEF Node, Block
<1>a. V # {}
  BY Zenon
<1>2. PICK v \in V : \A k \in V : v <= k
  BY <1>1, <1>a, LeastNatural, Zenon
<1>3. PICK n \in S : v = low[n]
  BY Zenon
<1>4. \A m \in S : low[n] <= low[m]
  BY <1>2, <1>3, Zenon
<1> QED
  BY <1>4, Zenon DEF Leftmost

\* The last node of a non-empty set is one of them, the highest.
LEMMA RightmostNode ==
    ASSUME NEW S \in SUBSET Node, S # {}, low \in [Node -> Block]
    PROVE  /\ Rightmost(S) \in S
           /\ \A m \in S : low[m] <= low[Rightmost(S)]
<1> DEFINE V == {NumBlocks - low[n] : n \in S}
<1>b. ASSUME NEW n \in S PROVE NumBlocks - low[n] \in Nat
  <2>1. NumBlocks \in Nat
    BY SizesAssumption, Zenon
  <2>2. low[n] \in 0 .. NumBlocks - 1
    BY Zenon DEF Node, Block
  <2> QED
    BY <2>1, <2>2
<1>1. V \in SUBSET Nat
  BY <1>b, Zenon
<1>a. V # {}
  BY Zenon
<1>2. PICK v \in V : \A k \in V : v <= k
  BY <1>1, <1>a, LeastNatural, Zenon
<1>3. PICK n \in S : v = NumBlocks - low[n]
  BY Zenon
<1>4. \A m \in S : low[m] <= low[n]
  <2> TAKE m \in S
  <2>1. NumBlocks - low[n] <= NumBlocks - low[m]
    BY <1>2, <1>3, Zenon
  <2>2. NumBlocks \in Nat
    BY SizesAssumption, Zenon
  <2>3. low[n] \in 0 .. NumBlocks - 1 /\ low[m] \in 0 .. NumBlocks - 1
    BY Zenon DEF Node, Block
  <2> QED
    BY <2>1, <2>2, <2>3
<1> QED
  BY <1>4, Zenon DEF Rightmost

\* rb_first of a list that has nodes is what first_node should be.
LEMMA RbFirstNode ==
    ASSUME NEW l \in List, TypeOK, tree[l] # {}
    PROVE  IsFirst(l, RbFirst(l)) /\ RbFirst(l) \in tree[l]
<1>1. tree[l] \in SUBSET Node /\ low \in [Node -> Block]
  BY Zenon DEF TypeOK
<1>2. RbFirst(l) = Leftmost(tree[l])
  BY Zenon DEF RbFirst
<1>3. /\ Leftmost(tree[l]) \in tree[l]
      /\ \A m \in tree[l] : low[Leftmost(tree[l])] <= low[m]
  BY <1>1, LeftmostNode, Zenon
<1> QED
  BY <1>2, <1>3, Zenon DEF IsFirst

\* rb_next is NULL at the last node and otherwise the next higher node.
LEMMA RbNextNode ==
    ASSUME NEW l \in List, NEW n \in tree[l], TypeOK
    PROVE  \/ /\ RbNext(l, n) = NULL
              /\ \A m \in tree[l] : ~(low[n] < low[m])
           \/ /\ RbNext(l, n) \in tree[l]
              /\ low[n] < low[RbNext(l, n)]
              /\ \A m \in tree[l] : low[n] < low[m] => low[RbNext(l, n)] <= low[m]
<1> DEFINE after == {m \in tree[l] : low[n] < low[m]}
<1>1. after \in SUBSET Node /\ low \in [Node -> Block]
  BY Zenon DEF TypeOK
<1>2. CASE after = {}
  BY <1>2, Zenon DEF RbNext
<1>3. CASE after # {}
  <2>1. RbNext(l, n) = Leftmost(after)
    BY <1>3, Zenon DEF RbNext
  <2>2. Leftmost(after) \in after /\ \A m \in after : low[Leftmost(after)] <= low[m]
    BY <1>1, <1>3, LeftmostNode, Zenon
  <2> QED
    BY <2>1, <2>2, Zenon
<1> QED
  BY <1>2, <1>3, Zenon

\* nova_find_free_slot: prev is the last node that starts below b, or NULL.
LEMMA PrevNode ==
    ASSUME NEW l \in List, NEW b \in Block, TypeOK
    PROVE  \/ /\ Prev(l, b) = NULL
              /\ \A m \in tree[l] : ~(low[m] < b)
           \/ /\ Prev(l, b) \in tree[l]
              /\ low[Prev(l, b)] < b
              /\ \A m \in tree[l] : low[m] < b => low[m] <= low[Prev(l, b)]
<1> DEFINE before == {m \in tree[l] : low[m] < b}
<1>1. before \in SUBSET Node /\ low \in [Node -> Block]
  BY Zenon DEF TypeOK
<1>2. CASE before = {}
  BY <1>2, Zenon DEF Prev
<1>3. CASE before # {}
  <2>1. Prev(l, b) = Rightmost(before)
    BY <1>3, Zenon DEF Prev
  <2>2. Rightmost(before) \in before /\ \A m \in before : low[m] <= low[Rightmost(before)]
    BY <1>1, <1>3, RightmostNode, Zenon
  <2> QED
    BY <2>1, <2>2, Zenon
<1> QED
  BY <1>2, <1>3, Zenon

\* nova_find_free_slot: next is the first node that starts above b, or NULL.
LEMMA FollowingNode ==
    ASSUME NEW l \in List, NEW b \in Block, TypeOK
    PROVE  \/ /\ Following(l, b) = NULL
              /\ \A m \in tree[l] : ~(b < low[m])
           \/ /\ Following(l, b) \in tree[l]
              /\ b < low[Following(l, b)]
              /\ \A m \in tree[l] : b < low[m] => low[Following(l, b)] <= low[m]
<1> DEFINE after == {m \in tree[l] : b < low[m]}
<1>1. after \in SUBSET Node /\ low \in [Node -> Block]
  BY Zenon DEF TypeOK
<1>2. CASE after = {}
  BY <1>2, Zenon DEF Following
<1>3. CASE after # {}
  <2>1. Following(l, b) = Leftmost(after)
    BY <1>3, Zenon DEF Following
  <2>2. Leftmost(after) \in after /\ \A m \in after : low[Leftmost(after)] <= low[m]
    BY <1>1, <1>3, LeftmostNode, Zenon
  <2> QED
    BY <2>1, <2>2, Zenon
<1> QED
  BY <1>2, <1>3, Zenon

-----------------------------------------------------------------------------
(* Counting *)

\* The device and every set of its blocks are finite.
LEMMA BlockFinite ==
    IsFiniteSet(Block) /\ \A S \in SUBSET Block : IsFiniteSet(S)
<1>1. IsFiniteSet(Block)
  BY FS_Interval, SizesAssumption DEF Block
<1> QED
  BY <1>1, FS_Subset, Zenon

\* A run of k blocks added to a set that has none of them adds k to its size.
LEMMA AddRun ==
    ASSUME NEW F \in SUBSET Block, NEW a \in Block, NEW k \in Nat,
           (a .. a + k - 1) \subseteq Block, F \cap (a .. a + k - 1) = {}
    PROVE  Cardinality(F \cup (a .. a + k - 1)) = Cardinality(F) + k
<1> DEFINE R == a .. a + k - 1
<1>1. IsFiniteSet(F) /\ IsFiniteSet(R) /\ IsFiniteSet({})
  BY BlockFinite, FS_EmptySet, Zenon
<1>2. Cardinality(R) = k
  BY FS_Interval, SizesAssumption DEF Block
<1>3. Cardinality(F \cup R) = Cardinality(F) + Cardinality(R) - Cardinality(F \cap R)
  BY <1>1, FS_Union, Zenon
<1>4. Cardinality(F \cap R) = 0
  BY FS_EmptySet, Zenon
<1>5. Cardinality(F) \in Nat
  BY <1>1, FS_CardinalityType, Zenon
<1> QED
  BY <1>2, <1>3, <1>4, <1>5

\* A run of k blocks taken from a set that has them takes k from its size.
LEMMA RemoveRun ==
    ASSUME NEW F \in SUBSET Block, NEW a \in Block, NEW k \in Nat,
           (a .. a + k - 1) \subseteq F
    PROVE  Cardinality(F \ (a .. a + k - 1)) = Cardinality(F) - k
<1> DEFINE R == a .. a + k - 1
           G == F \ R
<1>1. G \in SUBSET Block /\ R \subseteq Block /\ G \cap R = {} /\ G \cup R = F
  BY Zenon
<1>2. Cardinality(G \cup R) = Cardinality(G) + k
  BY <1>1, AddRun, Zenon
<1>3. Cardinality(G) \in Nat
  BY <1>1, BlockFinite, FS_CardinalityType, Zenon
<1> QED
  BY <1>1, <1>2, <1>3
-----------------------------------------------------------------------------
(* The inductive invariant.  None of its conjuncts is inductive alone: the *)
(* counters decide whether a tree may be dereferenced, the pointers decide *)
(* which node is split or erased, and the disjointness of the ranges is    *)
(* what makes the counters exact.                                          *)

IInv == TypeOK /\ BlocksAccounted /\ CountersExact /\ PointersLive

\* A node is in one tree only.
LEMMA OneTree ==
    ASSUME IInv, NEW l \in List, NEW k \in List, NEW n \in tree[l], k # l
    PROVE  n \notin tree[k]
  BY DEF IInv, TypeOK, BlocksAccounted, Block, Node

\* The blocks of two lists are disjoint.
LEMMA ListsDisjoint ==
    ASSUME IInv, NEW l \in List, NEW k \in List, k # l
    PROVE  FreeBlocks(l) \cap FreeBlocks(k) = {}
<1> SUFFICES ASSUME NEW b \in Block,
                    NEW n \in tree[l], low[n] <= b, b <= high[n],
                    NEW m \in tree[k], low[m] <= b, b <= high[m]
             PROVE  FALSE
  BY Zenon DEF FreeBlocks
<1>1. high[n] < low[m] \/ high[m] < low[n]
  BY Zenon DEF IInv, BlocksAccounted
<1>2. /\ low[n] \in Block /\ high[n] \in Block
      /\ low[m] \in Block /\ high[m] \in Block
  BY Zenon DEF IInv, TypeOK
<1> QED
  BY <1>1, <1>2 DEF Block

\* A run R that leaves list l for the callers keeps the accounts straight.
LEMMA RunTaken ==
    ASSUME IInv, NEW l \in List, NEW R \in SUBSET Block,
           R \subseteq FreeBlocks(l),
           FreeBlocks(l)' = FreeBlocks(l) \ R,
           \A k \in List : k # l => FreeBlocks(k)' = FreeBlocks(k),
           held' = held \cup R, lost' = lost
    PROVE  /\ R \subseteq AllFree /\ AllFree' = AllFree \ R
           /\ held' \subseteq Block
           /\ (AllFree \cap (held \cup lost \cup Reserved) = {})'
           /\ (held \cap (lost \cup Reserved) = {} /\ lost \cap Reserved = {})'
           /\ (Block \ Territory(SHARED) \subseteq
                 AllFree \cup held \cup lost \cup Reserved)'
<1>1. AllFree' = AllFree \ R
  <2>1. \A k \in List : k # l => FreeBlocks(k) \cap R = {}
    BY ListsDisjoint, Zenon
  <2>2. AllFree' = {b \in Block : \E k \in List : b \in FreeBlocks(k)'}
    BY Zenon DEF AllFree
  <2>3. AllFree = {b \in Block : \E k \in List : b \in FreeBlocks(k)}
    BY Zenon DEF AllFree
  <2>4. ASSUME NEW b \in Block, NEW k \in List
        PROVE  b \in FreeBlocks(k)' <=> b \in FreeBlocks(k) /\ b \notin R
    BY <2>1, Zenon
  <2> QED
    BY <2>2, <2>3, <2>4, Zenon
<1>2. R \subseteq AllFree
  BY Zenon DEF AllFree
<1>3. /\ AllFree \cap (held \cup lost \cup Reserved) = {}
      /\ held \cap (lost \cup Reserved) = {} /\ lost \cap Reserved = {}
      /\ Block \ Territory(SHARED) \subseteq AllFree \cup held \cup lost \cup Reserved
      /\ held \subseteq Block
  BY Zenon DEF IInv, BlocksAccounted, TypeOK
<1>4. Territory(SHARED)' = Territory(SHARED) /\ Reserved' = Reserved /\ Block' = Block
  BY Zenon DEF Territory, SHARED, PerListBlocks, Reserved, Block
<1> QED
  BY <1>1, <1>2, <1>3, <1>4, Zenon

\* A run R that callers give back to list l keeps the accounts straight.
LEMMA RunReturned ==
    ASSUME IInv, NEW l \in List, NEW R \in SUBSET Block,
           R \subseteq held,
           FreeBlocks(l)' = FreeBlocks(l) \cup R,
           \A k \in List : k # l => FreeBlocks(k)' = FreeBlocks(k),
           held' = held \ R, lost' = lost
    PROVE  /\ AllFree' = AllFree \cup R
           /\ held' \subseteq Block
           /\ (AllFree \cap (held \cup lost \cup Reserved) = {})'
           /\ (held \cap (lost \cup Reserved) = {} /\ lost \cap Reserved = {})'
           /\ (Block \ Territory(SHARED) \subseteq
                 AllFree \cup held \cup lost \cup Reserved)'
<1>1. AllFree' = AllFree \cup R
  <2>2. AllFree' = {b \in Block : \E k \in List : b \in FreeBlocks(k)'}
    BY Zenon DEF AllFree
  <2>3. AllFree = {b \in Block : \E k \in List : b \in FreeBlocks(k)}
    BY Zenon DEF AllFree
  <2>4. ASSUME NEW b \in Block, NEW k \in List
        PROVE  b \in FreeBlocks(k)' <=> b \in FreeBlocks(k) \/ (k = l /\ b \in R)
    BY Zenon
  <2> QED
    BY <2>2, <2>3, <2>4, Zenon
<1>3. /\ AllFree \cap (held \cup lost \cup Reserved) = {}
      /\ held \cap (lost \cup Reserved) = {} /\ lost \cap Reserved = {}
      /\ Block \ Territory(SHARED) \subseteq AllFree \cup held \cup lost \cup Reserved
      /\ held \subseteq Block
  BY Zenon DEF IInv, BlocksAccounted, TypeOK
<1>4. Territory(SHARED)' = Territory(SHARED) /\ Reserved' = Reserved /\ Block' = Block
  BY Zenon DEF Territory, SHARED, PerListBlocks, Reserved, Block
<1> QED
  BY <1>1, <1>3, <1>4, Zenon
-----------------------------------------------------------------------------
(* The trees *)

\* The part of the invariant that speaks of the trees alone.
TreesSound ==
    /\ tree \in [List -> SUBSET Node]
    /\ low \in [Node -> Block] /\ high \in [Node -> Block]
    /\ first_node \in [List -> Node \cup {NULL}]
    /\ p_node \in [List -> Node \cup {NULL}]
    /\ num_blocknode \in [List -> Nat]
    /\ \A l \in List : \A n \in tree[l] : low[n] <= high[n]
    /\ \A l, k \in List : \A n \in tree[l], m \in tree[k] :
          (n = m /\ l = k) \/ high[n] < low[m] \/ high[m] < low[n]
    /\ \A l \in List : num_blocknode[l] = Cardinality(tree[l])
    /\ PointersLive

\* The invariant contains the part about the trees.
LEMMA IInvTrees == IInv => TreesSound
  BY Zenon DEF IInv, TreesSound, TypeOK, BlocksAccounted, CountersExact

-----------------------------------------------------------------------------
(* Giving blocks back to a tree *)

\* No free range of any list meets the num blocks from b.
Clear(b, num) ==
    \A k \in List : \A m \in tree[k] : high[m] < b \/ b + num - 1 < low[m]

\* What callers hold is clear of every free range, in every list: so a run may
\* be merged into a list even where it reaches beyond that list's territory.
LEMMA HeldIsClear ==
    ASSUME IInv, NEW b \in Block, NEW num \in Nat \ {0},
           (b .. b + num - 1) \subseteq held
    PROVE  Clear(b, num)
<1> SUFFICES ASSUME NEW k \in List, NEW m \in tree[k],
                    ~(high[m] < b \/ b + num - 1 < low[m])
             PROVE  FALSE
  BY Zenon DEF Clear
<1>1. /\ low[m] \in Nat /\ high[m] \in Nat /\ low[m] <= high[m]
  BY IInvTrees DEF TreesSound, Block
<1>2. b \in Nat
  BY DEF Block
<1>3. PICK x \in Nat : x = IF b <= low[m] THEN low[m] ELSE b
  BY <1>1, <1>2, Zenon
<1>4. /\ x \in b .. b + num - 1 /\ low[m] <= x /\ x <= high[m]
  BY <1>1, <1>2, <1>3
<1>5. x \in held /\ x \in Block
  BY <1>4, Zenon DEF IInv, TypeOK
<1>6. x \in AllFree
  BY <1>4, <1>5, Zenon DEF AllFree, FreeBlocks
<1> QED
  BY <1>5, <1>6, Zenon DEF IInv, BlocksAccounted

\* The range ends at its left neighbour's right edge: the neighbour grows.
LEMMA AlignsLeftSound ==
    ASSUME IInv, NEW l \in List, NEW b \in Block, NEW num \in Nat \ {0},
           (b .. b + num - 1) \subseteq Block, Clear(b, num),
           NEW prev \in tree[l], high[prev] + 1 = b, AlignsLeft(prev, num)
    PROVE  /\ TreesSound'
           /\ FreeBlocks(l)' = FreeBlocks(l) \cup (b .. b + num - 1)
           /\ \A k \in List : k # l => FreeBlocks(k)' = FreeBlocks(k)
<1> USE IInvTrees
<1>1. prev \in Node /\ b \in Nat /\ b + num - 1 \in Block
  <2>1. b \in Nat
    BY DEF Block
  <2>2. b + num - 1 \in b .. b + num - 1
    BY <2>1
  <2> QED
    BY <2>1, <2>2, Zenon DEF TreesSound
<1>2. \A k \in List : k # l => prev \notin tree[k]
  BY OneTree, Zenon
<1>3. \A m \in Node : low[m] \in Nat /\ high[m] \in Nat
  BY DEF TreesSound, Block
<1>4. /\ tree' = tree /\ low' = low /\ num_blocknode' = num_blocknode
      /\ first_node' = first_node /\ p_node' = p_node
      /\ high' \in [Node -> Block]
      /\ high'[prev] = b + num - 1
      /\ \A m \in Node : m # prev => high'[m] = high[m]
  <2>1. high[prev] + num = b + num - 1
    BY <1>1, <1>3
  <2> QED
    BY <2>1, <1>1, Zenon DEF AlignsLeft, TreesSound
<1>5. \A k \in List : \A m \in tree[k] : m \in Node /\ low[m] <= high[m]
  BY Zenon DEF TreesSound
<1>6. \A k \in List : \A m \in tree[k] : low[m] <= high'[m]
  BY <1>1, <1>3, <1>4, <1>5
<1>7. \A k \in List : \A m \in tree[k] :
          (m = prev /\ k = l) \/ high[m] < low[prev] \/ high'[prev] < low[m]
  <2> SUFFICES ASSUME NEW k \in List, NEW m \in tree[k]
               PROVE  (m = prev /\ k = l) \/ high[m] < low[prev] \/ b + num - 1 < low[m]
    BY <1>4, Zenon
  <2>1. (m = prev /\ k = l) \/ high[m] < low[prev] \/ high[prev] < low[m]
    BY Zenon DEF TreesSound
  <2>2. high[m] < b \/ b + num - 1 < low[m]
    BY Zenon DEF Clear
  <2> QED
    BY <2>1, <2>2, <1>1, <1>3, <1>5
<1>8. \A i, k \in List : \A m \in tree[i], o \in tree[k] :
          (m = o /\ i = k) \/ high'[m] < low[o] \/ high'[o] < low[m]
  <2> SUFFICES ASSUME NEW i \in List, NEW k \in List, NEW m \in tree[i], NEW o \in tree[k]
               PROVE  (m = o /\ i = k) \/ high'[m] < low[o] \/ high'[o] < low[m]
    BY Zenon
  <2>1. (m = o /\ i = k) \/ high[m] < low[o] \/ high[o] < low[m]
    BY Zenon DEF TreesSound
  <2>2. (m = prev => i = l) /\ (o = prev => k = l)
    BY <1>2, Zenon
  <2> QED
    BY <2>1, <2>2, <1>4, <1>5, <1>7, Zenon
<1>9. TreesSound'
  <2>1. PointersLive'
    BY <1>4, Zenon DEF TreesSound, PointersLive, IsFirst, List, NULL
  <2> QED
    BY <2>1, <1>4, <1>6, <1>8, Zenon DEF TreesSound, List, Node, Block, NULL
<1>10. \A k \in List : k # l => FreeBlocks(k)' = FreeBlocks(k)
  BY <1>2, <1>4, <1>5, Zenon DEF FreeBlocks, Block
<1>11. ASSUME NEW x \in Block
       PROVE  x \in FreeBlocks(l)' <=> x \in FreeBlocks(l) \/ x \in b .. b + num - 1
  <2>0. x \in Nat
    BY DEF Block
  <2>1. ASSUME x \in FreeBlocks(l)'
        PROVE  x \in FreeBlocks(l) \/ x \in b .. b + num - 1
    <3>1. PICK m \in tree[l] : low[m] <= x /\ x <= high'[m]
      BY <2>1, <1>4, Zenon DEF FreeBlocks
    <3>2. CASE m # prev
      BY <3>1, <3>2, <1>4, <1>5, Zenon DEF FreeBlocks
    <3>3. CASE m = prev /\ x < b
      BY <3>1, <3>3, <1>1, <1>3, <2>0 DEF FreeBlocks
    <3>4. CASE m = prev /\ b <= x
      BY <3>1, <3>4, <1>1, <1>4, <2>0
    <3> QED
      BY <3>2, <3>3, <3>4, <1>1, <2>0
  <2>2. ASSUME x \in FreeBlocks(l) PROVE x \in FreeBlocks(l)'
    <3>1. PICK m \in tree[l] : low[m] <= x /\ x <= high[m]
      BY <2>2, Zenon DEF FreeBlocks
    <3>2. x <= high'[m]
      BY <3>1, <1>1, <1>3, <1>4, <1>5, <2>0
    <3> QED
      BY <3>1, <3>2, <1>4, Zenon DEF FreeBlocks, Block
  <2>3. ASSUME x \in b .. b + num - 1 PROVE x \in FreeBlocks(l)'
    <3>1. low[prev] <= x /\ x <= high'[prev]
      BY <2>3, <1>1, <1>3, <1>4, <1>5, <2>0
    <3> QED
      BY <3>1, <1>4, Zenon DEF FreeBlocks, Block
  <2> QED
    BY <2>1, <2>2, <2>3, Zenon
<1>12. FreeBlocks(l)' \subseteq Block /\ FreeBlocks(l) \subseteq Block
  BY Zenon DEF FreeBlocks, Block
<1> QED
  BY <1>9, <1>10, <1>11, <1>12, Zenon

\* The range ends where its right neighbour begins: the neighbour grows.
LEMMA AlignsRightSound ==
    ASSUME IInv, NEW l \in List, NEW b \in Block, NEW num \in Nat \ {0},
           (b .. b + num - 1) \subseteq Block, Clear(b, num),
           NEW next \in tree[l], b + num = low[next], AlignsRight(next, num)
    PROVE  /\ TreesSound'
           /\ FreeBlocks(l)' = FreeBlocks(l) \cup (b .. b + num - 1)
           /\ \A k \in List : k # l => FreeBlocks(k)' = FreeBlocks(k)
<1> USE IInvTrees
<1>1. next \in Node /\ b \in Nat
  BY DEF TreesSound, Block
<1>2. \A k \in List : k # l => next \notin tree[k]
  BY OneTree, Zenon
<1>3. \A m \in Node : low[m] \in Nat /\ high[m] \in Nat
  BY DEF TreesSound, Block
<1>4. /\ tree' = tree /\ high' = high /\ num_blocknode' = num_blocknode
      /\ first_node' = first_node /\ p_node' = p_node
      /\ low' \in [Node -> Block]
      /\ low'[next] = b
      /\ \A m \in Node : m # next => low'[m] = low[m]
  <2>1. low[next] - num = b
    BY <1>1, <1>3
  <2> QED
    BY <2>1, <1>1, Zenon DEF AlignsRight, TreesSound
<1>5. \A k \in List : \A m \in tree[k] : m \in Node /\ low[m] <= high[m]
  BY Zenon DEF TreesSound
<1>6. \A k \in List : \A m \in tree[k] : low'[m] <= high[m]
  BY <1>1, <1>3, <1>4, <1>5
<1>7. \A k \in List : \A m \in tree[k] :
          (m = next /\ k = l) \/ high[m] < b \/ high[next] < low[m]
  <2> SUFFICES ASSUME NEW k \in List, NEW m \in tree[k]
               PROVE  (m = next /\ k = l) \/ high[m] < b \/ high[next] < low[m]
    BY Zenon
  <2>1. (m = next /\ k = l) \/ high[m] < low[next] \/ high[next] < low[m]
    BY Zenon DEF TreesSound
  <2>2. high[m] < b \/ b + num - 1 < low[m]
    BY Zenon DEF Clear
  <2> QED
    BY <2>1, <2>2, <1>1, <1>3, <1>5
<1>8. \A i, k \in List : \A m \in tree[i], o \in tree[k] :
          (m = o /\ i = k) \/ high[m] < low'[o] \/ high[o] < low'[m]
  <2> SUFFICES ASSUME NEW i \in List, NEW k \in List, NEW m \in tree[i], NEW o \in tree[k]
               PROVE  (m = o /\ i = k) \/ high[m] < low'[o] \/ high[o] < low'[m]
    BY Zenon
  <2>1. (m = o /\ i = k) \/ high[m] < low[o] \/ high[o] < low[m]
    BY Zenon DEF TreesSound
  <2>2. (m = next => i = l) /\ (o = next => k = l)
    BY <1>2, Zenon
  <2> QED
    BY <2>1, <2>2, <1>4, <1>5, <1>7, Zenon
<1>9. TreesSound'
  <2>1. ASSUME NEW k \in List
        PROVE  IsFirst(k, first_node[k])' /\ p_node'[k] \in tree'[k] \cup {NULL}
    <3>1. IsFirst(k, first_node[k]) /\ p_node[k] \in tree[k] \cup {NULL}
      BY Zenon DEF TreesSound, PointersLive
    <3>2. CASE tree[k] = {}
      BY <3>1, <3>2, <1>4, Zenon DEF IsFirst
    <3>3. CASE tree[k] # {}
      <4>1. first_node[k] \in tree[k] /\ \A m \in tree[k] : low[first_node[k]] <= low[m]
        BY <3>1, <3>3, Zenon DEF IsFirst
      <4>2. \A m \in tree[k] : low'[first_node[k]] <= low'[m]
        <5> TAKE m \in tree[k]
        <5>1. low[first_node[k]] <= low[m] /\ first_node[k] \in Node /\ m \in Node
          BY <4>1, <1>5, Zenon
        <5>2. CASE m # next
          BY <5>1, <5>2, <1>1, <1>3, <1>4
        <5>3. CASE m = next
          <6>1. \/ first_node[k] = next \/ high[first_node[k]] < b
                \/ high[next] < low[first_node[k]]
            BY <4>1, <1>7, Zenon
          <6> QED
            BY <6>1, <5>1, <5>3, <4>1, <1>1, <1>3, <1>4, <1>5
        <5> QED
          BY <5>2, <5>3, Zenon
      <4> QED
        BY <4>1, <4>2, <3>1, <1>4, Zenon DEF IsFirst
    <3> QED
      BY <3>2, <3>3, Zenon
  <2>2. PointersLive'
    BY <2>1, Zenon DEF PointersLive, List
  <2> QED
    BY <2>2, <1>4, <1>6, <1>8, Zenon DEF TreesSound, List, Node, Block, NULL
<1>10. \A k \in List : k # l => FreeBlocks(k)' = FreeBlocks(k)
  BY <1>2, <1>4, <1>5, Zenon DEF FreeBlocks, Block
<1>11. ASSUME NEW x \in Block
       PROVE  x \in FreeBlocks(l)' <=> x \in FreeBlocks(l) \/ x \in b .. b + num - 1
  <2>0. x \in Nat
    BY DEF Block
  <2>1. ASSUME x \in FreeBlocks(l)'
        PROVE  x \in FreeBlocks(l) \/ x \in b .. b + num - 1
    <3>1. PICK m \in tree[l] : low'[m] <= x /\ x <= high[m]
      BY <2>1, <1>4, Zenon DEF FreeBlocks
    <3>2. CASE m # next
      BY <3>1, <3>2, <1>4, <1>5, Zenon DEF FreeBlocks
    <3>3. CASE m = next /\ x < b + num
      BY <3>1, <3>3, <1>1, <1>4, <2>0
    <3>4. CASE m = next /\ b + num <= x
      BY <3>1, <3>4, <1>1, <1>3, <2>0, Zenon DEF FreeBlocks
    <3> QED
      BY <3>2, <3>3, <3>4, <1>1, <2>0
  <2>2. ASSUME x \in FreeBlocks(l) PROVE x \in FreeBlocks(l)'
    <3>1. PICK m \in tree[l] : low[m] <= x /\ x <= high[m]
      BY <2>2, Zenon DEF FreeBlocks
    <3>2. low'[m] <= x
      BY <3>1, <1>1, <1>3, <1>4, <1>5, <2>0
    <3> QED
      BY <3>1, <3>2, <1>4, Zenon DEF FreeBlocks, Block
  <2>3. ASSUME x \in b .. b + num - 1 PROVE x \in FreeBlocks(l)'
    <3>1. low'[next] <= x /\ x <= high[next]
      BY <2>3, <1>1, <1>3, <1>4, <1>5, <2>0
    <3> QED
      BY <3>1, <1>4, Zenon DEF FreeBlocks, Block
  <2> QED
    BY <2>1, <2>2, <2>3, Zenon
<1>12. FreeBlocks(l)' \subseteq Block /\ FreeBlocks(l) \subseteq Block
  BY Zenon DEF FreeBlocks, Block
<1> QED
  BY <1>9, <1>10, <1>11, <1>12, Zenon

-----------------------------------------------------------------------------
(* Taking blocks from a list *)

\* Taking the whole node at p_node, as in the erase branch of
\* nova_alloc_blocks_in_free_list, removes exactly its range from the list and
\* leaves both cached pointers on live nodes.
LEMMA TakeWholeSound ==
    ASSUME IInv, NEW l \in List, NEW n \in tree[l], NEW first, IsFirst(l, first),
           TakeWholeNode(l, first, n)
    PROVE  /\ TreesSound'
           /\ FreeBlocks(l)' = FreeBlocks(l) \ (low[n] .. high[n])
           /\ \A k \in List : k # l => FreeBlocks(k)' = FreeBlocks(k)
<1> USE IInvTrees
<1>1. /\ n \in Node /\ 0 \in Block /\ first \in tree[l]
      /\ first \in Node
  <2>1. n \in Node /\ first \in tree[l] /\ first \in Node
    BY Zenon DEF TreesSound, IsFirst
  <2>2. NumBlocks \in Nat /\ n \in 0 .. NumBlocks - 1
    BY <2>1, SizesAssumption, Zenon DEF Node, Block
  <2>3. 0 \in Block
    BY <2>2 DEF Block
  <2> QED
    BY <2>1, <2>3, Zenon
<1>2. \A k \in List : k # l => n \notin tree[k]
  BY OneTree, Zenon
<1>3. /\ tree' = [tree EXCEPT ![l] = @ \ {n}]
      /\ low' = [low EXCEPT ![n] = 0]
      /\ high' = [high EXCEPT ![n] = 0]
      /\ num_blocknode' = [num_blocknode EXCEPT ![l] = @ - 1]
      /\ first_node' = [first_node EXCEPT
              ![l] = IF n = first THEN RbNext(l, n) ELSE first]
      /\ p_node' = [p_node EXCEPT
              ![l] = IF n = first \/ RbNext(l, n) # NULL THEN RbNext(l, n) ELSE first]
  BY Zenon DEF TakeWholeNode
<1>4. \A k \in List : \A m \in tree'[k] :
          m \in tree[k] /\ m \in Node /\ m # n /\ low'[m] = low[m] /\ high'[m] = high[m]
  BY <1>1, <1>2, <1>3, Zenon DEF TreesSound
<1>5. /\ tree'[l] = tree[l] \ {n}
      /\ \A k \in List : k # l => tree'[k] = tree[k]
  BY <1>3, Zenon DEF TreesSound
<1>6. /\ tree' \in [List -> SUBSET Node]
      /\ low' \in [Node -> Block] /\ high' \in [Node -> Block]
  BY <1>1, <1>3, Zenon DEF TreesSound
<1>7. RbNext(l, n) \in (tree[l] \ {n}) \cup {NULL}
  BY RbNextNode, <1>1 DEF IInv, TypeOK, Block
<1>8. /\ first_node' \in [List -> Node \cup {NULL}]
      /\ p_node' \in [List -> Node \cup {NULL}]
  BY <1>1, <1>3, <1>7, Zenon DEF TreesSound
<1>9. /\ \A k \in List : \A m \in tree'[k] : low'[m] <= high'[m]
      /\ \A i, k \in List : \A m \in tree'[i], o \in tree'[k] :
            (m = o /\ i = k) \/ high'[m] < low'[o] \/ high'[o] < low'[m]
  BY <1>4, Zenon DEF TreesSound
<1>10. num_blocknode' \in [List -> Nat]
       /\ \A k \in List : num_blocknode'[k] = Cardinality(tree'[k])
  <2>1. IsFiniteSet(tree[l])
    BY BlockFinite, Zenon DEF TreesSound, Node
  <2>2. Cardinality(tree[l] \ {n}) = Cardinality(tree[l]) - 1
        /\ Cardinality(tree[l] \ {n}) \in Nat
    BY <2>1, FS_RemoveElement, FS_CardinalityType, Zenon
  <2> QED
    BY <1>3, <1>5, <2>2 DEF TreesSound
<1>11. PointersLive'
  <2>1. ASSUME NEW k \in List, k # l
        PROVE  IsFirst(k, first_node[k])' /\ p_node'[k] \in tree'[k] \cup {NULL}
    <3>1. first_node'[k] = first_node[k] /\ p_node'[k] = p_node[k] /\ tree'[k] = tree[k]
      BY <1>3, <1>5, <2>1, Zenon DEF TreesSound
    <3>2. IsFirst(k, first_node[k]) /\ p_node[k] \in tree[k] \cup {NULL}
      BY Zenon DEF TreesSound, PointersLive
    <3> QED
      BY <3>1, <3>2, <1>4 DEF IsFirst
  <2>2. /\ first_node'[l] = IF n = first THEN RbNext(l, n) ELSE first
        /\ p_node'[l] = IF n = first \/ RbNext(l, n) # NULL THEN RbNext(l, n) ELSE first
    BY <1>3, Zenon DEF TreesSound
  <2>3. p_node'[l] \in tree'[l] \cup {NULL}
    BY <2>2, <1>1, <1>5, <1>7, Zenon
  <2>4. IsFirst(l, first_node[l])'
    <3>1. CASE n # first
      <4>1. first_node'[l] = first /\ first \in tree'[l]
        BY <2>2, <3>1, <1>1, <1>5, Zenon
      <4>2. \A m \in tree'[l] : low'[first] <= low'[m]
        BY <4>1, <1>4, <1>1, Zenon DEF IsFirst
      <4> QED
        BY <4>1, <4>2, Zenon DEF IsFirst
    <3>2. CASE n = first
      <4>1. \A m \in tree'[l] : low[n] < low[m]
        <5> TAKE m \in tree'[l]
        <5>1. m \in tree[l] /\ m # n
          BY <1>4, Zenon
        <5>2. low[n] <= low[m]
          BY <3>2, <5>1, Zenon DEF IsFirst
        <5>3. high[n] < low[m] \/ high[m] < low[n]
          BY <5>1, Zenon DEF TreesSound
        <5>4. low[n] <= high[n] /\ low[m] <= high[m]
          BY <5>1, Zenon DEF TreesSound
        <5>5. /\ low[n] \in Nat /\ high[n] \in Nat
              /\ low[m] \in Nat /\ high[m] \in Nat
          BY <1>1, <1>4 DEF TreesSound, Block
        <5> QED
          BY <5>2, <5>3, <5>4, <5>5
      <4>2. first_node'[l] = RbNext(l, n)
        BY <2>2, <3>2, Zenon
      <4>a. TypeOK
        BY Zenon DEF IInv
      <4>3. CASE RbNext(l, n) = NULL
        <5>1. NULL \notin tree[l]
          BY DEF NULL, TreesSound, Node, Block
        <5>2. \A m \in tree[l] : ~(low[n] < low[m])
          BY <4>a, <4>3, <5>1, RbNextNode, Zenon
        <5>3. tree'[l] = {}
          BY <5>2, <4>1, <1>4, Zenon
        <5> QED
          BY <4>2, <4>3, <5>3, Zenon DEF IsFirst
      <4>4. CASE RbNext(l, n) # NULL
        <5>1. /\ RbNext(l, n) \in tree[l]
              /\ \A m \in tree[l] : low[n] < low[m] => low[RbNext(l, n)] <= low[m]
          BY <4>a, <4>4, RbNextNode, Zenon
        <5>2. RbNext(l, n) \in tree'[l]
          BY <5>1, <1>7, <1>5, <4>4, Zenon
        <5>3. \A m \in tree'[l] : low'[RbNext(l, n)] <= low'[m]
          BY <5>1, <5>2, <4>1, <1>4, Zenon
        <5> QED
          BY <4>2, <5>2, <5>3, Zenon DEF IsFirst
      <4> QED
        BY <4>3, <4>4, Zenon
    <3> QED
      BY <3>1, <3>2, Zenon
  <2> QED
    BY <2>1, <2>3, <2>4, Zenon DEF PointersLive
<1>12. TreesSound'
  BY <1>6, <1>8, <1>9, <1>10, <1>11, Zenon DEF TreesSound, PointersLive, List, Node, Block, NULL
<1>13. \A k \in List : k # l => FreeBlocks(k)' = FreeBlocks(k)
  BY <1>4, <1>5 DEF FreeBlocks
<1>14. FreeBlocks(l)' = FreeBlocks(l) \ (low[n] .. high[n])
  <2>1. ASSUME NEW b \in Block
        PROVE  b \in FreeBlocks(l)' <=> b \in FreeBlocks(l) /\ b \notin low[n] .. high[n]
    <3>0. low[n] \in Nat /\ high[n] \in Nat /\ b \in Nat
      BY <1>1 DEF TreesSound, Block
    <3>1. ASSUME b \in FreeBlocks(l)'
          PROVE  b \in FreeBlocks(l) /\ b \notin low[n] .. high[n]
      <4>1. PICK m \in tree'[l] : low'[m] <= b /\ b <= high'[m]
        BY <3>1, Zenon DEF FreeBlocks
      <4>2. m \in tree[l] /\ m # n /\ low[m] <= b /\ b <= high[m]
        BY <4>1, <1>4, Zenon
      <4>3. high[n] < low[m] \/ high[m] < low[n]
        BY <4>2, Zenon DEF TreesSound
      <4>4. low[m] \in Nat /\ high[m] \in Nat
        BY <4>2, <1>4 DEF TreesSound, Block
      <4> QED
        BY <4>2, <4>3, <4>4, <3>0 DEF FreeBlocks
    <3>2. ASSUME b \in FreeBlocks(l), b \notin low[n] .. high[n]
          PROVE  b \in FreeBlocks(l)'
      <4>1. PICK m \in tree[l] : low[m] <= b /\ b <= high[m]
        BY <3>2, Zenon DEF FreeBlocks
      <4>2. m # n
        BY <4>1, <3>2, <3>0
      <4>3. m \in tree'[l]
        BY <4>2, <1>5, Zenon
      <4> QED
        BY <4>1, <4>3, <1>4, Zenon DEF FreeBlocks, Block
    <3> QED
      BY <3>1, <3>2, Zenon
  <2>2. FreeBlocks(l)' \subseteq Block /\ FreeBlocks(l) \subseteq Block
    BY Zenon DEF FreeBlocks, Block
  <2> QED
    BY <2>1, <2>2, Zenon
<1> QED
  BY <1>12, <1>13, <1>14, Zenon
\* Taking the first num blocks of a larger node removes exactly those blocks
\* and leaves the node where it was in the tree.
LEMMA TakePartSound ==
    ASSUME IInv, NEW l \in List, NEW n \in tree[l], NEW first, IsFirst(l, first),
           NEW num \in Nat \ {0}, num < Size(n), TakePartOfNode(l, first, n, num)
    PROVE  /\ TreesSound'
           /\ FreeBlocks(l)' = FreeBlocks(l) \ (low[n] .. low[n] + num - 1)
           /\ \A k \in List : k # l => FreeBlocks(k)' = FreeBlocks(k)
<1> USE IInvTrees
<1>1. n \in Node /\ first \in tree[l] /\ first \in Node
  BY Zenon DEF TreesSound, IsFirst
<1>2. \A k \in List : k # l => n \notin tree[k]
  BY OneTree, Zenon
<1>3. /\ tree' = tree /\ high' = high /\ num_blocknode' = num_blocknode
      /\ low' = [low EXCEPT ![n] = @ + num]
      /\ first_node' = [first_node EXCEPT ![l] = first]
      /\ p_node' = [p_node EXCEPT ![l] = n]
  BY Zenon DEF TakePartOfNode
<1>4. /\ low'[n] = low[n] + num
      /\ \A m \in Node : m # n => low'[m] = low[m]
  BY <1>1, <1>3, Zenon DEF TreesSound
<1>5. \A m \in Node : low[m] \in Nat /\ high[m] \in Nat
  BY DEF TreesSound, Block
<1>6. low[n] + num <= high[n]
  BY <1>1, <1>5 DEF Size
<1>7. low' \in [Node -> Block]
  <2>1. low[n] + num \in Block
    <3>1. high[n] \in 0 .. NumBlocks - 1
      BY <1>1, Zenon DEF TreesSound, Block
    <3>2. NumBlocks \in Nat
      BY SizesAssumption, Zenon
    <3> QED
      BY <3>1, <3>2, <1>1, <1>5, <1>6 DEF Block
  <2> QED
    BY <2>1, <1>3, <1>1, Zenon DEF TreesSound
<1>8. \A k \in List : \A m \in tree[k] : m \in Node
  BY Zenon DEF TreesSound
<1>9. /\ \A k \in List : \A m \in tree[k] : low'[m] <= high[m]
      /\ \A m \in Node : low[m] <= low'[m] /\ low'[m] \in Nat
  <2>1. \A m \in Node : low[m] <= low'[m] /\ low'[m] \in Nat
    BY <1>1, <1>4, <1>5
  <2> QED
    BY <2>1, <1>4, <1>6, <1>8, Zenon DEF TreesSound
<1>10. \A i, k \in List : \A m \in tree[i], o \in tree[k] :
            (m = o /\ i = k) \/ high[m] < low'[o] \/ high[o] < low'[m]
  <2> SUFFICES ASSUME NEW i \in List, NEW k \in List, NEW m \in tree[i], NEW o \in tree[k]
               PROVE  (m = o /\ i = k) \/ high[m] < low'[o] \/ high[o] < low'[m]
    BY Zenon
  <2>1. (m = o /\ i = k) \/ high[m] < low[o] \/ high[o] < low[m]
    BY Zenon DEF TreesSound
  <2>2. m \in Node /\ o \in Node
    BY <1>8, Zenon
  <2> QED
    BY <2>1, <2>2, <1>9, <1>5
<1>11. PointersLive'
  <2>1. ASSUME NEW k \in List, k # l
        PROVE  IsFirst(k, first_node[k])' /\ p_node'[k] \in tree'[k] \cup {NULL}
    <3>1. first_node'[k] = first_node[k] /\ p_node'[k] = p_node[k]
      BY <1>3, <2>1, Zenon DEF TreesSound
    <3>2. IsFirst(k, first_node[k]) /\ p_node[k] \in tree[k] \cup {NULL}
      BY Zenon DEF TreesSound, PointersLive
    <3>3. \A m \in tree[k] : low'[m] = low[m]
      BY <1>2, <1>4, <1>8, <2>1, Zenon
    <3> QED
      BY <3>1, <3>2, <3>3, <1>3, Zenon DEF IsFirst
  <2>2. first_node'[l] = first /\ p_node'[l] = n
    BY <1>3, Zenon DEF TreesSound
  <2>3. \A m \in tree[l] : low'[first] <= low'[m]
    <3> TAKE m \in tree[l]
    <3>1. low[first] <= low[m] /\ m \in Node
      BY <1>8, Zenon DEF IsFirst
    <3>2. CASE first # n
      BY <3>1, <3>2, <1>1, <1>4, <1>5, <1>9
    <3>3. CASE first = n /\ m = n
      BY <3>3, <1>1, <1>4, <1>5
    <3>4. CASE first = n /\ m # n
      <4>1. high[n] < low[m] \/ high[m] < low[n]
        BY <3>4, Zenon DEF TreesSound
      <4>2. low[m] <= high[m]
        BY Zenon DEF TreesSound
      <4> QED
        BY <4>1, <4>2, <3>1, <3>4, <1>1, <1>4, <1>5, <1>6
    <3> QED
      BY <3>2, <3>3, <3>4, Zenon
  <2>4. IsFirst(l, first_node[l])' /\ p_node'[l] \in tree'[l] \cup {NULL}
    BY <2>2, <2>3, <1>1, <1>3, Zenon DEF IsFirst
  <2> QED
    BY <2>1, <2>4, Zenon DEF PointersLive
<1>12. TreesSound'
  <2>1. /\ first_node' \in [List -> Node \cup {NULL}]
        /\ p_node' \in [List -> Node \cup {NULL}]
    BY <1>1, <1>3, Zenon DEF TreesSound
  <2> QED
    BY <2>1, <1>3, <1>7, <1>9, <1>10, <1>11, Zenon
    DEF TreesSound, PointersLive, List, Node, Block, NULL
<1>13. \A k \in List : k # l => FreeBlocks(k)' = FreeBlocks(k)
  BY <1>2, <1>3, <1>4, <1>8, Zenon DEF FreeBlocks
<1>14. FreeBlocks(l)' = FreeBlocks(l) \ (low[n] .. low[n] + num - 1)
  <2>1. ASSUME NEW b \in Block
        PROVE  b \in FreeBlocks(l)' <=>
                 b \in FreeBlocks(l) /\ b \notin low[n] .. low[n] + num - 1
    <3>0. low[n] \in Nat /\ high[n] \in Nat /\ b \in Nat
      BY <1>1, <1>5 DEF Block
    <3>1. ASSUME b \in FreeBlocks(l)'
          PROVE  b \in FreeBlocks(l) /\ b \notin low[n] .. low[n] + num - 1
      <4>1. PICK m \in tree[l] : low'[m] <= b /\ b <= high[m]
        BY <3>1, <1>3, Zenon DEF FreeBlocks
      <4>2. m \in Node /\ low[m] <= b
        BY <4>1, <1>8, <1>5, <1>9, <3>0
      <4>3. CASE m = n
        BY <4>1, <4>2, <4>3, <3>0, <1>4 DEF FreeBlocks
      <4>4. CASE m # n
        <5>1. high[n] < low[m] \/ high[m] < low[n]
          BY <4>4, Zenon DEF TreesSound
        <5>2. low[m] \in Nat /\ high[m] \in Nat
          BY <4>2, <1>5, Zenon
        <5> QED
          BY <5>1, <5>2, <4>1, <4>2, <3>0, <1>6, SMTT(40) DEF FreeBlocks
      <4> QED
        BY <4>3, <4>4, Zenon
    <3>2. ASSUME b \in FreeBlocks(l), b \notin low[n] .. low[n] + num - 1
          PROVE  b \in FreeBlocks(l)'
      <4>1. PICK m \in tree[l] : low[m] <= b /\ b <= high[m]
        BY <3>2, Zenon DEF FreeBlocks
      <4>2. low'[m] <= b
        BY <4>1, <3>2, <3>0, <1>4, <1>8
      <4> QED
        BY <4>1, <4>2, <1>3, Zenon DEF FreeBlocks, Block
    <3> QED
      BY <3>1, <3>2, Zenon
  <2>2. FreeBlocks(l)' \subseteq Block /\ FreeBlocks(l) \subseteq Block
    BY Zenon DEF FreeBlocks, Block
  <2> QED
    BY <2>1, <2>2, Zenon
<1> QED
  BY <1>12, <1>13, <1>14, Zenon
\* nova_alloc_blocks_in_free_list keeps the invariant when it is handed the
\* leftmost node and a live node of the list.
LEMMA AllocSound ==
    ASSUME IInv, NEW l \in List, NEW n \in tree[l], NEW first, IsFirst(l, first),
           NEW num \in Nat \ {0}, AllocBlocksInFreeList(l, first, n, num),
           lost' = lost, call' \in [Proc -> Frame]
    PROVE  IInv' /\ \E b \in Block, got \in Nat \ {0} : got <= num /\ Pool!Allocate(b, got)
<1> USE IInvTrees
<1> DEFINE got == IF num >= Size(n) THEN Size(n) ELSE num
           R == low[n] .. low[n] + got - 1
<1>1. /\ n \in Node /\ low[n] \in Block /\ high[n] \in Block
      /\ low[n] \in Nat /\ high[n] \in Nat /\ low[n] <= high[n]
  BY DEF TreesSound, Block
<1>2. Size(n) = high[n] - low[n] + 1
  BY Zenon DEF Size
<1>3. got \in Nat \ {0} /\ low[n] + got - 1 <= high[n] /\ got <= num
  BY <1>1, <1>2
<1>4. R \subseteq Block
  <2>1. NumBlocks \in Nat
    BY SizesAssumption, Zenon
  <2> QED
    BY <2>1, <1>1, <1>3 DEF Block
<1>5. R \subseteq FreeBlocks(l)
  BY <1>1, <1>3, <1>4 DEF FreeBlocks
<1>6. /\ num_free_blocks' = [num_free_blocks EXCEPT ![l] = @ - got]
      /\ held' = held \cup R
  BY Zenon DEF AllocBlocksInFreeList
<1>7. /\ TreesSound'
      /\ FreeBlocks(l)' = FreeBlocks(l) \ R
      /\ \A k \in List : k # l => FreeBlocks(k)' = FreeBlocks(k)
  <2>1. CASE num >= Size(n)
    <3>1. TakeWholeNode(l, first, n)
      BY <2>1, Zenon DEF AllocBlocksInFreeList
    <3>2. R = low[n] .. high[n]
      BY <2>1, <1>1, <1>2
    <3> QED
      BY <3>1, <3>2, TakeWholeSound, Zenon
  <2>2. CASE ~(num >= Size(n))
    <3>1. TakePartOfNode(l, first, n, num)
      BY <2>2, Zenon DEF AllocBlocksInFreeList
    <3>2. R = low[n] .. low[n] + num - 1 /\ num < Size(n)
      BY <2>2, <1>1, <1>2
    <3>3. /\ TreesSound'
          /\ FreeBlocks(l)' = FreeBlocks(l) \ (low[n] .. low[n] + num - 1)
          /\ \A k \in List : k # l => FreeBlocks(k)' = FreeBlocks(k)
      <4> HIDE DEF R, got
      <4> QED
        BY <3>1, <3>2, TakePartSound, Zenon
    <3> QED
      BY <3>2, <3>3, Zenon
  <2> QED
    BY <2>1, <2>2, Zenon
<1>8. /\ num_free_blocks' \in [List -> Nat]
      /\ \A k \in List : num_free_blocks'[k] = Cardinality(FreeBlocks(k)')
  <2>1. FreeBlocks(l) \in SUBSET Block
    BY Zenon DEF FreeBlocks
  <2>2. Cardinality(FreeBlocks(l) \ R) = Cardinality(FreeBlocks(l)) - got
    BY <2>1, <1>1, <1>3, <1>5, RemoveRun, Zenon
  <2>3. Cardinality(FreeBlocks(l) \ R) \in Nat
    BY <2>1, BlockFinite, FS_CardinalityType, Zenon
  <2>4. num_free_blocks \in [List -> Nat]
        /\ \A k \in List : num_free_blocks[k] = Cardinality(FreeBlocks(k))
    BY Zenon DEF IInv, TypeOK, CountersExact
  <2>5. num_free_blocks'[l] = Cardinality(FreeBlocks(l) \ R)
    BY <2>2, <2>4, <1>6, Zenon
  <2>6. \A k \in List : k # l => num_free_blocks'[k] = Cardinality(FreeBlocks(k)')
    BY <2>4, <1>6, <1>7, Zenon
  <2>7. \A k \in List : num_free_blocks'[k] \in Nat
    BY <2>3, <2>4, <2>5, <1>6, Zenon
  <2> QED
    BY <2>4, <2>5, <2>6, <2>7, <1>6, <1>7, Zenon
<1>9. /\ R \subseteq AllFree /\ AllFree' = AllFree \ R
      /\ held' \subseteq Block
      /\ (AllFree \cap (held \cup lost \cup Reserved) = {})'
      /\ (held \cap (lost \cup Reserved) = {} /\ lost \cap Reserved = {})'
      /\ (Block \ Territory(SHARED) \subseteq
            AllFree \cup held \cup lost \cup Reserved)'
  <2> HIDE DEF R
  <2> QED
    BY <1>4, <1>5, <1>6, <1>7, RunTaken, Zenon
<1>10. TypeOK'
  BY <1>7, <1>8, <1>9, Zenon DEF IInv, TypeOK, TreesSound
<1>11. BlocksAccounted'
  BY <1>7, <1>9, Zenon DEF BlocksAccounted, TreesSound
<1>12. CountersExact' /\ PointersLive'
  BY <1>7, <1>8, Zenon DEF CountersExact, TreesSound
<1>13. Pool!Allocate(low[n], got)
  BY <1>6, <1>9, Zenon DEF Pool!Allocate, Pool!Run
<1> HIDE DEF got
<1> QED
  BY <1>1, <1>3, <1>10, <1>11, <1>12, <1>13, Zenon DEF IInv

\* Marking the other calls as disturbed keeps their frames well typed.
LEMMA FramesTyped ==
    ASSUME TypeOK
    PROVE  /\ Idle \in Frame
           /\ \A p \in Proc : Disturb(p) \in [Proc -> Frame]
           /\ [q \in Proc |-> [call[q] EXCEPT !.quiet = FALSE]] \in [Proc -> Frame]
<1>0. CPUS \in Nat \ {0} /\ MaxRequest \in Nat \ {0}
  BY SizesAssumption, Zenon
<1>1. Idle \in Frame
  BY <1>0 DEF Idle, Frame, PerCPU, List, MaxRetries
<1>2. \A q \in Proc : [call[q] EXCEPT !.quiet = FALSE] \in Frame
  BY ZenonT(40) DEF TypeOK, Frame
<1> QED
  BY <1>1, <1>2, Zenon DEF Disturb

\* An attempt that finds enough blocks counted takes them from a node of the
\* list it locked, whether p_node is used or reset first.
LEMMA AllocatesFrom ==
    ASSUME IInv, NEW p \in Proc, Allocate(p)
    PROVE  \E l \in List : \E n \in tree[l] : \E first :
               /\ call[p].num \in Nat \ {0} /\ call[p].num <= MaxRequest
               /\ IsFirst(l, first) /\ AllocBlocksInFreeList(l, first, n, call[p].num)
<1> DEFINE l == call[p].cpuid
           num == call[p].num
           reset == first_node[l] = NULL \/ p_node[l] = NULL
           first == IF reset THEN RbFirst(l) ELSE first_node[l]
           n == IF reset THEN RbFirst(l) ELSE p_node[l]
<1>1. l \in List /\ num \in Nat \ {0} /\ num <= MaxRequest
  <2>1. CPUS \in Nat /\ MaxRequest \in Nat
    BY SizesAssumption, Zenon
  <2>2. call[p] \in Frame
    BY Zenon DEF IInv, TypeOK
  <2> QED
    BY <2>1, <2>2 DEF Frame, PerCPU, List
<1>2. num_free_blocks[l] >= num /\ AllocBlocksInFreeList(l, first, n, num)
  BY Zenon DEF Allocate
<1>3. tree[l] # {}
  <2>1. num_free_blocks[l] = Cardinality(FreeBlocks(l))
    BY <1>1, Zenon DEF IInv, CountersExact
  <2>2. FreeBlocks(l) # {}
    <3>1. Cardinality({}) = 0
      BY FS_EmptySet, Zenon
    <3> QED
      BY <2>1, <3>1, <1>1, <1>2
  <2> QED
    BY <2>2, Zenon DEF FreeBlocks
<1>4. TypeOK
  BY Zenon DEF IInv
<1>5. IsFirst(l, first) /\ n \in tree[l]
  <2>1. CASE reset
    BY <2>1, <1>1, <1>3, <1>4, RbFirstNode, Zenon
  <2>2. CASE ~reset
    BY <2>2, <1>1, Zenon DEF IInv, PointersLive
  <2> QED
    BY <2>1, <2>2, Zenon
<1> HIDE DEF l, num, first, n
<1>6. \E f : IsFirst(l, f) /\ AllocBlocksInFreeList(l, f, n, num)
  BY <1>2, <1>5, Zenon
<1> QED
  BY <1>1, <1>5, <1>6, Zenon DEF num

\* A successful attempt of nova_new_blocks keeps the invariant: the counter
\* it tested proves that the tree has a node, and the pointers that it is live.
LEMMA AllocateStep ==
    ASSUME IInv, NEW p \in Proc, Allocate(p)
    PROVE  /\ IInv'
           /\ \E b \in Block, got \in 1 .. MaxRequest : Pool!Allocate(b, got)
<1> DEFINE num == call[p].num
<1>1. PICK l \in List : \E n \in tree[l] : \E first :
          /\ num \in Nat \ {0} /\ num <= MaxRequest
          /\ IsFirst(l, first) /\ AllocBlocksInFreeList(l, first, n, num)
  BY AllocatesFrom, Zenon
<1>2. PICK n \in tree[l] : \E first :
          /\ num \in Nat \ {0} /\ num <= MaxRequest
          /\ IsFirst(l, first) /\ AllocBlocksInFreeList(l, first, n, num)
  BY <1>1, Zenon
<1>3. PICK first : /\ num \in Nat \ {0} /\ num <= MaxRequest
                   /\ IsFirst(l, first) /\ AllocBlocksInFreeList(l, first, n, num)
  BY <1>2, Zenon
<1>4. call' = Disturb(p) /\ lost' = lost
  BY Zenon DEF Allocate
<1>5. call' \in [Proc -> Frame]
  BY <1>4, FramesTyped, Zenon DEF IInv
<1> HIDE DEF num
<1>6. IInv' /\ \E b \in Block, got \in Nat \ {0} : got <= num /\ Pool!Allocate(b, got)
  BY <1>3, <1>4, <1>5, AllocSound, Zenon
<1>7. MaxRequest \in Nat
  BY SizesAssumption, Zenon
<1>8. \A got \in Nat \ {0} : got <= num => got \in 1 .. MaxRequest
  BY <1>3, <1>7
<1> QED
  BY <1>6, <1>8, Zenon

\* A step that leaves the lists alone leaves what is computed from them alone.
LEMMA ListsUnchanged ==
    ASSUME UNCHANGED listVars
    PROVE  /\ \A k \in List : FreeBlocks(k)' = FreeBlocks(k)
           /\ AllFree' = AllFree
           /\ TreesSound => TreesSound'
<1>1. /\ tree' = tree /\ low' = low /\ high' = high /\ first_node' = first_node
      /\ p_node' = p_node /\ num_blocknode' = num_blocknode
  BY Zenon DEF listVars
<1>2. \A k \in List : FreeBlocks(k)' = FreeBlocks(k)
  BY <1>1, Zenon DEF FreeBlocks, Block
<1>3. AllFree' = AllFree
  BY <1>2, Zenon DEF AllFree, Block, List
<1>4. PointersLive => PointersLive'
  BY <1>1, Zenon DEF PointersLive, IsFirst, List, NULL
<1> QED
  BY <1>1, <1>2, <1>3, <1>4, Zenon DEF TreesSound, List, Node, Block, NULL

\* A step that leaves the lists and the accounts alone, as each step of
\* nova_new_blocks outside the list's lock does, keeps the invariant.
LEMMA CallOnlyStep ==
    ASSUME IInv, call' \in [Proc -> Frame], UNCHANGED <<listVars, held, lost>>
    PROVE  IInv'
<1>1. /\ \A k \in List : FreeBlocks(k)' = FreeBlocks(k)
      /\ AllFree' = AllFree /\ TreesSound'
  BY ListsUnchanged, IInvTrees, Zenon
<1>2. held' = held /\ lost' = lost /\ num_free_blocks' = num_free_blocks
  BY Zenon DEF listVars
<1>3. TypeOK'
  BY <1>1, <1>2, Zenon DEF IInv, TypeOK, TreesSound
<1>4. BlocksAccounted'
  BY <1>1, <1>2, Zenon DEF IInv, BlocksAccounted, TreesSound
<1>5. CountersExact' /\ PointersLive'
  BY <1>1, <1>2, Zenon DEF IInv, CountersExact, TreesSound
<1> QED
  BY <1>3, <1>4, <1>5, Zenon DEF IInv
-----------------------------------------------------------------------------
(* nova_free_blocks: insertions that add or remove a node, the whole call, and *)
(* the slice of the device that belongs to each list                       *)

\* A free that fails loses its blocks to the file system and nothing else.
LEMMA FreeFailsStep ==
    ASSUME IInv, NEW b \in Block, NEW num \in 1 .. MaxRequest, FreeFails(b, num)
    PROVE  IInv' /\ Pool!Leak(b, num)
<1>1. /\ \A k \in List : FreeBlocks(k)' = FreeBlocks(k)
      /\ AllFree' = AllFree /\ TreesSound'
  BY ListsUnchanged, IInvTrees, Zenon DEF FreeFails
<1>2. /\ b .. b + num - 1 \subseteq held
      /\ held' = held \ (b .. b + num - 1)
      /\ lost' = lost \cup (b .. b + num - 1)
      /\ num_free_blocks' = num_free_blocks /\ call' = call
  BY Zenon DEF FreeFails, listVars
<1>3. TypeOK'
  BY <1>1, <1>2, Zenon DEF IInv, TypeOK, TreesSound
<1>4. BlocksAccounted'
  BY <1>1, <1>2, Zenon DEF IInv, BlocksAccounted, TreesSound
<1>5. CountersExact' /\ PointersLive'
  BY <1>1, <1>2, Zenon DEF IInv, CountersExact, TreesSound
<1>6. Pool!Leak(b, num)
  BY <1>1, <1>2, Zenon DEF Pool!Leak, Pool!Run
<1> QED
  BY <1>3, <1>4, <1>5, <1>6, Zenon DEF IInv

-----------------------------------------------------------------------------
(* The other two insertions *)

\* The range touches no neighbour: it becomes a node of its own, and the first
\* one when nothing lies to its left.
LEMMA NewNodeSound ==
    ASSUME IInv, NEW l \in List, NEW b \in Block, NEW num \in Nat \ {0},
           (b .. b + num - 1) \subseteq Block, Clear(b, num),
           NEW curr \in Node, curr \notin UsedNodes,
           NewNode(l, Prev(l, b), b, num, curr)
    PROVE  /\ TreesSound'
           /\ FreeBlocks(l)' = FreeBlocks(l) \cup (b .. b + num - 1)
           /\ \A k \in List : k # l => FreeBlocks(k)' = FreeBlocks(k)
<1> USE IInvTrees
<1>1. b \in Nat /\ b + num - 1 \in Block /\ b + num - 1 \in Nat
  <2>1. b \in Nat
    BY DEF Block
  <2>2. b + num - 1 \in b .. b + num - 1
    BY <2>1
  <2> QED
    BY <2>1, <2>2
<1>2. \A k \in List : curr \notin tree[k]
  BY Zenon DEF UsedNodes
<1>3. \A k \in List : \A m \in tree[k] :
          /\ m \in Node /\ low[m] <= high[m] /\ m # curr
          /\ low[m] \in Nat /\ high[m] \in Nat
  BY <1>2 DEF TreesSound, Block
<1>4. /\ tree' \in [List -> SUBSET Node]
      /\ tree'[l] = tree[l] \cup {curr}
      /\ \A k \in List : k # l => tree'[k] = tree[k]
      /\ low' \in [Node -> Block] /\ high' \in [Node -> Block]
      /\ low'[curr] = b /\ high'[curr] = b + num - 1
      /\ \A m \in Node : m # curr => low'[m] = low[m] /\ high'[m] = high[m]
  BY <1>1, Zenon DEF NewNode, TreesSound
<1>5. /\ first_node' = [first_node EXCEPT ![l] = IF Prev(l, b) = NULL THEN curr ELSE @]
      /\ p_node' = p_node
      /\ num_blocknode' = [num_blocknode EXCEPT ![l] = @ + 1]
  BY Zenon DEF NewNode
<1>6. \A k \in List : \A m \in tree'[k] :
          \/ m = curr /\ k = l
          \/ m # curr /\ m \in tree[k] /\ low'[m] = low[m] /\ high'[m] = high[m]
  BY <1>3, <1>4, ZenonT(40)
<1>7. \A k \in List : \A m \in tree'[k] : low'[m] <= high'[m]
  BY <1>1, <1>3, <1>4, <1>6
<1>8. \A i, k \in List : \A m \in tree'[i], o \in tree'[k] :
          (m = o /\ i = k) \/ high'[m] < low'[o] \/ high'[o] < low'[m]
  <2> SUFFICES ASSUME NEW i \in List, NEW k \in List, NEW m \in tree'[i], NEW o \in tree'[k]
               PROVE  (m = o /\ i = k) \/ high'[m] < low'[o] \/ high'[o] < low'[m]
    BY Zenon
  <2>1. CASE m = curr /\ o = curr
    BY <2>1, <1>6, Zenon
  <2>2. CASE m = curr /\ o # curr
    BY <2>2, <1>4, <1>6 DEF Clear
  <2>3. CASE m # curr /\ o = curr
    BY <2>3, <1>4, <1>6, ZenonT(40) DEF Clear
  <2>4. CASE m # curr /\ o # curr
    <3>1. m \in tree[i] /\ o \in tree[k]
      BY <2>4, <1>6, Zenon
    <3>2. (m = o /\ i = k) \/ high[m] < low[o] \/ high[o] < low[m]
      BY <3>1, Zenon DEF TreesSound
    <3> QED
      BY <3>2, <2>4, <1>6, Zenon
  <2> QED
    BY <2>1, <2>2, <2>3, <2>4, Zenon
<1>9. PointersLive'
  <2>1. ASSUME NEW k \in List, k # l
        PROVE  IsFirst(k, first_node[k])' /\ p_node'[k] \in tree'[k] \cup {NULL}
    <3>1. first_node'[k] = first_node[k] /\ p_node'[k] = p_node[k] /\ tree'[k] = tree[k]
      BY <1>4, <1>5, <2>1, Zenon DEF TreesSound
    <3>2. IsFirst(k, first_node[k]) /\ p_node[k] \in tree[k] \cup {NULL}
      BY Zenon DEF TreesSound, PointersLive
    <3> QED
      BY <3>1, <3>2, <1>3, <1>4, ZenonT(40) DEF IsFirst
  <2>2. p_node'[l] \in tree'[l] \cup {NULL}
    BY <1>4, <1>5, Zenon DEF TreesSound, PointersLive
  <2>3. first_node'[l] = IF Prev(l, b) = NULL THEN curr ELSE first_node[l]
    BY <1>5, Zenon DEF TreesSound
  <2>4. TypeOK /\ NULL \notin tree[l]
    <3>1. TypeOK
      BY Zenon DEF IInv
    <3>2. tree[l] \subseteq Node
      BY <3>1, Zenon DEF TypeOK
    <3>3. NULL \notin Node
      BY DEF NULL, Node, Block
    <3> QED
      BY <3>1, <3>2, <3>3, Zenon
  <2>5. CASE Prev(l, b) = NULL
    <3>1. \A m \in tree[l] : ~(low[m] < b)
      BY <2>4, <2>5, PrevNode, Zenon
    <3>2. \A m \in tree'[l] : low'[curr] <= low'[m]
      BY <3>1, <1>1, <1>3, <1>4, <1>6, SMTT(40)
    <3>3. curr \in tree'[l] /\ first_node'[l] = curr
      BY <2>3, <2>5, <1>4, Zenon
    <3> QED
      BY <2>2, <3>2, <3>3, <2>1, Zenon DEF IsFirst, PointersLive, List
  <2>6. CASE Prev(l, b) # NULL
    <3>1. Prev(l, b) \in tree[l] /\ low[Prev(l, b)] < b
      BY <2>4, <2>6, PrevNode, Zenon
    <3>2. /\ first_node[l] \in tree[l]
          /\ \A m \in tree[l] : low[first_node[l]] <= low[m]
      BY <3>1, Zenon DEF TreesSound, PointersLive, IsFirst
    <3>3. low[first_node[l]] <= b
      BY <3>1, <3>2, <1>1, <1>3
    <3>4. \A m \in tree'[l] : low'[first_node[l]] <= low'[m]
      BY <3>2, <3>3, <1>3, <1>4, <1>6, Zenon
    <3>5. first_node'[l] = first_node[l] /\ first_node[l] \in tree'[l]
      BY <2>3, <2>6, <3>2, <1>4, Zenon
    <3> QED
      BY <2>2, <3>4, <3>5, <2>1, Zenon DEF IsFirst, PointersLive, List
  <2> QED
    BY <2>5, <2>6, Zenon
<1>10. /\ num_blocknode' \in [List -> Nat]
       /\ \A k \in List : num_blocknode'[k] = Cardinality(tree'[k])
  <2>1. IsFiniteSet(tree[l])
    BY BlockFinite, Zenon DEF TreesSound, Node
  <2>2. Cardinality(tree[l] \cup {curr}) = Cardinality(tree[l]) + 1
    BY <2>1, <1>2, FS_AddElement, Zenon
  <2>3. /\ num_blocknode \in [List -> Nat]
        /\ \A k \in List : num_blocknode[k] = Cardinality(tree[k])
    BY Zenon DEF TreesSound
  <2>4. /\ num_blocknode' \in [List -> Nat]
        /\ num_blocknode'[l] = num_blocknode[l] + 1
        /\ \A k \in List : k # l => num_blocknode'[k] = num_blocknode[k]
    BY <2>3, <1>5
  <2>5. /\ tree'[l] = tree[l] \cup {curr}
        /\ \A k \in List : k # l => tree'[k] = tree[k]
    BY <1>4, Zenon
  <2> QED
    BY <2>2, <2>3, <2>4, <2>5, Zenon
<1>11. TreesSound'
  <2>1. first_node' \in [List -> Node \cup {NULL}] /\ p_node' \in [List -> Node \cup {NULL}]
    BY <1>5, Zenon DEF TreesSound
  <2> QED
    BY <2>1, <1>4, <1>7, <1>8, <1>9, <1>10, ZenonT(40) DEF TreesSound, List, Node, Block, NULL
<1>12. \A k \in List : k # l => FreeBlocks(k)' = FreeBlocks(k)
  BY <1>3, <1>4, ZenonT(40) DEF FreeBlocks, Block
<1>13. ASSUME NEW x \in Block
       PROVE  x \in FreeBlocks(l)' <=> x \in FreeBlocks(l) \/ x \in b .. b + num - 1
  <2>0. x \in Nat
    BY DEF Block
  <2>1. ASSUME x \in FreeBlocks(l)'
        PROVE  x \in FreeBlocks(l) \/ x \in b .. b + num - 1
    <3>1. PICK m \in tree'[l] : low'[m] <= x /\ x <= high'[m]
      BY <2>1, Zenon DEF FreeBlocks
    <3>2. CASE m = curr
      BY <3>1, <3>2, <1>1, <1>4, <2>0
    <3>3. CASE m # curr
      BY <3>1, <3>3, <1>6, Zenon DEF FreeBlocks
    <3> QED
      BY <3>2, <3>3, Zenon
  <2>2. ASSUME x \in FreeBlocks(l) PROVE x \in FreeBlocks(l)'
    <3>1. PICK m \in tree[l] : low[m] <= x /\ x <= high[m]
      BY <2>2, Zenon DEF FreeBlocks
    <3>2. m \in tree'[l] /\ low'[m] = low[m] /\ high'[m] = high[m]
      BY <1>3, <1>4, Zenon
    <3> QED
      BY <3>1, <3>2, Zenon DEF FreeBlocks, Block
  <2>3. ASSUME x \in b .. b + num - 1 PROVE x \in FreeBlocks(l)'
    <3>1. low'[curr] <= x /\ x <= high'[curr] /\ curr \in tree'[l]
      BY <2>3, <1>1, <1>4, <2>0
    <3> QED
      BY <3>1, Zenon DEF FreeBlocks, Block
  <2> QED
    BY <2>1, <2>2, <2>3, Zenon
<1>14. FreeBlocks(l)' \subseteq Block /\ FreeBlocks(l) \subseteq Block
  BY Zenon DEF FreeBlocks, Block
<1> QED
  BY <1>11, <1>12, <1>13, <1>14, Zenon
\* The range fills the hole between its neighbours: the left one takes over
\* the right one's range, and p_node moves off the erased node.
LEMMA FitsHoleSound ==
    ASSUME IInv, NEW l \in List, NEW b \in Block, NEW num \in Nat \ {0},
           (b .. b + num - 1) \subseteq Block, Clear(b, num),
           NEW prev \in tree[l], high[prev] + 1 = b,
           NEW next \in tree[l], b + num = low[next],
           FitsHole(l, prev, next)
    PROVE  /\ TreesSound'
           /\ FreeBlocks(l)' = FreeBlocks(l) \cup (b .. b + num - 1)
           /\ \A k \in List : k # l => FreeBlocks(k)' = FreeBlocks(k)
<1> USE IInvTrees
<1>1. b \in Nat /\ prev \in Node /\ next \in Node
  BY DEF TreesSound, Block
<1>2. \A k \in List : k # l => prev \notin tree[k] /\ next \notin tree[k]
  BY OneTree, Zenon
<1>3. \A k \in List : \A m \in tree[k] :
          m \in Node /\ low[m] <= high[m] /\ low[m] \in Nat /\ high[m] \in Nat
  BY DEF TreesSound, Block
<1>4. prev # next /\ low[prev] < low[next] /\ high[prev] < high[next]
  BY <1>1, <1>3
<1>5. /\ tree' \in [List -> SUBSET Node]
      /\ tree'[l] = tree[l] \ {next}
      /\ \A k \in List : k # l => tree'[k] = tree[k]
      /\ low' \in [Node -> Block] /\ high' \in [Node -> Block]
      /\ low'[prev] = low[prev] /\ high'[prev] = high[next]
      /\ \A m \in Node : m # prev /\ m # next =>
            low'[m] = low[m] /\ high'[m] = high[m]
  <2>1. 0 \in Block
    <3>1. NumBlocks \in Nat
      BY SizesAssumption, Zenon
    <3> QED
      BY <3>1 DEF Block
  <2>2. high[next] \in Block
    BY <1>1, Zenon DEF TreesSound
  <2>3. /\ tree' = [tree EXCEPT ![l] = @ \ {next}]
        /\ low' = [low EXCEPT ![next] = 0]
        /\ high' = [high EXCEPT ![prev] = high[next], ![next] = 0]
    BY Zenon DEF FitsHole
  <2> QED
    BY <2>1, <2>2, <2>3, <1>1, <1>4, Zenon DEF TreesSound
<1>6. /\ first_node' = first_node
      /\ num_blocknode' = [num_blocknode EXCEPT ![l] = @ - 1]
      /\ p_node' = [p_node EXCEPT
            ![l] = IF next # @ THEN @
                   ELSE IF RbNext(l, next) # NULL THEN RbNext(l, next)
                   ELSE first_node[l]]
  BY Zenon DEF FitsHole
<1>7. \A k \in List : \A m \in tree'[k] :
          /\ m \in tree[k] /\ m # next /\ low'[m] = low[m]
          /\ (m # prev => high'[m] = high[m])
  BY <1>2, <1>3, <1>5, ZenonT(40)
<1>8. \A k \in List : \A m \in tree'[k] : low'[m] <= high'[m]
  BY <1>1, <1>3, <1>4, <1>5, <1>7, SMTT(40)
<1>9. \A k \in List : \A m \in tree[k] : m # prev /\ m # next =>
          high[m] < low[prev] \/ high[next] < low[m]
  <2> SUFFICES ASSUME NEW k \in List, NEW m \in tree[k], m # prev, m # next
               PROVE  high[m] < low[prev] \/ high[next] < low[m]
    BY Zenon
  <2>1. high[m] < low[prev] \/ high[prev] < low[m]
    BY Zenon DEF TreesSound
  <2>2. high[m] < low[next] \/ high[next] < low[m]
    BY Zenon DEF TreesSound
  <2>3. high[m] < b \/ b + num - 1 < low[m]
    BY Zenon DEF Clear
  <2> QED
    BY <2>1, <2>2, <2>3, <1>1, <1>3, SMTT(40)
<1>10. \A i, k \in List : \A m \in tree'[i], o \in tree'[k] :
          (m = o /\ i = k) \/ high'[m] < low'[o] \/ high'[o] < low'[m]
  <2> SUFFICES ASSUME NEW i \in List, NEW k \in List, NEW m \in tree'[i], NEW o \in tree'[k]
               PROVE  (m = o /\ i = k) \/ high'[m] < low'[o] \/ high'[o] < low'[m]
    BY Zenon
  <2>1. (m = o /\ i = k) \/ high[m] < low[o] \/ high[o] < low[m]
    BY <1>7, Zenon DEF TreesSound
  <2>2. (m = prev => i = l) /\ (o = prev => k = l)
    BY <1>2, <1>7, ZenonT(40)
  <2> QED
    BY <2>1, <2>2, <1>5, <1>7, <1>9, SMTT(40)
<1>11. PointersLive'
  <2>1. ASSUME NEW k \in List, k # l
        PROVE  IsFirst(k, first_node[k])' /\ p_node'[k] \in tree'[k] \cup {NULL}
    <3>1. p_node'[k] = p_node[k] /\ tree'[k] = tree[k]
      BY <1>5, <1>6, <2>1, Zenon DEF TreesSound
    <3>2. IsFirst(k, first_node[k]) /\ p_node[k] \in tree[k] \cup {NULL}
      BY Zenon DEF TreesSound, PointersLive
    <3> QED
      BY <3>1, <3>2, <1>6, <1>7, Zenon DEF IsFirst
  <2>2. /\ first_node[l] \in tree[l]
        /\ \A m \in tree[l] : low[first_node[l]] <= low[m]
    BY Zenon DEF TreesSound, PointersLive, IsFirst
  <2>3. first_node[l] # next
    BY <2>2, <1>3, <1>4
  <2>4. first_node[l] \in tree'[l]
    BY <2>2, <2>3, <1>5, Zenon
  <2>5. IsFirst(l, first_node[l])'
    BY <2>2, <2>4, <1>6, <1>7, Zenon DEF IsFirst
  <2>6. p_node'[l] \in tree'[l] \cup {NULL}
    <3>1. p_node[l] \in tree[l] \cup {NULL}
      BY Zenon DEF TreesSound, PointersLive
    <3>2. p_node'[l] = IF next # p_node[l] THEN p_node[l]
                       ELSE IF RbNext(l, next) # NULL THEN RbNext(l, next)
                       ELSE first_node[l]
      BY <1>6, Zenon DEF TreesSound
    <3>3. RbNext(l, next) # NULL =>
             RbNext(l, next) \in tree[l] /\ low[next] < low[RbNext(l, next)]
      BY RbNextNode, Zenon DEF IInv
    <3>4. RbNext(l, next) # NULL => RbNext(l, next) # next
      BY <3>3, <1>3
    <3> QED
      BY <3>1, <3>2, <3>3, <3>4, <2>4, <1>5, Zenon
  <2> QED
    BY <2>1, <2>5, <2>6, Zenon DEF PointersLive
<1>12. /\ num_blocknode' \in [List -> Nat]
       /\ \A k \in List : num_blocknode'[k] = Cardinality(tree'[k])
  <2>1. IsFiniteSet(tree[l])
    BY BlockFinite, Zenon DEF TreesSound, Node
  <2>2. Cardinality(tree[l] \ {next}) = Cardinality(tree[l]) - 1
        /\ Cardinality(tree[l] \ {next}) \in Nat
    BY <2>1, FS_RemoveElement, FS_CardinalityType, Zenon
  <2> QED
    BY <2>2, <1>5, <1>6, ZenonT(30) DEF TreesSound
<1>13. TreesSound'
  <2>1. first_node' \in [List -> Node \cup {NULL}]
    BY <1>6, Zenon DEF TreesSound
  <2>2. p_node' \in [List -> Node \cup {NULL}]
    <3>1. \A k \in List : p_node'[k] \in Node \cup {NULL}
      BY <1>5, <1>11, Zenon DEF PointersLive, List
    <3> QED
      BY <3>1, <1>6, Zenon DEF TreesSound
  <2> QED
    BY <2>1, <2>2, <1>5, <1>8, <1>10, <1>11, <1>12, Zenon
    DEF TreesSound, List, Node, Block, NULL
<1>14. \A k \in List : k # l => FreeBlocks(k)' = FreeBlocks(k)
  BY <1>2, <1>3, <1>5, ZenonT(40) DEF FreeBlocks, Block
<1>15. ASSUME NEW x \in Block
       PROVE  x \in FreeBlocks(l)' <=> x \in FreeBlocks(l) \/ x \in b .. b + num - 1
  <2>0. x \in Nat
    BY DEF Block
  <2>1. ASSUME x \in FreeBlocks(l)'
        PROVE  x \in FreeBlocks(l) \/ x \in b .. b + num - 1
    <3>1. PICK m \in tree'[l] : low'[m] <= x /\ x <= high'[m]
      BY <2>1, Zenon DEF FreeBlocks
    <3>2. CASE m # prev
      BY <3>1, <3>2, <1>7, Zenon DEF FreeBlocks
    <3>3. CASE m = prev /\ x < b
      <4>1. low[prev] <= x /\ x <= high[prev]
        BY <3>1, <3>3, <1>1, <1>3, <1>5, <2>0, SMTT(40)
      <4> QED
        BY <4>1, Zenon DEF FreeBlocks
    <3>4. CASE m = prev /\ b <= x /\ x < b + num
      BY <3>4, <1>1, <2>0
    <3>5. CASE m = prev /\ b + num <= x
      <4>1. low[next] <= x /\ x <= high[next]
        BY <3>1, <3>5, <1>1, <1>3, <1>5, <2>0, Zenon
      <4> QED
        BY <4>1, Zenon DEF FreeBlocks
    <3> QED
      BY <3>2, <3>3, <3>4, <3>5, <1>1, <2>0, SMTT(40)
  <2>2. ASSUME x \in FreeBlocks(l) PROVE x \in FreeBlocks(l)'
    <3>1. PICK m \in tree[l] : low[m] <= x /\ x <= high[m]
      BY <2>2, Zenon DEF FreeBlocks
    <3>2. \E o \in tree'[l] : low'[o] <= x /\ x <= high'[o]
      <4>1. prev \in tree'[l]
        BY <1>4, <1>5, Zenon
      <4>2. CASE m = next \/ m = prev
        BY <4>1, <4>2, <3>1, <1>1, <1>3, <1>4, <1>5, <2>0, SMTT(40)
      <4>3. CASE m # next /\ m # prev
        BY <4>3, <3>1, <1>3, <1>5, Zenon
      <4> QED
        BY <4>2, <4>3, Zenon
    <3> QED
      BY <3>2, Zenon DEF FreeBlocks, Block
  <2>3. ASSUME x \in b .. b + num - 1 PROVE x \in FreeBlocks(l)'
    <3>1. low'[prev] <= x /\ x <= high'[prev] /\ prev \in tree'[l]
      BY <2>3, <1>1, <1>3, <1>4, <1>5, <2>0, SMTT(40)
    <3> QED
      BY <3>1, Zenon DEF FreeBlocks, Block
  <2> QED
    BY <2>1, <2>2, <2>3, Zenon
<1>16. FreeBlocks(l)' \subseteq Block /\ FreeBlocks(l) \subseteq Block
  BY Zenon DEF FreeBlocks, Block
<1> QED
  BY <1>13, <1>14, <1>15, <1>16, Zenon
\* Whichever of its four cases nova_free_blocks takes, the list gains exactly
\* the freed range.
LEMMA InsertSound ==
    ASSUME IInv, NEW l \in List, NEW b \in Block, NEW num \in Nat \ {0},
           (b .. b + num - 1) \subseteq Block, Clear(b, num),
           NEW curr \in Node, curr \notin UsedNodes, InsertRange(l, b, num, curr)
    PROVE  /\ TreesSound'
           /\ FreeBlocks(l)' = FreeBlocks(l) \cup (b .. b + num - 1)
           /\ \A k \in List : k # l => FreeBlocks(k)' = FreeBlocks(k)
<1> DEFINE prev == Prev(l, b)
           next == Following(l, b)
           left == prev # NULL /\ high[prev] + 1 = b
           right == next # NULL /\ b + num = low[next]
<1>1. TypeOK
  BY Zenon DEF IInv
<1>2. prev # NULL => prev \in tree[l]
  BY <1>1, PrevNode, Zenon
<1>3. next # NULL => next \in tree[l]
  BY <1>1, FollowingNode, Zenon
<1>4. /\ left /\ right => FitsHole(l, prev, next)
      /\ left /\ ~right => AlignsLeft(prev, num)
      /\ ~left /\ right => AlignsRight(next, num)
      /\ ~left /\ ~right => NewNode(l, prev, b, num, curr)
  BY Zenon DEF InsertRange
<1>5. CASE left /\ right
  <2>1. /\ prev \in tree[l] /\ high[prev] + 1 = b
        /\ next \in tree[l] /\ b + num = low[next] /\ FitsHole(l, prev, next)
    BY <1>2, <1>3, <1>4, <1>5, Zenon
  <2> HIDE DEF prev, next
  <2> QED
    BY <2>1, FitsHoleSound, Zenon
<1>6. CASE left /\ ~right
  <2>1. prev \in tree[l] /\ high[prev] + 1 = b /\ AlignsLeft(prev, num)
    BY <1>2, <1>4, <1>6, Zenon
  <2> HIDE DEF prev, next
  <2> QED
    BY <2>1, AlignsLeftSound, ZenonT(30)
<1>7. CASE ~left /\ right
  <2>1. next \in tree[l] /\ b + num = low[next] /\ AlignsRight(next, num)
    BY <1>3, <1>4, <1>7, Zenon
  <2> HIDE DEF prev, next
  <2> QED
    BY <2>1, AlignsRightSound, ZenonT(30)
<1>8. CASE ~left /\ ~right
  <2>1. NewNode(l, Prev(l, b), b, num, curr)
    BY <1>4, <1>8, Zenon
  <2> QED
    BY <2>1, NewNodeSound, Zenon
<1> QED
  BY <1>5, <1>6, <1>7, <1>8, Zenon

\* nova_get_free_list of a block's list number always names a list.
LEMMA ListOfBlock ==
    ASSUME NEW b \in Block
    PROVE  ListOf(b) \in List
<1>1. /\ CPUS \in Nat \ {0} /\ NumBlocks \in Nat
      /\ ReservedBlocks \in Nat \ {0} /\ ReservedBlocks < PerListBlocks
  BY SizesAssumption, Zenon DEF PerListBlocks
<1>2. NumBlocks \div CPUS \in Int
  BY <1>1
<1>3. PerListBlocks \in Int /\ PerListBlocks > 0
  BY <1>1, <1>2 DEF PerListBlocks
<1>4. b \in Nat
  BY DEF Block
<1>5. b \div PerListBlocks \in Nat
  <2> HIDE DEF PerListBlocks
  <2> QED
    BY <1>3, <1>4
<1> QED
  BY <1>1, <1>5 DEF ListOf, SHARED, List

\* While a node is left, nova_free_blocks gets one that no tree uses.
LEMMA FreeNode ==
    ASSUME IInv, UsedNodes # Node
    PROVE  Unused \in Node /\ Unused \notin UsedNodes
<1>1. UsedNodes \subseteq Node
  BY DEF IInv, TypeOK, UsedNodes
<1>2. \E n \in Node : n \notin UsedNodes
  BY <1>1, Zenon
<1> QED
  BY <1>2, Zenon DEF Unused

\* nova_free_blocks of a run that callers hold keeps the invariant.
LEMMA FreeStep ==
    ASSUME IInv, NEW b \in Block, NEW num \in 1 .. MaxRequest, FreeBlocksCall(b, num)
    PROVE  IInv' /\ Pool!Release(b, num)
<1> DEFINE l == ListOf(b)
           R == b .. b + num - 1
<1>1. l \in List
  BY ListOfBlock, Zenon
<1>2. num \in Nat \ {0}
  <2>1. MaxRequest \in Nat
    BY SizesAssumption, Zenon
  <2> QED
    BY <2>1
<1>3. /\ R \subseteq held /\ UsedNodes # Node /\ InsertRange(l, b, num, Unused)
      /\ num_free_blocks' = [num_free_blocks EXCEPT ![l] = @ + num]
      /\ held' = held \ R /\ lost' = lost
      /\ call' = [q \in Proc |-> [call[q] EXCEPT !.quiet = FALSE]]
  BY Zenon DEF FreeBlocksCall
<1>4. R \subseteq Block
  BY <1>3, Zenon DEF IInv, TypeOK
<1>5. Clear(b, num)
  BY <1>2, <1>3, HeldIsClear, Zenon
<1>6. Unused \in Node /\ Unused \notin UsedNodes
  BY <1>3, FreeNode, Zenon
<1>7. /\ TreesSound'
      /\ FreeBlocks(l)' = FreeBlocks(l) \cup R
      /\ \A k \in List : k # l => FreeBlocks(k)' = FreeBlocks(k)
  <2> HIDE DEF l
  <2> QED
    BY <1>1, <1>2, <1>3, <1>4, <1>5, <1>6, InsertSound, Zenon
<1>8. /\ num_free_blocks' \in [List -> Nat]
      /\ \A k \in List : num_free_blocks'[k] = Cardinality(FreeBlocks(k)')
  <2> HIDE DEF l
  <2>1. FreeBlocks(l) \in SUBSET Block
    BY Zenon DEF FreeBlocks
  <2>2. FreeBlocks(l) \cap R = {}
    <3>1. FreeBlocks(l) \subseteq AllFree
      BY <1>1, Zenon DEF AllFree, FreeBlocks
    <3> QED
      BY <3>1, <1>3, Zenon DEF IInv, BlocksAccounted
  <2>3. Cardinality(FreeBlocks(l) \cup R) = Cardinality(FreeBlocks(l)) + num
    BY <2>1, <2>2, <1>2, <1>4, AddRun, Zenon
  <2>4. /\ num_free_blocks \in [List -> Nat]
        /\ \A k \in List : num_free_blocks[k] = Cardinality(FreeBlocks(k))
    BY Zenon DEF IInv, TypeOK, CountersExact
  <2>5. /\ num_free_blocks' \in [List -> Nat]
        /\ num_free_blocks'[l] = num_free_blocks[l] + num
        /\ \A k \in List : k # l => num_free_blocks'[k] = num_free_blocks[k]
    BY <2>4, <1>1, <1>2, <1>3
  <2>6. num_free_blocks'[l] = Cardinality(FreeBlocks(l)')
    BY <2>3, <2>4, <2>5, <1>1, <1>7, Zenon
  <2> QED
    BY <2>4, <2>5, <2>6, <1>7, Zenon
<1>9. /\ AllFree' = AllFree \cup R /\ held' \subseteq Block
      /\ (AllFree \cap (held \cup lost \cup Reserved) = {})'
      /\ (held \cap (lost \cup Reserved) = {} /\ lost \cap Reserved = {})'
      /\ (Block \ Territory(SHARED) \subseteq
            AllFree \cup held \cup lost \cup Reserved)'
  <2> HIDE DEF l
  <2> QED
    BY <1>1, <1>3, <1>4, <1>7, RunReturned, ZenonT(40)
<1>10. call' \in [Proc -> Frame]
  BY <1>3, FramesTyped, Zenon DEF IInv
<1>11. TypeOK'
  BY <1>3, <1>7, <1>8, <1>9, <1>10, Zenon DEF IInv, TypeOK, TreesSound
<1>12. BlocksAccounted'
  BY <1>7, <1>9, Zenon DEF BlocksAccounted, TreesSound
<1>13. CountersExact' /\ PointersLive'
  BY <1>7, <1>8, Zenon DEF CountersExact, TreesSound
<1>14. Pool!Release(b, num)
  BY <1>3, <1>9, Zenon DEF Pool!Release, Pool!Run
<1> QED
  BY <1>11, <1>12, <1>13, <1>14, Zenon DEF IInv

-----------------------------------------------------------------------------
(* The slices of the device *)

\* Slices of P blocks lie one after another.
LEMMA SliceOrder ==
    ASSUME NEW P \in Nat \ {0}, NEW i \in Nat, NEW k \in Nat, i < k
    PROVE  i * P + P <= k * P
<1>1. (k - i - 1) * P >= 0
  BY SMT
<1>2. (k - i - 1) * P = k * P - i * P - P
  BY SMT
<1>3. i * P \in Int /\ k * P \in Int
  OBVIOUS
<1> QED
  BY <1>1, <1>2, <1>3

\* Division rounds down.
LEMMA DivBounds ==
    ASSUME NEW P \in Nat \ {0}, NEW n \in Nat
    PROVE  /\ n \div P \in Nat
           /\ (n \div P) * P <= n
           /\ n < (n \div P) * P + P
  OBVIOUS

\* The quotient is determined by its bounds.
LEMMA DivUnique ==
    ASSUME NEW P \in Nat \ {0}, NEW n \in Nat, NEW i \in Nat,
           i * P <= n, n < i * P + P
    PROVE  n \div P = i
<1> DEFINE d == n \div P
<1>1. d \in Nat /\ d * P <= n /\ n < d * P + P
  BY DivBounds, Zenon
<1> HIDE DEF d
<1>0. i * P \in Nat /\ d * P \in Nat
  BY <1>1
<1>2. CASE i < d
  <2>1. i * P + P <= d * P
    BY <1>1, <1>2, SliceOrder, Zenon
  <2> QED
    BY <2>1, <1>0, <1>1
<1>3. CASE d < i
  <2>1. d * P + P <= i * P
    BY <1>1, <1>3, SliceOrder, Zenon
  <2> QED
    BY <2>1, <1>0, <1>1
<1> QED
  BY <1>1, <1>2, <1>3 DEF d

\* The device holds CPUS whole slices, and the first one is larger than what
\* is reserved.
LEMMA Sizes ==
    /\ PerListBlocks \in Nat \ {0} /\ CPUS \in Nat \ {0} /\ NumBlocks \in Nat
    /\ ReservedBlocks \in Nat \ {0} /\ ReservedBlocks < PerListBlocks
    /\ CPUS * PerListBlocks \in Nat /\ CPUS * PerListBlocks <= NumBlocks
<1>1. /\ CPUS \in Nat \ {0} /\ NumBlocks \in Nat
      /\ ReservedBlocks \in Nat \ {0} /\ ReservedBlocks < PerListBlocks
  BY SizesAssumption, Zenon DEF PerListBlocks
<1>2. PerListBlocks \in Nat /\ PerListBlocks * CPUS <= NumBlocks
  BY <1>1, DivBounds, Zenon DEF PerListBlocks
<1>3. CPUS * PerListBlocks = PerListBlocks * CPUS
  BY <1>1, <1>2
<1> QED
  BY <1>1, <1>2, <1>3

\* A block lies in the territory of the list nova_free_blocks computes for it,
\* and in no other.
LEMMA TerritoryOf ==
    ASSUME NEW l \in List
    PROVE  /\ Territory(l) \subseteq Block
           /\ \A b \in Block : b \in Territory(l) <=> ListOf(b) = l
<1> DEFINE P == PerListBlocks
<1> HIDE DEF P
<1>0. /\ P \in Nat \ {0} /\ CPUS \in Nat \ {0} /\ NumBlocks \in Nat
      /\ CPUS * P \in Nat /\ CPUS * P <= NumBlocks
  BY Sizes, Zenon DEF P
<1>1. CASE l = SHARED
  <2>1. Territory(l) = CPUS * P .. NumBlocks - 1
    BY <1>1, Zenon DEF Territory, P
  <2>2. Territory(l) \subseteq Block
    BY <2>1, <1>0 DEF Block
  <2>3. ASSUME NEW b \in Block
        PROVE  b \in Territory(l) <=> ListOf(b) = l
    <3> DEFINE d == b \div P
    <3>1. b \in Nat /\ b <= NumBlocks - 1
      BY <1>0 DEF Block
    <3>2. d \in Nat /\ d * P <= b /\ b < d * P + P
      BY <3>1, <1>0, DivBounds, Zenon
    <3>3. ListOf(b) = IF d >= CPUS THEN SHARED ELSE d
      BY Zenon DEF ListOf, P
    <3> HIDE DEF d
    <3>4. d * P \in Nat
      BY <3>2, <1>0
    <3>5. CASE d < CPUS
      <4>1. d * P + P <= CPUS * P
        BY <3>2, <3>5, <1>0, SliceOrder, Zenon
      <4>2. b < CPUS * P
        BY <4>1, <3>1, <3>2, <3>4, <1>0, SMTT(40)
      <4>3. ListOf(b) # SHARED
        BY <3>2, <3>3, <3>5, <1>0, SMTT(40) DEF SHARED
      <4> QED
        BY <4>2, <4>3, <3>1, <2>1, <1>0, <1>1, SMTT(40)
    <3>6. CASE d = CPUS
      BY <3>6, <3>1, <3>2, <3>3, <2>1, <1>0, <1>1, SMTT(40)
    <3>7. CASE CPUS < d
      <4>1. CPUS * P + P <= d * P
        BY <3>2, <3>7, <1>0, SliceOrder, Zenon
      <4>2. CPUS * P <= b
        BY <4>1, <3>1, <3>2, <3>4, <1>0, SMTT(40)
      <4> QED
        BY <4>2, <3>1, <3>2, <3>3, <3>7, <2>1, <1>0, <1>1, SMTT(40)
    <3> QED
      BY <3>2, <3>5, <3>6, <3>7, <1>0, SMTT(40)
  <2> QED
    BY <2>2, <2>3, Zenon
<1>2. CASE l # SHARED
  <2>1. l \in Nat /\ l < CPUS
    BY <1>2, <1>0 DEF List, SHARED
  <2>2. (l + 1) * P = l * P + P /\ l * P \in Nat
    BY <2>1, <1>0
  <2>3. Territory(l) = l * P .. l * P + P - 1
    <3>1. Territory(l) = l * P .. (l + 1) * P - 1
      BY <1>2, Zenon DEF Territory, P
    <3>2. (l + 1) * P - 1 = l * P + P - 1
      BY <2>1, <2>2, <1>0
    <3> QED
      BY <3>1, <3>2, Zenon
  <2>4. l * P + P <= CPUS * P
    BY <2>1, <1>0, SliceOrder, Zenon
  <2>5. Territory(l) \subseteq Block
    BY <2>2, <2>3, <2>4, <1>0, SMTT(40) DEF Block
  <2>6. ASSUME NEW b \in Block
        PROVE  b \in Territory(l) <=> ListOf(b) = l
    <3> DEFINE d == b \div P
    <3>1. b \in Nat
      BY DEF Block
    <3>2. d \in Nat /\ d * P <= b /\ b < d * P + P
      BY <3>1, <1>0, DivBounds, Zenon
    <3>3. ListOf(b) = IF d >= CPUS THEN SHARED ELSE d
      BY Zenon DEF ListOf, P
    <3>4. ListOf(b) = l <=> d = l
      BY <3>2, <3>3, <2>1, <1>0, <1>2, SMTT(40)
    <3>5. ASSUME b \in Territory(l) PROVE d = l
      <4>1. l * P <= b /\ b < l * P + P
        BY <3>5, <3>1, <2>2, <2>3, <1>0, SMTT(40)
      <4> QED
        BY <4>1, <3>1, <2>1, <1>0, DivUnique, Zenon
    <3>6. d = l => b \in Territory(l)
      BY <3>1, <3>2, <2>2, <2>3, <1>0, SMTT(40)
    <3> QED
      BY <3>4, <3>5, <3>6, Zenon
  <2> QED
    BY <2>5, <2>6, Zenon
<1> QED
  BY <1>1, <1>2, Zenon

\* Territories are intervals.
LEMMA TerritoryConvex ==
    ASSUME NEW l \in List, NEW x \in Territory(l), NEW y \in Territory(l),
           NEW z \in Int, x <= z, z <= y
    PROVE  z \in Territory(l)
<1>1. PICK i \in Int, j \in Int : Territory(l) = i .. j
  <2>1. l \in Int /\ PerListBlocks \in Int /\ CPUS \in Int /\ NumBlocks \in Int
    BY Sizes DEF List
  <2>2. /\ CPUS * PerListBlocks \in Int /\ NumBlocks - 1 \in Int
        /\ l * PerListBlocks \in Int /\ (l + 1) * PerListBlocks - 1 \in Int
    BY <2>1
  <2> QED
    BY <2>2, Zenon DEF Territory
<1> QED
  BY <1>1


-----------------------------------------------------------------------------
(* The initial states *)

\* The nodes of nova_init_blockmap: list l starts with the one range
\* FreshStart(l) .. l * PerListBlocks + PerListBlocks - 1 of its territory.
LEMMA FreshRange ==
    ASSUME NEW l \in PerCPU
    PROVE  /\ l \in List /\ l # SHARED /\ l \in Nat
           /\ FreshStart(l) \in Territory(l) /\ FreshStart(l) \in Block
           /\ FreshStart(l) >= ReservedBlocks
           /\ FreshStart(l) \div PerListBlocks = l
           /\ (l + 1) * PerListBlocks - 1 \in Territory(l)
           /\ (l + 1) * PerListBlocks - 1 \in Block
           /\ FreshStart(l) <= (l + 1) * PerListBlocks - 1
           /\ Territory(l) = l * PerListBlocks .. (l + 1) * PerListBlocks - 1
           /\ FreshStart(l) = IF l = 0 THEN ReservedBlocks ELSE l * PerListBlocks
           /\ (l + 1) * PerListBlocks = l * PerListBlocks + PerListBlocks
           /\ l * PerListBlocks \in Nat
<1> DEFINE P == PerListBlocks
           s == FreshStart(l)
           e == (l + 1) * P - 1
<1>0. /\ P \in Nat \ {0} /\ CPUS \in Nat \ {0} /\ ReservedBlocks \in Nat \ {0}
      /\ ReservedBlocks < P
  BY Sizes, Zenon
<1>1. l \in List /\ l # SHARED /\ l \in Nat
  BY <1>0 DEF PerCPU, List, SHARED
<1>2. Territory(l) = l * P .. e
  BY <1>1, Zenon DEF Territory
<1>3. s = IF l = 0 THEN ReservedBlocks ELSE l * P
  BY Zenon DEF FreshStart
<1> HIDE DEF P, s
<1>4. l * P \in Nat /\ e = l * P + P - 1 /\ (l + 1) * P = l * P + P
  BY <1>0, <1>1
<1> HIDE DEF e
<1>5. s \in Nat /\ l * P <= s /\ s < l * P + P /\ s >= ReservedBlocks
  <2>1. CASE l = 0
    BY <2>1, <1>0, <1>3
  <2>2. CASE l # 0
    <3>1. 0 * P + P <= l * P
      BY <2>2, <1>0, <1>1, SliceOrder
    <3> QED
      BY <3>1, <2>2, <1>0, <1>3, <1>4
  <2> QED
    BY <2>1, <2>2, Zenon
<1>6. s \div P = l
  BY <1>0, <1>1, <1>5, DivUnique, Zenon
<1>7. s \in Territory(l) /\ e \in Territory(l) /\ s <= e
  BY <1>0, <1>2, <1>4, <1>5
<1>8. s \in Block /\ e \in Block
  BY <1>1, <1>7, TerritoryOf, Zenon
<1> QED
  BY <1>1, <1>2, <1>3, <1>4, <1>5, <1>6, <1>7, <1>8, ZenonT(40) DEF P, s, e

\* The invariant holds of a freshly formatted file system.
LEMMA InitFreshSound ==
    ASSUME InitFresh, call = [p \in Proc |-> Idle], lost = {}
    PROVE  IInv
<1> DEFINE S(l) == FreshStart(l)
           E(l) == (l + 1) * PerListBlocks - 1
<1>1. /\ tree = [l \in List |-> IF l = SHARED THEN {} ELSE {S(l)}]
      /\ low = [n \in Node |-> IF \E l \in PerCPU : n = S(l) THEN n ELSE 0]
      /\ high = [n \in Node |-> IF \E l \in PerCPU : n = S(l)
                     THEN (n \div PerListBlocks + 1) * PerListBlocks - 1 ELSE 0]
      /\ first_node = [l \in List |-> IF l = SHARED THEN NULL ELSE S(l)]
      /\ p_node = first_node
      /\ num_free_blocks = [l \in List |->
            IF l = SHARED THEN 0
            ELSE IF l = 0 THEN PerListBlocks - ReservedBlocks ELSE PerListBlocks]
      /\ num_blocknode = [l \in List |-> IF l = SHARED THEN 0 ELSE 1]
      /\ held = {}
  BY Zenon DEF InitFresh
<1>2. /\ PerListBlocks \in Nat \ {0} /\ CPUS \in Nat \ {0} /\ NumBlocks \in Nat
      /\ ReservedBlocks \in Nat \ {0} /\ ReservedBlocks < PerListBlocks
  BY Sizes, Zenon
<1>3. \A l \in PerCPU : /\ l \in List /\ l # SHARED /\ l \in Nat
                        /\ S(l) \in Territory(l) /\ S(l) \in Block
                        /\ S(l) >= ReservedBlocks
                        /\ S(l) \div PerListBlocks = l
                        /\ E(l) \in Territory(l) /\ E(l) \in Block
                        /\ S(l) <= E(l)
  BY FreshRange, Zenon
<1>4. \A l \in List : l # SHARED => l \in PerCPU
  BY <1>2 DEF List, SHARED, PerCPU
<1>5. \A l \in PerCPU : low[S(l)] = S(l) /\ high[S(l)] = E(l)
  <2> TAKE l \in PerCPU
  <2>1. S(l) \in Node /\ (\E k \in PerCPU : S(l) = S(k)) /\ S(l) \div PerListBlocks = l
    BY <1>3, Zenon DEF Node
  <2> HIDE DEF S
  <2> QED
    BY <2>1, <1>1, Zenon
<1> HIDE DEF S, E
<1>6. 0 \in Block
  BY <1>2, <1>3, <1>4 DEF Block, PerCPU
<1>7. /\ tree[SHARED] = {}
      /\ \A l \in PerCPU : tree[l] = {S(l)}
      /\ SHARED \in List
  BY <1>1, <1>2, <1>3 DEF List, SHARED
<1>8. \A l \in List : \A n \in tree[l] : l \in PerCPU /\ n = S(l)
  BY <1>4, <1>7, Zenon
<1>9. \A n \in Node : low[n] \in Block /\ high[n] \in Block
  <2> TAKE n \in Node
  <2>1. CASE \E l \in PerCPU : n = S(l)
    BY <2>1, <1>3, <1>5, Zenon
  <2>2. CASE ~ \E l \in PerCPU : n = S(l)
    BY <2>2, <1>1, <1>6, Zenon
  <2> QED
    BY <2>1, <2>2, Zenon
<1>10. \A l \in PerCPU : FreeBlocks(l) = S(l) .. E(l)
  <2> TAKE l \in PerCPU
  <2>1. FreeBlocks(l) = {b \in Block : S(l) <= b /\ b <= E(l)}
    BY <1>5, <1>7 DEF FreeBlocks
  <2> QED
    BY <2>1, <1>2, <1>3 DEF Block
<1>11. FreeBlocks(SHARED) = {}
  BY <1>7, Zenon DEF FreeBlocks
<1>12. \A l \in PerCPU : Cardinality(FreeBlocks(l)) = E(l) - S(l) + 1
  <2> TAKE l \in PerCPU
  <2>1. S(l) \in Int /\ E(l) \in Int /\ S(l) <= E(l)
    BY <1>3 DEF Block
  <2> QED
    BY <2>1, <1>10, FS_Interval
<1>13. \A l \in PerCPU :
         E(l) - S(l) + 1 = IF l = 0 THEN PerListBlocks - ReservedBlocks ELSE PerListBlocks
  <2> TAKE l \in PerCPU
  <2>1. /\ S(l) = IF l = 0 THEN ReservedBlocks ELSE l * PerListBlocks
        /\ E(l) = l * PerListBlocks + PerListBlocks - 1
        /\ l * PerListBlocks \in Nat
    <3>1. /\ FreshStart(l) = IF l = 0 THEN ReservedBlocks ELSE l * PerListBlocks
          /\ (l + 1) * PerListBlocks = l * PerListBlocks + PerListBlocks
          /\ l * PerListBlocks \in Nat
      BY FreshRange, Zenon
    <3>2. (l + 1) * PerListBlocks - 1 = l * PerListBlocks + PerListBlocks - 1
      BY <3>1, <1>2, <1>3
    <3>3. E(l) = (l + 1) * PerListBlocks - 1
      BY Zenon DEF E
    <3> QED
      BY <3>1, <3>2, <3>3, Zenon DEF S
  <2> QED
    BY <2>1, <1>2
<1>14. \A l \in List : num_free_blocks[l] = Cardinality(FreeBlocks(l))
  <2> TAKE l \in List
  <2>1. CASE l = SHARED
    <3>1. num_free_blocks[l] = 0
      BY <2>1, <1>1, Zenon
    <3> QED
      BY <3>1, <2>1, <1>11, FS_EmptySet, Zenon
  <2>2. CASE l # SHARED
    <3>1. l \in PerCPU
      BY <2>2, <1>4, Zenon
    <3>2. num_free_blocks[l] = IF l = 0 THEN PerListBlocks - ReservedBlocks
                               ELSE PerListBlocks
      BY <2>2, <1>1, Zenon
    <3> QED
      BY <3>1, <3>2, <1>12, <1>13, Zenon
  <2> QED
    BY <2>1, <2>2, Zenon
<1>15. \A l \in List : num_blocknode[l] = Cardinality(tree[l])
  BY <1>1, <1>4, <1>7, FS_EmptySet, FS_Singleton, Zenon
<1>16. TypeOK
  <2>1. tree \in [List -> SUBSET Node] /\ first_node \in [List -> Node \cup {NULL}]
    BY <1>1, <1>3, <1>4, Zenon DEF Node
  <2>2. low \in [Node -> Block] /\ high \in [Node -> Block]
    BY <1>1, <1>9, Zenon
  <2>3. num_free_blocks \in [List -> Nat] /\ num_blocknode \in [List -> Nat]
    BY <1>1, <1>2
  <2>4. call \in [Proc -> Frame]
    <3>1. Idle \in Frame
      <4>1. CPUS \in Nat \ {0} /\ MaxRequest \in Nat \ {0}
        BY SizesAssumption, Zenon
      <4> QED
        BY <4>1 DEF Idle, Frame, PerCPU, List, MaxRetries
    <3> QED
      BY <3>1, Zenon
  <2> QED
    BY <2>1, <2>2, <2>3, <2>4, <1>1, ZenonT(40) DEF TypeOK
<1>17. /\ \A l \in List : \A n \in tree[l] : low[n] <= high[n]
       /\ \A l, k \in List : \A n \in tree[l], m \in tree[k] :
             (n = m /\ l = k) \/ high[n] < low[m] \/ high[m] < low[n]
  <2>1. \A l \in List : \A n \in tree[l] : low[n] <= high[n]
    BY <1>3, <1>5, <1>8
  <2>2. ASSUME NEW l \in List, NEW k \in List, NEW n \in tree[l], NEW m \in tree[k],
               ~(n = m /\ l = k), ~(high[n] < low[m]), ~(high[m] < low[n])
        PROVE  FALSE
    <3>1. l \in PerCPU /\ k \in PerCPU /\ n = S(l) /\ m = S(k)
      BY <1>8, Zenon
    <3>2. l # k
      BY <3>1, <2>2, Zenon
    <3>3. /\ low[n] = S(l) /\ high[n] = E(l) /\ low[m] = S(k) /\ high[m] = E(k)
      BY <3>1, <1>5, Zenon
    <3>4. /\ S(l) \in Nat /\ E(l) \in Nat /\ S(k) \in Nat /\ E(k) \in Nat
          /\ S(l) \in Territory(l) /\ E(l) \in Territory(l)
          /\ S(k) \in Territory(k) /\ E(k) \in Territory(k)
          /\ S(l) \in Block /\ S(k) \in Block
      BY <3>1, <1>3 DEF Block
    <3>5. CASE S(l) <= S(k)
      <4>1. S(k) \in Territory(l)
        BY <3>3, <3>4, <3>5, <2>2, TerritoryConvex
      <4> QED
        BY <4>1, <3>2, <3>4, TerritoryOf, Zenon
    <3>6. CASE S(k) <= S(l)
      <4>1. S(l) \in Territory(k)
        BY <3>3, <3>4, <3>6, <2>2, TerritoryConvex
      <4> QED
        BY <4>1, <3>2, <3>4, TerritoryOf, Zenon
    <3> QED
      BY <3>4, <3>5, <3>6
  <2> QED
    BY <2>1, <2>2, Zenon
<1>18. AllFree \cap Reserved = {}
  <2> SUFFICES ASSUME NEW b \in AllFree, b \in Reserved PROVE FALSE
    BY Zenon
  <2>1. PICK l \in List : b \in FreeBlocks(l)
    BY Zenon DEF AllFree
  <2>2. l \in PerCPU
    BY <2>1, <1>4, <1>11, Zenon
  <2>3. b \in S(l) .. E(l)
    BY <2>1, <2>2, <1>10, Zenon
  <2>4. S(l) \in Nat /\ S(l) >= ReservedBlocks
    BY <2>2, <1>3 DEF Block
  <2> QED
    BY <2>3, <2>4, <1>2 DEF Reserved
<1>19. Block \ Territory(SHARED) \subseteq AllFree \cup Reserved
  <2> SUFFICES ASSUME NEW b \in Block, b \notin Territory(SHARED)
               PROVE  b \in AllFree \/ b \in Reserved
    BY Zenon
  <2> DEFINE l == ListOf(b)
  <2>1. l \in List /\ l # SHARED
    BY ListOfBlock, TerritoryOf, <1>7, Zenon
  <2>2. l \in PerCPU
    BY <2>1, <1>4, Zenon
  <2> HIDE DEF l
  <2>3. b \in Territory(l)
    BY <2>1, TerritoryOf, Zenon DEF l
  <2>4. /\ Territory(l) = l * PerListBlocks .. E(l)
        /\ S(l) = IF l = 0 THEN ReservedBlocks ELSE l * PerListBlocks
        /\ l * PerListBlocks \in Nat /\ E(l) \in Int /\ l \in Nat
    BY <2>2, FreshRange DEF S, E, Block
  <2>5. b \in Nat /\ l * PerListBlocks <= b /\ b <= E(l)
    BY <2>3, <2>4
  <2>6. CASE b < ReservedBlocks
    BY <2>5, <2>6, <1>2 DEF Reserved
  <2>7. CASE ~(b < ReservedBlocks)
    <3>1. S(l) <= b
      BY <2>4, <2>5, <2>7, <1>2
    <3>2. b \in S(l) .. E(l)
      BY <3>1, <2>4, <2>5, <1>2
    <3> QED
      BY <3>2, <2>1, <2>2, <1>10, Zenon DEF AllFree
  <2> QED
    BY <2>6, <2>7, Zenon
<1>20. BlocksAccounted
  BY <1>1, <1>17, <1>18, <1>19, Zenon DEF BlocksAccounted
<1>21. CountersExact
  BY <1>14, <1>15, Zenon DEF CountersExact
<1>22. PointersLive
  <2> SUFFICES ASSUME NEW l \in List
               PROVE  IsFirst(l, first_node[l]) /\ p_node[l] \in tree[l] \cup {NULL}
    BY Zenon DEF PointersLive
  <2>1. CASE l = SHARED
    BY <2>1, <1>1, <1>7, Zenon DEF IsFirst
  <2>2. CASE l # SHARED
    <3>1. l \in PerCPU
      BY <2>2, <1>4, Zenon
    <3>2. tree[l] = {S(l)} /\ first_node[l] = S(l) /\ p_node[l] = S(l)
      BY <2>2, <3>1, <1>1, <1>7, Zenon
    <3>3. low[S(l)] \in Nat
      BY <3>1, <1>3, <1>5 DEF Block
    <3> QED
      BY <3>2, <3>3 DEF IsFirst
  <2> QED
    BY <2>1, <2>2, Zenon
<1> QED
  BY <1>16, <1>20, <1>21, <1>22, Zenon DEF IInv
\* The run of free blocks that starts at b: nova_insert_blocknode_map is called
\* with its last block, which exists, is free and lies in the same list.
LEMMA RunEndFree ==
    ASSUME NEW used \in SUBSET Block, NEW l \in List, NEW b \in RunStarts(used, l)
    PROVE  /\ b \in Territory(l) /\ b \in Block /\ b \notin used
           /\ RunEnd(used, b) \in Territory(l) /\ RunEnd(used, b) \in Block
           /\ b <= RunEnd(used, b)
           /\ (b .. RunEnd(used, b)) \cap used = {}
           /\ RunEnd(used, b) + 1 \notin Territory(l) \ used
<1> DEFINE T == Territory(l)
           C == {e \in Nat : b <= e /\ e + 1 \notin T \ used}
<1>1. b \in T /\ b \notin used /\ T \subseteq Block /\ b \in Block
  BY TerritoryOf, Zenon DEF RunStarts
<1>2. ListOf(b) = l
  BY <1>1, TerritoryOf, Zenon
<1>3. b \in Nat /\ b <= NumBlocks - 1 /\ NumBlocks \in Nat
  BY <1>1, Sizes DEF Block
<1>4. NumBlocks - 1 \in C
  <2>1. NumBlocks - 1 + 1 \notin Block
    BY <1>3 DEF Block
  <2> QED
    BY <2>1, <1>1, <1>3
<1>5. PICK e \in C : \A k \in C : e <= k
  <2>1. C \in SUBSET Nat /\ C # {}
    BY <1>4, Zenon
  <2> HIDE DEF C
  <2> QED
    BY <2>1, LeastNatural, Zenon
<1>6. e \in Nat /\ b <= e /\ e + 1 \notin T \ used
  BY Zenon
<1>7. \A x \in b .. e : x \in T \ used
  <2> TAKE x \in b .. e
  <2>1. CASE x = b
    BY <2>1, <1>1, Zenon
  <2>2. CASE x # b
    <3>1. x - 1 \in Nat /\ b <= x - 1 /\ ~(e <= x - 1) /\ x - 1 + 1 = x
      BY <2>2, <1>3, <1>6
    <3>2. x - 1 \notin C
      BY <3>1, <1>5, Zenon
    <3> QED
      BY <3>1, <3>2, Zenon
  <2> QED
    BY <2>1, <2>2, Zenon
<1>8. e \in T /\ (b .. e) \cap used = {}
  BY <1>3, <1>6, <1>7
<1> DEFINE Q(z) == /\ b <= z /\ (b .. z) \cap used = {}
                   /\ z + 1 \notin Territory(ListOf(b)) \ used
<1>9. \E z \in Territory(ListOf(b)) : Q(z)
  BY <1>2, <1>6, <1>8, Zenon
<1>10. RunEnd(used, b) = CHOOSE z \in Territory(ListOf(b)) : Q(z)
  BY Zenon DEF RunEnd
<1> HIDE DEF Q
<1>11. RunEnd(used, b) \in Territory(ListOf(b)) /\ Q(RunEnd(used, b))
  BY <1>9, <1>10, Zenon
<1> QED
  BY <1>1, <1>2, <1>11, Zenon DEF Q

\* Every free block of a list lies in the run that some run start opens.
LEMMA RunCovers ==
    ASSUME NEW used \in SUBSET Block, NEW l \in List, NEW x \in Territory(l), x \notin used
    PROVE  \E b \in RunStarts(used, l) : b <= x /\ x <= RunEnd(used, b)
<1> DEFINE T == Territory(l)
           C == {s \in Nat : s <= x /\ \A y \in s .. x : y \in T \ used}
<1>1. x \in Nat /\ T \subseteq Block
  BY TerritoryOf DEF Block
<1>2. x \in C
  BY <1>1
<1>3. PICK s \in C : \A k \in C : s <= k
  <2>1. C \in SUBSET Nat /\ C # {}
    BY <1>2, Zenon
  <2> HIDE DEF C
  <2> QED
    BY <2>1, LeastNatural, Zenon
<1>4. s \in Nat /\ s <= x /\ \A y \in s .. x : y \in T \ used
  BY Zenon
<1>5. s \in T \ used
  BY <1>1, <1>4
<1>6. s - 1 \notin T \ used
  <2> SUFFICES ASSUME s - 1 \in T \ used PROVE FALSE
    BY Zenon
  <2>1. s - 1 \in Nat
    BY <1>1 DEF Block
  <2>2. \A y \in s - 1 .. x : y \in T \ used
    <3> TAKE y \in s - 1 .. x
    <3>1. y = s - 1 \/ y \in s .. x
      BY <2>1, <1>1, <1>4
    <3> QED
      BY <3>1, <1>4, Zenon
  <2>3. s - 1 \in C
    BY <2>1, <2>2, <1>1, <1>4
  <2> QED
    BY <2>3, <1>3, <1>4
<1>7. s \in RunStarts(used, l)
  BY <1>5, <1>6, Zenon DEF RunStarts
<1>8. RunEnd(used, s) \in Nat /\ RunEnd(used, s) + 1 \notin T \ used /\ s <= RunEnd(used, s)
  BY <1>7, RunEndFree DEF Block
<1>9. x <= RunEnd(used, s)
  <2> SUFFICES ASSUME ~(x <= RunEnd(used, s)) PROVE FALSE
    BY Zenon
  <2>1. RunEnd(used, s) + 1 \in s .. x
    BY <1>1, <1>4, <1>8
  <2> QED
    BY <2>1, <1>4, <1>8, Zenon
<1> QED
  BY <1>4, <1>7, <1>9, Zenon

\* Two runs of one list do not meet: the second starts after a used block.
LEMMA RunsApart ==
    ASSUME NEW used \in SUBSET Block, NEW l \in List, NEW k \in List,
           NEW n \in RunStarts(used, l), NEW m \in RunStarts(used, k)
    PROVE  (n = m /\ l = k) \/ RunEnd(used, n) < m \/ RunEnd(used, m) < n
<1> SUFFICES ASSUME ~(n = m /\ l = k), ~(RunEnd(used, n) < m), ~(RunEnd(used, m) < n)
             PROVE  FALSE
  BY Zenon
<1>1. /\ n \in Territory(l) /\ RunEnd(used, n) \in Territory(l)
      /\ n \in Block /\ RunEnd(used, n) \in Block
      /\ (n .. RunEnd(used, n)) \cap used = {}
  BY RunEndFree, Zenon
<1>2. /\ m \in Territory(k) /\ RunEnd(used, m) \in Territory(k)
      /\ m \in Block /\ RunEnd(used, m) \in Block
      /\ (m .. RunEnd(used, m)) \cap used = {}
  BY RunEndFree, Zenon
<1>3. /\ n \in Nat /\ m \in Nat /\ RunEnd(used, n) \in Nat /\ RunEnd(used, m) \in Nat
  BY <1>1, <1>2 DEF Block
<1>4. n <= m => m \in Territory(l)
  BY <1>1, <1>3, TerritoryConvex
<1>5. m <= n => n \in Territory(k)
  BY <1>2, <1>3, TerritoryConvex
<1>6. l = k
  BY <1>1, <1>2, <1>3, <1>4, <1>5, TerritoryOf, SMTT(40)
<1>7. n - 1 \notin Territory(l) \ used /\ m - 1 \notin Territory(l) \ used
  BY <1>6, Zenon DEF RunStarts
<1>8. CASE n < m
  <2>1. m - 1 \in n .. RunEnd(used, n) /\ m - 1 \in Int /\ n <= m - 1 /\ m - 1 <= m
    BY <1>3, <1>8
  <2>2. m - 1 \in Territory(l)
    BY <2>1, <1>1, <1>2, <1>6, TerritoryConvex, Zenon
  <2> QED
    BY <2>1, <2>2, <1>1, <1>7, Zenon
<1>9. CASE m < n
  <2>1. n - 1 \in m .. RunEnd(used, m) /\ n - 1 \in Int /\ m <= n - 1 /\ n - 1 <= n
    BY <1>3, <1>9
  <2>2. n - 1 \in Territory(l)
    BY <2>1, <1>1, <1>2, <1>6, TerritoryConvex, Zenon
  <2> QED
    BY <2>1, <2>2, <1>2, <1>7, Zenon
<1> QED
  BY <1>3, <1>6, <1>8, <1>9
\* The invariant holds of a file system rebuilt by a failure scan, whatever
\* blocks the scan found in use.
LEMMA InitScannedSound ==
    ASSUME NEW used \in SUBSET Block, Reserved \subseteq used, InitScanned(used),
           call = [p \in Proc |-> Idle], lost = {}
    PROVE  IInv
<1> DEFINE S(l) == RunStarts(used, l)
           E(n) == RunEnd(used, n)
<1>1. /\ tree = [l \in List |-> S(l)]
      /\ low = [n \in Node |-> IF \E l \in List : n \in S(l) THEN n ELSE 0]
      /\ high = [n \in Node |-> IF \E l \in List : n \in S(l) THEN E(n) ELSE 0]
      /\ first_node = [l \in List |-> RbFirst(l)]
      /\ p_node = [l \in List |-> NULL]
      /\ num_free_blocks = [l \in List |-> Cardinality(Territory(l) \ used)]
      /\ num_blocknode = [l \in List |-> Cardinality(S(l))]
      /\ held = used \ Reserved
  BY Zenon DEF InitScanned
<1>2. \A l \in List : tree[l] = S(l)
  BY <1>1, Zenon
<1>3. \A l \in List : \A n \in S(l) :
         /\ n \in Block /\ n \in Territory(l) /\ n \notin used
         /\ E(n) \in Territory(l) /\ E(n) \in Block /\ n <= E(n)
         /\ (n .. E(n)) \cap used = {}
  BY RunEndFree, Zenon
<1>4. \A l \in List : \A n \in S(l) : low[n] = n /\ high[n] = E(n)
  <2> HIDE DEF S, E
  <2> TAKE l \in List
  <2> TAKE n \in S(l)
  <2>1. n \in Node /\ \E k \in List : n \in S(k)
    BY <1>3, Zenon DEF Node
  <2> QED
    BY <2>1, <1>1, Zenon
<1>5. \A l, k \in List : \A n \in S(l), m \in S(k) :
         (n = m /\ l = k) \/ E(n) < m \/ E(m) < n
  BY RunsApart, Zenon
<1>6. \A l \in List : \A x \in Territory(l) \ used : \E n \in S(l) : n <= x /\ x <= E(n)
  BY RunCovers, Zenon
<1> HIDE DEF S, E
<1>7. \A l \in List : Territory(l) \subseteq Block
  BY TerritoryOf, Zenon
<1>8. 0 \in Block
  BY Sizes, SizesAssumption DEF Block
<1>9. /\ low \in [Node -> Block] /\ high \in [Node -> Block]
  <2>1. ASSUME NEW n \in Node PROVE low[n] \in Block /\ high[n] \in Block
    <3>1. CASE \E l \in List : n \in S(l)
      BY <3>1, <1>3, <1>4, ZenonT(40)
    <3>2. CASE ~ \E l \in List : n \in S(l)
      BY <3>2, <1>1, <1>8, Zenon
    <3> QED
      BY <3>1, <3>2, Zenon
  <2> QED
    BY <2>1, <1>1, Zenon
<1>10. \A l \in List : FreeBlocks(l) = Territory(l) \ used
  <2> TAKE l \in List
  <2>1. FreeBlocks(l) = {b \in Block : \E n \in S(l) : n <= b /\ b <= E(n)}
    BY <1>2, <1>4 DEF FreeBlocks
  <2>2. ASSUME NEW b \in Block, NEW n \in S(l), n <= b, b <= E(n)
        PROVE  b \in Territory(l) \ used
    <3>1. b \in Int /\ n \in Int /\ E(n) \in Int
      BY <1>3 DEF Block
    <3>2. b \in Territory(l)
      BY <3>1, <2>2, <1>3, TerritoryConvex, Zenon
    <3>3. b \in n .. E(n)
      BY <3>1, <2>2
    <3> QED
      BY <3>2, <3>3, <1>3, Zenon
  <2>3. ASSUME NEW b \in Territory(l) \ used
        PROVE  b \in Block /\ \E n \in S(l) : n <= b /\ b <= E(n)
    BY <1>6, <1>7, Zenon
  <2> QED
    BY <2>1, <2>2, <2>3, Zenon
<1>11. AllFree = Block \ used
  <2>1. \A b \in Block : ListOf(b) \in List /\ b \in Territory(ListOf(b))
    BY ListOfBlock, TerritoryOf, Zenon
  <2> QED
    BY <2>1, <1>10, Zenon DEF AllFree
<1>12. \A l \in List : tree[l] \subseteq Node
  BY <1>2, <1>3, Zenon DEF Node
<1>13. \A l \in List : IsFirst(l, RbFirst(l)) /\ RbFirst(l) \in Node \cup {NULL}
  <2> TAKE l \in List
  <2>1. CASE tree[l] = {}
    BY <2>1, Zenon DEF IsFirst, RbFirst
  <2>2. CASE tree[l] # {}
    <3>1. /\ Leftmost(tree[l]) \in tree[l]
          /\ \A m \in tree[l] : low[Leftmost(tree[l])] <= low[m]
      BY <2>2, <1>9, <1>12, LeftmostNode, Zenon
    <3>2. RbFirst(l) = Leftmost(tree[l])
      BY <2>2, Zenon DEF RbFirst
    <3> QED
      BY <2>2, <3>1, <3>2, <1>12, Zenon DEF IsFirst
  <2> QED
    BY <2>1, <2>2, Zenon
<1>14. \A l \in List : /\ Cardinality(Territory(l) \ used) \in Nat
                       /\ Cardinality(S(l)) \in Nat
  <2> TAKE l \in List
  <2>1. Territory(l) \ used \in SUBSET Block /\ S(l) \in SUBSET Block
    BY <1>3, <1>7, Zenon
  <2>2. IsFiniteSet(Territory(l) \ used) /\ IsFiniteSet(S(l))
    BY <2>1, BlockFinite, Zenon
  <2> QED
    BY <2>2, FS_CardinalityType, Zenon
<1>15. TypeOK
  <2>1. /\ tree \in [List -> SUBSET Node]
        /\ first_node \in [List -> Node \cup {NULL}]
        /\ p_node \in [List -> Node \cup {NULL}]
    BY <1>1, <1>2, <1>12, <1>13, Zenon
  <2>2. num_free_blocks \in [List -> Nat] /\ num_blocknode \in [List -> Nat]
    BY <1>1, <1>14, Zenon
  <2>3. call \in [Proc -> Frame]
    <3>1. Idle \in Frame
      <4>1. CPUS \in Nat \ {0} /\ MaxRequest \in Nat \ {0}
        BY SizesAssumption, Zenon
      <4> QED
        BY <4>1 DEF Idle, Frame, PerCPU, List, MaxRetries
    <3> QED
      BY <3>1, Zenon
  <2> QED
    BY <2>1, <2>2, <2>3, <1>1, <1>9, Zenon DEF TypeOK
<1>16. BlocksAccounted
  <2>1. \A l \in List : \A n \in tree[l] : low[n] <= high[n]
    BY <1>2, <1>3, <1>4, SMTT(40)
  <2>2. \A l, k \in List : \A n \in tree[l], m \in tree[k] :
          (n = m /\ l = k) \/ high[n] < low[m] \/ high[m] < low[n]
    BY <1>2, <1>4, <1>5
  <2>3. /\ AllFree \cap (held \cup lost \cup Reserved) = {}
        /\ held \cap (lost \cup Reserved) = {} /\ lost \cap Reserved = {}
        /\ Block \ Territory(SHARED) \subseteq AllFree \cup held \cup lost \cup Reserved
    BY <1>1, <1>11, Zenon
  <2> QED
    BY <2>1, <2>2, <2>3, Zenon DEF BlocksAccounted
<1>17. CountersExact
  BY <1>1, <1>2, <1>10, Zenon DEF CountersExact
<1>18. PointersLive
  BY <1>1, <1>13, Zenon DEF PointersLive
<1> QED
  BY <1>15, <1>16, <1>17, <1>18, Zenon DEF IInv

-----------------------------------------------------------------------------
(* The theorems *)

\* The invariant is inductive.
LEMMA NextSound ==
    ASSUME IInv, [Next]_vars
    PROVE  IInv'
<1>0. TypeOK /\ CPUS \in Nat \ {0} /\ MaxRequest \in Nat \ {0}
  BY SizesAssumption, Zenon DEF IInv
<1>1. ASSUME NEW p \in Proc, Allocate(p) PROVE IInv'
  BY <1>1, AllocateStep, Zenon
<1>a. ASSUME NEW p \in Proc
      PROVE  /\ call \in [Proc -> Frame] /\ call[p] \in Frame
             /\ call[p].num \in 1 .. MaxRequest /\ call[p].cpuid \in PerCPU
             /\ call[p].retried \in Nat /\ call[p].retried <= MaxRetries
             /\ call[p].i \in Nat /\ call[p].i <= CPUS /\ call[p].best \in PerCPU
             /\ call[p].pc = "scan" => call[p].retried < MaxRetries
  <2>1. call \in [Proc -> Frame] /\ call[p] \in Frame
    BY <1>0, Zenon DEF TypeOK
  <2>2. /\ call[p].num \in 1 .. MaxRequest /\ call[p].cpuid \in PerCPU
        /\ call[p].retried \in 0 .. MaxRetries
        /\ call[p].i \in List /\ call[p].best \in PerCPU
        /\ call[p].pc = "scan" => call[p].retried < MaxRetries
    BY <2>1, Zenon DEF Frame
  <2>3. /\ call[p].retried \in Nat /\ call[p].retried <= MaxRetries
        /\ call[p].i \in Nat /\ call[p].i <= CPUS
    BY <2>2, <1>0 DEF List, MaxRetries
  <2> QED
    BY <2>1, <2>2, <2>3, Zenon
<1>2. ASSUME NEW p \in Proc, Retry(p) PROVE IInv'
  <2>1. [call[p] EXCEPT !.pc = "scan"] \in Frame
    BY <1>2, <1>a, Zenon DEF Retry, Frame, MaxRetries
  <2>2. call' \in [Proc -> Frame]
    BY <2>1, <1>2, <1>a, Zenon DEF Retry
  <2> QED
    BY <2>2, <1>2, CallOnlyStep, Zenon DEF Retry
<1>3. ASSUME NEW p \in Proc, NoSpace(p) PROVE IInv'
  <2>1. call' \in [Proc -> Frame]
    BY <1>3, <1>0, FramesTyped, Zenon DEF NoSpace, TypeOK
  <2> QED
    BY <2>1, <1>3, CallOnlyStep, Zenon DEF NoSpace
<1>4. ASSUME NEW p \in Proc, ScanList(p) PROVE IInv'
  <2> DEFINE better == num_free_blocks[call[p].i] > call[p].most
             new == [call[p] EXCEPT
                       !.i = call[p].i + 1,
                       !.best = IF better THEN call[p].i ELSE call[p].best,
                       !.most = IF better THEN num_free_blocks[call[p].i]
                                          ELSE call[p].most]
  <2>1. call[p].pc = "scan" /\ call[p].i < CPUS
    BY <1>4, Zenon DEF ScanList
  <2>2. /\ call[p].i \in PerCPU /\ call[p].i + 1 \in List /\ call[p].i \in List
    BY <2>1, <1>0, <1>a DEF List, PerCPU
  <2>3. num_free_blocks[call[p].i] \in Nat
    BY <2>2, <1>0, Zenon DEF TypeOK
  <2>4. new \in Frame
    BY <2>2, <2>3, <1>a, ZenonT(40) DEF Frame
  <2>5. call' = [call EXCEPT ![p] = new]
    BY <1>4, <1>a, Zenon DEF ScanList, Frame
  <2>6. call' \in [Proc -> Frame]
    BY <2>4, <2>5, <1>a, Zenon
  <2> QED
    BY <2>6, <1>4, CallOnlyStep, Zenon DEF ScanList
<1>5. ASSUME NEW p \in Proc, ScanDone(p) PROVE IInv'
  <2> DEFINE new == [call[p] EXCEPT !.pc = "try", !.cpuid = call[p].best,
                                    !.retried = call[p].retried + 1,
                                    !.i = 0, !.best = 0, !.most = 0]
  <2>1. call[p].pc = "scan" /\ call' = [call EXCEPT ![p] = new]
    BY <1>5, Zenon DEF ScanDone
  <2>2. call[p].retried + 1 \in 0 .. MaxRetries /\ 0 \in List /\ 0 \in PerCPU
    BY <2>1, <1>0, <1>a DEF List, PerCPU, MaxRetries
  <2>3. new \in Frame
    BY <2>2, <1>a, Zenon DEF Frame
  <2>4. call' \in [Proc -> Frame]
    BY <2>1, <2>3, <1>a, Zenon
  <2> QED
    BY <2>4, <1>5, CallOnlyStep, Zenon DEF ScanDone
<1>6. ASSUME NEW p \in Proc, NEW cpuid \in PerCPU, NEW num \in 1 .. MaxRequest,
             NewBlocks(p, cpuid, num)
      PROVE  IInv'
  <2> DEFINE new == [Idle EXCEPT !.pc = "try", !.num = num,
                                 !.cpuid = cpuid, !.quiet = TRUE]
  <2>1. Idle \in Frame
    BY <1>0, FramesTyped, Zenon
  <2>2. new \in Frame
    BY <2>1, Zenon DEF Frame
  <2>3. call' = [call EXCEPT ![p] = new]
    BY <1>6, Zenon DEF NewBlocks
  <2>4. call' \in [Proc -> Frame]
    BY <2>2, <2>3, <1>a, Zenon
  <2> QED
    BY <2>4, <1>6, CallOnlyStep, Zenon DEF NewBlocks
<1>7. ASSUME NEW b \in Block, NEW num \in 1 .. MaxRequest, FreeBlocksCall(b, num)
      PROVE  IInv'
  BY <1>7, FreeStep, Zenon
<1>8. ASSUME NEW b \in Block, NEW num \in 1 .. MaxRequest, FreeFails(b, num)
      PROVE  IInv'
  BY <1>8, FreeFailsStep, Zenon
<1>9. CASE UNCHANGED vars
  BY <1>9, <1>0, CallOnlyStep, Zenon DEF vars, TypeOK
<1> QED
  BY <1>1, <1>2, <1>3, <1>4, <1>5, <1>6, <1>7, <1>8, <1>9, ZenonT(40) DEF Next, CallStep

\* Whatever the size of the device, the number of CPUs and of callers, and
\* however their calls interleave, the allocator's invariant holds.
THEOREM Invariance == Spec => []IInv
<1>1. Init => IInv
  BY InitFreshSound, InitScannedSound, Zenon DEF Init
<1>2. IInv /\ [Next]_vars => IInv'
  BY NextSound, Zenon
<1> QED
  BY <1>1, <1>2, PTL DEF Spec

\* Every variable of the allocator keeps its type; in particular the unsigned
\* counters num_free_blocks and num_blocknode never go below zero.
THEOREM TypesCorrect == Spec => []TypeOK
  BY Invariance, PTL DEF IInv

\* No block is ever handed out twice, freed into two ranges, or lost by a
\* split or a merge.
THEOREM NoBlockLostOrShared == Spec => []BlocksAccounted
  BY Invariance, PTL DEF IInv

\* The counters that admit an allocation equal what the tree holds.
THEOREM CountersAreExact == Spec => []CountersExact
  BY Invariance, PTL DEF IInv

\* first_node and p_node never point to an erased node.
THEOREM PointersStayLive == Spec => []PointersLive
  BY Invariance, PTL DEF IInv

-----------------------------------------------------------------------------
(* The abstract pool *)

\* Every step of the allocator is a step of the pool or leaves it alone.
LEMMA PoolStep ==
    ASSUME IInv, [Next]_vars
    PROVE  [Pool!PoolNext]_(Pool!poolVars)
<1>0. MaxRequest \in Nat /\ NumBlocks \in Nat
  BY SizesAssumption, Zenon
<1>1. ASSUME NEW b \in Block, NEW num \in 1 .. MaxRequest,
             Pool!Run(b, num) \subseteq Block
      PROVE  num \in 1 .. NumBlocks /\ num <= MaxRequest
  <2>1. b \in Nat /\ b + num - 1 \in Pool!Run(b, num)
    BY <1>0 DEF Pool!Run, Block
  <2>2. b + num - 1 <= NumBlocks - 1
    BY <1>0, <1>1, <2>1 DEF Block
  <2> QED BY <1>0, <2>1, <2>2
<1>2. AllFree \subseteq Block /\ held \subseteq Block
  BY Zenon DEF AllFree, IInv, TypeOK
<1>3. ASSUME NEW p \in Proc, Allocate(p) PROVE Pool!PoolNext
  <2>1. PICK b \in Block, got \in 1 .. MaxRequest : Pool!Allocate(b, got)
    BY <1>3, AllocateStep, Zenon
  <2>2. got \in 1 .. NumBlocks /\ got <= MaxRequest
    BY <1>1, <1>2, <2>1, Zenon DEF Pool!Allocate
  <2> QED BY <2>1, <2>2, Zenon DEF Pool!PoolNext, Block
<1>4. ASSUME NEW b \in Block, NEW num \in 1 .. MaxRequest,
             FreeBlocksCall(b, num) \/ FreeFails(b, num)
      PROVE  Pool!PoolNext
  <2>1. Pool!Release(b, num) \/ Pool!Leak(b, num)
    BY <1>4, FreeStep, FreeFailsStep, Zenon
  <2>2. num \in 1 .. NumBlocks
    BY <1>1, <1>2, <2>1, Zenon DEF Pool!Release, Pool!Leak
  <2> QED BY <2>1, <2>2, Zenon DEF Pool!PoolNext, Block
<1>5. ASSUME UNCHANGED <<listVars, held, lost>> PROVE UNCHANGED Pool!poolVars
  BY <1>5, ListsUnchanged, Zenon DEF Pool!poolVars
<1> QED BY <1>3, <1>4, <1>5, Zenon DEF Next, CallStep, Retry, NoSpace, ScanList, ScanDone,
                                      NewBlocks, vars

\* The per-CPU trees, their cached pointers and their counters implement one
\* set of free blocks, from which nova_new_blocks takes runs no longer than the
\* request and to which nova_free_blocks returns them.
THEOREM AllocatorIsAPool == Spec => PoolImplemented
<1>1. Init => Pool!PoolInit
  <2> SUFFICES ASSUME Init PROVE Pool!PoolInit
    BY Zenon
  <2>1. IInv /\ lost = {}
    BY InitFreshSound, InitScannedSound, Zenon DEF Init
  <2> QED BY <2>1, Zenon DEF Pool!PoolInit, IInv, TypeOK, BlocksAccounted, AllFree, Block
<1>2. IInv /\ [Next]_vars => [Pool!PoolNext]_(Pool!poolVars)
  BY PoolStep, Zenon
<1> QED BY <1>1, <1>2, Invariance, PTL DEF Spec, PoolImplemented, Pool!PoolSpec

-----------------------------------------------------------------------------
(* Adjacent ranges *)

\* A step that changes one list need only be checked there.
LEMMA CoalescedInOne ==
    ASSUME Coalesced, NEW l \in List,
           \A k \in List : k # l =>
               tree'[k] = tree[k] /\ \A m \in tree[k] : low'[m] = low[m] /\ high'[m] = high[m],
           \A n, m \in tree'[l] : high'[n] + 1 # low'[m]
    PROVE  Coalesced'
<1> SUFFICES ASSUME NEW k \in List, NEW n \in tree'[k], NEW m \in tree'[k]
             PROVE  high'[n] + 1 # low'[m]
  BY Zenon DEF Coalesced, List
<1>1. CASE k = l
  BY <1>1, Zenon
<1>2. CASE k # l
  BY <1>2 DEF Coalesced
<1> QED BY <1>1, <1>2, Zenon

\* What the invariant says of the nodes of one list.
LEMMA NodesInOrder ==
    ASSUME IInv, NEW l \in List
    PROVE  \A n \in tree[l] :
               /\ n \in Node /\ low[n] \in Nat /\ high[n] \in Nat /\ low[n] <= high[n]
               /\ \A m \in tree[l] : n = m \/ high[n] < low[m] \/ high[m] < low[n]
               /\ \A k \in List : k # l => n \notin tree[k]
<1> SUFFICES ASSUME NEW n \in tree[l]
             PROVE  /\ n \in Node /\ low[n] \in Nat /\ high[n] \in Nat /\ low[n] <= high[n]
                    /\ \A m \in tree[l] : n = m \/ high[n] < low[m] \/ high[m] < low[n]
                    /\ \A k \in List : k # l => n \notin tree[k]
  BY Zenon
<1>1. n \in Node /\ low[n] \in Block /\ high[n] \in Block /\ low[n] <= high[n]
  BY Zenon DEF IInv, TypeOK, BlocksAccounted
<1>2. low[n] \in Nat /\ high[n] \in Nat
  BY <1>1 DEF Block
<1>3. \A m \in tree[l] : n = m \/ high[n] < low[m] \/ high[m] < low[n]
  BY Zenon DEF IInv, BlocksAccounted
<1>4. \A k \in List : k # l => n \notin tree[k]
  BY OneTree, Zenon
<1> QED BY <1>1, <1>2, <1>3, <1>4, Zenon

\* Taking blocks from the head of a node, or all of it, only widens a gap.
LEMMA CoalescedAlloc ==
    ASSUME IInv, Coalesced, NEW l \in List, NEW n \in tree[l], NEW first,
           NEW num \in Nat \ {0}, AllocBlocksInFreeList(l, first, n, num)
    PROVE  Coalesced'
<1>0. tree \in [List -> SUBSET Node] /\ low \in [Node -> Block] /\ high \in [Node -> Block]
  BY Zenon DEF IInv, TypeOK
<1>1. \A m \in tree[l] : m \in Node /\ low[m] \in Nat /\ high[m] \in Nat
        /\ low[m] <= high[m] /\ (n = m \/ high[n] < low[m] \/ high[m] < low[n])
  BY NodesInOrder, Zenon
<1>2. \A k \in List : k # l => n \notin tree[k]
  BY OneTree, Zenon
<1>3. CASE num >= Size(n)
  <2>1. /\ tree'[l] = tree[l] \ {n}
        /\ \A k \in List : k # l => tree'[k] = tree[k]
        /\ \A m \in Node : m # n => low'[m] = low[m] /\ high'[m] = high[m]
    BY <1>0, <1>3, Zenon DEF AllocBlocksInFreeList, TakeWholeNode
  <2>2. \A k \in List : \A m \in tree[k] : m \in Node
    BY <1>0, Zenon
  <2>3. \A m, o \in tree'[l] : high'[m] + 1 # low'[o]
    BY <2>1, <2>2, Zenon DEF Coalesced
  <2> QED BY <1>2, <2>1, <2>2, <2>3, CoalescedInOne, ZenonT(40)
<1>4. CASE ~(num >= Size(n))
  <2>1. /\ tree' = tree /\ high' = high /\ low'[n] = low[n] + num
        /\ \A m \in Node : m # n => low'[m] = low[m]
    BY <1>0, <1>1, <1>4, Zenon DEF AllocBlocksInFreeList, TakePartOfNode
  <2>2. \A k \in List : \A m \in tree[k] : m \in Node
    BY <1>0, Zenon
  <2>3. low[n] + num <= high[n]
    BY <1>1, <1>4 DEF Size
  <2>4. ASSUME NEW m \in tree[l], NEW o \in tree[l] PROVE high[m] + 1 # low'[o]
    <3>1. CASE o # n
      BY <2>1, <2>2, <3>1, Zenon DEF Coalesced
    <3>2. CASE o = n
      BY <1>1, <2>1, <2>3, <3>2
    <3> QED BY <3>1, <3>2, Zenon
  <2> QED BY <1>2, <2>1, <2>2, <2>4, CoalescedInOne, ZenonT(40)
<1> QED BY <1>3, <1>4, Zenon

\* nova_find_free_slot finds the ranges that touch the freed one, if any.
LEMMA TouchingFound ==
    ASSUME IInv, NEW l \in List, NEW b \in Block, NEW num \in Nat \ {0}, Clear(b, num),
           NEW m \in tree[l]
    PROVE  /\ high[m] + 1 = b => Prev(l, b) = m
           /\ b + num = low[m] => Following(l, b) = m
<1> DEFINE p == Prev(l, b)
           f == Following(l, b)
<1>0. TypeOK /\ b \in Nat /\ l \in List
  BY DEF IInv, Block
<1>1. \A n, o \in tree[l] : /\ low[n] \in Nat /\ high[n] \in Nat /\ low[n] <= high[n]
                            /\ n = o \/ high[n] < low[o] \/ high[o] < low[n]
  BY NodesInOrder, Zenon
<1>2. ASSUME high[m] + 1 = b PROVE p = m
  <2>1. low[m] < b
    BY <1>0, <1>1, <1>2
  <2>2. p \in tree[l] /\ low[p] < b /\ low[m] <= low[p]
    BY <1>0, <2>1, PrevNode, Zenon
  <2> HIDE DEF p
  <2> QED BY <1>0, <1>1, <1>2, <2>2
<1>3. ASSUME b + num = low[m] PROVE f = m
  <2>1. b < low[m]
    BY <1>0, <1>1, <1>3
  <2>2. f \in tree[l] /\ b < low[f] /\ low[f] <= low[m]
    BY <1>0, <2>1, FollowingNode, Zenon
  <2>3. high[f] < b \/ b + num - 1 < low[f]
    BY <2>2, Zenon DEF Clear
  <2> HIDE DEF f
  <2> QED BY <1>0, <1>1, <1>3, <2>2, <2>3
<1> QED BY <1>2, <1>3, Zenon

\* nova_free_blocks leaves no range that touches another of the same list.
LEMMA CoalescedInsert ==
    ASSUME IInv, Coalesced, NEW l \in List, NEW b \in Block, NEW num \in Nat \ {0},
           Clear(b, num), NEW curr \in Node, curr \notin UsedNodes,
           InsertRange(l, b, num, curr)
    PROVE  Coalesced'
<1> DEFINE prev == Prev(l, b)
           next == Following(l, b)
           left == prev # NULL /\ high[prev] + 1 = b
           right == next # NULL /\ b + num = low[next]
<1>0. /\ tree \in [List -> SUBSET Node] /\ low \in [Node -> Block] /\ high \in [Node -> Block]
      /\ TypeOK /\ b \in Nat
      /\ \A k \in List : \A m \in tree[k] : m \in Node /\ m # NULL /\ m # curr
  <2>1. \A m \in Node : m # NULL
    BY DEF Node, Block, NULL
  <2> QED BY <2>1 DEF IInv, TypeOK, UsedNodes, Block
<1>1. /\ ~left => \A m \in tree[l] : high[m] + 1 # b
      /\ ~right => \A m \in tree[l] : b + num # low[m]
  <2>1. ASSUME NEW m \in tree[l]
        PROVE  (high[m] + 1 = b => prev = m) /\ (b + num = low[m] => next = m) /\ m # NULL
    BY <1>0, TouchingFound, Zenon
  <2> HIDE DEF prev, next
  <2> QED BY <2>1, Zenon
<1>2. /\ prev # NULL => prev \in tree[l] /\ \A k \in List : k # l => prev \notin tree[k]
      /\ next # NULL => next \in tree[l] /\ \A k \in List : k # l => next \notin tree[k]
  <2>1. /\ prev # NULL => prev \in tree[l]
        /\ next # NULL => next \in tree[l]
    BY <1>0, PrevNode, FollowingNode, Zenon
  <2> QED BY <2>1, OneTree, Zenon
<1>3. /\ left /\ right => FitsHole(l, prev, next)
      /\ left /\ ~right => AlignsLeft(prev, num)
      /\ ~left /\ right => AlignsRight(next, num)
      /\ ~left /\ ~right => NewNode(l, prev, b, num, curr)
  BY Zenon DEF InsertRange
<1> HIDE DEF prev, next
<1>c. \A m, o \in tree[l] : high[m] + 1 # low[o]
  BY Zenon DEF Coalesced
<1> SUFFICES /\ \A k \in List : k # l =>
                    /\ tree'[k] = tree[k]
                    /\ \A m \in tree[k] : low'[m] = low[m] /\ high'[m] = high[m]
             /\ \A m, o \in tree'[l] : high'[m] + 1 # low'[o]
  BY CoalescedInOne, Zenon
<1>4. CASE left /\ right
  <2>1. /\ tree'[l] = tree[l] \ {next}
        /\ \A k \in List : k # l => tree'[k] = tree[k]
        /\ prev # next => high'[prev] = high[next]
        /\ \A m \in Node : m # next => low'[m] = low[m]
        /\ \A m \in Node : m # next /\ m # prev => high'[m] = high[m]
    BY <1>0, <1>2, <1>3, <1>4, ZenonT(40) DEF FitsHole
  <2>2. ASSUME NEW m \in tree'[l], NEW o \in tree'[l] PROVE high'[m] + 1 # low'[o]
    <3>1. m \in tree[l] /\ o \in tree[l] /\ next \in tree[l] /\ low'[o] = low[o]
      BY <1>0, <1>2, <1>4, <2>1, Zenon
    <3>2. high'[m] = high[m] \/ high'[m] = high[next]
      BY <1>0, <2>1, <3>1, Zenon
    <3> QED BY <1>c, <3>1, <3>2, Zenon
  <2> QED BY <1>0, <1>2, <1>4, <2>1, <2>2, Zenon
<1>5. CASE left /\ ~right
  <2>1. /\ tree' = tree /\ low' = low /\ high'[prev] = high[prev] + num
        /\ \A m \in Node : m # prev => high'[m] = high[m]
    BY <1>0, <1>2, <1>3, <1>5, ZenonT(40) DEF AlignsLeft
  <2>2. high'[prev] + 1 = b + num
    <3>1. high[prev] \in Nat
      BY <1>2, <1>5, NodesInOrder, Zenon
    <3> QED BY <1>0, <1>5, <2>1, <3>1, SMTT(40)
  <2>3. ASSUME NEW m \in tree[l], NEW o \in tree[l] PROVE high'[m] + 1 # low[o]
    <3>1. high'[m] = high[m] \/ high'[m] + 1 = b + num
      BY <1>0, <2>1, <2>2, Zenon
    <3>2. b + num # low[o] /\ high[m] + 1 # low[o]
      BY <1>1, <1>5, <1>c, Zenon
    <3> QED BY <3>1, <3>2, Zenon
  <2> QED BY <1>0, <1>2, <1>5, <2>1, <2>3, ZenonT(40)
<1>6. CASE ~left /\ right
  <2>1. /\ tree' = tree /\ high' = high /\ low'[next] = low[next] - num
        /\ \A m \in Node : m # next => low'[m] = low[m]
    BY <1>0, <1>2, <1>3, <1>6, ZenonT(40) DEF AlignsRight
  <2>2. low'[next] = b
    BY <1>0, <1>6, <2>1, SMTT(40)
  <2>3. ASSUME NEW m \in tree[l], NEW o \in tree[l] PROVE high[m] + 1 # low'[o]
    <3>1. low'[o] = low[o] \/ low'[o] = b
      BY <1>0, <2>1, <2>2, Zenon
    <3>2. high[m] + 1 # b /\ high[m] + 1 # low[o]
      BY <1>1, <1>6, <1>c, Zenon
    <3> QED BY <3>1, <3>2, Zenon
  <2> QED BY <1>0, <1>2, <1>6, <2>1, <2>3, ZenonT(40)
<1>7. CASE ~left /\ ~right
  <2>1. /\ tree'[l] = tree[l] \cup {curr}
        /\ \A k \in List : k # l => tree'[k] = tree[k]
        /\ low'[curr] = b /\ high'[curr] = b + num - 1
        /\ \A m \in Node : m # curr => low'[m] = low[m] /\ high'[m] = high[m]
    BY <1>0, <1>3, <1>7, Zenon DEF NewNode
  <2>2. high'[curr] + 1 = b + num /\ high'[curr] + 1 # low'[curr]
    BY <1>0, <2>1
  <2>3. ASSUME NEW m \in tree'[l], NEW o \in tree'[l] PROVE high'[m] + 1 # low'[o]
    <3>1. \/ m = curr
          \/ m \in tree[l] /\ high'[m] = high[m] /\ high[m] + 1 # b
      BY <1>0, <1>1, <1>7, <2>1, Zenon
    <3>2. \/ o = curr
          \/ o \in tree[l] /\ low'[o] = low[o] /\ b + num # low[o]
      BY <1>0, <1>1, <1>7, <2>1, Zenon
    <3> QED BY <1>c, <2>1, <2>2, <3>1, <3>2, Zenon
  <2> QED BY <1>0, <2>1, <2>3, Zenon
<1> QED BY <1>4, <1>5, <1>6, <1>7, Zenon

\* Neither a format nor a scan of the device leaves ranges that touch.
LEMMA CoalescedInit ==
    ASSUME IInv, Init
    PROVE  Coalesced
<1> SUFFICES ASSUME NEW l \in List, NEW n \in tree[l], NEW m \in tree[l]
             PROVE  high[n] + 1 # low[m]
  BY Zenon DEF Coalesced
<1>1. CASE n = m
  BY <1>1, NodesInOrder
<1>2. CASE n # m
  <2>1. ~InitFresh
    <3> SUFFICES ASSUME InitFresh PROVE n = m
      BY <1>2, Zenon
    <3>1. tree[l] = IF l = SHARED THEN {} ELSE {FreshStart(l)}
      BY Zenon DEF InitFresh
    <3> QED BY <3>1
  <2>2. PICK used \in SUBSET Block : Reserved \subseteq used /\ InitScanned(used)
    BY <2>1, Zenon DEF Init
  <2>3. n \in RunStarts(used, l) /\ m \in RunStarts(used, l) /\ n \in Node /\ m \in Node
    BY <2>2, NodesInOrder, Zenon DEF InitScanned
  <2>4. low[m] = m /\ high[n] = RunEnd(used, n)
    BY <2>2, <2>3, Zenon DEF InitScanned
  <2>5. m \in Territory(l) \ used
    BY <2>3, Zenon DEF RunStarts
  <2>6. RunEnd(used, n) + 1 \notin Territory(l) \ used
    BY <2>2, <2>3, RunEndFree, Zenon
  <2> QED BY <2>4, <2>5, <2>6, Zenon
<1> QED BY <1>1, <1>2, Zenon

\* Every step of the allocator keeps the ranges of a list apart.
LEMMA CoalescedStep ==
    ASSUME IInv, Coalesced, [Next]_vars
    PROVE  Coalesced'
<1>1. ASSUME NEW p \in Proc, Allocate(p) PROVE Coalesced'
  BY <1>1, AllocatesFrom, CoalescedAlloc, Zenon
<1>2. ASSUME NEW b \in Block, NEW num \in 1 .. MaxRequest, FreeBlocksCall(b, num)
      PROVE  Coalesced'
  <2>1. num \in Nat \ {0}
    <3>1. MaxRequest \in Nat
      BY SizesAssumption, Zenon
    <3> QED BY <3>1
  <2>2. ListOf(b) \in List
    BY ListOfBlock, Zenon
  <2>3. /\ (b .. b + num - 1) \subseteq held /\ UsedNodes # Node
        /\ InsertRange(ListOf(b), b, num, Unused)
    BY <1>2, Zenon DEF FreeBlocksCall
  <2>4. Clear(b, num)
    BY <2>1, <2>3, HeldIsClear, Zenon
  <2>5. Unused \in Node /\ Unused \notin UsedNodes
    BY <2>3, FreeNode, Zenon
  <2> QED BY <2>1, <2>2, <2>3, <2>4, <2>5, CoalescedInsert, ZenonT(40)
<1>3. ASSUME UNCHANGED listVars PROVE Coalesced'
  <2>1. tree' = tree /\ low' = low /\ high' = high
    BY <1>3, Zenon DEF listVars
  <2> QED BY <2>1, Zenon DEF Coalesced
<1> QED BY <1>1, <1>2, <1>3, Zenon DEF Next, CallStep, Retry, NoSpace, ScanList, ScanDone,
                                      NewBlocks, FreeFails, vars

\* nova_free_blocks merges a freed run with both neighbours, and nothing else
\* brings two ranges of a list next to each other: no list ever holds two
\* ranges that one range would describe.
THEOREM RangesAreCoalesced == Spec => []Coalesced
<1>1. Init /\ IInv => Coalesced
  BY CoalescedInit, Zenon
<1>2. IInv /\ Coalesced /\ [Next]_vars => Coalesced'
  BY CoalescedStep, Zenon
<1> QED BY <1>1, <1>2, Invariance, PTL DEF Spec

-----------------------------------------------------------------------------
(* The search of nova_new_blocks *)

\* What an undisturbed caller knows: while it searches, the lists already seen
\* hold no more than the best; after the search, none holds more than its own.
FrameKnows(c) ==
    /\ c.pc = "try" => c.i = 0 /\ c.best = 0 /\ c.most = 0
    /\ c.pc = "scan" /\ c.quiet = TRUE =>
          /\ \A j \in PerCPU : j < c.i => num_free_blocks[j] <= c.most
          /\ c.most <= num_free_blocks[c.best]
    /\ c.pc = "try" /\ c.quiet = TRUE /\ c.retried > 0 =>
          \A j \in PerCPU : num_free_blocks[j] <= num_free_blocks[c.cpuid]

SearchInv == \A p \in Proc : FrameKnows(call[p])

\* Every step keeps what undisturbed callers know of the counters.
LEMMA SearchStep ==
    ASSUME IInv, SearchInv, [Next]_vars
    PROVE  SearchInv'
<1>0. /\ CPUS \in Nat \ {0} /\ 0 \in PerCPU
      /\ num_free_blocks \in [List -> Nat]
      /\ \A j \in PerCPU : j \in List /\ num_free_blocks[j] \in Nat /\ j \in Nat
  <2>1. CPUS \in Nat \ {0}
    BY SizesAssumption, Zenon
  <2>2. num_free_blocks \in [List -> Nat]
    BY Zenon DEF IInv, TypeOK
  <2> QED
    BY <2>1, <2>2 DEF PerCPU, List
<1>1. \A q \in Proc : /\ call[q] \in Frame /\ call[q].i \in Nat /\ call[q].most \in Nat
                      /\ call[q].retried \in Nat /\ call[q].best \in PerCPU
  <2>1. \A q \in Proc : call[q] \in Frame
    BY Zenon DEF IInv, TypeOK
  <2>2. \A c \in Frame : /\ c.i \in Nat /\ c.most \in Nat
                         /\ c.retried \in Nat /\ c.best \in PerCPU
    BY DEF Frame, List, MaxRetries
  <2> QED
    BY <2>1, <2>2, Zenon
\* Steps that change the lists leave every other frame disturbed.
<1>2. ASSUME NEW q \in Proc, call'[q] = Idle \/ call'[q] = [call[q] EXCEPT !.quiet = FALSE]
      PROVE  FrameKnows(call[q])'
  <2>1. CASE call'[q] = Idle
    BY <2>1 DEF FrameKnows, Idle
  <2>2. CASE call'[q] = [call[q] EXCEPT !.quiet = FALSE]
    <3>1. /\ call'[q].quiet = FALSE /\ call'[q].pc = call[q].pc /\ call'[q].i = call[q].i
          /\ call'[q].best = call[q].best /\ call'[q].most = call[q].most
      BY <2>2, <1>1, Zenon DEF Frame
    <3> QED
      BY <3>1, Zenon DEF FrameKnows, SearchInv
  <2> QED
    BY <1>2, <2>1, <2>2, Zenon
\* Steps that leave the lists alone change one frame.
<1>3. ASSUME NEW p \in Proc, UNCHANGED listVars,
             \A q \in Proc : q # p => call'[q] = call[q],
             FrameKnows(call'[p])
      PROVE  SearchInv'
  <2>1. num_free_blocks' = num_free_blocks
    BY <1>3, Zenon DEF listVars
  <2>2. \A q \in Proc : FrameKnows(call'[q])
    BY <1>3, Zenon DEF SearchInv
  <2> QED
    BY <2>1, <2>2, Zenon DEF SearchInv, FrameKnows, PerCPU
<1>4. ASSUME NEW p \in Proc, Allocate(p) PROVE SearchInv'
  <2>1. call' = Disturb(p)
    BY <1>4, Zenon DEF Allocate
  <2> QED
    BY <2>1, <1>2, Zenon DEF Disturb, SearchInv
<1>5. ASSUME NEW b, NEW num, FreeBlocksCall(b, num) PROVE SearchInv'
  <2>1. call' = [q \in Proc |-> [call[q] EXCEPT !.quiet = FALSE]]
    BY <1>5, Zenon DEF FreeBlocksCall
  <2> QED
    BY <2>1, <1>2, Zenon DEF SearchInv
<1>6. ASSUME NEW p \in Proc, NEW new, call' = [call EXCEPT ![p] = new],
             UNCHANGED listVars, FrameKnows(new)
      PROVE  SearchInv'
  <2>1. call'[p] = new /\ \A q \in Proc : q # p => call'[q] = call[q]
    BY <1>6, Zenon DEF IInv, TypeOK
  <2> QED
    BY <2>1, <1>6, <1>3, Zenon
<1>7. ASSUME NEW p \in Proc, Retry(p) PROVE SearchInv'
  <2> DEFINE new == [call[p] EXCEPT !.pc = "scan"]
  <2>1. call' = [call EXCEPT ![p] = new] /\ UNCHANGED listVars /\ call[p].pc = "try"
    BY <1>7, Zenon DEF Retry, TooSmall
  <2>2. call[p].i = 0 /\ call[p].best = 0 /\ call[p].most = 0
    BY <2>1, Zenon DEF SearchInv, FrameKnows
  <2>3. new.pc = "scan" /\ new.i = 0 /\ new.best = 0 /\ new.most = 0
    BY <2>2, <1>1, Zenon DEF Frame
  <2> HIDE DEF new
  <2>4. FrameKnows(new)
    BY <2>3, <1>0 DEF FrameKnows
  <2> QED
    BY <2>1, <2>4, <1>6, Zenon
<1>8. ASSUME NEW p \in Proc, NoSpace(p) PROVE SearchInv'
  <2>1. FrameKnows(Idle)
    BY Zenon DEF FrameKnows, Idle
  <2> QED
    BY <2>1, <1>8, <1>6, Zenon DEF NoSpace
<1>9. ASSUME NEW p \in Proc, ScanList(p) PROVE SearchInv'
  <2> DEFINE better == num_free_blocks[call[p].i] > call[p].most
             new == [call[p] EXCEPT
                       !.i = call[p].i + 1,
                       !.best = IF better THEN call[p].i ELSE call[p].best,
                       !.most = IF better THEN num_free_blocks[call[p].i]
                                          ELSE call[p].most]
  <2>1. call[p].pc = "scan" /\ call[p].i < CPUS /\ UNCHANGED listVars
    BY <1>9, Zenon DEF ScanList
  <2>2. call' = [call EXCEPT ![p] = new]
    BY <1>9, <1>1, Zenon DEF ScanList, Frame, IInv, TypeOK
  <2>3. call[p].i \in PerCPU
    BY <2>1, <1>0, <1>1 DEF PerCPU
  <2>4. /\ new.pc = "scan" /\ new.i = call[p].i + 1 /\ new.quiet = call[p].quiet
        /\ new.best = IF better THEN call[p].i ELSE call[p].best
        /\ new.most = IF better THEN num_free_blocks[call[p].i] ELSE call[p].most
    BY <2>1, <1>1, Zenon DEF Frame
  <2>5. call[p].quiet = TRUE =>
          /\ \A j \in PerCPU : j < call[p].i => num_free_blocks[j] <= call[p].most
          /\ call[p].most <= num_free_blocks[call[p].best]
    BY <2>1, Zenon DEF SearchInv, FrameKnows
  <2> HIDE DEF new
  <2>6. ASSUME call[p].quiet = TRUE
        PROVE  /\ \A j \in PerCPU : j < new.i => num_free_blocks[j] <= new.most
               /\ new.most <= num_free_blocks[new.best]
    <3>1. \A j \in PerCPU : j < new.i => j < call[p].i \/ j = call[p].i
      BY <2>4, <1>0, <1>1
    <3>2. num_free_blocks[call[p].i] \in Nat /\ call[p].most \in Nat
      BY <2>3, <1>0, <1>1, Zenon
    <3>3. CASE better
      BY <2>4, <2>5, <2>6, <3>1, <3>2, <3>3, <1>0, SMTT(40)
    <3>4. CASE ~better
      BY <2>4, <2>5, <2>6, <3>1, <3>2, <3>4, <1>0, SMTT(40)
    <3> QED
      BY <3>3, <3>4, Zenon
  <2>7. FrameKnows(new)
    BY <2>4, <2>6, Zenon DEF FrameKnows
  <2> QED
    BY <2>1, <2>2, <2>7, <1>6, Zenon
<1>10. ASSUME NEW p \in Proc, ScanDone(p) PROVE SearchInv'
  <2> DEFINE new == [call[p] EXCEPT !.pc = "try", !.cpuid = call[p].best,
                                    !.retried = call[p].retried + 1,
                                    !.i = 0, !.best = 0, !.most = 0]
  <2>1. /\ call[p].pc = "scan" /\ call[p].i = CPUS /\ UNCHANGED listVars
        /\ call' = [call EXCEPT ![p] = new]
    BY <1>10, Zenon DEF ScanDone
  <2>2. /\ new.pc = "try" /\ new.i = 0 /\ new.best = 0 /\ new.most = 0
        /\ new.cpuid = call[p].best /\ new.quiet = call[p].quiet
    BY <1>1, Zenon DEF Frame
  <2>3. call[p].quiet = TRUE =>
          /\ \A j \in PerCPU : j < call[p].i => num_free_blocks[j] <= call[p].most
          /\ call[p].most <= num_free_blocks[call[p].best]
    BY <2>1, Zenon DEF SearchInv, FrameKnows
  <2>4. \A j \in PerCPU : j < call[p].i
    BY <2>1, <1>0 DEF PerCPU
  <2> HIDE DEF new
  <2>5. call[p].quiet = TRUE =>
          \A j \in PerCPU : num_free_blocks[j] <= num_free_blocks[new.cpuid]
    BY <2>2, <2>3, <2>4, <1>0, <1>1, SMTT(40)
  <2>6. FrameKnows(new)
    BY <2>2, <2>5, Zenon DEF FrameKnows
  <2> QED
    BY <2>1, <2>6, <1>6, Zenon
<1>11. ASSUME NEW p \in Proc, NEW cpuid \in PerCPU, NEW num, NewBlocks(p, cpuid, num)
       PROVE  SearchInv'
  <2> DEFINE new == [Idle EXCEPT !.pc = "try", !.num = num,
                                 !.cpuid = cpuid, !.quiet = TRUE]
  <2>1. call' = [call EXCEPT ![p] = new] /\ UNCHANGED listVars
    BY <1>11, Zenon DEF NewBlocks
  <2>2. new.pc = "try" /\ new.i = 0 /\ new.best = 0 /\ new.most = 0 /\ new.retried = 0
    BY Zenon DEF Idle
  <2> HIDE DEF new
  <2>3. FrameKnows(new)
    BY <2>2 DEF FrameKnows
  <2> QED
    BY <2>1, <2>3, <1>6, Zenon
<1>12. ASSUME UNCHANGED <<listVars, call>> PROVE SearchInv'
  BY <1>12, Zenon DEF SearchInv, FrameKnows, listVars, PerCPU
<1>13. ASSUME NEW b, NEW num, FreeFails(b, num) PROVE SearchInv'
  BY <1>12, <1>13, Zenon DEF FreeFails
<1>14. CASE UNCHANGED vars
  BY <1>12, <1>14, Zenon DEF vars
<1> QED
  BY <1>4, <1>5, <1>7, <1>8, <1>9, <1>10, <1>11, <1>13, <1>14, ZenonT(40) DEF Next, CallStep

\* A call of nova_new_blocks that no other call disturbed returns -ENOSPC only
\* when no per-CPU list can serve it, for any number of CPUs.
THEOREM EnospcIsJustified == Spec => []EnospcJustified
<1>1. Init => SearchInv
  BY DEF Init, SearchInv, FrameKnows, Idle
<1>2. IInv /\ SearchInv /\ [Next]_vars => SearchInv'
  BY SearchStep, Zenon
<1>3. IInv /\ SearchInv => EnospcJustified
  <2> SUFFICES ASSUME IInv, SearchInv, NEW p \in Proc, TooSmall(p),
                      call[p].retried >= MaxRetries, call[p].quiet,
                      NEW l \in PerCPU
               PROVE  num_free_blocks[l] < call[p].num
    BY Zenon DEF EnospcJustified
  <2>0. CPUS \in Nat /\ MaxRequest \in Nat
    BY SizesAssumption, Zenon
  <2>1. call[p].pc = "try" /\ num_free_blocks[call[p].cpuid] < call[p].num
    BY Zenon DEF TooSmall
  <2>2. call[p] \in Frame
    BY Zenon DEF IInv, TypeOK
  <2>3. /\ call[p].quiet = TRUE /\ call[p].retried \in 0 .. MaxRetries
        /\ call[p].cpuid \in PerCPU /\ call[p].num \in 1 .. MaxRequest
    BY <2>2, Zenon DEF Frame
  <2>4. call[p].retried > 0
    BY <2>3 DEF MaxRetries
  <2>5. num_free_blocks[l] <= num_free_blocks[call[p].cpuid]
    BY <2>1, <2>3, <2>4, Zenon DEF SearchInv, FrameKnows
  <2>6. num_free_blocks[l] \in Nat /\ num_free_blocks[call[p].cpuid] \in Nat
    BY <2>0, <2>3 DEF IInv, TypeOK, PerCPU, List
  <2> QED
    BY <2>0, <2>1, <2>3, <2>5, <2>6, SMTT(40)
<1> QED
  BY <1>1, <1>2, <1>3, Invariance, PTL DEF Spec

=============================================================================

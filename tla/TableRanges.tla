---------------------------- MODULE TableRanges -----------------------------
(***************************************************************************)
(* The ranges of inode numbers that a map of InodeTable has in use: they   *)
(* stay apart and counted when nova_alloc_unused_inode gives a number out  *)
(* and nova_free_inuse_inode takes one back.                               *)
(***************************************************************************)
EXTENDS TableInvariants, FiniteSetTheorems, WellFoundedInduction, TLAPS

-----------------------------------------------------------------------------
(* Ranges                                                                  *)

\* The numbers of a map.
LEMMA MaxInode == MAX_INODE \in Nat
  BY TableAssumption

\* A number of a map, and the one before it.
LEMMA BelowMax ==
    /\ \A n \in 0 .. MAX_INODE - 1 : n \in Nat
    /\ \A n \in Nat : 0 < n /\ n < MAX_INODE - 1 =>
         /\ n # 0 /\ n \in 0 .. MAX_INODE - 1
         /\ n - 1 \in Nat /\ (n - 1) + 1 = n /\ n - 1 \in 0 .. MAX_INODE - 1
         /\ n - 1 < MAX_INODE
  BY MaxInode

\* Storing the value that a function has.
LEMMA SameValue ==
    ASSUME NEW D, NEW V, NEW f \in [D -> V], NEW x
    PROVE  [f EXCEPT ![x] = f[x]] = f
  OBVIOUS

\* The ends of a range are numbers.
LEMMA RangeEnds ==
    ASSUME NEW S, Sound(S), NEW r \in S
    PROVE  /\ r[1] \in 0 .. MAX_INODE /\ r[2] \in 0 .. MAX_INODE /\ r = <<r[1], r[2]>>
           /\ r[1] <= r[2] /\ r[2] < MAX_INODE - 1
  BY DEF Sound

\* A set of ranges has a first one.
LEMMA LowestRange ==
    ASSUME NEW S, Sound(S), S # {}
    PROVE  \E r \in S : \A s \in S : r[1] <= s[1]
<1> DEFINE lows == {r[1] : r \in S}
           R == {ss \in Nat \X Nat : ss[1] < ss[2]}
<1>1. lows \in SUBSET Nat
  <2>1. ASSUME NEW r \in S PROVE r[1] \in Nat
    BY RangeEnds, MaxInode
  <2> QED BY <2>1, Zenon
<1>2. lows # {}
  BY Zenon
<1>3. IsWellFoundedOn(R, Nat)
  BY NatLessThanWellFounded, Zenon DEF OpToRel
<1>4. PICK m \in lows : \A k \in lows : ~ (<<k, m>> \in R)
  BY <1>1, <1>2, <1>3, WFMin, Zenon
<1>5. ASSUME NEW k \in lows PROVE m <= k
  <2>1. k \in Nat /\ m \in Nat
    BY <1>1, Zenon
  <2>2. ~ (k < m)
    BY <1>4, <2>1, Zenon
  <2> QED BY <2>1, <2>2
<1> QED BY <1>5, Zenon

\* A range may be taken out,
LEMMA DropRange ==
    ASSUME NEW S, Sound(S), NEW r \in S
    PROVE  /\ Sound(S \ {r}) /\ Cardinality(S \ {r}) = Cardinality(S) - 1
           /\ \A s \in S \ {r} : Apart(r, s)
<1>1. IsFiniteSet(S)
  BY Zenon DEF Sound
<1>2. IsFiniteSet(S \ {r}) /\ Cardinality(S \ {r}) = Cardinality(S) - 1
  BY <1>1, FS_RemoveElement, Zenon
<1> QED BY <1>2, Zenon DEF Sound

\* and one that meets no other may be put in.
LEMMA AddRange ==
    ASSUME NEW S, Sound(S), NEW a \in Nat, NEW b \in Nat, a <= b, b < MAX_INODE - 1,
           \A s \in S : Apart(<<a, b>>, s)
    PROVE  /\ Sound(S \cup {<<a, b>>})
           /\ Cardinality(S \cup {<<a, b>>}) = Cardinality(S) + 1
<1> DEFINE q == <<a, b>>
<1>1. /\ q \in (0 .. MAX_INODE) \X (0 .. MAX_INODE) /\ q[1] = a /\ q[2] = b
  BY MaxInode
<1>2. q \notin S
  <2>1. SUFFICES ASSUME q \in S PROVE FALSE
    BY Zenon
  <2>2. Apart(q, q)
    BY <2>1, Zenon
  <2> QED BY <1>1, <2>2, SMTT(40) DEF Apart
<1>3. IsFiniteSet(S)
  BY Zenon DEF Sound
<1>4. IsFiniteSet(S \cup {q}) /\ Cardinality(S \cup {q}) = Cardinality(S) + 1
  BY <1>2, <1>3, FS_AddElement, Zenon
<1>5. \A s \in S : Apart(q, s) /\ Apart(s, q)
  BY DEF Apart
<1> HIDE DEF q
<1>6. ASSUME NEW r \in S \cup {q}, NEW s \in S \cup {q}, r # s PROVE Apart(r, s)
  BY <1>5, <1>6, Zenon DEF Sound
<1>7. \A r \in S \cup {q} : r[1] <= r[2] /\ r[2] < MAX_INODE - 1
  BY <1>1 DEF Sound
<1>8. S \cup {q} \subseteq (0 .. MAX_INODE) \X (0 .. MAX_INODE)
  BY <1>1, Zenon DEF Sound
<1>9. Sound(S \cup {q})
  BY <1>4, <1>6, <1>7, <1>8, ZenonT(40) DEF Sound
<1> QED BY <1>4, <1>9, Zenon DEF q

\* The numbers in a set of ranges.
Covered(S) == UNION {r[1] .. r[2] : r \in S}

\* A number that is covered is in one of the ranges.
LEMMA CoveredBy ==
    ASSUME NEW S, NEW m
    PROVE  m \in Covered(S) <=> \E r \in S : m \in r[1] .. r[2]
  BY Zenon DEF Covered

\* What is left of the range r when n is taken from it.
Below(r, n) == IF r[1] < n THEN {<<r[1], n - 1>>} ELSE {}
Above(r, n) == IF n < r[2] THEN {<<n + 1, r[2]>>} ELSE {}

Split(S, r, n) == (S \ {r}) \cup Below(r, n) \cup Above(r, n)

\* A range that gives up one of its numbers leaves what is on either side of it.
LEMMA SplitRange ==
    ASSUME NEW S, Sound(S), NEW r \in S, NEW n \in r[1] .. r[2]
    PROVE  /\ Sound(Split(S, r, n)) /\ Covered(Split(S, r, n)) = Covered(S) \ {n}
           /\ Cardinality(Split(S, r, n))
                = Cardinality(S) - 1 + Cardinality(Below(r, n)) + Cardinality(Above(r, n))
<1> DEFINE left == Below(r, n)  right == Above(r, n)
           T0 == S \ {r}  T1 == T0 \cup left  T == T1 \cup right
           lo == r[1]  hi == r[2]
<1>1. /\ lo \in Nat /\ hi \in Nat /\ n \in Nat /\ lo <= n /\ n <= hi /\ hi < MAX_INODE - 1
      /\ r = <<lo, hi>> /\ MAX_INODE \in Nat
  <2>1. lo \in 0 .. MAX_INODE /\ hi \in 0 .. MAX_INODE /\ hi < MAX_INODE - 1 /\ r = <<lo, hi>>
    BY RangeEnds, Zenon
  <2> QED BY <2>1, MaxInode
<1>2. /\ Sound(T0) /\ Cardinality(T0) = Cardinality(S) - 1
      /\ \A s \in T0 : Apart(r, s)
  BY DropRange, Zenon
<1>3. \A s \in T0 : s[1] \in Nat /\ s[2] \in Nat /\ s[1] <= s[2]
  BY <1>2, RangeEnds, MaxInode DEF Sound
<1>4. Cardinality(T0) \in Nat /\ Cardinality(S) \in Nat
  BY <1>2, FS_CardinalityType, Zenon DEF Sound
<1>5. Cardinality({}) = 0 /\ \A x : Cardinality({x}) = 1
  BY FS_EmptySet, FS_Singleton, Zenon
<1> HIDE DEF left, right, T0, T1, T, lo, hi
<1>6. Sound(T1) /\ Cardinality(T1) = Cardinality(T0) + Cardinality(left)
  <2>1. CASE lo < n
    <3>1. left = {<<lo, n - 1>>} /\ Cardinality(left) = 1
      BY <1>5, <2>1, Zenon DEF lo, left, Below
    <3>2. lo <= n - 1 /\ n - 1 \in Nat /\ n - 1 < MAX_INODE - 1
      BY <1>1, <2>1, SMTT(40)
    <3>3. ASSUME NEW s \in T0 PROVE Apart(<<lo, n - 1>>, s)
      <4>1. Apart(r, s)
        BY <1>2
      <4> QED BY <1>1, <1>3, <4>1, SMTT(40) DEF Apart, lo, hi
    <3>4. Sound(T0 \cup {<<lo, n - 1>>}) /\ Cardinality(T0 \cup {<<lo, n - 1>>}) = Cardinality(T0) + 1
      BY <1>1, <1>2, <3>2, <3>3, AddRange, ZenonT(40)
    <3> QED BY <3>1, <3>4, Zenon DEF T1
  <2>2. CASE ~ (lo < n)
    <3>1. left = {} /\ Cardinality(left) = 0
      BY <1>5, <2>2, Zenon DEF lo, left, Below
    <3>2. T1 = T0
      BY <3>1, ZenonT(40) DEF T1
    <3> QED BY <1>2, <1>4, <3>1, <3>2, SMTT(40)
  <2> QED BY <2>1, <2>2, ZenonT(40)
<1>7. \A s \in left : s = <<lo, n - 1>>
  BY Zenon DEF lo, left, Below
<1>8. \A s \in right : s = <<n + 1, hi>>
  BY Zenon DEF hi, right, Above
<1>9. Cardinality(T1) \in Nat /\ Cardinality(left) \in Nat
  <2>1. Cardinality(T1) \in Nat
    BY <1>6, FS_CardinalityType, Zenon DEF Sound
  <2>2. left = {} \/ left = {<<lo, n - 1>>}
    BY Zenon DEF lo, left, Below
  <2>3. Cardinality(left) \in {0, 1}
    BY <1>5, <2>2, Zenon
  <2> QED BY <2>1, <2>3
<1>10. Sound(T) /\ Cardinality(T) = Cardinality(T1) + Cardinality(right)
  <2>1. CASE n < hi
    <3>1. right = {<<n + 1, hi>>} /\ Cardinality(right) = 1
      BY <1>5, <2>1, Zenon DEF hi, right, Above
    <3>2. n + 1 <= hi /\ n + 1 \in Nat
      BY <1>1, <2>1, SMTT(40)
    <3>3. ASSUME NEW s \in T1 PROVE Apart(<<n + 1, hi>>, s)
      <4>1. CASE s \in T0
        <5>1. Apart(r, s)
          BY <1>2, <4>1, ZenonT(40)
        <5> QED BY <1>1, <1>3, <4>1, <5>1, SMTT(40) DEF Apart, lo, hi
      <4>2. CASE s = <<lo, n - 1>>
        BY <1>1, <4>2 DEF Apart
      <4> QED BY <1>7, <4>1, <4>2, ZenonT(40) DEF T1
    <3>4. Sound(T1 \cup {<<n + 1, hi>>}) /\ Cardinality(T1 \cup {<<n + 1, hi>>}) = Cardinality(T1) + 1
      BY <1>1, <1>6, <3>2, <3>3, AddRange, ZenonT(40)
    <3> QED BY <3>1, <3>4, Zenon DEF T
  <2>2. CASE ~ (n < hi)
    <3>1. right = {} /\ Cardinality(right) = 0
      BY <1>5, <2>2, ZenonT(40) DEF hi, right, Above
    <3>2. T = T1
      BY <3>1, Zenon DEF T
    <3> QED BY <1>6, <1>9, <3>1, <3>2, SMTT(40)
  <2> QED BY <2>1, <2>2, Zenon
<1>11. Cardinality(T) = Cardinality(S) - 1 + Cardinality(left) + Cardinality(right)
  BY <1>2, <1>6, <1>10, ZenonT(40)
<1>12. ASSUME NEW m PROVE m \in Covered(T) <=> m \in Covered(S) /\ m # n
  <2>1. ASSUME NEW s \in T, m \in s[1] .. s[2] PROVE m # n /\ \E q \in S : m \in q[1] .. q[2]
    <3>1. CASE s \in T0
      <4>1. Apart(r, s) /\ s \in S
        BY <1>2, <3>1, ZenonT(40) DEF T0
      <4>2. m # n
        BY <1>1, <1>3, <2>1, <3>1, <4>1, SMTT(40) DEF Apart, lo, hi
      <4> QED BY <2>1, <4>1, <4>2, Zenon
    <3>2. CASE s = <<lo, n - 1>> \/ s = <<n + 1, hi>>
      <4>1. m # n /\ m \in r[1] .. r[2]
        BY <1>1, <2>1, <3>2, SMTT(40) DEF lo, hi
      <4> QED BY <4>1, Zenon
    <3> QED BY <1>7, <1>8, <3>1, <3>2, ZenonT(40) DEF T, T1
  <2>2. ASSUME NEW s \in S, m \in s[1] .. s[2], m # n PROVE \E q \in T : m \in q[1] .. q[2]
    <3>1. CASE s # r
      BY <2>2, <3>1, Zenon DEF T, T1, T0
    <3>2. CASE s = r
      <4>1. m \in Nat /\ lo <= m /\ m <= hi /\ m # n
        BY <1>1, <2>2, <3>2, SMTT(40) DEF lo, hi
      <4>2. CASE m < n
        <5>1. lo < n /\ m \in lo .. n - 1
          BY <1>1, <4>1, <4>2, SMTT(40)
        <5>2. <<lo, n - 1>> \in T
          BY <5>1, Zenon DEF T, T1, lo, left, Below
        <5> QED BY <5>1, <5>2, Zenon
      <4>3. CASE n < m
        <5>1. n < hi /\ m \in n + 1 .. hi
          BY <1>1, <4>1, <4>3, SMTT(40)
        <5>2. <<n + 1, hi>> \in T
          BY <5>1, Zenon DEF T, hi, right, Above
        <5> QED BY <5>1, <5>2, Zenon
      <4> QED BY <1>1, <4>1, <4>2, <4>3, SMTT(40)
    <3> QED BY <3>1, <3>2, Zenon
  <2> QED BY <2>1, <2>2, CoveredBy, Zenon
<1>13. Covered(T) = Covered(S) \ {n}
  BY <1>12, ZenonT(40)
<1>14. T = Split(S, r, n)
  BY Zenon DEF T, T1, T0, left, right, Split
<1> QED BY <1>10, <1>11, <1>13, <1>14, ZenonT(40) DEF left, right

\* A range that ends two before the next one becomes one with it.
LEMMA MergeRange ==
    ASSUME NEW S, Sound(S), NEW i \in S, NEW x \in S, i # x, i[2] + 2 = x[1],
           NEW T, T = ((S \ {i}) \ {x}) \cup {<<i[1], x[2]>>}
    PROVE  /\ Sound(T) /\ Cardinality(T) = Cardinality(S) - 1
           /\ \A m : m \in Covered(T) <=> m \in Covered(S) \/ m = i[2] + 1
           /\ i[2] + 1 \notin Covered(S) /\ i[2] + 1 < MAX_INODE - 1
<1> DEFINE T0 == S \ {i}  T1 == T0 \ {x}  new == i[2] + 1
<1>1. /\ i[1] \in Nat /\ i[2] \in Nat /\ i[1] <= i[2] /\ x[1] \in Nat /\ x[2] \in Nat
      /\ x[1] <= x[2] /\ x[2] < MAX_INODE - 1 /\ MAX_INODE \in Nat
  BY RangeEnds, MaxInode
<1>2. /\ Sound(T0) /\ Cardinality(T0) = Cardinality(S) - 1 /\ x \in T0
      /\ \A s \in T0 : Apart(i, s)
  BY DropRange, Zenon
<1>3. /\ Sound(T1) /\ Cardinality(T1) = Cardinality(T0) - 1 /\ \A s \in T1 : Apart(x, s)
  BY <1>2, DropRange, Zenon
<1>4. Cardinality(S) \in Nat /\ Cardinality(T1) \in Nat
  <2>1. IsFiniteSet(S) /\ IsFiniteSet(T1)
    BY <1>3, Zenon DEF Sound
  <2> QED BY <2>1, FS_CardinalityType, Zenon
<1>5. \A s \in S : s[1] \in Nat /\ s[2] \in Nat /\ s[1] <= s[2]
  BY RangeEnds, MaxInode
<1>6. \A s \in T1 : s \in S /\ Apart(i, s) /\ Apart(x, s)
  BY <1>2, <1>3, Zenon
<1>7. \A s \in S : s \in T1 \/ s = i \/ s = x
  BY Zenon
<1>8. T = T1 \cup {<<i[1], x[2]>>}
  BY Zenon
<1> HIDE DEF T0, T1
<1>9. \A s \in T1 : Apart(<<i[1], x[2]>>, s)
  <2>1. SUFFICES ASSUME NEW s \in T1 PROVE Apart(<<i[1], x[2]>>, s)
    BY Zenon
  <2>2. /\ s[1] \in Nat /\ s[2] \in Nat /\ s[1] <= s[2] /\ Apart(i, s) /\ Apart(x, s)
    BY <1>5, <1>6, Zenon
  <2> QED BY <1>1, <2>2 DEF Apart
<1>10. Sound(T) /\ Cardinality(T) = Cardinality(T1) + 1
  <2>1. i[1] <= x[2]
    BY <1>1
  <2>2. /\ Sound(T1 \cup {<<i[1], x[2]>>})
        /\ Cardinality(T1 \cup {<<i[1], x[2]>>}) = Cardinality(T1) + 1
    BY <1>1, <1>3, <1>9, <2>1, AddRange, ZenonT(40)
  <2> QED BY <1>8, <2>2, ZenonT(40)
<1>11. Cardinality(T) = Cardinality(S) - 1
  BY <1>2, <1>3, <1>4, <1>10, SMTT(40)
<1>12. ASSUME NEW m PROVE m \in Covered(T) <=> m \in Covered(S) \/ m = new
  <2>1. ASSUME NEW s \in T, m \in s[1] .. s[2], m # new PROVE \E q \in S : m \in q[1] .. q[2]
    <3>1. CASE s \in T1
      BY <1>6, <2>1, <3>1, Zenon
    <3>2. CASE s = <<i[1], x[2]>>
      <4>1. m \in i[1] .. i[2] \/ m \in x[1] .. x[2]
        BY <1>1, <2>1, <3>2
      <4> QED BY <4>1, Zenon
    <3> QED BY <1>8, <3>1, <3>2, Zenon
  <2>2. ASSUME NEW s \in S, m \in s[1] .. s[2] PROVE \E q \in T : m \in q[1] .. q[2]
    <3>1. CASE s \in T1
      BY <1>8, <2>2, <3>1, Zenon
    <3>2. CASE s = i \/ s = x
      <4> DEFINE q == <<i[1], x[2]>>
      <4>1. q \in T /\ m \in q[1] .. q[2]
        BY <1>1, <1>8, <2>2, <3>2
      <4> QED BY <4>1, Zenon
    <3> QED BY <1>7, <2>2, <3>1, <3>2, Zenon
  <2>3. \E q \in T : new \in q[1] .. q[2]
    <3> DEFINE q == <<i[1], x[2]>>
    <3>1. q \in T /\ new \in q[1] .. q[2]
      BY <1>1, <1>8
    <3> QED BY <3>1, Zenon
  <2> QED BY <2>1, <2>2, <2>3, CoveredBy, ZenonT(40)
<1>13. new \notin Covered(S)
  <2>1. ASSUME NEW s \in S, new \in s[1] .. s[2] PROVE FALSE
    <3>1. CASE s = i \/ s = x
      BY <1>1, <2>1, <3>1
    <3>2. CASE s \in T1
      <4>1. /\ s[1] \in Nat /\ s[2] \in Nat /\ Apart(i, s)
        BY <1>5, <1>6, <3>2, Zenon
      <4> QED BY <1>1, <2>1, <4>1 DEF Apart
    <3> QED BY <1>7, <2>1, <3>1, <3>2, Zenon
  <2> QED BY <2>1, CoveredBy, Zenon
<1>14. new < MAX_INODE - 1
  BY <1>1
<1> QED BY <1>10, <1>11, <1>12, <1>13, <1>14, ZenonT(40)

\* A range that ends earlier than that grows by one.
LEMMA GrowRange ==
    ASSUME NEW S, Sound(S), NEW i \in S, i[2] + 1 < MAX_INODE - 1,
           \A s \in S \ {i} : i[2] + 2 < s[1],
           NEW T, T = (S \ {i}) \cup {<<i[1], i[2] + 1>>}
    PROVE  /\ Sound(T) /\ Cardinality(T) = Cardinality(S)
           /\ \A m : m \in Covered(T) <=> m \in Covered(S) \/ m = i[2] + 1
           /\ i[2] + 1 \notin Covered(S)
<1> DEFINE T0 == S \ {i}  new == i[2] + 1
<1>1. i[1] \in Nat /\ i[2] \in Nat /\ i[1] <= i[2] /\ MAX_INODE \in Nat /\ new \in Nat
  BY RangeEnds, MaxInode
<1>2. Sound(T0) /\ Cardinality(T0) = Cardinality(S) - 1
  BY DropRange, Zenon
<1>3. Cardinality(S) \in Nat /\ Cardinality(T0) \in Nat
  BY <1>2, FS_CardinalityType, ZenonT(40) DEF Sound
<1>4. \A s \in T0 : s[1] \in Nat /\ s[2] \in Nat /\ s[1] <= s[2] /\ i[2] + 2 < s[1]
  <2>1. \A s \in S : s[1] \in Nat /\ s[2] \in Nat /\ s[1] <= s[2]
    BY RangeEnds, MaxInode, SMTT(40)
  <2> QED BY <2>1, Zenon
<1>5. (\A s \in S : s \in T0 \/ s = i) /\ (\A s \in T0 : s \in S) /\ T = T0 \cup {<<i[1], new>>}
  BY Zenon
<1> HIDE DEF T0
<1>6. \A s \in T0 : Apart(<<i[1], new>>, s)
  BY <1>1, <1>4 DEF Apart
<1>7. Sound(T) /\ Cardinality(T) = Cardinality(T0) + 1
  <2>1. i[1] <= new /\ new < MAX_INODE - 1
    BY <1>1
  <2> HIDE DEF new
  <2>2. /\ Sound(T0 \cup {<<i[1], new>>})
        /\ Cardinality(T0 \cup {<<i[1], new>>}) = Cardinality(T0) + 1
    BY <1>1, <1>2, <1>6, <2>1, AddRange, ZenonT(40)
  <2> QED BY <1>5, <2>2, ZenonT(40)
<1>8. ASSUME NEW m PROVE m \in Covered(T) <=> m \in Covered(S) \/ m = new
  <2>1. ASSUME NEW s \in T, m \in s[1] .. s[2], m # new PROVE \E q \in S : m \in q[1] .. q[2]
    <3>1. CASE s \in T0
      BY <1>5, <2>1, <3>1, Zenon
    <3>2. CASE s = <<i[1], new>>
      <4>1. m \in i[1] .. i[2]
        BY <1>1, <2>1, <3>2
      <4> QED BY <4>1, Zenon
    <3> QED BY <1>5, <3>1, <3>2, Zenon
  <2>2. ASSUME NEW s \in S, m \in s[1] .. s[2] PROVE \E q \in T : m \in q[1] .. q[2]
    <3>1. CASE s \in T0
      BY <1>5, <2>2, <3>1, Zenon
    <3>2. CASE s = i
      <4> DEFINE q == <<i[1], new>>
      <4>1. q \in T /\ m \in q[1] .. q[2]
        BY <1>1, <1>5, <2>2, <3>2
      <4> QED BY <4>1, Zenon
    <3> QED BY <1>5, <2>2, <3>1, <3>2, Zenon
  <2>3. \E q \in T : new \in q[1] .. q[2]
    <3> DEFINE q == <<i[1], new>>
    <3>1. q \in T /\ new \in q[1] .. q[2]
      BY <1>1, <1>5
    <3> QED BY <3>1, Zenon
  <2> QED BY <2>1, <2>2, <2>3, CoveredBy, Zenon
<1>9. new \notin Covered(S)
  <2>1. ASSUME NEW s \in S, new \in s[1] .. s[2] PROVE FALSE
    BY <1>1, <1>4, <1>5, <2>1, SMTT(40)
  <2> QED BY <2>1, CoveredBy, Zenon
<1>10. Cardinality(T) = Cardinality(S)
  BY <1>2, <1>3, <1>7, SMTT(40)
<1> QED BY <1>7, <1>8, <1>9, <1>10, Zenon
\* FirstRange is one of the ranges.
LEMMA FirstIsLowest ==
    ASSUME NEW c \in Maps, Sound(inuse[c]), inuse[c] # {}
    PROVE  FirstRange(c) \in inuse[c] /\ \A s \in inuse[c] : FirstRange(c)[1] <= s[1]
<1>1. \E r \in inuse[c] : \A s \in inuse[c] : r[1] <= s[1]
  BY LowestRange, Zenon
<1> QED BY <1>1, Zenon DEF FirstRange

\* The number n is taken from the ranges of c, and nothing else.
Freed(c, n, f) ==
    /\ Sound(f.ranges) /\ f.nodes = Cardinality(f.ranges)
    /\ Covered(inuse[c]) \ {n} \subseteq Covered(f.ranges)
    /\ Covered(f.ranges) \subseteq Covered(inuse[c])
    /\ f.dangling = dangling \/ f.dangling = dangling \cup {c}
    /\ c \notin f.dangling => f.ranges # {}

\* nova_free_inuse_inode does that.
LEMMA FreedNumber ==
    ASSUME NEW c \in Maps, Ranges(c), NEW n \in Nat, NEW oom,
           NEW f, f = nova_free_inuse_inode(c, n, oom)
    PROVE  Freed(c, n, f)
<1> DEFINE holding == {r \in inuse[c] : n \in r[1] .. r[2]}
           r == CHOOSE s \in holding : TRUE
           left == IF r[1] < n THEN {<<r[1], n - 1>>} ELSE {}
           right == IF n < r[2] THEN {<<n + 1, r[2]>>} ELSE {}
<1>1. Sound(inuse[c]) /\ nodes[c] = Cardinality(inuse[c]) /\ (c \notin dangling => inuse[c] # {})
  BY Zenon DEF Ranges
<1>2. CASE holding = {} \/ (oom /\ left # {} /\ right # {})
  <2>1. f = [ranges |-> inuse[c], nodes |-> nodes[c], dangling |-> dangling]
    BY <1>2 DEF nova_free_inuse_inode
  <2>2. f.ranges = inuse[c] /\ f.nodes = nodes[c] /\ f.dangling = dangling
    BY <2>1
  <2> QED BY <1>1, <2>2, ZenonT(40) DEF Freed
<1>3. CASE holding # {} /\ ~ (oom /\ left # {} /\ right # {})
  <2>1. r \in inuse[c] /\ n \in r[1] .. r[2]
    BY <1>3, ZenonT(40)
  <2> DEFINE T == (inuse[c] \ {r}) \cup left \cup right
  <2>2. f = [ranges |-> T, nodes |-> nodes[c] - 1 + Cardinality(left) + Cardinality(right),
             dangling |-> IF r = FirstRange(c) /\ left \cup right = {}
                          THEN dangling \cup {c} ELSE dangling]
    BY <1>3 DEF nova_free_inuse_inode
  <2> HIDE DEF holding, r
  <2>a. left = Below(r, n) /\ right = Above(r, n)
    BY Zenon DEF Below, Above
  <2> HIDE DEF left, right
  <2>b. T = Split(inuse[c], r, n)
    BY <2>a, Zenon DEF Split
  <2>3. /\ Sound(T) /\ Covered(T) = Covered(inuse[c]) \ {n}
        /\ Cardinality(T) = Cardinality(inuse[c]) - 1 + Cardinality(left) + Cardinality(right)
    <3>1. /\ Sound(Split(inuse[c], r, n))
          /\ Covered(Split(inuse[c], r, n)) = Covered(inuse[c]) \ {n}
          /\ Cardinality(Split(inuse[c], r, n))
               = Cardinality(inuse[c]) - 1 + Cardinality(Below(r, n)) + Cardinality(Above(r, n))
      BY <1>1, <2>1, SplitRange, SMTT(40)
    <3> QED BY <2>a, <2>b, <3>1, Zenon
  <2>4. /\ f.ranges = T /\ f.nodes = nodes[c] - 1 + Cardinality(left) + Cardinality(right)
        /\ f.dangling = IF r = FirstRange(c) /\ left \cup right = {}
                        THEN dangling \cup {c} ELSE dangling
    BY <2>2
  <2>5. ASSUME c \notin f.dangling PROVE T # {}
    <3>1. CASE left \cup right # {}
      BY <3>1, Zenon
    <3>2. CASE r # FirstRange(c)
      <4>1. FirstRange(c) \in inuse[c]
        BY <1>1, <2>1, FirstIsLowest, Zenon
      <4> QED BY <3>2, <4>1, Zenon
    <3> QED BY <2>4, <2>5, <3>1, <3>2, Zenon
  <2>6. f.dangling = dangling \/ f.dangling = dangling \cup {c}
    BY <2>4, ZenonT(40)
  <2> HIDE DEF T
  <2> QED BY <1>1, <2>3, <2>4, <2>5, <2>6, ZenonT(40) DEF Freed
<1> QED BY <1>2, <1>3, Zenon
-----------------------------------------------------------------------------
(* A number given out                                                      *)

\* The number behind the first range is given out.
Given(c, a) ==
    /\ a.new \in Nat /\ 0 < a.new /\ a.new < MAX_INODE - 1
    /\ a.new \notin Covered(inuse[c]) /\ a.new - 1 \in Covered(inuse[c])
    /\ Sound(a.ranges) /\ a.nodes = Cardinality(a.ranges) /\ a.ranges # {}
    /\ \A m : m \in Covered(a.ranges) <=> m \in Covered(inuse[c]) \/ m = a.new

\* nova_alloc_unused_inode gives out that number, or none.
LEMMA NewNumberOf ==
    ASSUME NEW c \in Maps, Ranges(c), c \notin dangling,
           NEW a, a = nova_alloc_unused_inode(c)
    PROVE  \/ a.new = 0 /\ a.ranges = inuse[c] /\ a.nodes = nodes[c]
           \/ Given(c, a)
<1> DEFINE S == inuse[c]  i == FirstRange(c)  rest == S \ {i}  new == i[2] + 1
           next == CHOOSE r \in rest : \A s \in rest : r[1] <= s[1]
<1>1. Sound(S) /\ nodes[c] = Cardinality(S) /\ S # {}
  BY Zenon DEF Ranges
<1>2. i \in S /\ \A s \in S : i[1] <= s[1]
  BY <1>1, FirstIsLowest, Zenon
<1>3. i[1] \in Nat /\ i[2] \in Nat /\ i[1] <= i[2] /\ MAX_INODE \in Nat
  BY <1>1, <1>2, RangeEnds, MaxInode, SMTT(40)
<1>4. ASSUME rest # {} PROVE next \in rest /\ \A s \in rest : next[1] <= s[1]
  <2>1. Sound(rest)
    BY <1>1, <1>2, DropRange, ZenonT(40)
  <2>2. \E r \in rest : \A s \in rest : r[1] <= s[1]
    BY <1>4, <2>1, LowestRange, ZenonT(40)
  <2> QED BY <2>2, Zenon
<1>5. /\ new \in Nat /\ 0 < new /\ new - 1 = i[2] /\ new - 1 \in Covered(S)
  <2>1. i[2] \in i[1] .. i[2] /\ new - 1 = i[2] /\ new \in Nat /\ 0 < new
    BY <1>3
  <2>2. i[2] \in Covered(S)
    BY <1>2, <2>1, CoveredBy, ZenonT(40)
  <2> QED BY <2>1, <2>2, ZenonT(40)
<1> DEFINE merges == rest # {} /\ new = next[1] - 1
           grows == new < (IF rest = {} THEN MAX_INODE ELSE next[1]) - 1
<1>6. CASE merges
  <2> DEFINE T == (rest \ {next}) \cup {<<i[1], next[2]>>}
  <2>1. a = [new |-> new, ranges |-> T, nodes |-> nodes[c] - 1]
    <3>1. new = next[1] - 1 /\ rest # {}
      BY <1>6, Zenon
    <3>2. ~ grows
      <4>1. ~ (new < next[1] - 1)
        BY <1>5, <3>1, SMTT(40)
      <4> QED BY <3>1, <4>1, Zenon
    <3> QED BY <1>6, <3>2, ZenonT(40) DEF nova_alloc_unused_inode
  <2>2. a.new = new /\ a.ranges = T /\ a.nodes = nodes[c] - 1
    BY <2>1
  <2>3. next \in S /\ i # next
    BY <1>4, <1>6, ZenonT(40)
  <2>4. next[1] \in Nat
    BY <1>1, <2>3, RangeEnds, MaxInode, SMTT(40)
  <2> HIDE DEF next
  <2>5. i[2] + 2 = next[1]
    BY <1>3, <1>6, <2>4, SMTT(40)
  <2>6. T # {} /\ T = ((S \ {i}) \ {next}) \cup {<<i[1], next[2]>>}
    BY Zenon
  <2> HIDE DEF T, S, i, merges, grows
  <2>7. /\ Sound(T) /\ Cardinality(T) = Cardinality(S) - 1
        /\ \A m : m \in Covered(T) <=> m \in Covered(S) \/ m = i[2] + 1
        /\ i[2] + 1 \notin Covered(S) /\ i[2] + 1 < MAX_INODE - 1
    BY <1>1, <1>2, <2>3, <2>5, <2>6, MergeRange, SMTT(40)
  <2>8. a.nodes = Cardinality(T)
    BY <1>1, <2>2, <2>7, ZenonT(40)
  <2> QED BY <1>5, <2>2, <2>6, <2>7, <2>8, ZenonT(40) DEF Given, S
<1>7. CASE ~ merges /\ grows
  <2> DEFINE T == rest \cup {<<i[1], new>>}
  <2>1. a = [new |-> new, ranges |-> T, nodes |-> nodes[c]]
    BY <1>7, ZenonT(40) DEF nova_alloc_unused_inode
  <2>2. a.new = new /\ a.ranges = T /\ a.nodes = nodes[c]
    BY <2>1
  <2>3. new < MAX_INODE - 1 /\ \A s \in rest : i[2] + 2 < s[1]
    <3>1. CASE rest = {}
      BY <1>7, <3>1, ZenonT(40)
    <3>2. CASE rest # {}
      <4>1. next \in S /\ \A s \in rest : s \in S /\ next[1] <= s[1]
        BY <1>4, <3>2, Zenon
      <4>2. new < next[1] - 1
        BY <1>7, <3>2, Zenon
      <4> HIDE DEF next
      <4>3. next[1] \in Nat /\ next[2] \in Nat /\ next[1] <= next[2] /\ next[2] < MAX_INODE - 1
        BY <1>1, <4>1, RangeEnds, MaxInode, SMTT(40)
      <4>4. \A s \in S : s[1] \in Nat
        BY <1>1, RangeEnds, MaxInode, SMTT(40)
      <4> HIDE DEF S, i, rest
      <4> QED BY <1>3, <4>1, <4>2, <4>3, <4>4, SMTT(40)
    <3> QED BY <3>1, <3>2, ZenonT(40)
  <2>6. T # {} /\ T = (S \ {i}) \cup {<<i[1], i[2] + 1>>} /\ \A s \in S \ {i} : i[2] + 2 < s[1]
    BY <2>3, Zenon
  <2> HIDE DEF T, S, i, next, rest, merges, grows
  <2>7. /\ Sound(T) /\ Cardinality(T) = Cardinality(S)
        /\ \A m : m \in Covered(T) <=> m \in Covered(S) \/ m = i[2] + 1
        /\ i[2] + 1 \notin Covered(S)
    BY <1>1, <1>2, <2>3, <2>6, GrowRange, SMTT(40)
  <2> QED BY <1>1, <1>5, <2>2, <2>3, <2>6, <2>7, ZenonT(40) DEF Given, S
<1>8. CASE ~ merges /\ ~ grows
  <2>1. a = [new |-> 0, ranges |-> S, nodes |-> nodes[c]]
    BY <1>8, ZenonT(40) DEF nova_alloc_unused_inode
  <2> QED BY <2>1, SMTT(40)
<1> QED BY <1>6, <1>7, <1>8, Zenon

-----------------------------------------------------------------------------
(* The invariant on ranges                                                 *)

\* When the numbers of one map change: the others keep theirs.
LEMMA NumbersOf ==
    ASSUME Types, NEW c \in Maps, NEW S, inuse' = [inuse EXCEPT ![c] = S]
    PROVE  /\ Numbers(c)' = Covered(S) /\ Numbers(c) = Covered(inuse[c])
           /\ \A d \in Maps : d # c => Numbers(d)' = Numbers(d)
<1>1. inuse \in [Maps -> SUBSET ((0 .. MAX_INODE) \X (0 .. MAX_INODE))]
  BY Zenon DEF Types, TypeOK
<1>2. inuse'[c] = S /\ \A d \in Maps : d # c => inuse'[d] = inuse[d]
  BY <1>1, Zenon
<1> QED BY <1>2 DEF Numbers, Covered

\* The invariant on ranges, when one map gets other sound ones.
LEMMA RangesAfter ==
    ASSUME Types, RangesSound, NEW c \in Maps, NEW S, Sound(S), NEW k, k = Cardinality(S),
           inuse' = [inuse EXCEPT ![c] = S], nodes' = [nodes EXCEPT ![c] = k],
           dangling' \in {dangling, dangling \cup {c}}, c \notin dangling' => S # {}
    PROVE  /\ RangesSound' /\ inuse' \in [Maps -> SUBSET ((0 .. MAX_INODE) \X (0 .. MAX_INODE))]
           /\ nodes' \in [Maps -> Nat] /\ dangling' \subseteq Maps
<1>1. /\ inuse \in [Maps -> SUBSET ((0 .. MAX_INODE) \X (0 .. MAX_INODE))]
      /\ nodes \in [Maps -> Nat] /\ dangling \subseteq Maps
  BY Zenon DEF Types, TypeOK
<1>2. /\ inuse'[c] = S /\ \A d \in Maps : d # c => inuse'[d] = inuse[d]
      /\ nodes'[c] = k /\ \A d \in Maps : d # c => nodes'[d] = nodes[d]
  BY <1>1, Zenon
<1>3. ASSUME NEW d \in Maps
      PROVE  /\ Sound(inuse'[d]) /\ nodes'[d] = Cardinality(inuse'[d])
             /\ d \notin dangling' => inuse'[d] # {}
  <2>1. CASE d = c
    BY <1>2, <2>1, ZenonT(40)
  <2>2. CASE d # c
    BY <1>2, <2>2, ZenonT(40) DEF RangesSound, Ranges
  <2> QED BY <2>1, <2>2, Zenon
<1>4. RangesSound'
  BY <1>3, ZenonT(40) DEF RangesSound, Ranges, Sound, Apart
<1>5. k \in Nat /\ S \subseteq (0 .. MAX_INODE) \X (0 .. MAX_INODE)
  BY FS_CardinalityType, Zenon DEF Sound
<1> QED BY <1>1, <1>4, <1>5, Zenon
=============================================================================

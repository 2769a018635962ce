----------------------------- MODULE TableMoves -----------------------------
(***************************************************************************)
(* The arithmetic of inode numbers; the invariant of TableInvariants gives *)
(* the properties of InodeTable and holds initially; what a step keeps of  *)
(* it that moves one thread; and the steps that look an address up,        *)
(* extending the table if they must, which keep all of it.                 *)
(***************************************************************************)
EXTENDS TableInvariants, WellFoundedInduction, TLAPS

-----------------------------------------------------------------------------
(* Numbers                                                                 *)

\* Quotient and remainder.
LEMMA DivMod ==
    ASSUME NEW a \in Nat, NEW b \in Nat \ {0}
    PROVE  a \div b \in Nat /\ a % b \in 0 .. b - 1 /\ a = (a \div b) * b + (a % b)
  OBVIOUS

\* Products are monotone.
LEMMA Scaled ==
    ASSUME NEW b \in Nat, NEW q \in Nat, NEW d \in Nat, q < d
    PROVE  q * b + b <= d * b
  <1>1. d = (d - q - 1) + q + 1 /\ d - q - 1 \in Nat
    OBVIOUS
  <1>2. d * b = (d - q - 1) * b + q * b + b
    BY <1>1
  <1>3. (d - q - 1) * b \in Nat
    BY <1>1
  <1>4. q * b \in Nat /\ d * b \in Nat
    OBVIOUS
  <1> QED BY <1>2, <1>3, <1>4

\* Quotient and remainder are determined.
LEMMA Unique ==
    ASSUME NEW b \in Nat \ {0}, NEW q \in Nat, NEW r \in 0 .. b - 1
    PROVE  (q * b + r) \div b = q /\ (q * b + r) % b = r
  <1> DEFINE a == q * b + r  d == a \div b  m == a % b
  <1>1. a \in Nat /\ d \in Nat /\ m \in 0 .. b - 1 /\ a = d * b + m
    <2>1. a \in Nat OBVIOUS
    <2> QED BY <2>1, DivMod, Zenon
  <1>2. ASSUME q < d PROVE FALSE
    <2>1. q * b + b <= d * b
      BY <1>1, <1>2, Scaled
    <2>2. q * b \in Nat /\ d * b \in Nat
      BY <1>1
    <2> HIDE DEF d, m
    <2> QED BY <1>1, <2>1, <2>2
  <1>3. ASSUME d < q PROVE FALSE
    <2>1. d * b + b <= q * b
      BY <1>1, <1>3, Scaled
    <2>2. q * b \in Nat /\ d * b \in Nat
      BY <1>1
    <2> HIDE DEF d, m
    <2> QED BY <1>1, <2>1, <2>2
  <1>4. d = q
    <2> HIDE DEF d
    <2> QED BY <1>1, <1>2, <1>3
  <1>5. m = r
    <2>1. q * b \in Nat OBVIOUS
    <2> HIDE DEF d, m
    <2> QED BY <1>1, <1>4, <2>1
  <1> QED BY <1>4, <1>5

\* The constants.
LEMMA Sizes ==
    /\ CPUS \in Nat \ {0} /\ NumInodes \in Nat \ {0} /\ MAX_INODE \in Nat
    /\ NumPages \in Nat /\ CPUS <= NumPages /\ NOVA_NORMAL_INODE_START \in Nat \ {0, 1}
    /\ range_high \in Nat /\ range_high < NumInodes /\ range_high < MAX_INODE - 1
    /\ 0 \in Maps /\ 0 \in Blocks /\ 0 \in Inos /\ Root \in Inos
<1>1. /\ CPUS \in Nat \ {0} /\ NumInodes \in Nat \ {0} /\ MAX_INODE \in Nat
      /\ NumPages \in Nat /\ CPUS <= NumPages /\ NOVA_NORMAL_INODE_START \in Nat \ {0, 1}
      /\ range_high < NumInodes /\ range_high < MAX_INODE - 1
  BY TableAssumption
<1>2. range_high \in Nat
  <2>1. NOVA_NORMAL_INODE_START - 1 \in Nat
    BY <1>1
  <2>2. (NOVA_NORMAL_INODE_START - 1) \div CPUS \in Nat
    BY <1>1, <2>1, DivMod
  <2> QED BY <2>2 DEF range_high
<1>3. 0 \in Maps
  BY <1>1 DEF Maps
<1>4. 0 \in Blocks
  <2>1. MAX_INODE - 1 \in Nat
    BY <1>1, <1>2
  <2>2. (MAX_INODE - 1) \div NumInodes \in Nat
    BY <1>1, <2>1, DivMod, Zenon
  <2> QED BY <2>2 DEF Blocks
<1>5. 0 \in Inos /\ Root \in Inos
  <2>1. MAX_INODE \in Nat /\ 2 <= MAX_INODE /\ 0 < CPUS
    BY <1>1, <1>2
  <2>2. 1 * CPUS + CPUS <= MAX_INODE * CPUS /\ MAX_INODE * CPUS \in Nat
    BY <1>1, <2>1, Scaled
  <2> QED BY <1>1, <2>2 DEF Inos, Root
<1> QED BY <1>1, <1>2, <1>3, <1>4, <1>5, Zenon

\* Blocks are monotone in the numbers: a number has a block of the table, and every
\* block below it is at most the one of the number before.
LEMMA BlockOf ==
    ASSUME NEW n \in Nat, n < MAX_INODE
    PROVE  n \div NumInodes \in Blocks
<1> DEFINE m == MAX_INODE - 1  d == n \div NumInodes  e == m \div NumInodes
<1>1. n \in Nat /\ m \in Nat /\ n <= m
  BY Sizes
<1>2. /\ d \in Nat /\ n % NumInodes \in 0 .. NumInodes - 1
      /\ n = d * NumInodes + (n % NumInodes)
  BY <1>1, Sizes, DivMod, Zenon
<1>3. /\ e \in Nat /\ m % NumInodes \in 0 .. NumInodes - 1
      /\ m = e * NumInodes + (m % NumInodes)
  BY <1>1, Sizes, DivMod, Zenon
<1> HIDE DEF m, d, e
<1>4. d <= e
  <2>1. SUFFICES ASSUME e < d PROVE FALSE
    BY <1>2, <1>3
  <2>2. /\ e * NumInodes + NumInodes <= d * NumInodes
        /\ e * NumInodes \in Nat /\ d * NumInodes \in Nat
    BY <1>2, <1>3, <2>1, Sizes, Scaled
  <2> QED BY <1>1, <1>2, <1>3, <2>2, Sizes
<1> QED BY <1>2, <1>3, <1>4 DEF d, e, m, Blocks

\* A block below that of the next number is at most the block of the number.
LEMMA BlockBefore ==
    ASSUME NEW n \in Nat, NEW k \in Nat, k < (n + 1) \div NumInodes
    PROVE  k <= n \div NumInodes
<1> DEFINE d == n \div NumInodes  e == (n + 1) \div NumInodes
<1>1. /\ d \in Nat /\ n % NumInodes \in 0 .. NumInodes - 1
      /\ n = d * NumInodes + (n % NumInodes)
  BY Sizes, DivMod, Zenon
<1>2. /\ e \in Nat /\ (n + 1) % NumInodes \in 0 .. NumInodes - 1
      /\ n + 1 = e * NumInodes + ((n + 1) % NumInodes)
  <2>1. n + 1 \in Nat
    OBVIOUS
  <2> QED BY <2>1, Sizes, DivMod
<1>3. k < e
  OBVIOUS
<1> HIDE DEF d, e
<1>4. SUFFICES ASSUME d < k PROVE FALSE
  BY <1>1 DEF d
<1>5. d + 1 \in Nat /\ d + 1 < e
  BY <1>1, <1>2, <1>3, <1>4
<1>6. /\ (d + 1) * NumInodes + NumInodes <= e * NumInodes
      /\ (d + 1) * NumInodes = d * NumInodes + NumInodes
      /\ d * NumInodes \in Nat /\ e * NumInodes \in Nat
  BY <1>1, <1>2, <1>5, Sizes, Scaled
<1> QED BY <1>1, <1>2, <1>6, Sizes

\* A number has a map, a number in the map and a block of its table.
LEMMA InoParts ==
    ASSUME NEW i \in Inos
    PROVE  /\ cpuid(i) \in Maps /\ internal_ino(i) \in 0 .. MAX_INODE - 1
           /\ superpage_count(i) \in Blocks
           /\ i = internal_ino(i) * CPUS + cpuid(i)
<1>1. i \in Nat /\ i < MAX_INODE * CPUS /\ MAX_INODE * CPUS \in Nat
  BY Sizes DEF Inos
<1> DEFINE n == i \div CPUS  c == i % CPUS
<1>2. n \in Nat /\ c \in 0 .. CPUS - 1 /\ i = n * CPUS + c
  BY <1>1, Sizes, DivMod, Zenon
<1> HIDE DEF n, c
<1>3. n < MAX_INODE
  <2>1. SUFFICES ASSUME MAX_INODE <= n PROVE FALSE
    BY <1>2, Sizes
  <2>2. n * CPUS \in Nat /\ (n = MAX_INODE \/ MAX_INODE < n)
    BY <1>2, <2>1, Sizes
  <2>3. MAX_INODE * CPUS <= n * CPUS
    <3>1. CASE n = MAX_INODE
      BY <1>1, <2>2, <3>1
    <3>2. CASE MAX_INODE < n
      <4>1. MAX_INODE * CPUS + CPUS <= n * CPUS
        BY <1>2, <3>2, Sizes, Scaled
      <4> QED BY <1>1, <2>2, <4>1, Sizes
    <3> QED BY <2>2, <3>1, <3>2
  <2> QED BY <1>1, <1>2, <2>2, <2>3
<1>4. n \div NumInodes \in Blocks
  BY <1>2, <1>3, BlockOf
<1> QED BY <1>2, <1>3, <1>4, Sizes DEF n, c, cpuid, internal_ino, superpage_count, Maps

\* A number of a map is that of one inode.
LEMMA InoOf ==
    ASSUME NEW c \in Maps, NEW n \in 0 .. MAX_INODE - 1
    PROVE  /\ n * CPUS + c \in Inos
           /\ cpuid(n * CPUS + c) = c /\ internal_ino(n * CPUS + c) = n
<1>1. n \in Nat /\ c \in 0 .. CPUS - 1 /\ n < MAX_INODE
  BY Sizes DEF Maps
<1>2. n * CPUS \in Nat /\ MAX_INODE * CPUS \in Nat /\ n * CPUS + CPUS <= MAX_INODE * CPUS
  BY <1>1, Sizes, Scaled
<1>3. n * CPUS + c \in Inos
  BY <1>1, <1>2, Sizes DEF Inos
<1>4. (n * CPUS + c) \div CPUS = n /\ (n * CPUS + c) % CPUS = c
  BY <1>1, Sizes, Unique
<1> QED BY <1>3, <1>4 DEF cpuid, internal_ino

\* An inode is found by its map and its number in the map.
LEMMA SameIno ==
    ASSUME NEW i \in Inos, NEW j \in Inos,
           cpuid(i) = cpuid(j), internal_ino(i) = internal_ino(j)
    PROVE  i = j
  BY InoParts, Zenon

\* The lowest numbers, and where nova_ino = 0 leads.
LEMMA ZeroParts == cpuid(0) = 0 /\ internal_ino(0) = 0
<1>1. 0 \in 0 .. MAX_INODE - 1 /\ 0 * CPUS + 0 = 0
  BY Sizes
<1> QED BY <1>1, Sizes, InoOf

\* Reserved numbers are those up to range_high.
LEMMA ReservedLow ==
    ASSUME NEW i \in Nat, i < NOVA_NORMAL_INODE_START
    PROVE  i \in Inos /\ internal_ino(i) <= range_high
<1> DEFINE m == NOVA_NORMAL_INODE_START - 1
           d == i \div CPUS  e == m \div CPUS
<1>1. m \in Nat /\ i <= m
  BY Sizes
<1>2. d \in Nat /\ i % CPUS \in 0 .. CPUS - 1 /\ i = d * CPUS + (i % CPUS)
  BY Sizes, DivMod, Zenon
<1>3. e \in Nat /\ m % CPUS \in 0 .. CPUS - 1 /\ m = e * CPUS + (m % CPUS)
  BY <1>1, Sizes, DivMod, Zenon
<1>4. e <= range_high
  BY <1>3, Sizes DEF range_high
<1> HIDE DEF m, d, e
<1>5. d <= e
  <2>1. SUFFICES ASSUME e < d PROVE FALSE
    BY <1>2, <1>3
  <2>2. /\ e * CPUS + CPUS <= d * CPUS
        /\ e * CPUS \in Nat /\ d * CPUS \in Nat
    BY <1>2, <1>3, <2>1, Sizes, Scaled
  <2> QED BY <1>1, <1>2, <1>3, <2>2, Sizes
<1>6. d <= range_high
  BY <1>2, <1>3, <1>4, <1>5, Sizes
<1>7. i \in Inos
  <2>1. d < MAX_INODE /\ d * CPUS \in Nat
    BY <1>2, <1>6, Sizes
  <2>2. d * CPUS + CPUS <= MAX_INODE * CPUS /\ MAX_INODE * CPUS \in Nat
    BY <1>2, <2>1, Sizes, Scaled
  <2> QED BY <1>2, <2>1, <2>2, Sizes DEF Inos
<1> QED BY <1>6, <1>7 DEF d, internal_ino

\* An inode with a higher number is not reserved.
LEMMA NormalHigh ==
    ASSUME NEW i \in Inos, internal_ino(i) > range_high
    PROVE  Normal(i) /\ i # 0
<1>1. i \in Nat /\ internal_ino(i) \in Nat
  BY InoParts, Sizes DEF Inos
<1>2. ASSUME i < NOVA_NORMAL_INODE_START PROVE FALSE
  <2>1. internal_ino(i) <= range_high
    BY <1>1, <1>2, ReservedLow
  <2> QED BY <1>1, <2>1, Sizes
<1> QED BY <1>1, <1>2, Sizes DEF Normal

\* The reserved numbers are in the first block.
LEMMA FirstBlock ==
    ASSUME NEW n \in Nat, n <= range_high
    PROVE  n \div NumInodes = 0
<1>1. n \in 0 .. NumInodes - 1 /\ 0 * NumInodes + n = n
  BY Sizes
<1> QED BY <1>1, Sizes, Unique

\* A set of naturals that is not empty has a least element.
LEMMA LeastOf ==
    ASSUME NEW S \in SUBSET Nat, S # {}
    PROVE  \E m \in S : \A k \in S : m <= k
<1> DEFINE R == {ss \in Nat \X Nat : ss[1] < ss[2]}
<1>1. IsWellFoundedOn(R, Nat)
  BY NatLessThanWellFounded, Zenon DEF OpToRel
<1>2. PICK m \in S : \A k \in S : ~ (<<k, m>> \in R)
  BY <1>1, WFMin, Zenon
<1>3. ASSUME NEW k \in S, ~ (m <= k) PROVE FALSE
  <2>1. k \in Nat /\ m \in Nat /\ k < m
    BY <1>3
  <2> QED BY <1>2, <2>1, Zenon
<1> QED BY <1>3, Zenon

\* A number is reserved or above the reserved ones.
LEMMA HighNumbers ==
    /\ \A m \in Nat : m \in 0 .. range_high \/ m > range_high
    /\ \A m \in 0 .. range_high : ~ (m > range_high)
  BY Sizes

\* Blocks and inodes to a map are numbers.
LEMMA PlainNumbers == (\A k \in Blocks : k \in Nat) /\ \A c \in Maps : c \in Nat /\ c + 1 \in Nat
  BY DEF Blocks, Maps

\* The pages.
LEMMA PageNumbers ==
    /\ 0 \in 0 .. NumPages
    /\ \A p \in 1 .. NumPages : p \in 0 .. NumPages /\ p # 0
    /\ \A p \in 0 .. NumPages : p # 0 => p \in 1 .. NumPages
  BY Sizes

\* A page of the tables is in one place of them.
LEMMA OnePlace ==
    ASSUME TablesApart
    PROVE  \A c \in Maps : \A d \in Maps : \A j \in Blocks : \A k \in Blocks :
             table[c][j] = table[d][k] => table[c][j] = 0 \/ (c = d /\ j = k)
  BY SMT DEF TablesApart

\* Only a creator has no page: a writer has its inode.
LEMMA NoWriter ==
    ASSUME NEW r, Phase(r), r.pc \in {"idle", "number", "address"}
    PROVE  r.op # "write"
  BY SMT DEF Phase, Idle

\* A pair has its parts.
LEMMA PairParts == \A h, x, y : h = <<x, y>> => h[1] = x /\ h[2] = y
  BY SMT

\* The page of an inode.
LEMMA AddrType ==
    ASSUME Types, NEW i \in Inos
    PROVE  Addr(i) \in 0 .. NumPages
<1>1. table \in [Maps -> [Blocks -> 0 .. NumPages]]
  BY Zenon DEF Types, TypeOK
<1> QED BY <1>1, InoParts, Zenon DEF Addr

-----------------------------------------------------------------------------
(* The invariant gives the four properties of InodeTable, the initial      *)
(* state has it, and a step that changes nothing keeps it                   *)

\* The ranges of a map are apart and counted, and hold every number that is used.
LEMMA HeldNumbers ==
    ASSUME IInv
    PROVE  NumbersHeld
<1>1. Types /\ RangesSound /\ ReservedHeld /\ LiveHeld /\ ThreadsHeld
  BY Zenon DEF IInv, NumberInv
<1>2. ASSUME NEW c \in Maps
      PROVE  /\ nodes[c] = Cardinality(inuse[c])
             /\ \A r \in inuse[c] : r[1] <= r[2]
             /\ \A r, s \in inuse[c] : r # s => r[2] + 1 < s[1] \/ s[2] + 1 < r[1]
  <2>1. nodes[c] = Cardinality(inuse[c]) /\ Sound(inuse[c])
    BY <1>1, Zenon DEF RangesSound, Ranges
  <2> QED BY <2>1, Zenon DEF Sound, Apart
<1>3. ASSUME NEW i \in live PROVE InUse(i)
  BY <1>1, Zenon DEF LiveHeld
<1>4. ASSUME NEW i \in Creating PROVE InUse(i)
  <2>1. PICK t \in Threads : thr[t].ino # 0 /\ i = thr[t].ino
    BY Zenon DEF Creating
  <2>2. Phase(thr[t])
    BY <1>1, ZenonT(40) DEF Types
  <2>3. thr[t].pc \notin Unnumbered
    BY <2>1, <2>2, SMTT(40) DEF Phase, Unnumbered, Idle
  <2> QED BY <1>1, <2>1, <2>3, ZenonT(40) DEF ThreadsHeld
<1>5. ASSUME NEW i \in 1 .. NOVA_NORMAL_INODE_START - 1 PROVE InUse(i)
  <2>1. i \in Nat /\ i # 0 /\ i < NOVA_NORMAL_INODE_START
    BY Sizes, SMTT(40)
  <2>2. i \in Inos /\ internal_ino(i) <= range_high
    BY <2>1, ReservedLow, ZenonT(40)
  <2>3. /\ cpuid(i) \in Maps /\ internal_ino(i) \in 0 .. MAX_INODE - 1
        /\ i = internal_ino(i) * CPUS + cpuid(i)
    BY <2>2, InoParts, ZenonT(40)
  <2>4. PICK c \in Maps, n \in 0 .. range_high : c = cpuid(i) /\ n = internal_ino(i)
    BY <2>2, <2>3, Sizes, SMTT(40)
  <2>5. ~ (c = 0 /\ n = 0)
    BY <2>1, <2>3, <2>4, Sizes, SMTT(40)
  <2>6. n \in Numbers(c)
    BY <1>1, <2>5, Zenon DEF ReservedHeld
  <2> QED BY <2>4, <2>6, ZenonT(40) DEF InUse
<1> QED BY <1>2, <1>3, <1>4, <1>5, ZenonT(40) DEF NumbersHeld

\* A page is in one place of the tables, and every file has one.
LEMMA OwnedPages ==
    ASSUME IInv
    PROVE  PagesOwned
<1>1. TablesApart /\ TablesTaken /\ LivePaged
  BY ZenonT(40) DEF IInv, PageInv
<1>2. ASSUME NEW p \in Maps \X Blocks, NEW q \in Maps \X Blocks, table[p[1]][p[2]] # 0, p # q
      PROVE  table[p[1]][p[2]] # table[q[1]][q[2]]
  <2>1. /\ p[1] \in Maps /\ p[2] \in Blocks /\ q[1] \in Maps /\ q[2] \in Blocks
        /\ p[1] # q[1] \/ p[2] # q[2]
    BY <1>2, SMTT(40)
  <2>2. PICK c \in Maps, d \in Maps, j \in Blocks, k \in Blocks :
          c = p[1] /\ j = p[2] /\ d = q[1] /\ k = q[2]
    BY <2>1, ZenonT(40)
  <2>3. table[c][j] = table[d][k] => table[c][j] = 0 \/ (c = d /\ j = k)
    BY <1>1, SMTT(40) DEF TablesApart
  <2> QED BY <1>2, <2>1, <2>2, <2>3, ZenonT(40)
<1>3. ASSUME NEW p \in Maps \X Blocks PROVE table[p[1]][p[2]] \notin free
  <2>1. p[1] \in Maps /\ p[2] \in Blocks
    BY ZenonT(40)
  <2> QED BY <1>1, <2>1, Zenon DEF TablesTaken
<1> QED BY <1>1, <1>2, <1>3, ZenonT(40) DEF PagesOwned, LivePaged

\* A page has the latest fields of its inodes.
LEMMA KeptUpdates ==
    ASSUME IInv
    PROVE  UpdatesKept
  BY ZenonT(40) DEF IInv, UpdateInv, PagesLatest, UpdatesKept

\* A thread that returned holds no lock that is not leaked.
LEMMA ReleasedLocks ==
    ASSUME IInv
    PROVE  LocksReleased
<1>1. MutexesHeld /\ MappingsHeld /\ PageLocks
  BY Zenon DEF IInv, LockInv
<1>2. DOMAIN plock = Maps \X Blocks
  BY Zenon DEF IInv, Types, TypeOK
<1>3. SUFFICES ASSUME NEW t \in Threads, thr[t].pc = "idle"
               PROVE  /\ \A c \in Maps : tmutex[c] # t /\ (mlock[c] = t => c \in leaked)
                      /\ \A l \in Maps \X Blocks : plock[l] # t
  BY <1>2, ZenonT(40) DEF LocksReleased
<1>4. thr[t].pc # "address" /\ thr[t].pc # "switch" /\ thr[t].pc \notin Locked
  BY <1>3, ZenonT(40) DEF Locked
<1>5. \A c \in Maps : tmutex[c] # t
  BY <1>1, <1>4, Zenon DEF MutexesHeld
<1>6. \A c \in Maps : mlock[c] = t => c \in leaked
  BY <1>1, <1>4, Zenon DEF MappingsHeld
<1>7. \A l \in Maps \X Blocks : plock[l] # t
  BY <1>1, <1>4, Zenon DEF PageLocks
<1> QED BY <1>5, <1>6, <1>7, ZenonT(40)

\* The tables when the file system is made: a page for the first block of each map.
LEMMA InitPages ==
    ASSUME Init
    PROVE  /\ \A c \in Maps : c + 1 \in 1 .. CPUS /\ table[c][0] = c + 1
           /\ \A c \in Maps, k \in Blocks : k # 0 => table[c][k] = 0
           /\ \A c \in Maps : inuse[c] = {<<0, range_high>>} /\ Numbers(c) = 0 .. range_high
           /\ free = CPUS + 1 .. NumPages
<1>1. /\ table = [c \in Maps |-> [k \in Blocks |-> IF k = 0 THEN c + 1 ELSE 0]]
      /\ free = CPUS + 1 .. NumPages /\ inuse = [c \in Maps |-> {<<0, range_high>>}]
  BY Zenon DEF Init, nova_init_inode_table, nova_init_inode_inuse_list
<1>2. \A c \in Maps : c + 1 \in 1 .. CPUS /\ table[c][0] = c + 1
  BY <1>1, Sizes, SMTT(40) DEF Maps
<1>3. \A c \in Maps, k \in Blocks : k # 0 => table[c][k] = 0
  BY <1>1, Sizes, ZenonT(40)
<1>4. ASSUME NEW c \in Maps
      PROVE  inuse[c] = {<<0, range_high>>} /\ Numbers(c) = 0 .. range_high
  <2>1. inuse[c] = {<<0, range_high>>}
    BY <1>1, ZenonT(40)
  <2>2. Numbers(c) = 0 .. range_high
    BY <2>1, SMTT(40) DEF Numbers
  <2> QED BY <2>1, <2>2, Zenon
<1> QED BY <1>1, <1>2, <1>3, <1>4, ZenonT(40)

\* The threads then: none holds anything.
LEMMA InitThreads ==
    ASSUME Init, NEW t \in Threads
    PROVE  /\ thr[t] = Idle /\ thr[t].pc = "idle" /\ thr[t].op = "none" /\ thr[t].ino = 0
           /\ thr[t].pi = 0 /\ thr[t].pidir = 0 /\ thr[t].at = 0 /\ t # NoThread
           /\ \A c \in Maps : tmutex[c] = NoThread /\ mlock[c] = NoThread
           /\ \A l \in Maps \X Blocks : plock[l] = NoThread
           /\ \A i, p : ~ Held(thr[t], i, p)
           /\ \A i : ~ Copying(t, i)
<1>1. thr[t] = Idle
  BY Zenon DEF Init
<1>2. /\ Idle.pc = "idle" /\ Idle.op = "none" /\ Idle.ino = 0 /\ Idle.pi = 0
      /\ Idle.pidir = 0 /\ Idle.at = 0
  BY Zenon DEF Idle
<1>3. \A c \in Maps : tmutex[c] = NoThread /\ mlock[c] = NoThread
  BY Zenon DEF Init, nova_init_inode_table
<1>4. \A l \in Maps \X Blocks : plock[l] = NoThread
  BY Zenon DEF Init, nova_init_inode_table
<1>5. t # NoThread
  BY TableAssumption, Zenon
<1>6. \A i, p : ~ Held(thr[t], i, p)
  BY <1>1, <1>2, ZenonT(40) DEF Held
<1>7. \A i : ~ Copying(t, i)
  BY <1>1, <1>2, ZenonT(40) DEF Copying
<1> QED BY <1>1, <1>2, <1>3, <1>4, <1>5, <1>6, <1>7, ZenonT(40)

\* The initial state has the invariant (that one range is one, TableProofs has from
\* FiniteSetTheorems).
LEMMA InitInv ==
    ASSUME Init, IsFiniteSet({<<0, range_high>>}), Cardinality({<<0, range_high>>}) = 1
    PROVE  IInv
<1>1. /\ \A c \in Maps : c + 1 \in 1 .. CPUS /\ table[c][0] = c + 1
      /\ \A c \in Maps, k \in Blocks : k # 0 => table[c][k] = 0
      /\ \A c \in Maps : inuse[c] = {<<0, range_high>>} /\ Numbers(c) = 0 .. range_high
      /\ free = CPUS + 1 .. NumPages
  BY InitPages, Zenon
<1>2. \A t \in Threads :
        /\ thr[t] = Idle /\ thr[t].pc = "idle" /\ thr[t].op = "none" /\ thr[t].ino = 0
        /\ thr[t].pi = 0 /\ thr[t].pidir = 0 /\ thr[t].at = 0 /\ t # NoThread
  BY InitThreads, ZenonT(40)
<1>3. \A t \in Threads :
        /\ \A c \in Maps : tmutex[c] = NoThread /\ mlock[c] = NoThread
        /\ \A l \in Maps \X Blocks : plock[l] = NoThread
        /\ \A i, p : ~ Held(thr[t], i, p)
        /\ \A i : ~ Copying(t, i)
  BY InitThreads, ZenonT(40)
<1>4. /\ nodes = [c \in Maps |-> 1] /\ dangling = {} /\ map_id = 0
      /\ mem = [p \in 1 .. NumPages |-> [i \in Inos |-> Zero]]
      /\ thr = [t \in Threads |-> Idle] /\ latest = [i \in Inos |-> Zero]
      /\ live = {} /\ overlap = {} /\ leaked = {}
      /\ inuse = [c \in Maps |-> {<<0, range_high>>}]
  BY Zenon DEF Init, nova_init_inode_table, nova_init_inode_inuse_list
<1>5. Types
  <2>1. Idle \in Thread /\ Phase(Idle)
    <3>1. 0 \in 0 .. NumPages /\ 0 \in Maps /\ 0 \in Inos
      BY Sizes, SMTT(40)
    <3>2. Idle \in Thread
      BY <3>1, ZenonT(40) DEF Idle, Thread, PC
    <3> QED BY <3>2, ZenonT(40) DEF Phase, Idle, Unnumbered, Gone
  <2>2. thr \in [Threads -> Thread] /\ \A t \in Threads : Phase(thr[t])
    BY <1>2, <1>4, <2>1, ZenonT(40)
  <2>3. Zero \in Field
    BY SMT DEF Zero, Field
  <2>4. latest \in [Inos -> Field] /\ mem \in [1 .. NumPages -> [Inos -> Field]]
    BY <1>4, <2>3, Zenon
  <2>5. inuse \in [Maps -> SUBSET ((0 .. MAX_INODE) \X (0 .. MAX_INODE))]
    <3>1. {<<0, range_high>>} \in SUBSET ((0 .. MAX_INODE) \X (0 .. MAX_INODE))
      BY Sizes, SMTT(40)
    <3> QED BY <1>4, <3>1, Zenon
  <2>6. table \in [Maps -> [Blocks -> 0 .. NumPages]]
    <3>1. table = [c \in Maps |-> [k \in Blocks |-> IF k = 0 THEN c + 1 ELSE 0]]
      BY Zenon DEF Init, nova_init_inode_table
    <3>2. \A c \in Maps : c + 1 \in 0 .. NumPages
      BY <1>1, Sizes, SMTT(40)
    <3> QED BY <3>1, <3>2, Sizes, SMTT(40)
  <2>7. free \subseteq 1 .. NumPages
    BY <1>1, Sizes, SMTT(40)
  <2>8. /\ tmutex \in [Maps -> Threads \cup {NoThread}]
        /\ mlock \in [Maps -> Threads \cup {NoThread}]
        /\ plock \in [Maps \X Blocks -> Threads \cup {NoThread}]
    BY ZenonT(40) DEF Init, nova_init_inode_table
  <2>9. nodes \in [Maps -> Nat] /\ map_id \in Maps
    BY <1>4, Sizes, ZenonT(40)
  <2>10. TypeOK
    BY <1>4, <2>4, <2>5, <2>6, <2>7, <2>8, <2>9, ZenonT(40) DEF TypeOK, Field
  <2> QED BY <2>2, <2>4, <2>10, ZenonT(40) DEF Types
<1>6. LockInv /\ OwnInv /\ PageLocks
  <2>1. MutexesHeld /\ MappingsHeld /\ SwitchersHold /\ LeakedHeld
    BY <1>2, <1>3, <1>4, ZenonT(40)
       DEF MutexesHeld, MappingsHeld, SwitchersHold, LeakedHeld
  <2>2. OneThreadEach /\ GoneUnnamed
    BY <1>2, <1>4, ZenonT(40) DEF OneThreadEach, GoneUnnamed
  <2>3. PageLocks
    BY <1>2, <1>3, ZenonT(40) DEF PageLocks
  <2> QED BY <2>1, <2>2, <2>3, ZenonT(40) DEF LockInv, OwnInv
<1>7. NumberInv
  <2>1. RangesSound
    <3>1. SUFFICES ASSUME NEW c \in Maps PROVE Ranges(c)
      BY Zenon DEF RangesSound
    <3>2. inuse[c] = {<<0, range_high>>} /\ nodes[c] = 1
      BY <1>1, <1>4, Zenon
    <3>3. IsFiniteSet({<<0, range_high>>}) /\ Cardinality({<<0, range_high>>}) = 1
      OBVIOUS
    <3>4. Sound({<<0, range_high>>})
      <4>1. {<<0, range_high>>} \in SUBSET ((0 .. MAX_INODE) \X (0 .. MAX_INODE))
        BY Sizes, SMTT(40)
      <4>2. \A r \in {<<0, range_high>>} : r[1] <= r[2] /\ r[2] < MAX_INODE - 1
        BY Sizes, SMT
      <4>3. \A r, s \in {<<0, range_high>>} : r = s
        BY Zenon
      <4> QED BY <3>3, <4>1, <4>2, <4>3, Zenon DEF Sound
    <3>5. inuse[c] # {}
      BY <3>2, Zenon
    <3> QED BY <3>2, <3>3, <3>4, <3>5, ZenonT(40) DEF Ranges
  <2>2. ReservedHeld
    BY <1>1, Zenon DEF ReservedHeld
  <2>3. LiveHeld /\ ThreadsHeld
    BY <1>2, <1>4, Zenon DEF LiveHeld, ThreadsHeld, Unnumbered
  <2> QED BY <2>1, <2>2, <2>3, ZenonT(40) DEF NumberInv
<1>8. PageInv
  <2>1. TablesApart
    <3>1. SUFFICES ASSUME NEW c \in Maps, NEW d \in Maps, NEW j \in Blocks, NEW k \in Blocks,
                          table[c][j] = table[d][k], table[c][j] # 0
                   PROVE  c = d /\ j = k
      BY SMTT(40) DEF TablesApart
    <3>2. j = 0 /\ k = 0
      BY <1>1, <3>1, Zenon
    <3> QED BY <1>1, <3>1, <3>2, SMTT(40) DEF Maps
  <2>2. TablesTaken
    <3>1. SUFFICES ASSUME NEW c \in Maps, NEW k \in Blocks PROVE table[c][k] \notin free
      BY Zenon DEF TablesTaken
    <3>2. table[c][k] \in 0 .. CPUS
      BY <1>1, Sizes, SMTT(40)
    <3> QED BY <1>1, <3>2, Sizes, SMTT(40)
  <2>3. CopiesApart /\ LivePaged
    BY <1>2, <1>4, ZenonT(40) DEF CopiesApart, LivePaged
  <2>4. ThreadsPaged
    BY <1>2, Zenon DEF ThreadsPaged, Paged
  <2>5. HeldTaken
    BY <1>3, Zenon DEF HeldTaken
  <2> QED BY <2>1, <2>2, <2>3, <2>4, <2>5, ZenonT(40) DEF PageInv
<1>9. TableInv
  <2>1. NoHoles
    <3>1. SUFFICES ASSUME NEW c \in Maps, NEW j \in Blocks, NEW k \in Blocks,
                          j <= k, table[c][k] # 0
                   PROVE  table[c][j] # 0
      BY Zenon DEF NoHoles
    <3>2. k = 0
      BY <1>1, <3>1, Zenon
    <3>3. j = 0
      BY <3>1, <3>2, Sizes, SMTT(40) DEF Blocks
    <3> QED BY <3>1, <3>2, <3>3, Zenon
  <2>2. NumbersPaged
    <3>1. SUFFICES ASSUME NEW c \in Maps, NEW n \in Numbers(c)
                   PROVE  table[c][n \div NumInodes] # 0
      BY Zenon DEF NumbersPaged
    <3>2. n \in Nat /\ n <= range_high
      BY <1>1, <3>1, Sizes, SMTT(40)
    <3>3. n \div NumInodes = 0
      BY <3>2, FirstBlock, Zenon
    <3> QED BY <1>1, <3>3, Sizes, SMTT(40)
  <2>3. OnlyNextMissing
    BY <1>2, ZenonT(40) DEF OnlyNextMissing
  <2> QED BY <2>1, <2>2, <2>3, Zenon DEF TableInv
<1>10. UpdateInv
  <2>1. FreeZero
    <3>1. free \subseteq 1 .. NumPages
      BY <1>1, Sizes, SMT
    <3> QED BY <1>4, <3>1, ZenonT(40) DEF FreeZero
  <2>2. UnpagedZero
    BY <1>4, Zenon DEF UnpagedZero
  <2>3. PagesLatest
    <3>1. SUFFICES ASSUME NEW i \in Inos, Addr(i) # 0 PROVE mem[Addr(i)][i] = latest[i]
      BY Zenon DEF PagesLatest, Fields
    <3>2. Addr(i) \in 0 .. NumPages
      BY <1>5, AddrType, Zenon
    <3>3. Addr(i) \in 1 .. NumPages
      BY <3>1, <3>2, Sizes, SMTT(40)
    <3> QED BY <1>4, <3>3, ZenonT(40)
  <2>4. CopiesLatest /\ HeldCurrent
    BY <1>3, Zenon DEF CopiesLatest, HeldCurrent
  <2> QED BY <2>1, <2>2, <2>3, <2>4, ZenonT(40) DEF UpdateInv
<1>11. FlagsAgree
  BY <1>2, ZenonT(40) DEF FlagsAgree
<1> QED BY <1>5, <1>6, <1>7, <1>8, <1>9, <1>10, <1>11, ZenonT(40) DEF IInv

\* Nothing happens.
LEMMA StutterStep ==
    ASSUME IInv, UNCHANGED vars
    PROVE  IInv'
<1>1. /\ inuse' = inuse /\ nodes' = nodes /\ dangling' = dangling /\ map_id' = map_id
      /\ table' = table /\ mem' = mem /\ free' = free /\ tmutex' = tmutex
      /\ mlock' = mlock /\ plock' = plock /\ thr' = thr /\ live' = live
      /\ latest' = latest /\ overlap' = overlap /\ leaked' = leaked
  BY ZenonT(40) DEF vars
<1>2. Types'
  BY <1>1, ZenonT(40) DEF IInv, Types, TypeOK, Phase, internal_ino, cpuid, range_high
<1>3. LockInv' /\ OwnInv'
  BY <1>1, ZenonT(40) DEF IInv, LockInv, MutexesHeld, MappingsHeld, SwitchersHold, LeakedHeld,
                  OwnInv, OneThreadEach, GoneUnnamed
<1>4. NumberInv'
  BY <1>1, ZenonT(40) DEF IInv, NumberInv, RangesSound, Ranges, ReservedHeld, LiveHeld,
                  ThreadsHeld, InUse, Numbers
<1>6. PageInv'
  BY <1>1, SMTT(40) DEF IInv, PageInv, TablesApart, TablesTaken, CopiesApart, CopyApart,
                  LivePaged, ThreadsPaged, HeldTaken, Addr
<1>7. TableInv'
  BY <1>1, ZenonT(40) DEF IInv, TableInv, NoHoles, NumbersPaged, OnlyNextMissing, Numbers, Addressing
<1>8. UpdateInv'
  BY <1>1, ZenonT(40) DEF IInv, UpdateInv, FreeZero, UnpagedZero, PagesLatest, CopiesLatest,
                  HeldCurrent, Copying, Addr, Fields
<1>9. FlagsAgree' /\ PageLocks'
  <2>1. FlagsAgree /\ PageLocks
    BY Zenon DEF IInv
  <2>2. PageLocks'
    <3>1. \A j : Fields(j)' = mem'[table'[cpuid(j)][superpage_count(j)]][j]
      BY Zenon DEF Fields, Addr, cpuid, superpage_count, internal_ino
    <3>2. SUFFICES ASSUME NEW u \in Threads, NEW l \in Maps \X Blocks, plock'[l] = u,
                          NEW j, j = thr'[u].ino
                   PROVE  /\ thr'[u].pc \in Locked
                          /\ l = LockFor(thr'[u],
                                   mem'[table'[cpuid(j)][superpage_count(j)]][j].ino)
      BY <3>1, ZenonT(40) DEF PageLocks
    <3>3. thr[u].pc \in Locked /\ l = LockFor(thr[u], Fields(thr[u].ino).ino)
      BY <1>1, <2>1, <3>2, ZenonT(40) DEF PageLocks
    <3>4. thr'[u] = thr[u] /\ j = thr[u].ino
      BY <1>1, <3>2, Zenon
    <3>5. mem'[table'[cpuid(j)][superpage_count(j)]][j] = Fields(thr[u].ino)
      BY <1>1, <3>4, ZenonT(40) DEF Fields, Addr
    <3> QED BY <3>3, <3>4, <3>5, ZenonT(40)
  <2>3. FlagsAgree'
    <3>1. SUFFICES ASSUME NEW u \in Threads, thr'[u].op = "write",
                          NEW r, r = thr'[u], NEW j, j = r.ino
                   PROVE  /\ r.pi # 0 => mem'[r.pi][j].ino = Fields(j)'.ino
                          /\ r.at # 0 => mem'[r.at][j].ino = Fields(j)'.ino
                          /\ \A v \in Threads : thr'[v].pc = "switch" /\ SamePage(thr'[v].ino, j)
                               => mem'[thr'[v].at][j].ino = Fields(j)'.ino
      BY Zenon DEF FlagsAgree, SameFlag, Copying, SamePage, Fields, Addr, cpuid,
                   superpage_count, internal_ino
    <3>2. Fields(j)' = Fields(j)
      BY <1>1, ZenonT(40) DEF Fields, Addr, cpuid, superpage_count, internal_ino
    <3>3. SameFlag(thr[u])
      BY <1>1, <2>1, <3>1, ZenonT(40) DEF FlagsAgree
    <3> QED BY <1>1, <3>1, <3>2, <3>3, ZenonT(40) DEF SameFlag, Copying
  <2> QED BY <2>2, <2>3, Zenon
<1> QED BY <1>2, <1>3, <1>4, <1>6, <1>7, <1>8, <1>9, ZenonT(40) DEF IInv

-----------------------------------------------------------------------------
(* Steps that change one thread and neither the tables nor who may use      *)
(* them                                                                     *)

\* An address that has just been looked up.
Fresh(i, p) == p # 0 /\ p = Addr(i) /\ mlock[cpuid(i)] = NoThread

\* What thread t may turn into: it holds the addresses it held or has looked up,
Carries(t, s) ==
    LET r == thr[t]
    IN  /\ s \in Thread /\ Phase(s) /\ r.pc # "switch" /\ s.pc # "switch"
        /\ \A i \in Inos, p \in 1 .. NumPages :
             Held(s, i, p) => Held(r, i, p) \/ Fresh(i, p)
        /\ s.op = "write" =>
             \/ r.op = "write" /\ s.ino = r.ino
             \/ Fresh(s.ino, s.pi) /\ s.at = 0
\* no other thread is on its inode,
Alone(t, s) == \A u \in Threads : u # t /\ s.ino # 0 => s.ino # thr[u].ino
\* and it keeps its inode, drops it or takes one that has a name and that nobody uses.
MovesTo(t, s) ==
    LET r == thr[t]
    IN  /\ Carries(t, s) /\ r.pc # "address" /\ s.pc # "address"
        /\ \/ s.ino = r.ino /\ r.pc \notin Unnumbered
           \/ s.ino = 0 /\ s.pc \in Unnumbered
           \/ s.ino \in live /\ \A u \in Threads : thr[u].ino # s.ino

\* Its inode after such a step: no other thread is on it, its number is in use, and
\* it has a page.
LEMMA MovedIno ==
    ASSUME Types, OneThreadEach, NumberInv, NEW t \in Threads, NEW s, MovesTo(t, s)
    PROVE  /\ Carries(t, s)
           /\ Alone(t, s)
           /\ s.pc \notin Unnumbered => InUse(s.ino)
           /\ s.pc \in Paged => (s.ino = thr[t].ino /\ thr[t].pc \in Paged) \/ s.ino \in live
<1>1. thr[t].pc \in PC
  BY Zenon DEF Types, Thread
<1>2. Alone(t, s)
  BY Zenon DEF MovesTo, Alone, OneThreadEach
<1>3. s.pc \notin Unnumbered => InUse(s.ino)
  BY Zenon DEF MovesTo, NumberInv, ThreadsHeld, LiveHeld
<1>4. s.pc \in Paged => (s.ino = thr[t].ino /\ thr[t].pc \in Paged) \/ s.ino \in live
  BY <1>1, Zenon DEF MovesTo, Paged, Unnumbered
<1> QED BY <1>2, <1>3, <1>4, Zenon DEF MovesTo

\* The threads after such a step.
LEMMA OneThread ==
    ASSUME Types, NEW t \in Threads, NEW s, thr' = [thr EXCEPT ![t] = s]
    PROVE  thr'[t] = s /\ \A u \in Threads : u # t => thr'[u] = thr[u]
  BY Zenon DEF Types

\* It keeps the types of the threads,
LEMMA MoveTypes ==
    ASSUME Types, NEW t \in Threads, NEW s \in Thread, Phase(s),
           thr' = [thr EXCEPT ![t] = s], TypeOK', latest' \in [Inos -> Field]
    PROVE  Types'
<1>1. thr' \in [Threads -> Thread]
  BY Zenon DEF Types
<1>2. \A u \in Threads : Phase(thr'[u])
  BY OneThread, Zenon DEF Types
<1>3. ASSUME NEW u \in Threads PROVE Phase(thr[u])'
  BY <1>2, Zenon DEF Phase, internal_ino, cpuid, range_high, Idle
<1> QED BY <1>1, <1>3, Zenon DEF Types, Thread, Field, PC, Maps, Inos

\* the mapping locks and the mutexes,
LEMMA MoveLocks ==
    ASSUME Types, LockInv, NEW t \in Threads, NEW s, thr' = [thr EXCEPT ![t] = s],
           MovesTo(t, s), tmutex' = tmutex, mlock' = mlock, leaked' = leaked
    PROVE  LockInv'
<1>1. thr'[t] = s /\ \A u \in Threads : u # t => thr'[u] = thr[u]
  BY OneThread, Zenon
<1>2. thr[t].pc \notin {"address", "switch"} /\ s.pc \notin {"address", "switch"}
  BY Zenon DEF MovesTo, Carries
<1>3. MutexesHeld'
  <2>1. SUFFICES ASSUME NEW u \in Threads, NEW c \in Maps
                 PROVE  tmutex[c] = u <=> thr'[u].pc = "address" /\ thr'[u].cpu = c
    BY DEF MutexesHeld
  <2>2. tmutex[c] = u <=> thr[u].pc = "address" /\ thr[u].cpu = c
    BY Zenon DEF LockInv, MutexesHeld
  <2> QED BY <1>1, <1>2, <2>2, Zenon
<1>4. \A u \in Threads : thr[u].pc = "switch" \/ thr'[u].pc = "switch" => thr'[u] = thr[u]
  BY <1>1, <1>2, Zenon
<1>5. MappingsHeld'
  BY <1>4, ZenonT(40) DEF LockInv, MappingsHeld
<1>6. SwitchersHold'
  BY <1>4 DEF LockInv, SwitchersHold
<1>7. LeakedHeld'
  BY Zenon DEF LockInv, LeakedHeld
<1> QED BY <1>3, <1>5, <1>6, <1>7, Zenon DEF LockInv

\* the inodes the threads are on, while files get and lose their names,
LEMMA MoveOwns ==
    ASSUME Types, OwnInv, NEW t \in Threads, NEW s, thr' = [thr EXCEPT ![t] = s],
           Alone(t, s),
           \/ live' = live /\ (s.pc \in Gone => thr[t].pc \in Gone /\ s.ino = thr[t].ino)
           \/ live' = live \cup {thr[t].ino} /\ thr[t].ino # 0 /\ s.pc \notin Gone
           \/ live' = live \ {thr[t].ino} /\ s.ino = thr[t].ino
    PROVE  OwnInv'
<1>1. thr'[t] = s /\ \A u \in Threads : u # t => thr'[u] = thr[u]
  BY OneThread, Zenon
<1>2. \A u \in Threads : u # t /\ s.ino # 0 => s.ino # thr[u].ino
  BY Zenon DEF Alone
<1>3. ASSUME NEW u \in Threads, NEW v \in Threads, u # v, thr'[u].ino # 0
      PROVE  thr'[u].ino # thr'[v].ino
  <2>1. CASE u = t \/ v = t
    BY <1>1, <1>2, <1>3, <2>1, SMTT(40)
  <2>2. CASE u # t /\ v # t
    BY <1>1, <1>3, <2>2, ZenonT(40) DEF OwnInv, OneThreadEach
  <2> QED BY <2>1, <2>2, Zenon
<1>4. ASSUME NEW u \in Threads, thr'[u].pc \in Gone PROVE thr'[u].ino \notin live'
  <2>1. CASE u = t
    BY <1>1, <1>4, <2>1, Zenon DEF OwnInv, GoneUnnamed
  <2>2. CASE u # t
    BY <1>1, <1>4, <2>2, Zenon DEF OwnInv, GoneUnnamed, OneThreadEach
  <2> QED BY <2>1, <2>2, Zenon
<1> QED BY <1>3, <1>4, Zenon DEF OwnInv, GoneUnnamed, OneThreadEach

\* the numbers in use,
LEMMA MoveNumbers ==
    ASSUME Types, NumberInv, NEW t \in Threads, NEW s, thr' = [thr EXCEPT ![t] = s],
           s.pc \notin Unnumbered => InUse(s.ino),
           inuse' = inuse, nodes' = nodes, dangling' = dangling,
           live' \subseteq live \cup {thr[t].ino},
           live' \subseteq live \/ thr[t].pc \notin Unnumbered
    PROVE  NumberInv'
<1>1. thr'[t] = s /\ \A u \in Threads : u # t => thr'[u] = thr[u]
  BY OneThread, Zenon
<1>2. \A i : InUse(i)' = InUse(i)
  BY Zenon DEF Numbers, InUse, cpuid, internal_ino
<1>3. RangesSound' /\ ReservedHeld'
  BY Zenon DEF NumberInv, RangesSound, Ranges, ReservedHeld, Numbers
<1>4. LiveHeld'
  BY <1>2, Zenon DEF NumberInv, LiveHeld, ThreadsHeld, Types, Phase
<1>5. ASSUME NEW u \in Threads, thr'[u].pc \notin Unnumbered PROVE InUse(thr'[u].ino)
  <2>1. CASE u # t
    BY <1>1, <1>5, <2>1, Zenon DEF NumberInv, ThreadsHeld
  <2>2. CASE u = t
    BY <1>1, <1>5, <2>2, Zenon
  <2> QED BY <2>1, <2>2, Zenon
<1>6. ThreadsHeld'
  BY <1>5, Zenon DEF ThreadsHeld, InUse, Numbers, cpuid, internal_ino
<1> QED BY <1>3, <1>4, <1>6, Zenon DEF NumberInv

\* the pages,
LEMMA MovePages ==
    ASSUME Types, PageInv, NEW t \in Threads, NEW s, thr' = [thr EXCEPT ![t] = s],
           Carries(t, s), table' = table, free' = free,
           s.pc \in Paged => (s.ino = thr[t].ino /\ thr[t].pc \in Paged) \/ s.ino \in live,
           live' \subseteq live \cup {thr[t].ino},
           live' \subseteq live \/ thr[t].pc \in Paged
    PROVE  PageInv'
<1>1. thr'[t] = s /\ \A u \in Threads : u # t => thr'[u] = thr[u]
  BY OneThread, Zenon
<1>2. \A i : Addr(i)' = Addr(i)
  BY Zenon DEF Addr, cpuid, superpage_count, internal_ino
<1>3. TablesApart' /\ TablesTaken' /\ LivePaged'
  <2>1. TablesApart' /\ TablesTaken'
    BY DEF PageInv, TablesApart, TablesTaken
  <2>2. LivePaged'
    BY <1>2, Zenon DEF PageInv, LivePaged, ThreadsPaged
  <2> QED BY <2>1, <2>2, Zenon
<1>4. CopiesApart'
  <2>1. thr[t].pc # "switch" /\ s.pc # "switch"
    BY Zenon DEF Carries
  <2>2. \A v \in Threads : thr'[v].pc = "switch" => thr'[v] = thr[v]
    BY <1>1, <2>1, Zenon
  <2> QED BY <2>2 DEF PageInv, CopiesApart, CopyApart
<1>5. HeldTaken'
  <2>1. SUFFICES ASSUME NEW u \in Threads, NEW i \in Inos, NEW p \in 1 .. NumPages,
                        Held(thr'[u], i, p)
                 PROVE  p \notin free /\ Addr(i) # 0
    BY <1>2, Zenon DEF HeldTaken, Held
  <2>2. CASE u # t
    BY <1>1, <2>1, <2>2, Zenon DEF PageInv, HeldTaken
  <2>3. CASE u = t /\ Held(thr[t], i, p)
    BY <2>3, Zenon DEF PageInv, HeldTaken
  <2>4. CASE u = t /\ Fresh(i, p)
    BY <2>4, InoParts, Zenon DEF PageInv, TablesTaken, Fresh, Addr
  <2> QED BY <1>1, <2>1, <2>2, <2>3, <2>4, Zenon DEF Carries
<1>6. ThreadsPaged'
  <2>1. SUFFICES ASSUME NEW u \in Threads, thr'[u].pc \in Paged PROVE Addr(thr'[u].ino) # 0
    BY Zenon DEF ThreadsPaged, Addr, cpuid, superpage_count, internal_ino
  <2>2. CASE u # t
    BY <1>1, <2>1, <2>2, Zenon DEF PageInv, ThreadsPaged
  <2>3. CASE u = t
    BY <1>1, <2>1, <2>3, Zenon DEF PageInv, ThreadsPaged, LivePaged
  <2> QED BY <2>2, <2>3, Zenon
<1> QED BY <1>3, <1>4, <1>5, <1>6, Zenon DEF PageInv

\* and the tables.
LEMMA MoveTables ==
    ASSUME Types, TableInv, NEW t \in Threads, NEW s, thr' = [thr EXCEPT ![t] = s],
           thr[t].pc # "address", s.pc # "address",
           table' = table, leaked \subseteq leaked',
           \A c \in Maps : Numbers(c)' \subseteq Numbers(c)
    PROVE  TableInv'
<1>1. thr'[t] = s /\ \A u \in Threads : u # t => thr'[u] = thr[u]
  BY OneThread, Zenon
<1>3. \A u \in Threads : thr[u].pc = "address" \/ thr'[u].pc = "address" => thr'[u] = thr[u]
  BY <1>1, Zenon
<1>4. NoHoles'
  BY Zenon DEF TableInv, NoHoles
<1>5. NumbersPaged'
  <2>1. \A c, n : Addressing(c, n) => Addressing(c, n)'
    BY <1>3, Zenon DEF Addressing
  <2> QED BY <2>1, Zenon DEF TableInv, NumbersPaged
<1>6. OnlyNextMissing'
  BY <1>3, SMTT(40) DEF TableInv, OnlyNextMissing
<1> QED BY <1>4, <1>5, <1>6, Zenon DEF TableInv

-----------------------------------------------------------------------------
(* Stores                                                                  *)

\* What the fields of i at page p become; nothing else is stored.
StoredAt(p, i, what) ==
    /\ mem' = [mem EXCEPT ![p][i] = Changed(@, what)]
    /\ latest' = [latest EXCEPT ![i] = Changed(@, what)]
Stores == {"number", "value", "valid", "invalid", "clear"}

\* A store leaves a field a field, and keeps nova_ino but where it sets it.
LEMMA ChangedField ==
    ASSUME NEW f \in Field, NEW what \in Stores
    PROVE  Changed(f, what) \in Field /\ (what # "number" => Changed(f, what).ino = f.ino)
<1>1. CASE what = "number" \/ what = "clear"
  BY <1>1, Zenon DEF Field, Changed
<1>2. CASE what = "valid" \/ what = "invalid"
  BY <1>2, Zenon DEF Field, Changed
<1>3. CASE what = "value"
  BY <1>3 DEF Field, Changed
<1> QED BY <1>1, <1>2, <1>3, Zenon DEF Stores

\* What a store to one inode in one page changes, and what it leaves.
LEMMA StoreEffect ==
    ASSUME Types, NEW p \in 1 .. NumPages, NEW i \in Inos, NEW what \in Stores,
           StoredAt(p, i, what)
    PROVE  /\ mem' \in [1 .. NumPages -> [Inos -> Field]] /\ latest' \in [Inos -> Field]
           /\ mem'[p][i] = Changed(mem[p][i], what) /\ latest'[i] = Changed(latest[i], what)
           /\ \A q \in 1 .. NumPages : q # p => mem'[q] = mem[q]
           /\ \A q \in 1 .. NumPages, j \in Inos : j # i => mem'[q][j] = mem[q][j]
           /\ \A j \in Inos : j # i => latest'[j] = latest[j]
<1>1. mem \in [1 .. NumPages -> [Inos -> Field]] /\ latest \in [Inos -> Field]
  BY Zenon DEF Types, TypeOK, Field
<1>2. Changed(mem[p][i], what) \in Field /\ Changed(latest[i], what) \in Field
  BY <1>1, ChangedField, Zenon
<1>3. /\ mem' = [mem EXCEPT ![p] = [mem[p] EXCEPT ![i] = Changed(mem[p][i], what)]]
      /\ latest' = [latest EXCEPT ![i] = Changed(latest[i], what)]
  BY DEF StoredAt
<1>4. [mem[p] EXCEPT ![i] = Changed(mem[p][i], what)] \in [Inos -> Field]
  BY <1>1, <1>2, Zenon
<1>5. /\ mem'[p] = [mem[p] EXCEPT ![i] = Changed(mem[p][i], what)]
      /\ \A q \in 1 .. NumPages : q # p => mem'[q] = mem[q]
      /\ mem' \in [1 .. NumPages -> [Inos -> Field]]
  BY <1>1, <1>3, <1>4, Zenon
<1>6. mem'[p][i] = Changed(mem[p][i], what) /\ \A j \in Inos : j # i => mem'[p][j] = mem[p][j]
  BY <1>1, <1>5, Zenon
<1>7. /\ latest'[i] = Changed(latest[i], what) /\ latest' \in [Inos -> Field]
      /\ \A j \in Inos : j # i => latest'[j] = latest[j]
  BY <1>1, <1>2, <1>3, Zenon
<1> QED BY <1>5, <1>6, <1>7, Zenon

\* While the mapping lock is free nobody copies a page of the map.
LEMMA NoCopy ==
    ASSUME LockInv, NEW i, mlock[cpuid(i)] = NoThread, NEW u \in Threads
    PROVE  ~ Copying(u, i)
<1>1. u # NoThread
  BY TableAssumption, Zenon
<1> QED BY <1>1, Zenon DEF LockInv, SwitchersHold, Copying, SamePage

\* Such a step neither begins nor ends a copy, and takes current addresses.
LEMMA MoveCopies ==
    ASSUME Types, NEW t \in Threads, NEW s, thr' = [thr EXCEPT ![t] = s], Carries(t, s)
    PROVE  /\ \A u \in Threads : thr[u].pc = "switch" \/ thr'[u].pc = "switch" => thr'[u] = thr[u]
           /\ \A u \in Threads : \A i : Copying(u, i)' = Copying(u, i)
<1>1. thr'[t] = s /\ \A u \in Threads : u # t => thr'[u] = thr[u]
  BY OneThread, Zenon
<1>2. thr[t].pc # "switch" /\ s.pc # "switch"
  BY Zenon DEF Carries
<1>3. \A u \in Threads : thr[u].pc = "switch" \/ thr'[u].pc = "switch" => thr'[u] = thr[u]
  BY <1>1, <1>2, Zenon
<1> QED BY <1>3 DEF Copying, SamePage

\* So the addresses held stay current.
LEMMA MoveHeld ==
    ASSUME Types, LockInv, HeldCurrent, NEW t \in Threads, NEW s,
           thr' = [thr EXCEPT ![t] = s], Carries(t, s), table' = table, overlap' = overlap
    PROVE  HeldCurrent'
<1>1. thr'[t] = s /\ \A u \in Threads : u # t => thr'[u] = thr[u]
  BY OneThread, Zenon
<1>2. \A i : Addr(i)' = Addr(i)
  BY Zenon DEF Addr, cpuid, superpage_count, internal_ino
<1>3. SUFFICES ASSUME NEW i \in Inos \ overlap, NEW u \in Threads, NEW p \in 1 .. NumPages,
                      Held(thr'[u], i, p)
               PROVE  p = Addr(i) /\ \A v \in Threads : ~ Copying(v, i)
  BY <1>2, MoveCopies, ZenonT(40) DEF HeldCurrent, Held
<1>4. CASE u # t
  BY <1>1, <1>3, <1>4, Zenon DEF HeldCurrent
<1>5. CASE u = t /\ Held(thr[t], i, p)
  BY <1>5, Zenon DEF HeldCurrent
<1>6. CASE u = t /\ Fresh(i, p)
  BY <1>6, NoCopy, Zenon DEF Fresh
<1> QED BY <1>1, <1>3, <1>4, <1>5, <1>6, Zenon DEF Carries

\* Updates are kept by a step that stores nothing,
LEMMA MoveUpdates ==
    ASSUME Types, LockInv, UpdateInv, NEW t \in Threads, NEW s,
           thr' = [thr EXCEPT ![t] = s], Carries(t, s),
           table' = table, free' = free, mem' = mem, latest' = latest, overlap' = overlap
    PROVE  UpdateInv'
<1>1. HeldCurrent'
  BY MoveHeld, Zenon DEF UpdateInv
<1>2. \A i : Addr(i)' = Addr(i) /\ Fields(i)' = Fields(i)
  BY Zenon DEF Fields, Addr, cpuid, superpage_count, internal_ino
<1>3. FreeZero' /\ UnpagedZero' /\ PagesLatest'
  BY <1>2, Zenon DEF UpdateInv, FreeZero, UnpagedZero, PagesLatest, Zero
<1>4. CopiesLatest'
  <2>1. \A u \in Threads : \A i : Copying(u, i)' => Copying(u, i) /\ thr'[u] = thr[u]
    BY MoveCopies, Zenon DEF Copying
  <2>2. SUFFICES ASSUME NEW i \in Inos \ overlap, NEW u \in Threads, Copying(u, i)'
                 PROVE  mem[thr'[u].at][i] = latest[i]
    BY DEF CopiesLatest
  <2> QED BY <2>1, <2>2, ZenonT(40) DEF UpdateInv, CopiesLatest
<1> QED BY <1>1, <1>3, <1>4, Zenon DEF UpdateInv

\* and by one that stores through an address it holds.
LEMMA StoreUpdates ==
    ASSUME Types, LockInv, UpdateInv, HeldTaken, NEW t \in Threads, NEW s,
           thr' = [thr EXCEPT ![t] = s], Carries(t, s),
           NEW p \in 1 .. NumPages, NEW i \in Inos, NEW what \in Stores,
           Held(thr[t], i, p), StoredAt(p, i, what),
           table' = table, free' = free, overlap' = overlap
    PROVE  UpdateInv'
<1>1. HeldCurrent'
  BY MoveHeld, Zenon DEF UpdateInv
<1>2. /\ mem'[p][i] = Changed(mem[p][i], what) /\ latest'[i] = Changed(latest[i], what)
      /\ \A q \in 1 .. NumPages : q # p => mem'[q] = mem[q]
      /\ \A q \in 1 .. NumPages, j \in Inos : j # i => mem'[q][j] = mem[q][j]
      /\ \A j \in Inos : j # i => latest'[j] = latest[j]
  BY StoreEffect, Zenon
<1>3. p \notin free /\ Addr(i) # 0
  BY Zenon DEF HeldTaken
<1>4. i \notin overlap => p = Addr(i) /\ \A u \in Threads : ~ Copying(u, i)
  BY Zenon DEF UpdateInv, HeldCurrent
<1>5. \A j : Addr(j)' = Addr(j)
  BY Zenon DEF Addr, cpuid, superpage_count, internal_ino
<1>6. free \subseteq 1 .. NumPages /\ \A j \in Inos : Addr(j) # 0 => Addr(j) \in 1 .. NumPages
  <2>1. free \subseteq 1 .. NumPages /\ \A j \in Inos : Addr(j) \in 0 .. NumPages
    BY AddrType, Zenon DEF Types, TypeOK
  <2> QED BY <2>1, Sizes
<1>7. FreeZero'
  BY <1>2, <1>3, <1>6, Zenon DEF UpdateInv, FreeZero, Zero
<1>8. UnpagedZero'
  BY <1>2, <1>3, <1>5, Zenon DEF UpdateInv, UnpagedZero, Zero
<1>9. PagesLatest'
  <2>1. SUFFICES ASSUME NEW j \in Inos \ overlap, Addr(j) # 0
                 PROVE  mem'[Addr(j)][j] = latest'[j]
    BY <1>5, Zenon DEF PagesLatest, Fields
  <2>2. mem[Addr(j)][j] = latest[j]
    BY <2>1, Zenon DEF UpdateInv, PagesLatest, Fields
  <2>3. CASE j = i
    BY <1>2, <1>4, <2>2, <2>3, Zenon
  <2>4. CASE j # i
    BY <1>2, <1>6, <2>1, <2>2, <2>4, Zenon
  <2> QED BY <2>3, <2>4, Zenon
<1>10. CopiesLatest'
  <2>1. SUFFICES ASSUME NEW j \in Inos \ overlap, NEW u \in Threads, Copying(u, j)
                 PROVE  mem'[thr[u].at][j] = latest'[j]
    <3>1. \A u \in Threads : \A j : Copying(u, j)' => Copying(u, j) /\ thr'[u] = thr[u]
      BY MoveCopies, Zenon DEF Copying
    <3> QED BY <3>1 DEF CopiesLatest
  <2>2. mem[thr[u].at][j] = latest[j] /\ j # i
    BY <1>4, <2>1, Zenon DEF UpdateInv, CopiesLatest
  <2>3. thr[u].at \in 1 .. NumPages
    <3>1. thr[u].at # 0 /\ thr[u].at \in 0 .. NumPages
      BY <2>1, Zenon DEF Types, Phase, Thread, Copying
    <3> QED BY <3>1, Sizes
  <2> QED BY <1>2, <2>2, <2>3, Zenon
<1> QED BY <1>1, <1>7, <1>8, <1>9, <1>10, Zenon DEF UpdateInv

-----------------------------------------------------------------------------
(* nova_ino, and the page locks                                            *)

\* A step of t changes nova_ino of no inode, or of the one that it is creating.
FlagsKept(t, s) ==
    \/ \A q \in 1 .. NumPages, j \in Inos : mem'[q][j].ino = mem[q][j].ino
    \/ /\ thr[t].op # "write" /\ s.op # "write" /\ thr[t].ino # 0
       /\ \A q \in 1 .. NumPages, j \in Inos :
            j # thr[t].ino => mem'[q][j].ino = mem[q][j].ino

\* So it changes that of no writer, and a writer has a page.
LEMMA WriterKept ==
    ASSUME Types, OneThreadEach, ThreadsPaged, NEW t \in Threads, NEW s,
           thr' = [thr EXCEPT ![t] = s], Carries(t, s), FlagsKept(t, s),
           NEW u \in Threads, thr'[u].op = "write"
    PROVE  /\ thr'[u].ino \in Inos /\ Addr(thr'[u].ino) \in 1 .. NumPages
           /\ \A q \in 1 .. NumPages : mem'[q][thr'[u].ino].ino = mem[q][thr'[u].ino].ino
<1>1. thr'[t] = s /\ \A v \in Threads : v # t => thr'[v] = thr[v]
  BY OneThread, Zenon
<1>2. thr'[u] \in Thread
  BY <1>1, Zenon DEF Types, Carries
<1>3. thr'[u].ino \in Inos
  BY <1>2, Zenon DEF Thread
<1>4. ASSUME NEW v \in Threads, thr[v].op = "write" PROVE thr[v].pc \in Paged
  <2>1. Phase(thr[v]) /\ thr[v].pc \in PC
    BY Zenon DEF Types, Thread
  <2>2. Idle.op # "write"
    BY DEF Idle
  <2> QED BY <1>4, <2>1, <2>2, Zenon DEF Phase, Paged
<1>5. Addr(thr'[u].ino) # 0
  <2>1. CASE thr[u].op = "write" /\ thr'[u].ino = thr[u].ino
    BY <1>4, <2>1, Zenon DEF ThreadsPaged
  <2>2. CASE Fresh(s.ino, s.pi) /\ u = t
    BY <1>1, <2>2, Zenon DEF Fresh
  <2> QED BY <1>1, <2>1, <2>2, ZenonT(40) DEF Carries
<1>6. Addr(thr'[u].ino) \in 1 .. NumPages
  <2>1. Addr(thr'[u].ino) \in 0 .. NumPages
    BY <1>3, AddrType, Zenon
  <2> QED BY <1>5, <2>1, Sizes
<1>7. \A q \in 1 .. NumPages : mem'[q][thr'[u].ino].ino = mem[q][thr'[u].ino].ino
  <2>1. CASE \A q \in 1 .. NumPages, j \in Inos : mem'[q][j].ino = mem[q][j].ino
    BY <1>3, <2>1, Zenon
  <2>2. CASE /\ s.op # "write" /\ thr[t].ino # 0
             /\ \A q \in 1 .. NumPages, j \in Inos :
                  j # thr[t].ino => mem'[q][j].ino = mem[q][j].ino
    <3>1. u # t /\ thr'[u] = thr[u]
      BY <1>1, <2>2, Zenon
    <3>2. thr[t].ino # thr[u].ino
      BY <2>2, <3>1, ZenonT(40) DEF OneThreadEach
    <3> QED BY <1>3, <2>2, <3>1, <3>2, Zenon
  <2> QED BY <2>1, <2>2, Zenon DEF FlagsKept
<1> QED BY <1>3, <1>6, <1>7, Zenon

\* So writers still find one nova_ino wherever they look.
LEMMA MoveFlags ==
    ASSUME Types, LockInv, OneThreadEach, ThreadsPaged, FlagsAgree,
           NEW t \in Threads, NEW s, thr' = [thr EXCEPT ![t] = s], Carries(t, s),
           FlagsKept(t, s), table' = table
    PROVE  FlagsAgree'
<1>1. thr'[t] = s /\ \A v \in Threads : v # t => thr'[v] = thr[v]
  BY OneThread, Zenon
<1>2. /\ \A v \in Threads : \A i : Copying(v, i)' = Copying(v, i)
      /\ \A v \in Threads : thr[v].pc = "switch" => thr'[v] = thr[v]
  BY MoveCopies, Zenon
<1>3. \A i : Addr(i)' = Addr(i)
  BY Zenon DEF Addr, cpuid, superpage_count, internal_ino
<1>4. SUFFICES ASSUME NEW u \in Threads, NEW r, r = thr'[u], r.op = "write"
               PROVE  SameFlag(r)'
  BY Zenon DEF FlagsAgree, SameFlag
<1> DEFINE i == r.ino  flag == mem[Addr(i)][i].ino
<1>5. /\ r \in Thread /\ i \in Inos /\ Addr(i) \in 1 .. NumPages
      /\ \A q \in 1 .. NumPages : mem'[q][i].ino = mem[q][i].ino
  <2>1. r \in Thread
    BY <1>1, <1>4, Zenon DEF Types, Carries
  <2>2. thr'[u].op = "write"
    BY <1>4, Zenon
  <2>3. /\ thr'[u].ino \in Inos /\ Addr(thr'[u].ino) \in 1 .. NumPages
        /\ \A q \in 1 .. NumPages : mem'[q][thr'[u].ino].ino = mem[q][thr'[u].ino].ino
    BY <2>2, WriterKept, Zenon
  <2> QED BY <1>4, <2>1, <2>3
<1>6. /\ r.pi # 0 => mem[r.pi][i].ino = flag
      /\ r.at # 0 => mem[r.at][i].ino = flag
      /\ \A v \in Threads : Copying(v, i) => mem[thr[v].at][i].ino = flag
  <2>1. CASE u # t
    <3>1. r = thr[u]
      BY <1>1, <1>4, <2>1, Zenon
    <3>2. SameFlag(thr[u])
      BY <1>4, <3>1, Zenon DEF FlagsAgree
    <3> QED BY <3>1, <3>2, Zenon DEF SameFlag, Fields
  <2>2. CASE u = t /\ Fresh(i, r.pi) /\ r.at = 0
    BY <2>2, NoCopy, Zenon DEF Fresh
  <2>3. CASE u = t /\ thr[t].op = "write" /\ i = thr[t].ino
    <3>1. SameFlag(thr[t])
      BY <2>3, ZenonT(40) DEF FlagsAgree
    <3>2. \A p \in 1 .. NumPages : Held(r, i, p) => mem[p][i].ino = flag
      <4>1. thr[t].pidir = 0
        BY <2>3, Zenon DEF Types, Phase
      <4>2. \A p : Held(thr[t], i, p) => p # 0 /\ (p = thr[t].pi \/ p = thr[t].at)
        BY <4>1, Zenon DEF Held
      <4>3. \A p : Held(thr[t], i, p) => mem[p][i].ino = flag
        BY <2>3, <3>1, <4>2, Zenon DEF SameFlag, Fields
      <4>4. \A p : Fresh(i, p) => mem[p][i].ino = flag
        BY Zenon DEF Fresh
      <4>5. \A p \in 1 .. NumPages : Held(s, i, p) => Held(thr[t], i, p) \/ Fresh(i, p)
        BY <1>5, Zenon DEF Carries
      <4>6. r = s
        BY <1>1, <1>4, <2>3, Zenon
      <4> QED BY <4>3, <4>4, <4>5, <4>6, ZenonT(40)
    <3>3. r.pc # "switch"
      BY <1>1, <1>4, <2>3, Zenon DEF Carries
    <3>4. (r.pi # 0 => r.pi \in 1 .. NumPages) /\ (r.at # 0 => r.at \in 1 .. NumPages)
      <4>1. r.pi \in 0 .. NumPages /\ r.at \in 0 .. NumPages
        BY <1>5, Zenon DEF Thread
      <4> QED BY <4>1, Sizes
    <3>5. (r.pi # 0 => Held(r, i, r.pi)) /\ (r.at # 0 => Held(r, i, r.at))
      BY <3>3, ZenonT(40) DEF Held
    <3>6. \A v \in Threads : Copying(v, i) => mem[thr[v].at][i].ino = flag
      <4>1. \A v \in Threads : Copying(v, thr[t].ino) =>
              mem[thr[v].at][thr[t].ino].ino = mem[Addr(thr[t].ino)][thr[t].ino].ino
        BY <3>1, Zenon DEF SameFlag, Fields
      <4>2. i = thr[t].ino
        BY <2>3, Zenon
      <4> HIDE DEF i
      <4> QED BY <4>1, <4>2, ZenonT(40)
    <3> QED BY <3>2, <3>4, <3>5, <3>6, Zenon
  <2> QED BY <1>1, <1>4, <2>1, <2>2, <2>3, ZenonT(40) DEF Carries
<1>7. \A v \in Threads : Copying(v, i) => thr[v].at \in 1 .. NumPages /\ thr'[v] = thr[v]
  <2>1. \A v \in Threads : Copying(v, i) => thr[v].at \in 0 .. NumPages /\ thr[v].at # 0
    BY Zenon DEF Types, Phase, Thread, Copying
  <2> QED BY <1>2, <2>1, Sizes DEF Copying
<1>8. (r.pi # 0 => r.pi \in 1 .. NumPages) /\ (r.at # 0 => r.at \in 1 .. NumPages)
  <2>1. r.pi \in 0 .. NumPages /\ r.at \in 0 .. NumPages
    BY <1>5, Zenon DEF Thread
  <2> QED BY <2>1, Sizes
<1>9. Fields(i)' = mem'[Addr(i)][i]
  BY <1>3, Zenon DEF Fields
<1>10. /\ r.pi # 0 => mem'[r.pi][i].ino = mem'[Addr(i)][i].ino
       /\ r.at # 0 => mem'[r.at][i].ino = mem'[Addr(i)][i].ino
  BY <1>5, <1>6, <1>8, Zenon
<1>11. ASSUME NEW v \in Threads, Copying(v, i)'
       PROVE  mem'[thr'[v].at][i].ino = mem'[Addr(i)][i].ino
  <2>1. thr[v].at \in 1 .. NumPages /\ thr'[v] = thr[v] /\ mem[thr[v].at][i].ino = flag
    BY <1>2, <1>6, <1>7, <1>11, ZenonT(40)
  <2> QED BY <1>5, <2>1, ZenonT(40)
<1> QED BY <1>9, <1>10, <1>11 DEF SameFlag

\* The lock that LockOf selects.
LEMMA LockByFlag ==
    ASSUME NEW r, NEW p
    PROVE  LockOf(r, p) = LockFor(r, mem[p][r.ino].ino)
  BY DEF LockOf, LockFor, nova_ino

\* The lock that another thread will release does not change: the flag that selects
\* it is the same wherever a writer looks.
LEMMA MovePageLocks ==
    ASSUME Types, OneThreadEach, ThreadsPaged, PageLocks,
           NEW t \in Threads, NEW s, thr' = [thr EXCEPT ![t] = s], Carries(t, s),
           FlagsKept(t, s), table' = table,
           \A l \in Maps \X Blocks, u \in Threads : u # t /\ plock'[l] = u => plock[l] = u,
           \A l \in Maps \X Blocks : plock'[l] = t =>
             s.pc \in Locked /\ l = LockFor(s, mem'[Addr(s.ino)][s.ino].ino)
    PROVE  PageLocks'
<1>1. thr'[t] = s /\ \A v \in Threads : v # t => thr'[v] = thr[v]
  BY OneThread, Zenon
<1>2. \A i : Fields(i)' = mem'[Addr(i)][i]
  BY Zenon DEF Fields, Addr, cpuid, superpage_count, internal_ino
<1>3. SUFFICES ASSUME NEW u \in Threads, NEW l \in Maps \X Blocks, plock'[l] = u
               PROVE  /\ thr'[u].pc \in Locked
                      /\ l = LockFor(thr'[u], mem'[Addr(thr'[u].ino)][thr'[u].ino].ino)
  BY <1>2, ZenonT(40) DEF PageLocks
<1>4. CASE u = t
  BY <1>1, <1>3, <1>4
<1>5. CASE u # t
  <2>1. thr[u].pc \in Locked /\ l = LockFor(thr[u], mem[Addr(thr[u].ino)][thr[u].ino].ino)
    BY <1>3, <1>5, Zenon DEF PageLocks, Fields
  <2>2. thr'[u] = thr[u]
    BY <1>1, <1>5, Zenon
  <2>3. CASE thr[u].op = "write"
    <3>1. /\ Addr(thr'[u].ino) \in 1 .. NumPages
          /\ \A q \in 1 .. NumPages : mem'[q][thr'[u].ino].ino = mem[q][thr'[u].ino].ino
      BY <2>2, <2>3, WriterKept, Zenon
    <3> QED BY <2>1, <2>2, <3>1, Zenon
  <2>4. CASE thr[u].op # "write"
    BY <2>1, <2>2, <2>4, Zenon DEF LockFor
  <2> QED BY <2>3, <2>4, Zenon
<1> QED BY <1>4, <1>5, Zenon

-----------------------------------------------------------------------------
(* The steps that leave numbers and tables alone                           *)

\* What such a step stores, if anything,
StoresOrNot(t, s) ==
    \/ mem' = mem /\ latest' = latest
    \/ \E p \in 1 .. NumPages, i \in Inos, what \in Stores :
         /\ Held(thr[t], i, p) /\ StoredAt(p, i, what)
         /\ what = "number" => i = thr[t].ino /\ i # 0 /\ thr[t].op # "write" /\ s.op # "write"
\* which names it adds or removes,
LiveOrNot(t, s) ==
    \/ live' = live /\ (s.pc \in Gone => thr[t].pc \in Gone /\ s.ino = thr[t].ino)
    \/ live' = live \cup {thr[t].ino} /\ thr[t].pc \in Paged /\ s.pc \notin Gone
    \/ live' = live \ {thr[t].ino} /\ s.ino = thr[t].ino
\* and which page lock it takes or gives back.
PlockOrNot(t, s) ==
    /\ plock' \in [Maps \X Blocks -> Threads \cup {NoThread}]
    /\ \A l \in Maps \X Blocks, u \in Threads : u # t /\ plock'[l] = u => plock[l] = u
    /\ \A l \in Maps \X Blocks : plock'[l] = t =>
         s.pc \in Locked /\ l = LockFor(s, mem'[Addr(s.ino)][s.ino].ino)

\* A thread with a page has a number that is not 0.
LEMMA PagedIno ==
    ASSUME Types, NEW t \in Threads, thr[t].pc \notin Unnumbered
    PROVE  thr[t].ino \in Inos /\ thr[t].ino # 0 /\ Normal(thr[t].ino)
<1>1. thr[t].ino \in Inos /\ internal_ino(thr[t].ino) > range_high
  BY ZenonT(40) DEF Types, Thread, Phase
<1> QED BY <1>1, NormalHigh, Zenon

\* A store keeps the types, and no store but that of a new number changes nova_ino.
LEMMA StoresKeep ==
    ASSUME Types, NEW t \in Threads, NEW s, StoresOrNot(t, s)
    PROVE  /\ mem' \in [1 .. NumPages -> [Inos -> Field]] /\ latest' \in [Inos -> Field]
           /\ FlagsKept(t, s)
<1>1. CASE mem' = mem /\ latest' = latest
  BY <1>1, Zenon DEF Types, TypeOK, Field, FlagsKept
<1>2. ASSUME NEW p \in 1 .. NumPages, NEW i \in Inos, NEW what \in Stores,
             StoredAt(p, i, what),
             what = "number" => i = thr[t].ino /\ i # 0 /\ thr[t].op # "write" /\ s.op # "write"
      PROVE  /\ mem' \in [1 .. NumPages -> [Inos -> Field]] /\ latest' \in [Inos -> Field]
             /\ FlagsKept(t, s)
  <2>1. /\ mem' \in [1 .. NumPages -> [Inos -> Field]] /\ latest' \in [Inos -> Field]
        /\ mem'[p][i] = Changed(mem[p][i], what)
        /\ \A q \in 1 .. NumPages : q # p => mem'[q] = mem[q]
        /\ \A q \in 1 .. NumPages, j \in Inos : j # i => mem'[q][j] = mem[q][j]
    BY <1>2, StoreEffect, Zenon
  <2>2. CASE what = "number"
    BY <1>2, <2>1, <2>2, Zenon DEF FlagsKept
  <2>3. CASE what # "number"
    <3>0. mem \in [1 .. NumPages -> [Inos -> Field]]
      BY Zenon DEF Types, TypeOK, Field
    <3>1. mem[p][i] \in Field
      BY <3>0, Zenon
    <3>2. mem'[p][i].ino = mem[p][i].ino
      BY <2>1, <2>3, <3>1, ChangedField, ZenonT(40)
    <3>3. ASSUME NEW q \in 1 .. NumPages, NEW j \in Inos
          PROVE  mem'[q][j].ino = mem[q][j].ino
      <4>1. CASE q = p /\ j = i
        BY <3>2, <4>1, Zenon
      <4>2. CASE q # p
        BY <2>1, <4>2, Zenon
      <4>3. CASE j # i
        BY <2>1, <4>3, Zenon
      <4> QED BY <4>1, <4>2, <4>3, Zenon
    <3> QED BY <2>1, <3>3, Zenon DEF FlagsKept
  <2> QED BY <2>1, <2>2, <2>3, Zenon
<1> QED BY <1>1, <1>2, Zenon DEF StoresOrNot

\* A step of one thread that takes no mutex and no mapping lock, and that stores
\* through an address it holds or not at all, keeps the invariant.
LEMMA LocalStep ==
    ASSUME IInv, NEW t \in Threads, NEW s, thr' = [thr EXCEPT ![t] = s], MovesTo(t, s),
           StoresOrNot(t, s), LiveOrNot(t, s), PlockOrNot(t, s), map_id' \in Maps,
           inuse' = inuse, nodes' = nodes, dangling' = dangling, table' = table,
           free' = free, tmutex' = tmutex, mlock' = mlock, overlap' = overlap,
           leaked' = leaked
    PROVE  IInv'
<1>1. /\ Types /\ LockInv /\ OwnInv /\ NumberInv /\ PageInv /\ TableInv
      /\ UpdateInv /\ FlagsAgree /\ PageLocks /\ OneThreadEach /\ ThreadsPaged /\ HeldTaken
  BY Zenon DEF IInv, OwnInv, PageInv
<1>a. /\ Carries(t, s) /\ s.pc # "address" /\ thr[t].pc # "address"
      /\ Alone(t, s)
      /\ s.pc \notin Unnumbered => InUse(s.ino)
      /\ s.pc \in Paged => (s.ino = thr[t].ino /\ thr[t].pc \in Paged) \/ s.ino \in live
  BY <1>1, MovedIno, Zenon DEF MovesTo
<1>2. /\ mem' \in [1 .. NumPages -> [Inos -> Field]] /\ latest' \in [Inos -> Field]
      /\ FlagsKept(t, s)
  BY <1>1, StoresKeep, Zenon
<1>3. /\ thr[t].pc \in Paged => thr[t].pc \notin Unnumbered
      /\ thr[t].pc \notin Unnumbered => thr[t].ino \in Inos /\ thr[t].ino # 0
  BY <1>1, PagedIno, Zenon DEF Paged, Unnumbered
<1>4. /\ live' \subseteq live \cup {thr[t].ino}
      /\ live' \subseteq live \/ thr[t].pc \in Paged
  BY Zenon DEF LiveOrNot
<1>5. Types'
  <2>1. live' \subseteq Inos
    BY <1>1, <1>3, <1>4, ZenonT(40) DEF Types, TypeOK
  <2>2. TypeOK'
    BY <1>1, <1>2, <2>1, ZenonT(40) DEF Types, TypeOK, PlockOrNot, Field
  <2>3. s \in Thread /\ Phase(s)
    BY <1>a, Zenon DEF Carries
  <2> QED BY <1>1, <1>2, <2>2, <2>3, MoveTypes, Zenon
<1>6. LockInv'
  BY <1>1, MoveLocks, Zenon
<1>7. OwnInv'
  <2>1. \/ live' = live /\ (s.pc \in Gone => thr[t].pc \in Gone /\ s.ino = thr[t].ino)
        \/ live' = live \cup {thr[t].ino} /\ thr[t].ino # 0 /\ s.pc \notin Gone
        \/ live' = live \ {thr[t].ino} /\ s.ino = thr[t].ino
    BY <1>3, Zenon DEF LiveOrNot
  <2> QED BY <1>1, <1>a, <2>1, MoveOwns, Zenon
<1>8. NumberInv'
  BY <1>1, <1>a, <1>3, <1>4, MoveNumbers, Zenon
<1>9. PageInv'
  BY <1>1, <1>a, <1>4, MovePages, Zenon
<1>10. TableInv'
  <2>1. \A c \in Maps : Numbers(c)' \subseteq Numbers(c)
    BY Zenon DEF Numbers
  <2> QED BY <1>1, <1>a, <2>1, MoveTables, Zenon
<1>11. UpdateInv'
  BY <1>1, <1>a, MoveUpdates, StoreUpdates, Zenon DEF StoresOrNot
<1>12. FlagsAgree'
  BY <1>1, <1>a, <1>2, MoveFlags, Zenon
<1>13. PageLocks'
  BY <1>1, <1>a, <1>2, MovePageLocks, Zenon DEF PlockOrNot
<1> QED BY <1>5, <1>6, <1>7, <1>8, <1>9, <1>10, <1>11, <1>12, <1>13, Zenon DEF IInv

\* A step that takes no page lock and gives none back.
LEMMA PlockKept ==
    ASSUME Types, OneThreadEach, ThreadsPaged, PageLocks, NEW t \in Threads, NEW s,
           thr' = [thr EXCEPT ![t] = s], Carries(t, s), FlagsKept(t, s), plock' = plock,
           thr[t].pc \in Locked =>
             s.pc \in Locked /\ s.ino = thr[t].ino /\ s.op = thr[t].op
    PROVE  PlockOrNot(t, s)
<1>1. plock' \in [Maps \X Blocks -> Threads \cup {NoThread}]
  BY Zenon DEF Types, TypeOK
<1>2. ASSUME NEW l \in Maps \X Blocks, plock'[l] = t
      PROVE  s.pc \in Locked /\ l = LockFor(s, mem'[Addr(s.ino)][s.ino].ino)
  <2>1. /\ thr[t].pc \in Locked
        /\ l = LockFor(thr[t], mem[Addr(thr[t].ino)][thr[t].ino].ino)
    BY <1>2, Zenon DEF PageLocks, Fields
  <2>2. s.pc \in Locked /\ s.ino = thr[t].ino /\ s.op = thr[t].op /\ thr'[t] = s
    BY <2>1, OneThread, ZenonT(40)
  <2>3. CASE s.op = "write"
    <3>1. thr'[t].op = "write"
      BY <2>2, <2>3, Zenon
    <3>2. /\ Addr(thr'[t].ino) \in 1 .. NumPages
          /\ \A q \in 1 .. NumPages : mem'[q][thr'[t].ino].ino = mem[q][thr'[t].ino].ino
      BY <3>1, WriterKept, ZenonT(40)
    <3>3. mem'[Addr(s.ino)][s.ino].ino = mem[Addr(s.ino)][s.ino].ino
      BY <2>2, <3>2, ZenonT(40)
    <3> QED BY <2>1, <2>2, <3>3, Zenon DEF LockFor
  <2>4. CASE s.op # "write"
    BY <2>1, <2>2, <2>4 DEF LockFor
  <2> QED BY <2>2, <2>3, <2>4, Zenon
<1> QED BY <1>1, <1>2, Zenon DEF PlockOrNot

\* Such a step that leaves the page locks as they are.
LEMMA UnlockedStep ==
    ASSUME IInv, NEW t \in Threads, NEW s, thr' = [thr EXCEPT ![t] = s], MovesTo(t, s),
           StoresOrNot(t, s), LiveOrNot(t, s), plock' = plock, map_id' \in Maps,
           thr[t].pc \in Locked =>
             s.pc \in Locked /\ s.ino = thr[t].ino /\ s.op = thr[t].op,
           inuse' = inuse, nodes' = nodes, dangling' = dangling, table' = table,
           free' = free, tmutex' = tmutex, mlock' = mlock, overlap' = overlap,
           leaked' = leaked
    PROVE  IInv'
<1>1. Types /\ OneThreadEach /\ ThreadsPaged /\ PageLocks
  BY Zenon DEF IInv, OwnInv, PageInv
<1>2. FlagsKept(t, s)
  BY <1>1, StoresKeep, Zenon
<1>3. PlockOrNot(t, s)
  BY <1>1, <1>2, PlockKept, Zenon DEF MovesTo
<1> QED BY <1>3, LocalStep, Zenon

\* A thread that goes on with its inode.
LEMMA GoesOn ==
    ASSUME Types, NEW t \in Threads, NEW s \in Thread, Phase(s),
           thr[t].pc \notin {"idle", "number", "address", "switch"},
           s.pc \notin {"address", "switch"}, s.ino = thr[t].ino, s.op = thr[t].op,
           s.pi # 0 => s.pi = thr[t].pi \/ Fresh(s.ino, s.pi),
           s.at # 0 => s.at = thr[t].at \/ s.at = thr[t].pi \/ Fresh(s.ino, s.at),
           s.pidir # 0 => s.dir = thr[t].dir /\ (s.pidir = thr[t].pidir \/ Fresh(s.dir, s.pidir))
    PROVE  MovesTo(t, s)
<1>1. ASSUME NEW i \in Inos, NEW p \in 1 .. NumPages, Held(s, i, p)
      PROVE  Held(thr[t], i, p) \/ Fresh(i, p)
  <2>1. CASE i = s.ino /\ p = s.pi
    BY <1>1, <2>1, ZenonT(40) DEF Held
  <2>2. CASE i = s.dir /\ p = s.pidir
    BY <1>1, <2>2, ZenonT(40) DEF Held
  <2>3. CASE i = s.ino /\ p = s.at
    BY <1>1, <2>3 DEF Held
  <2> QED BY <1>1, <2>1, <2>2, <2>3, ZenonT(40) DEF Held
<1> QED BY <1>1, Zenon DEF MovesTo, Carries, Unnumbered

\* A thread that returns.
LEMMA Returns ==
    ASSUME Types, NEW t \in Threads, thr[t].pc \notin {"address", "switch"}
    PROVE  MovesTo(t, Idle)
<1>1. Idle \in Thread /\ Idle.ino = 0 /\ Idle.pc = "idle" /\ Idle.op = "none"
  BY Sizes, SMTT(40) DEF Idle, Thread, PC
<1>2. Phase(Idle)
  BY ZenonT(40) DEF Phase, Idle, Unnumbered, Gone
<1>3. \A i, p : ~ Held(Idle, i, p)
  BY DEF Held, Idle
<1> QED BY <1>1, <1>2, <1>3, Zenon DEF MovesTo, Carries, Unnumbered

-----------------------------------------------------------------------------
(* The steps of an operation that look an address up or return             *)

\* An address that has been looked up under the mapping lock.
LEMMA LookedUp ==
    ASSUME Types, NEW i \in Inos, nova_get_inode_address(i)
    PROVE  Fresh(i, Addr(i)) /\ Addr(i) \in 1 .. NumPages
<1>1. Addr(i) \in 0 .. NumPages /\ Addr(i) # 0
  BY AddrType, Zenon DEF nova_get_inode_address
<1>2. Addr(i) \in 1 .. NumPages
  BY <1>1, Sizes
<1> QED BY <1>1, <1>2, Zenon DEF nova_get_inode_address, Fresh

\* A thread has the fields of one.
LEMMA ThreadFields ==
    ASSUME Types, NEW t \in Threads
    PROVE  /\ thr[t] \in Thread /\ Phase(thr[t])
           /\ thr[t].pc \in PC /\ thr[t].ino \in Inos /\ thr[t].dir \in Inos
           /\ thr[t].cpu \in Maps /\ thr[t].pi \in 0 .. NumPages
           /\ thr[t].pidir \in 0 .. NumPages /\ thr[t].at \in 0 .. NumPages
  BY Zenon DEF Types, Thread

\* A step of UnlockedStep that stores nothing and changes no names.
LEMMA LookupStep ==
    ASSUME IInv, NEW t \in Threads, NEW s, thr' = [thr EXCEPT ![t] = s], MovesTo(t, s),
           thr[t].pc \in Locked =>
             s.pc \in Locked /\ s.ino = thr[t].ino /\ s.op = thr[t].op,
           s.pc \in Gone => thr[t].pc \in Gone /\ s.ino = thr[t].ino,
           map_id' \in Maps, inuse' = inuse, nodes' = nodes, dangling' = dangling,
           table' = table, mem' = mem, free' = free, tmutex' = tmutex, mlock' = mlock,
           plock' = plock, live' = live, latest' = latest, overlap' = overlap,
           leaked' = leaked
    PROVE  IInv'
<1>1. StoresOrNot(t, s) /\ LiveOrNot(t, s)
  BY Zenon DEF StoresOrNot, LiveOrNot
<1> QED BY <1>1, UnlockedStep, Zenon

\* NoInode, and inode_page_count_increase_with_migrate when it does not migrate.
LEMMA ReturnStep ==
    ASSUME IInv, NEW t \in Threads, thr' = [thr EXCEPT ![t] = Idle],
           thr[t].pc \notin {"address", "switch"}, thr[t].pc \notin Locked,
           inuse' = inuse, nodes' = nodes, dangling' = dangling, map_id' = map_id,
           table' = table, mem' = mem, free' = free, tmutex' = tmutex, mlock' = mlock,
           plock' = plock, live' = live, latest' = latest, overlap' = overlap,
           leaked' = leaked
    PROVE  IInv'
<1>1. Types /\ map_id \in Maps
  BY Zenon DEF IInv, Types, TypeOK
<1>2. MovesTo(t, Idle)
  BY <1>1, Returns, Zenon
<1>3. Idle.pc \notin Gone
  BY DEF Idle, Gone
<1> QED BY <1>1, <1>2, <1>3, LookupStep, Zenon

\* A step that stores nothing and leaves the tables and the page locks alone.
LEMMA CarryStep ==
    ASSUME IInv, NEW t \in Threads, NEW s, thr' = [thr EXCEPT ![t] = s], Carries(t, s),
           thr[t].pc \notin Locked,
           s.pc \in Paged => (s.ino = thr[t].ino /\ thr[t].pc \in Paged) \/ s.ino \in live,
           table' = table, mem' = mem, free' = free, plock' = plock, live' = live,
           latest' = latest, overlap' = overlap
    PROVE  PageInv' /\ UpdateInv' /\ FlagsAgree' /\ PageLocks'
<1>1. /\ Types /\ LockInv /\ PageInv /\ UpdateInv /\ FlagsAgree /\ PageLocks
      /\ OneThreadEach /\ ThreadsPaged
  BY Zenon DEF IInv, OwnInv, PageInv
<1>2. FlagsKept(t, s)
  BY Zenon DEF FlagsKept
<1>3. PlockOrNot(t, s)
  BY <1>1, <1>2, PlockKept, Zenon
<1>4. PageInv'
  BY <1>1, MovePages, Zenon
<1>5. UpdateInv'
  BY <1>1, MoveUpdates, Zenon
<1>6. FlagsAgree'
  BY <1>1, <1>2, MoveFlags, Zenon
<1>7. PageLocks'
  BY <1>1, <1>2, <1>3, MovePageLocks, Zenon DEF PlockOrNot
<1> QED BY <1>4, <1>5, <1>6, <1>7, Zenon

-----------------------------------------------------------------------------
(* The steps that look up an address                                       *)

\* nova_get_inode_by_ino_or_pi_addr, nova_update_inode, Again, Evict: the inode's
\* address, to one of the two places the thread keeps it in.
LEMMA AddressStep ==
    ASSUME IInv, NEW t \in Threads,
           \/ nova_get_inode_by_ino_or_pi_addr(t) \/ nova_update_inode(t)
           \/ Again(t) \/ Evict(t)
    PROVE  IInv'
<1> DEFINE r == thr[t]  a == Addr(r.ino)
<1>1. /\ Types /\ r \in Thread /\ Phase(r) /\ r.ino \in Inos
      /\ map_id \in Maps /\ thr \in [Threads -> Thread]
  BY ThreadFields, Zenon DEF IInv, Types, TypeOK
<1>2. Fresh(r.ino, a) /\ a \in 0 .. NumPages /\ a # 0
  <2>1. nova_get_inode_address(r.ino)
    BY Zenon DEF nova_get_inode_by_ino_or_pi_addr, nova_update_inode, Again, Evict
  <2>2. Fresh(r.ino, a) /\ a \in 1 .. NumPages
    BY <1>1, <2>1, LookedUp, Zenon
  <2> QED BY <2>2, Sizes, SMTT(40)
<1>3. UNCHANGED <<inuse, nodes, dangling, map_id, table, mem, free, tmutex, mlock, plock,
                  live, latest, overlap, leaked>>
  BY Zenon DEF nova_get_inode_by_ino_or_pi_addr, nova_update_inode, Again, Evict,
               locks, history
<1> HIDE DEF a
<1>4. CASE nova_get_inode_by_ino_or_pi_addr(t) \/ nova_update_inode(t)
  <2>1. PICK pc \in {"tail", "fill", "attrs"} :
          /\ thr' = [thr EXCEPT ![t].pc = pc, ![t].at = a]
          /\ r.pc \in {"relook", "update"}
          /\ pc = "tail" => r.op = "write"
          /\ pc # "tail" => r.op \in {"create", "mkdir"}
    <3>1. CASE nova_update_inode(t)
      BY <1>1, <3>1, ZenonT(40) DEF nova_update_inode, Phase, a
    <3>2. CASE nova_get_inode_by_ino_or_pi_addr(t)
      <4>1. r.pc = "relook" /\ r.op \in {"create", "mkdir", "write"}
        BY <1>1, <3>2, Zenon DEF nova_get_inode_by_ino_or_pi_addr, Phase
      <4>2. CASE r.op = "write"
        <5>1. thr' = [thr EXCEPT ![t].pc = "tail", ![t].at = a]
          BY <3>2, <4>2, ZenonT(40) DEF nova_get_inode_by_ino_or_pi_addr, a
        <5> QED BY <4>1, <4>2, <5>1, ZenonT(40)
      <4>3. CASE r.op # "write"
        <5>1. thr' = [thr EXCEPT ![t].pc = "fill", ![t].at = a]
          BY <3>2, <4>3, ZenonT(40) DEF nova_get_inode_by_ino_or_pi_addr, a
        <5> QED BY <4>1, <4>3, <5>1, ZenonT(40)
      <4> QED BY <4>2, <4>3, Zenon
    <3> QED BY <1>4, <3>1, <3>2, Zenon
  <2> DEFINE s == [r EXCEPT !.pc = pc, !.at = a]
  <2>2. thr' = [thr EXCEPT ![t] = s]
    BY <1>1, <2>1, Zenon
  <2>3. /\ s \in Thread /\ s.pc = pc /\ s.at = a /\ s.ino = r.ino /\ s.op = r.op
        /\ s.pi = r.pi /\ s.dir = r.dir /\ s.pidir = r.pidir
    BY <1>1, <1>2, <2>1, Zenon DEF Thread, PC
  <2> HIDE DEF s
  <2>4. Phase(s)
    BY <1>1, <1>2, <2>1, <2>3, ZenonT(40) DEF Phase, Unnumbered, Gone
  <2>5. MovesTo(t, s)
    <3>2. /\ s.pi # 0 => s.pi = r.pi \/ Fresh(s.ino, s.pi)
          /\ s.at # 0 => s.at = r.at \/ s.at = r.pi \/ Fresh(s.ino, s.at)
          /\ s.pidir # 0 => s.dir = r.dir /\ (s.pidir = r.pidir \/ Fresh(s.dir, s.pidir))
      BY <1>2, <2>3, ZenonT(40)
    <3> QED BY <1>1, <2>1, <2>3, <2>4, <3>2, GoesOn, ZenonT(40)
  <2> QED BY <1>1, <1>3, <2>1, <2>2, <2>3, <2>5, LookupStep, ZenonT(40) DEF Locked, Gone
<1>5. CASE Again(t)
  <2> DEFINE s == [r EXCEPT !.pc = "pidir", !.pi = a]
  <2>2. thr' = [thr EXCEPT ![t] = s] /\ r.pc = "again"
    BY <1>1, <1>5, Zenon DEF Again, a
  <2>3. /\ s \in Thread /\ s.pc = "pidir" /\ s.pi = a /\ s.ino = r.ino /\ s.op = r.op
        /\ s.at = r.at /\ s.dir = r.dir /\ s.pidir = r.pidir
    BY <1>1, <1>2, Zenon DEF Thread, PC
  <2> HIDE DEF s
  <2>4. Phase(s)
    BY <1>1, <1>2, <2>2, <2>3, ZenonT(40) DEF Phase, Unnumbered, Gone
  <2>5. MovesTo(t, s)
    <3>2. /\ s.pi # 0 => s.pi = r.pi \/ Fresh(s.ino, s.pi)
          /\ s.at # 0 => s.at = r.at \/ s.at = r.pi \/ Fresh(s.ino, s.at)
          /\ s.pidir # 0 => s.dir = r.dir /\ (s.pidir = r.pidir \/ Fresh(s.dir, s.pidir))
      BY <1>2, <2>3, ZenonT(40)
    <3> QED BY <1>1, <2>2, <2>3, <2>4, <3>2, GoesOn, ZenonT(40)
  <2> QED BY <1>1, <1>3, <2>2, <2>3, <2>5, LookupStep, ZenonT(40) DEF Locked, Gone
<1>6. CASE Evict(t)
  <2> DEFINE s == [r EXCEPT !.pc = "clear", !.pi = a, !.dir = 0]
  <2>2. thr' = [thr EXCEPT ![t] = s] /\ r.pc = "evict"
    BY <1>1, <1>6, Zenon DEF Evict, a
  <2>3. /\ s \in Thread /\ s.pc = "clear" /\ s.pi = a /\ s.ino = r.ino /\ s.op = r.op
        /\ s.at = r.at /\ s.dir = 0 /\ s.pidir = r.pidir
    BY <1>1, <1>2, Sizes, Zenon DEF Thread, PC
  <2> HIDE DEF s
  <2>4. Phase(s)
    BY <1>1, <1>2, <2>2, <2>3, ZenonT(40) DEF Phase, Unnumbered, Gone
  <2>5. MovesTo(t, s)
    <3>1. s.pidir = 0
      BY <1>1, <2>2, <2>3, ZenonT(40) DEF Phase, Gone
    <3>2. /\ s.pi # 0 => s.pi = r.pi \/ Fresh(s.ino, s.pi)
          /\ s.at # 0 => s.at = r.at \/ s.at = r.pi \/ Fresh(s.ino, s.at)
          /\ s.pidir # 0 => s.dir = r.dir /\ (s.pidir = r.pidir \/ Fresh(s.dir, s.pidir))
      BY <1>2, <2>3, <3>1, ZenonT(40)
    <3> QED BY <1>1, <2>2, <2>3, <2>4, <3>2, GoesOn, ZenonT(40)
  <2> QED BY <1>1, <1>3, <2>2, <2>3, <2>5, LookupStep, ZenonT(40) DEF Locked, Gone
<1> QED BY <1>4, <1>5, <1>6, Zenon

\* Pidir: the address of the directory, unless it is reserved.
LEMMA PidirStep ==
    ASSUME IInv, NEW t \in Threads, Pidir(t)
    PROVE  IInv'
<1> DEFINE r == thr[t]  a == nova_get_inode(r.dir)
<1>1. /\ Types /\ r \in Thread /\ Phase(r) /\ r.dir \in Inos
      /\ map_id \in Maps /\ thr \in [Threads -> Thread]
  BY ThreadFields, Zenon DEF IInv, Types, TypeOK
<1>2. a \in 0 .. NumPages /\ (a # 0 => Fresh(r.dir, a))
  <2>1. Fresh(r.dir, Addr(r.dir)) /\ Addr(r.dir) \in 1 .. NumPages
    BY <1>1, LookedUp, Zenon DEF Pidir
  <2>2. a = 0 \/ a = Addr(r.dir)
    BY Zenon DEF nova_get_inode
  <2> QED BY <2>1, <2>2, Sizes, SMTT(40)
<1>3. UNCHANGED <<inuse, nodes, dangling, map_id, table, mem, free, tmutex, mlock, plock,
                  live, latest, overlap, leaked>>
  BY Zenon DEF Pidir, locks, history
<1>4. PICK pc \in {"pi_tail", "pidir_tail"} :
        thr' = [thr EXCEPT ![t].pc = pc, ![t].pidir = a]
  <2>1. CASE r.op = "unlink"
    BY <2>1 DEF Pidir
  <2>2. CASE r.op # "unlink"
    BY <2>2, Zenon DEF Pidir
  <2> QED BY <2>1, <2>2, Zenon
<1>5. r.pc = "pidir"
  BY Zenon DEF Pidir
<1> HIDE DEF a
<1> DEFINE s == [r EXCEPT !.pc = pc, !.pidir = a]
<1>6. thr' = [thr EXCEPT ![t] = s]
  BY <1>1, <1>4, Zenon
<1>7. /\ s \in Thread /\ s.pc = pc /\ s.pidir = a /\ s.ino = r.ino /\ s.op = r.op
      /\ s.pi = r.pi /\ s.dir = r.dir /\ s.at = r.at
  BY <1>1, <1>2, <1>4, Zenon DEF Thread, PC
<1> HIDE DEF s
<1>8. Phase(s)
  BY <1>1, <1>4, <1>5, <1>7, ZenonT(40) DEF Phase, Unnumbered, Gone
<1>9. MovesTo(t, s)
  <2>1. s.pidir # 0 => s.dir = r.dir /\ (s.pidir = r.pidir \/ Fresh(s.dir, s.pidir))
    BY <1>2, <1>7, ZenonT(40)
  <2> QED BY <1>1, <1>4, <1>5, <1>7, <1>8, <2>1, GoesOn, ZenonT(40)
<1> QED BY <1>1, <1>3, <1>4, <1>5, <1>6, <1>7, <1>9, LookupStep, ZenonT(40) DEF Locked, Gone

\* inode_page_count_increase_with_migrate, when the page stays where it is.
LEMMA CountStep ==
    ASSUME IInv, NEW t \in Threads, thr[t].pc = "count",
           thr' = [thr EXCEPT ![t] = At(@, AfterCount(t))],
           inuse' = inuse, nodes' = nodes, dangling' = dangling, map_id' = map_id,
           table' = table, mem' = mem, free' = free, tmutex' = tmutex, mlock' = mlock,
           plock' = plock, live' = live, latest' = latest, overlap' = overlap,
           leaked' = leaked
    PROVE  IInv'
<1> DEFINE r == thr[t]
<1>1. /\ Types /\ r \in Thread /\ Phase(r) /\ map_id \in Maps
  BY ThreadFields, Zenon DEF IInv, Types, TypeOK
<1>2. CASE AfterCount(t) = "idle"
  <2>1. thr' = [thr EXCEPT ![t] = Idle]
    BY <1>2, Zenon DEF At
  <2> QED BY <2>1, ReturnStep, Zenon DEF Locked
<1>3. CASE AfterCount(t) # "idle"
  <2>1. PICK pc \in {"pidir_tail", "again"} :
          AfterCount(t) = pc /\ (pc = "again" => r.op = "mkdir")
    BY <1>3, Zenon DEF AfterCount
  <2> DEFINE s == [r EXCEPT !.pc = pc, !.at = 0]
  <2>2. thr' = [thr EXCEPT ![t] = s]
    BY <1>3, <2>1, ZenonT(40) DEF At
  <2>3. /\ s \in Thread /\ s.pc = pc /\ s.at = 0 /\ s.ino = r.ino /\ s.op = r.op
        /\ s.pi = r.pi /\ s.dir = r.dir /\ s.pidir = r.pidir
    <3>1. 0 \in 0 .. NumPages
      BY Sizes, SMTT(40)
    <3> QED BY <1>1, <2>1, <3>1, ZenonT(40) DEF Thread, PC
  <2> HIDE DEF s
  <2>4. Phase(s)
    BY <1>1, <2>1, <2>3, ZenonT(40) DEF Phase, Unnumbered, Gone
  <2>5. MovesTo(t, s)
    BY <1>1, <2>1, <2>3, <2>4, GoesOn, Zenon
  <2> QED BY <1>1, <2>1, <2>2, <2>3, <2>5, LookupStep, ZenonT(40) DEF Locked, Gone
<1> QED BY <1>2, <1>3, Zenon

-----------------------------------------------------------------------------
(* The address of a new inode                                              *)

\* The mutex of the map is released.
LEMMA MutexReleased ==
    ASSUME Types, LockInv, NEW t \in Threads, NEW s, thr' = [thr EXCEPT ![t] = s],
           NEW c \in Maps, thr[t].pc = "address", thr[t].cpu = c, s.pc # "address",
           tmutex' = [tmutex EXCEPT ![c] = NoThread]
    PROVE  MutexesHeld'
<1>1. thr'[t] = s /\ \A u \in Threads : u # t => thr'[u] = thr[u]
  BY OneThread, Zenon
<1>2. tmutex'[c] = NoThread /\ \A d \in Maps : d # c => tmutex'[d] = tmutex[d]
  BY Zenon DEF Types, TypeOK
<1>3. SUFFICES ASSUME NEW u \in Threads, NEW d \in Maps
               PROVE  tmutex'[d] = u <=> thr'[u].pc = "address" /\ thr'[u].cpu = d
  BY Zenon DEF MutexesHeld
<1>4. /\ tmutex[d] = u <=> thr[u].pc = "address" /\ thr[u].cpu = d
      /\ tmutex[c] = t /\ u # NoThread
  <2>1. tmutex[d] = u <=> thr[u].pc = "address" /\ thr[u].cpu = d
    BY ZenonT(40) DEF LockInv, MutexesHeld
  <2>2. tmutex[c] = t
    BY Zenon DEF LockInv, MutexesHeld
  <2> QED BY <2>1, <2>2, TableAssumption, Zenon
<1>5. CASE u = t
  <2>0. thr'[u] = s
    BY <1>1, <1>5, Zenon
  <2>1. thr'[u].pc # "address"
    BY <2>0, Zenon
  <2>2. d # c => tmutex[d] # u
    BY <1>4, <1>5, Zenon
  <2> QED BY <1>2, <1>4, <2>1, <2>2, Zenon
<1>6. CASE u # t
  <2>1. thr'[u] = thr[u]
    BY <1>1, <1>6, Zenon
  <2> QED BY <1>2, <1>4, <1>6, <2>1, Zenon
<1> QED BY <1>5, <1>6, Zenon

\* The mapping lock stays taken when there is no page.
LEMMA LeakLocks ==
    ASSUME Types, LockInv, NEW t \in Threads, NEW s, thr' = [thr EXCEPT ![t] = s],
           thr[t].pc # "switch", s.pc # "switch", NEW c \in Maps, mlock[c] = NoThread,
           mlock' = [mlock EXCEPT ![c] = t], leaked' = leaked \cup {c}, MutexesHeld'
    PROVE  LockInv'
<1>1. thr'[t] = s /\ \A u \in Threads : u # t => thr'[u] = thr[u]
  BY OneThread, Zenon
<1>2. mlock'[c] = t /\ \A d \in Maps : d # c => mlock'[d] = mlock[d]
  BY Zenon DEF Types, TypeOK
<1>3. \A u \in Threads : thr[u].pc = "switch" \/ thr'[u].pc = "switch" => thr'[u] = thr[u]
  BY <1>1, Zenon
<1>4. \A u \in Threads : u # NoThread
  BY TableAssumption, Zenon
<1>5. MappingsHeld'
  <2>1. SUFFICES ASSUME NEW u \in Threads, NEW d \in Maps, mlock'[d] = u, d \notin leaked'
                 PROVE  thr'[u].pc = "switch" /\ cpuid(thr'[u].ino) = d
    BY DEF MappingsHeld, cpuid
  <2>2. thr[u].pc = "switch" /\ cpuid(thr[u].ino) = d
    BY <1>2, <2>1, ZenonT(40) DEF LockInv, MappingsHeld
  <2> QED BY <1>3, <2>2, ZenonT(40)
<1>6. SwitchersHold'
  <2>1. SUFFICES ASSUME NEW u \in Threads, thr'[u].pc = "switch"
                 PROVE  mlock'[cpuid(thr'[u].ino)] = u /\ cpuid(thr'[u].ino) \notin leaked'
    BY DEF SwitchersHold, cpuid
  <2>2. thr'[u] = thr[u]
    BY <1>3, <2>1, Zenon
  <2>3. /\ mlock[cpuid(thr[u].ino)] = u /\ cpuid(thr[u].ino) \notin leaked
    BY <2>1, <2>2, ZenonT(40) DEF LockInv, SwitchersHold
  <2>4. cpuid(thr[u].ino) \in Maps
    BY ThreadFields, InoParts, Zenon
  <2>5. cpuid(thr[u].ino) # c
    BY <1>4, <2>3, Zenon
  <2>6. mlock'[cpuid(thr[u].ino)] = u /\ cpuid(thr[u].ino) \notin leaked'
    BY <1>2, <2>3, <2>4, <2>5, ZenonT(40)
  <2> QED BY <2>2, <2>6, ZenonT(40)
<1>7. LeakedHeld'
  <2>1. leaked \subseteq Maps
    BY Zenon DEF Types, TypeOK
  <2>2. ASSUME NEW d \in leaked' PROVE mlock'[d] # NoThread
    <3>1. CASE d = c
      BY <1>2, <1>4, <3>1, Zenon
    <3>2. CASE d # c
      BY <1>2, <2>1, <2>2, <3>2, ZenonT(40) DEF LockInv, LeakedHeld
    <3> QED BY <3>1, <3>2, Zenon
  <2> QED BY <2>2, Zenon DEF LeakedHeld
<1> QED BY <1>5, <1>6, <1>7, Zenon DEF LockInv

\* The numbers of a map are numbers.
LEMMA NumberBound ==
    ASSUME RangesSound, NEW d \in Maps, NEW n \in Numbers(d)
    PROVE  n \in 0 .. MAX_INODE - 1
<1>1. Sound(inuse[d])
  BY Zenon DEF RangesSound, Ranges
<1>2. PICK r \in inuse[d] : n \in r[1] .. r[2]
  BY Zenon DEF Numbers
<1>3. r[1] \in 0 .. MAX_INODE /\ r[2] \in 0 .. MAX_INODE /\ r[2] < MAX_INODE - 1
  BY <1>1, ZenonT(40) DEF Sound
<1> QED BY <1>2, <1>3, Sizes, SMTT(40)

\* NewAddress, when there is no page.
LEMMA AddressFailed ==
    ASSUME IInv, NEW t \in Threads, NEW c, c = thr[t].cpu, thr[t].pc = "address",
           mlock[c] = NoThread, tmutex' = [tmutex EXCEPT ![c] = NoThread],
           mlock' = [mlock EXCEPT ![c] = t], leaked' = leaked \cup {c},
           thr' = [thr EXCEPT ![t] = Idle], inuse' = inuse, nodes' = nodes,
           dangling' = dangling, map_id' = map_id, table' = table, mem' = mem, free' = free,
           plock' = plock, live' = live, latest' = latest, overlap' = overlap
    PROVE  IInv'
<1>1. /\ Types /\ LockInv /\ OwnInv /\ NumberInv /\ TableInv /\ RangesSound
      /\ NumbersPaged /\ NoHoles /\ OnlyNextMissing
  BY Zenon DEF IInv, OwnInv, NumberInv, TableInv
<1>2. c \in Maps /\ thr[t].ino \in Inos /\ cpuid(thr[t].ino) = c
  BY <1>1, ThreadFields, Zenon DEF Phase
<1>3. /\ Idle \in Thread /\ Phase(Idle) /\ Idle.ino = 0 /\ Idle.pc = "idle" /\ Idle.op = "none"
  <2>1. Idle \in Thread /\ Idle.ino = 0 /\ Idle.pc = "idle" /\ Idle.op = "none"
    BY Sizes DEF Idle, Thread, PC
  <2>2. Phase(Idle)
    BY DEF Phase, Idle, Unnumbered, Gone
  <2> QED BY <2>1, <2>2, ZenonT(40)
<1>4. Carries(t, Idle)
  <2>1. \A i, p : ~ Held(Idle, i, p)
    BY DEF Held, Idle
  <2> QED BY <1>3, <2>1, Zenon DEF Carries
<1>5. thr'[t] = Idle /\ \A u \in Threads : u # t => thr'[u] = thr[u]
  BY <1>1, OneThread, Zenon
<1>6. PageInv' /\ UpdateInv' /\ FlagsAgree' /\ PageLocks'
  BY <1>3, <1>4, CarryStep, ZenonT(40) DEF Locked, Paged
<1>7. LockInv'
  <2>1. MutexesHeld'
    BY <1>1, <1>2, <1>3, MutexReleased, ZenonT(40)
  <2> QED BY <1>1, <1>2, <1>3, <2>1, LeakLocks, ZenonT(40)
<1>8. OwnInv' /\ NumberInv'
  BY <1>1, <1>3, MoveOwns, MoveNumbers, ZenonT(40) DEF Alone, Gone, Unnumbered
<1>9. Types'
  <2>1. /\ tmutex' \in [Maps -> Threads \cup {NoThread}] /\ mlock' \in [Maps -> Threads \cup {NoThread}]
        /\ leaked' \subseteq Maps /\ latest' \in [Inos -> Field]
    BY <1>1, <1>2, ZenonT(40) DEF Types, TypeOK
  <2>2. TypeOK'
    BY <1>1, <2>1, ZenonT(40) DEF Types, TypeOK
  <2> QED BY <1>1, <1>3, <2>1, <2>2, MoveTypes, ZenonT(40)
<1>10. TableInv'
  <2>1. NoHoles'
    BY <1>1, Zenon DEF NoHoles
  <2>2. NumbersPaged'
    <3>1. SUFFICES ASSUME NEW d \in Maps, d \notin leaked', NEW m \in Numbers(d)
                   PROVE  table[d][m \div NumInodes] # 0 \/ Addressing(d, m)'
      BY ZenonT(40) DEF NumbersPaged, Numbers
    <3>2. ASSUME Addressing(d, m) PROVE Addressing(d, m)'
      <4>1. PICK u \in Threads : thr[u].pc = "address" /\ thr[u].ino = m * CPUS + d
        BY <3>2, Zenon DEF Addressing
      <4>2. cpuid(m * CPUS + d) = d
        BY <1>1, NumberBound, InoOf, ZenonT(40)
      <4>3. u # t
        BY <1>2, <3>1, <4>1, <4>2, ZenonT(40)
      <4>4. thr'[u].pc = "address" /\ thr'[u].ino = m * CPUS + d
        BY <1>5, <4>1, <4>3, ZenonT(40)
      <4> QED BY <4>4, ZenonT(40) DEF Addressing
    <3> QED BY <1>1, <3>1, <3>2, ZenonT(40) DEF NumbersPaged
  <2>3. OnlyNextMissing'
    <3>1. \A u \in Threads : thr'[u].pc = "address" => thr'[u] = thr[u]
      BY <1>3, <1>5, Zenon
    <3> QED BY <1>1, <3>1, SMTT(40) DEF OnlyNextMissing
  <2> QED BY <2>1, <2>2, <2>3, ZenonT(40) DEF TableInv
<1> QED BY <1>6, <1>7, <1>8, <1>9, <1>10, ZenonT(40) DEF IInv

\* The table of map c gets a page for block k, if it had none.
Extended(c, k) ==
    /\ table' \in [Maps -> [Blocks -> 0 .. NumPages]] /\ free' \subseteq free
    /\ \A d \in Maps, j \in Blocks : table[d][j] # 0 => table'[d][j] = table[d][j]
    /\ \A d \in Maps, j \in Blocks : table[d][j] = 0 /\ table'[d][j] # 0 =>
         d = c /\ j = k /\ table'[d][j] \in free /\ table'[d][j] \notin free'
    /\ table'[c][k] # 0

\* The pages after that.
LEMMA ExtendedPages ==
    ASSUME Types, PageInv, NEW c \in Maps, NEW k \in Blocks, Extended(c, k)
    PROVE  /\ TablesApart' /\ TablesTaken'
           /\ \A i \in Inos : Addr(i) # 0 => Addr(i)' = Addr(i)
           /\ \A i \in Inos : Addr(i) = 0 /\ Addr(i)' # 0 => Addr(i)' \in free
<1>1. /\ table \in [Maps -> [Blocks -> 0 .. NumPages]] /\ free \subseteq 1 .. NumPages
      /\ 0 \notin free
  <2>1. table \in [Maps -> [Blocks -> 0 .. NumPages]] /\ free \subseteq 1 .. NumPages
    BY Zenon DEF Types, TypeOK
  <2> QED BY <2>1, Sizes, SMTT(40)
<1>2. \A d \in Maps, j \in Blocks : table[d][j] \notin free
  BY Zenon DEF PageInv, TablesTaken
<1>3. ASSUME NEW d \in Maps, NEW j \in Blocks PROVE table'[d][j] \notin free'
  <2>1. free' \subseteq free
    BY Zenon DEF Extended
  <2>2. CASE table[d][j] # 0
    <3>1. table'[d][j] = table[d][j] /\ table[d][j] \notin free
      BY <1>2, <2>2, Zenon DEF Extended
    <3> QED BY <2>1, <3>1, ZenonT(40)
  <2>3. CASE table[d][j] = 0 /\ table'[d][j] # 0
    BY <2>3, Zenon DEF Extended
  <2>4. CASE table'[d][j] = 0
    BY <1>1, <2>1, <2>4, ZenonT(40)
  <2> QED BY <2>2, <2>3, <2>4, Zenon
<1>4. ASSUME NEW d \in Maps, NEW e \in Maps, NEW j \in Blocks, NEW l \in Blocks,
             table'[d][j] = table'[e][l], table'[d][j] # 0
      PROVE  d = e /\ j = l
  <2>1. CASE table[d][j] # 0 /\ table[e][l] # 0
    <3>1. table[d][j] = table[e][l]
      BY <1>4, <2>1, Zenon DEF Extended
    <3>2. table[d][j] = table[e][l] => table[d][j] = 0 \/ (d = e /\ j = l)
      BY SMT DEF PageInv, TablesApart
    <3> QED BY <2>1, <3>1, <3>2, Zenon
  <2>2. CASE table[d][j] = 0 /\ table[e][l] = 0
    <3>1. d = c /\ j = k
      BY <1>4, <2>2, Zenon DEF Extended
    <3>2. table'[e][l] # 0
      BY <1>4, Zenon
    <3>3. e = c /\ l = k
      BY <2>2, <3>2, Zenon DEF Extended
    <3> QED BY <3>1, <3>3, Zenon
  <2>3. CASE table[d][j] = 0 /\ table[e][l] # 0
    <3>1. table'[d][j] \in free /\ table'[e][l] = table[e][l]
      BY <1>4, <2>3, Zenon DEF Extended
    <3>2. table[e][l] \notin free
      BY <1>2, Zenon
    <3> QED BY <1>4, <3>1, <3>2, ZenonT(40)
  <2>4. CASE table[d][j] # 0 /\ table[e][l] = 0
    <3>1. table'[e][l] \in free /\ table'[d][j] = table[d][j]
      BY <1>4, <2>4, Zenon DEF Extended
    <3>2. table[d][j] \notin free
      BY <1>2, Zenon
    <3> QED BY <1>4, <3>1, <3>2, ZenonT(40)
  <2> QED BY <2>1, <2>2, <2>3, <2>4, Zenon
<1>5. \A i \in Inos : cpuid(i) \in Maps /\ superpage_count(i) \in Blocks
  BY InoParts, Zenon
<1>6. \A i : Addr(i)' = table'[cpuid(i)][superpage_count(i)]
  BY DEF Addr, cpuid, superpage_count, internal_ino
<1>7. /\ \A i \in Inos : Addr(i) # 0 => Addr(i)' = Addr(i)
      /\ \A i \in Inos : Addr(i) = 0 /\ Addr(i)' # 0 => Addr(i)' \in free
  <2>1. ASSUME NEW i \in Inos, Addr(i) # 0 PROVE Addr(i)' = Addr(i)
    BY <1>5, <1>6, <2>1, ZenonT(40) DEF Extended, Addr
  <2>2. ASSUME NEW i \in Inos, Addr(i) = 0, Addr(i)' # 0 PROVE Addr(i)' \in free
    BY <1>5, <1>6, <2>2, ZenonT(40) DEF Extended, Addr
  <2> QED BY <2>1, <2>2, Zenon
<1>8. TablesApart'
  BY <1>4 DEF TablesApart
<1>9. TablesTaken'
  BY <1>3, ZenonT(40) DEF TablesTaken
<1> QED BY <1>7, <1>8, <1>9, ZenonT(40)

\* NewAddress, when there is a page or none is missing.
LEMMA AddressGiven ==
    ASSUME IInv, NEW t \in Threads, NEW c, c = thr[t].cpu, thr[t].pc = "address",
           NEW i, i = thr[t].ino, NEW k, k = superpage_count(i), mlock[c] = NoThread,
           Extended(c, k), NEW s, s = [thr[t] EXCEPT !.pc = "init", !.pi = table'[c][k]],
           tmutex' = [tmutex EXCEPT ![c] = NoThread], thr' = [thr EXCEPT ![t] = s],
           mlock' = mlock, leaked' = leaked, inuse' = inuse, nodes' = nodes,
           dangling' = dangling, map_id' = map_id, mem' = mem, plock' = plock,
           live' = live, latest' = latest, overlap' = overlap
    PROVE  IInv'
<1> DEFINE r == thr[t]
<1>1. /\ Types /\ LockInv /\ OwnInv /\ NumberInv /\ TableInv /\ PageInv /\ UpdateInv
      /\ OneThreadEach /\ ThreadsPaged /\ HeldTaken /\ CopiesApart /\ LivePaged
      /\ NumbersPaged /\ NoHoles /\ OnlyNextMissing /\ LeakedHeld /\ RangesSound
      /\ FlagsAgree /\ PageLocks
  BY Zenon DEF IInv, OwnInv, NumberInv, TableInv, PageInv, LockInv
<1>2. /\ r \in Thread /\ Phase(r) /\ c \in Maps /\ i \in Inos /\ cpuid(i) = c /\ k \in Blocks
      /\ r.op \in {"create", "mkdir"} /\ internal_ino(i) > range_high
      /\ i = internal_ino(i) * CPUS + c
  BY <1>1, ThreadFields, InoParts, ZenonT(40) DEF Phase, Unnumbered
<1>3. c \notin leaked
  BY <1>1, Zenon DEF LeakedHeld
<1> DEFINE p0 == table'[c][k]
<1>4. p0 \in 0 .. NumPages /\ p0 # 0 /\ Addr(i)' = p0
  <2>1. Addr(i)' = table'[cpuid(i)][superpage_count(i)]
    BY DEF Addr, cpuid, superpage_count, internal_ino
  <2>2. Addr(i)' = p0
    BY <1>2, <2>1, ZenonT(40)
  <2> QED BY <1>2, <2>2, ZenonT(40) DEF Extended
<1>5. /\ s \in Thread /\ s.pc = "init" /\ s.at = r.at /\ s.ino = i /\ s.op = r.op
      /\ s.pi = p0 /\ s.dir = r.dir /\ s.pidir = r.pidir
  BY <1>2, <1>4, Zenon DEF Thread, PC
<1>6. thr'[t] = s /\ \A u \in Threads : u # t => thr'[u] = thr[u]
  BY <1>1, OneThread, ZenonT(40)
<1>7. Phase(s)
  BY <1>2, <1>4, <1>5, ZenonT(40) DEF Phase, Unnumbered, Gone
<1>8. /\ TablesApart' /\ TablesTaken'
      /\ \A j \in Inos : Addr(j) # 0 => Addr(j)' = Addr(j)
      /\ \A j \in Inos : Addr(j) = 0 /\ Addr(j)' # 0 => Addr(j)' \in free
  BY <1>1, <1>2, ExtendedPages, ZenonT(40)
<1> HIDE DEF p0
<1>9. \A u \in Threads : thr[u].pc = "switch" \/ thr'[u].pc = "switch" => thr'[u] = thr[u]
  BY <1>5, <1>6, ZenonT(40)
<1>10. \A u \in Threads : \A j : Copying(u, j)' = Copying(u, j)
  BY <1>9 DEF Copying, SamePage
<1>11. \A u \in Threads, j \in Inos, p \in 1 .. NumPages :
         Held(thr'[u], j, p) => Held(thr[u], j, p) \/ (u = t /\ j = i /\ p = p0)
  <2>1. \A j, p : Held(s, j, p) => Held(r, j, p) \/ (j = i /\ p = p0)
    BY <1>5, Zenon DEF Held
  <2>2. ASSUME NEW u \in Threads, NEW j \in Inos, NEW p \in 1 .. NumPages, Held(thr'[u], j, p)
        PROVE  Held(thr[u], j, p) \/ (u = t /\ j = i /\ p = p0)
    <3>1. CASE u # t
      <4>1. thr'[u] = thr[u]
        BY <1>6, <3>1, Zenon
      <4> QED BY <2>2, <4>1, Zenon
    <3>2. CASE u = t
      <4>1. Held(s, j, p)
        BY <1>6, <2>2, <3>2, Zenon
      <4> QED BY <2>1, <3>2, <4>1, Zenon
    <3> QED BY <3>1, <3>2, Zenon
  <2> QED BY <2>2, Zenon
<1>12. Types'
  <2>1. /\ tmutex' \in [Maps -> Threads \cup {NoThread}] /\ latest' \in [Inos -> Field]
        /\ table' \in [Maps -> [Blocks -> 0 .. NumPages]] /\ free' \subseteq 1 .. NumPages
    BY <1>1, <1>2, ZenonT(40) DEF Types, TypeOK, Extended
  <2>2. TypeOK'
    BY <1>1, <2>1, ZenonT(40) DEF Types, TypeOK
  <2> QED BY <1>1, <1>5, <1>7, <2>1, <2>2, MoveTypes, Zenon
<1>13. LockInv'
  <2>1. MutexesHeld'
    BY <1>1, <1>2, <1>5, MutexReleased, ZenonT(40)
  <2>2. MappingsHeld'
    BY <1>1, <1>9, ZenonT(40) DEF LockInv, MappingsHeld
  <2>3. SwitchersHold'
    BY <1>1, <1>9 DEF LockInv, SwitchersHold
  <2>4. LeakedHeld'
    BY <1>1, Zenon DEF LeakedHeld
  <2> QED BY <2>1, <2>2, <2>3, <2>4, ZenonT(40) DEF LockInv
<1>14. OwnInv' /\ NumberInv'
  <2>1. Alone(t, s) /\ s.pc \notin Gone
    BY <1>1, <1>5, ZenonT(40) DEF Alone, OneThreadEach, Gone
  <2>2. InUse(s.ino)
    <3>1. InUse(i)
      BY <1>1, Zenon DEF NumberInv, ThreadsHeld, Unnumbered
    <3> QED BY <1>5, <3>1, ZenonT(40)
  <2> QED BY <1>1, <2>1, <2>2, MoveOwns, MoveNumbers, ZenonT(40)
<1>15. PageInv'
  <2>1. CopiesApart'
    <3>1. SUFFICES ASSUME NEW u \in Threads, thr'[u].pc = "switch"
                   PROVE  /\ thr'[u].at \notin free'
                          /\ \A d \in Maps, j \in Blocks : table'[d][j] # thr'[u].at
                          /\ \A v \in Threads : v # u /\ thr'[v].pc = "switch" => thr'[v].at # thr'[u].at
      BY DEF CopiesApart, CopyApart
    <3>2. thr'[u] = thr[u] /\ thr[u].pc = "switch" /\ CopyApart(u)
      BY <1>1, <1>9, <3>1, ZenonT(40) DEF CopiesApart
    <3>3. thr[u].at # 0
      BY <1>1, <3>2, Zenon DEF Types, Phase
    <3>4. ASSUME NEW d \in Maps, NEW j \in Blocks PROVE table'[d][j] # thr[u].at
      <4>1. table[d][j] # thr[u].at /\ thr[u].at \notin free
        BY <3>2, Zenon DEF CopyApart
      <4>2. \/ table'[d][j] = table[d][j]
            \/ table'[d][j] = 0
            \/ table'[d][j] \in free
        BY Zenon DEF Extended
      <4> QED BY <3>3, <4>1, <4>2, ZenonT(40)
    <3>5. \A v \in Threads : v # u /\ thr'[v].pc = "switch" => thr'[v].at # thr[u].at
      BY <1>9, <3>2, ZenonT(40) DEF CopyApart
    <3>6. thr[u].at \notin free'
      BY <3>2, Zenon DEF CopyApart, Extended
    <3> QED BY <3>2, <3>4, <3>5, <3>6, ZenonT(40)
  <2>2. LivePaged'
    <3>1. \A j \in live : j \in Inos /\ Addr(j) # 0
      BY <1>1, Zenon DEF Types, TypeOK, LivePaged
    <3> QED BY <1>8, <3>1, ZenonT(40) DEF LivePaged
  <2>3. ThreadsPaged'
    <3>1. SUFFICES ASSUME NEW u \in Threads, NEW j, j = thr'[u].ino, thr'[u].pc \in Paged
                   PROVE  Addr(j)' # 0
      BY DEF ThreadsPaged, Paged
    <3>2. CASE u = t
      <4>1. thr'[u] = s
        BY <1>6, <3>2, ZenonT(40)
      <4>2. j = i
        BY <1>5, <3>1, <4>1, ZenonT(40)
      <4> QED BY <1>4, <4>2, ZenonT(40)
    <3>3. CASE u # t
      <4>1. thr'[u] = thr[u]
        BY <1>6, <3>3, ZenonT(40)
      <4>2. j \in Inos /\ Addr(j) # 0
        BY <1>1, <3>1, <4>1, ThreadFields, ZenonT(40) DEF ThreadsPaged
      <4> QED BY <1>8, <4>2, ZenonT(40)
    <3> QED BY <3>2, <3>3, ZenonT(40)
  <2>4. HeldTaken'
    <3>1. SUFFICES ASSUME NEW u \in Threads, NEW j \in Inos, NEW p \in 1 .. NumPages,
                          Held(thr'[u], j, p)
                   PROVE  p \notin free' /\ Addr(j)' # 0
      BY DEF HeldTaken, Held
    <3>2. CASE Held(thr[u], j, p)
      <4>1. p \notin free /\ Addr(j) # 0
        BY <1>1, <3>2, Zenon DEF HeldTaken
      <4> QED BY <1>8, <4>1, Zenon DEF Extended
    <3>3. CASE j = i /\ p = p0
      <4>1. table'[c][k] \notin free'
        BY <1>2, <1>8, ZenonT(40) DEF TablesTaken
      <4> QED BY <1>4, <3>3, <4>1, ZenonT(40) DEF p0
    <3> QED BY <1>11, <3>1, <3>2, <3>3, ZenonT(40)
  <2> QED BY <1>8, <2>1, <2>2, <2>3, <2>4, ZenonT(40) DEF PageInv
<1>16. TableInv'
  <2>1. NoHoles'
    <3>1. SUFFICES ASSUME NEW d \in Maps, NEW j \in Blocks, NEW l \in Blocks,
                          j <= l, table'[d][l] # 0
                   PROVE  table'[d][j] # 0
      BY DEF NoHoles
    <3>2. CASE table[d][l] # 0
      <4>1. table[d][j] # 0
        BY <1>1, <3>1, <3>2, ZenonT(40) DEF NoHoles
      <4> QED BY <4>1, Zenon DEF Extended
    <3>3. CASE table[d][l] = 0
      <4>1. d = c /\ l = k
        BY <3>1, <3>3, Zenon DEF Extended
      <4>2. CASE j = k
        BY <1>4, <4>1, <4>2, ZenonT(40) DEF p0
      <4>3. CASE j < k
        <5>1. table[c][j] # 0
          BY <1>1, <1>3, <4>3, ZenonT(40) DEF OnlyNextMissing
        <5> QED BY <1>2, <4>1, <5>1, ZenonT(40) DEF Extended
      <4>4. j = k \/ j < k
        BY <3>1, <4>1 DEF Blocks
      <4> QED BY <4>2, <4>3, <4>4, ZenonT(40)
    <3> QED BY <3>2, <3>3, Zenon
  <2>2. NumbersPaged'
    <3>1. SUFFICES ASSUME NEW d \in Maps, d \notin leaked, NEW m \in Numbers(d)
                   PROVE  table'[d][m \div NumInodes] # 0 \/ Addressing(d, m)'
      BY DEF NumbersPaged, Numbers
    <3>2. m \in 0 .. MAX_INODE - 1 /\ m \div NumInodes \in Blocks
      <4>1. m \in 0 .. MAX_INODE - 1
        BY <1>1, NumberBound, ZenonT(40)
      <4>2. m \in Nat /\ m < MAX_INODE
        BY <4>1, Sizes, SMTT(40)
      <4> QED BY <4>1, <4>2, BlockOf, Zenon
    <3>3. CASE table[d][m \div NumInodes] # 0
      BY <3>2, <3>3, Zenon DEF Extended
    <3>4. CASE Addressing(d, m)
      <4>1. PICK u \in Threads : thr[u].pc = "address" /\ thr[u].ino = m * CPUS + d
        BY <3>4, Zenon DEF Addressing
      <4>2. CASE u = t
        <5>1. i = m * CPUS + d
          BY <4>1, <4>2, ZenonT(40)
        <5>2. cpuid(m * CPUS + d) = d /\ internal_ino(m * CPUS + d) = m
          BY <3>2, InoOf, ZenonT(40)
        <5>3. d = c /\ m \div NumInodes = k
          BY <1>2, <5>1, <5>2, ZenonT(40) DEF superpage_count
        <5> QED BY <1>4, <5>3, Zenon DEF p0
      <4>3. CASE u # t
        <5>1. thr'[u].pc = "address" /\ thr'[u].ino = m * CPUS + d
          BY <1>6, <4>1, <4>3, ZenonT(40)
        <5> QED BY <5>1, ZenonT(40) DEF Addressing
      <4> QED BY <4>2, <4>3, Zenon
    <3> QED BY <1>1, <3>1, <3>3, <3>4, Zenon DEF NumbersPaged
  <2>3. OnlyNextMissing'
    <3>1. SUFFICES ASSUME NEW u \in Threads, thr'[u].pc = "address", thr'[u].cpu \notin leaked,
                          NEW j \in Blocks, j < superpage_count(thr'[u].ino)
                   PROVE  table'[thr'[u].cpu][j] # 0
      BY DEF OnlyNextMissing, superpage_count, internal_ino
    <3>2. thr'[u] = thr[u]
      BY <1>5, <1>6, <3>1, ZenonT(40)
    <3>3. thr[u].cpu \in Maps /\ table[thr[u].cpu][j] # 0
      BY <1>1, <3>1, <3>2, ThreadFields, ZenonT(40) DEF OnlyNextMissing
    <3>4. table'[thr[u].cpu][j] # 0
      BY <3>3, ZenonT(40) DEF Extended
    <3> QED BY <3>2, <3>4, ZenonT(40)
  <2> QED BY <2>1, <2>2, <2>3, ZenonT(40) DEF TableInv
<1>17. UpdateInv'
  <2>1. FreeZero'
    <3>1. free' \subseteq free
      BY Zenon DEF Extended
    <3> QED BY <1>1, <3>1, ZenonT(40) DEF UpdateInv, FreeZero, Zero
  <2>2. UnpagedZero'
    <3>1. \A j \in Inos : Addr(j)' = 0 => Addr(j) = 0
      BY <1>8, Zenon
    <3> QED BY <1>1, <3>1, ZenonT(40) DEF UpdateInv, UnpagedZero
  <2>3. ASSUME NEW j \in Inos \ overlap, Addr(j)' # 0 PROVE mem[Addr(j)'][j] = latest[j]
    <3>1. CASE Addr(j) # 0
      <4>1. mem[Addr(j)][j] = latest[j]
        BY <1>1, <3>1, Zenon DEF UpdateInv, PagesLatest, Fields
      <4>2. Addr(j)' = Addr(j)
        BY <1>8, <3>1, ZenonT(40)
      <4> QED BY <4>1, <4>2, ZenonT(40)
    <3>2. CASE Addr(j) = 0
      <4>1. Addr(j)' \in free /\ latest[j] = Zero
        BY <1>1, <1>8, <2>3, <3>2, ZenonT(40) DEF UpdateInv, UnpagedZero
      <4>2. \A p \in free : mem[p][j] = Zero
        BY <1>1, ZenonT(40) DEF UpdateInv, FreeZero
      <4> QED BY <4>1, <4>2, ZenonT(40)
    <3> QED BY <3>1, <3>2, ZenonT(40)
  <2>4. PagesLatest'
    BY <2>3 DEF PagesLatest, Fields
  <2>5. CopiesLatest'
    <3>1. \A u \in Threads : \A j : Copying(u, j)' => Copying(u, j) /\ thr'[u] = thr[u]
      BY <1>9, <1>10, Zenon DEF Copying
    <3>2. SUFFICES ASSUME NEW j \in Inos \ overlap, NEW u \in Threads, Copying(u, j)'
                   PROVE  mem[thr'[u].at][j] = latest[j]
      BY DEF CopiesLatest
    <3> QED BY <1>1, <3>1, <3>2, ZenonT(40) DEF UpdateInv, CopiesLatest
  <2>6. HeldCurrent'
    <3>1. SUFFICES ASSUME NEW j \in Inos \ overlap, NEW u \in Threads, NEW p \in 1 .. NumPages,
                          Held(thr'[u], j, p)
                   PROVE  p = Addr(j)' /\ \A v \in Threads : ~ Copying(v, j)
      BY <1>10, SMTT(40) DEF HeldCurrent, Held
    <3>2. CASE Held(thr[u], j, p)
      <4>1. Addr(j) # 0 /\ p = Addr(j) /\ \A v \in Threads : ~ Copying(v, j)
        BY <1>1, <3>2, ZenonT(40) DEF HeldTaken, UpdateInv, HeldCurrent
      <4>2. Addr(j)' = Addr(j)
        BY <1>8, <4>1, ZenonT(40)
      <4> QED BY <4>1, <4>2, ZenonT(40)
    <3>3. CASE j = i /\ p = p0
      <4>1. \A v \in Threads : ~ Copying(v, i)
        BY <1>1, <1>2, NoCopy, ZenonT(40)
      <4> QED BY <1>4, <3>3, <4>1, ZenonT(40)
    <3> QED BY <1>11, <3>1, <3>2, <3>3, ZenonT(40)
  <2> QED BY <2>1, <2>2, <2>4, <2>5, <2>6, ZenonT(40) DEF UpdateInv
<1>19. FlagsAgree'
  <2>1. SUFFICES ASSUME NEW u \in Threads, thr'[u].op = "write" PROVE SameFlag(thr[u])'
    BY Zenon DEF FlagsAgree
  <2>2. u # t /\ thr'[u] = thr[u] /\ thr[u].op = "write"
    BY <1>2, <1>5, <1>6, <2>1, ZenonT(40)
  <2>3. thr[u].pc \in Paged
    <3>1. Phase(thr[u]) /\ thr[u].pc \in PC /\ Idle.op # "write"
      BY <1>1, ThreadFields, SMTT(40) DEF Idle
    <3> QED BY <2>2, <3>1, Zenon DEF Phase, Paged
  <2>4. SameFlag(thr[u])
    BY <1>1, <2>2, Zenon DEF FlagsAgree
  <2>5. PICK j : j = thr[u].ino
    BY ZenonT(40)
  <2>6. j \in Inos /\ Addr(j)' = Addr(j)
    BY <1>1, <1>8, <2>3, <2>5, ThreadFields, ZenonT(40) DEF ThreadsPaged
  <2>7. Fields(j)' = Fields(j)
    BY <2>6, ZenonT(40) DEF Fields
  <2>8. \A v \in Threads : Copying(v, j)' => Copying(v, j) /\ thr'[v] = thr[v]
    BY <1>9, <1>10, ZenonT(40) DEF Copying
  <2> QED BY <2>2, <2>4, <2>5, <2>7, <2>8, ZenonT(40) DEF SameFlag
<1>20. PageLocks'
  <2>1. \A j : Fields(j)' = mem'[table'[cpuid(j)][superpage_count(j)]][j]
    BY Zenon DEF Fields, Addr, cpuid, superpage_count, internal_ino
  <2>2. SUFFICES ASSUME NEW u \in Threads, NEW l \in Maps \X Blocks, plock'[l] = u,
                        NEW j, j = thr'[u].ino
                 PROVE  /\ thr'[u].pc \in Locked
                        /\ l = LockFor(thr'[u], mem'[table'[cpuid(j)][superpage_count(j)]][j].ino)
    BY <2>1 DEF PageLocks
  <2>3. thr[u].pc \in Locked /\ l = LockFor(thr[u], mem[Addr(thr[u].ino)][thr[u].ino].ino)
    BY <1>1, <2>2, ZenonT(40) DEF PageLocks, Fields
  <2>4. thr[u].pc \in Paged /\ thr[u].pc # "address"
    BY <2>3, ZenonT(40) DEF Locked, Paged, PC
  <2>5. u # t /\ thr'[u] = thr[u] /\ j = thr[u].ino
    BY <1>6, <2>2, <2>4, ZenonT(40)
  <2>6. j \in Inos /\ Addr(j)' = Addr(j)
    BY <1>1, <1>8, <2>4, <2>5, ThreadFields, ZenonT(40) DEF ThreadsPaged
  <2>7. table'[cpuid(j)][superpage_count(j)] = Addr(j)
    BY <2>6, ZenonT(40) DEF Addr, cpuid, superpage_count, internal_ino
  <2>8. mem'[table'[cpuid(j)][superpage_count(j)]][j].ino = mem[Addr(thr[u].ino)][thr[u].ino].ino
    BY <2>5, <2>7, ZenonT(40)
  <2> QED BY <2>3, <2>5, <2>8, ZenonT(40)
<1> QED BY <1>12, <1>13, <1>14, <1>15, <1>16, <1>17, <1>19, <1>20, ZenonT(40) DEF IInv

\* The allocator gives a page that was free.
LEMMA NewPageFree ==
    ASSUME Types, free # {}
    PROVE  NewPage \in free
<1>1. free \in SUBSET Nat
  <2>1. free \subseteq 1 .. NumPages
    BY Zenon DEF Types, TypeOK
  <2> QED BY <2>1, Sizes
<1>2. \E m \in free : \A k \in free : m <= k
  BY <1>1, LeastOf, Zenon
<1> QED BY <1>2, Zenon DEF NewPage, Min

\* The table and the free pages after NewAddress, when missing lacks at most block k.
LEMMA TableExtended ==
    ASSUME Types, NEW c \in Maps, NEW k \in Blocks, NEW missing,
           missing = {} \/ free # {}, missing \subseteq {k},
           \A j \in Blocks : j \in missing => table[c][j] = 0,
           k \notin missing => table[c][k] # 0,
           table' = [table EXCEPT ![c] = [j \in Blocks |->
                        IF j \in missing THEN NewPage ELSE table[c][j]]],
           free' = IF missing = {} THEN free ELSE free \ {NewPage}
    PROVE  Extended(c, k)
<1>1. /\ table \in [Maps -> [Blocks -> 0 .. NumPages]] /\ free \subseteq 1 .. NumPages
  BY Zenon DEF Types, TypeOK
<1>2. /\ \A d \in Maps, j \in Blocks : d # c => table'[d][j] = table[d][j]
      /\ \A j \in Blocks : table'[c][j] = IF j \in missing THEN NewPage ELSE table[c][j]
      /\ DOMAIN table' = Maps
  BY <1>1, ZenonT(40)
<1>3. CASE missing = {}
  <2>1. free' = free /\ table[c][k] # 0
    BY <1>3, Zenon
  <2>3. table' = table
    <3>1. [j \in Blocks |-> IF j \in missing THEN NewPage ELSE table[c][j]] = table[c]
      BY <1>1, <1>3, ZenonT(40)
    <3> QED BY <1>1, <3>1, ZenonT(40)
  <2> QED BY <1>1, <2>1, <2>3, Zenon DEF Extended
<1>4. CASE missing = {k}
  <2>1. /\ NewPage \in free /\ free' = free \ {NewPage} /\ NewPage \in 1 .. NumPages
        /\ table[c][k] = 0
    <3>1. missing # {}
      BY <1>4, Zenon
    <3>2. NewPage \in free
      BY <3>1, NewPageFree, Zenon
    <3>3. free' = free \ {NewPage}
      BY <3>1, ZenonT(40)
    <3> QED BY <1>1, <1>4, <3>2, <3>3, Zenon
  <2>2. table'[c][k] = NewPage /\ \A j \in Blocks : j # k => table'[c][j] = table[c][j]
    <3>1. \A j \in Blocks : j \in missing <=> j = k
      BY <1>4, Zenon
    <3> QED BY <1>2, <3>1, ZenonT(40)
  <2>3. NewPage # 0 /\ NewPage \in 0 .. NumPages
    BY <2>1, Sizes, SMT
  <2>4. table' \in [Maps -> [Blocks -> 0 .. NumPages]]
    <3>1. [j \in Blocks |-> IF j \in missing THEN NewPage ELSE table[c][j]]
             \in [Blocks -> 0 .. NumPages]
      BY <1>1, <2>3, ZenonT(40)
    <3> QED BY <1>1, <3>1, Zenon
  <2>5. \A d \in Maps, j \in Blocks : table[d][j] # 0 => table'[d][j] = table[d][j]
    BY <1>2, <2>1, <2>2, Zenon
  <2>6. ASSUME NEW d \in Maps, NEW j \in Blocks, table[d][j] = 0, table'[d][j] # 0
        PROVE  d = c /\ j = k
    BY <1>2, <2>2, <2>6, Zenon
  <2>7. NewPage \notin free'
    BY <2>1, Zenon
  <2> QED BY <2>1, <2>2, <2>3, <2>4, <2>5, <2>6, <2>7, ZenonT(40) DEF Extended
<1> QED BY <1>3, <1>4, Zenon

\* NewAddress: the inode gets its page, or both the number and the mapping lock of
\* the map are lost.
LEMMA NewAddressStep ==
    ASSUME IInv, NEW t \in Threads, NewAddress(t)
    PROVE  IInv'
<1>1. Types /\ thr \in [Threads -> Thread] /\ LeakedHeld /\ OnlyNextMissing
  BY Zenon DEF IInv, Types, LockInv, TableInv
<1>2. PICK c, i, k, missing :
        /\ c = thr[t].cpu /\ i = thr[t].ino /\ k = superpage_count(i) /\ missing = Missing(i)
  BY Zenon
<1>3. /\ thr[t].pc = "address" /\ mlock[c] = NoThread
      /\ tmutex' = [tmutex EXCEPT ![c] = NoThread]
      /\ missing # {} /\ free = {} =>
           /\ mlock' = [mlock EXCEPT ![c] = t] /\ leaked' = leaked \cup {c}
           /\ thr' = [thr EXCEPT ![t] = Idle] /\ table' = table /\ free' = free
  BY <1>2, Zenon DEF NewAddress, Leave
<1>4. /\ inuse' = inuse /\ nodes' = nodes /\ dangling' = dangling /\ map_id' = map_id
      /\ mem' = mem /\ plock' = plock /\ live' = live /\ latest' = latest /\ overlap' = overlap
  BY Zenon DEF NewAddress
<1>5. CASE missing # {} /\ free = {}
  BY <1>2, <1>3, <1>4, <1>5, AddressFailed, ZenonT(40)
<1>6. CASE ~ (missing # {} /\ free = {})
  <2>a. /\ table' = [table EXCEPT ![c] = [j \in Blocks |->
                           IF j \in missing THEN NewPage ELSE @[j]]]
        /\ free' = IF missing = {} THEN free ELSE free \ {NewPage}
        /\ thr' = [thr EXCEPT ![t].pc = "init", ![t].pi = table'[c][k]]
        /\ mlock' = mlock /\ leaked' = leaked
    BY <1>2, <1>6, Zenon DEF NewAddress
  <2>b. table' = [table EXCEPT ![c] = [j \in Blocks |->
                           IF j \in missing THEN NewPage ELSE table[c][j]]]
    BY <2>a, ZenonT(40)
  <2>1. c \in Maps /\ i \in Inos /\ cpuid(i) = c /\ k \in Blocks
    BY <1>1, <1>2, <1>3, ThreadFields, InoParts, ZenonT(40) DEF Phase
  <2>2. \A j \in Blocks : j < k => table[c][j] # 0
    <3>1. c \notin leaked
      BY <1>1, <1>3, Zenon DEF LeakedHeld
    <3> QED BY <1>1, <1>2, <1>3, <3>1, ZenonT(40) DEF OnlyNextMissing
  <2>3. missing = {j \in 0 .. k : table[c][j] = 0}
    BY <1>2, <2>1, Zenon DEF Missing
  <2>4. 0 .. k \subseteq Blocks /\ k \in 0 .. k /\ \A j \in 0 .. k : j = k \/ j < k
    BY <2>1, Sizes DEF Blocks
  <2>5. missing \subseteq {k} /\ (k \notin missing => table[c][k] # 0)
    BY <2>2, <2>3, <2>4, Zenon
  <2>6. \A j \in Blocks : j \in missing => table[c][j] = 0
    BY <2>3, Zenon
  <2>7. Extended(c, k)
    BY <1>1, <1>6, <2>a, <2>b, <2>1, <2>5, <2>6, TableExtended, ZenonT(40)
  <2>8. PICK s : s = [thr[t] EXCEPT !.pc = "init", !.pi = table'[c][k]]
    BY Zenon
  <2>9. thr' = [thr EXCEPT ![t] = s]
    <3>1. thr' = [thr EXCEPT ![t].pc = "init", ![t].pi = table'[c][k]]
      BY <2>a, Zenon
    <3> QED BY <1>1, <2>8, <3>1, ZenonT(40)
  <2>10. mlock' = mlock /\ leaked' = leaked
    BY <2>a, Zenon
  <2>11. /\ thr[t].pc = "address" /\ mlock[c] = NoThread
         /\ tmutex' = [tmutex EXCEPT ![c] = NoThread]
         /\ c = thr[t].cpu /\ i = thr[t].ino /\ k = superpage_count(i)
    BY <1>2, <1>3, Zenon
  <2> QED BY <1>4, <2>7, <2>8, <2>9, <2>10, <2>11, AddressGiven, ZenonT(40)
<1> QED BY <1>5, <1>6, Zenon
=============================================================================

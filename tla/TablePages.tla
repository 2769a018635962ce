----------------------------- MODULE TablePages -----------------------------
(***************************************************************************)
(* The steps of InodeTable that migrate a table page, its copy and the     *)
(* switch to the copy, keep the inductive invariant of TableInvariants.    *)
(***************************************************************************)
EXTENDS TableMoves

-----------------------------------------------------------------------------
(* The copy of a page                                                      *)

\* A thread that goes on after the page was counted or migrated.
LEMMA CountedThread ==
    ASSUME Types, NEW t \in Threads, thr[t].pc \in {"count", "switch"},
           NEW s, s = At(thr[t], AfterCount(t))
    PROVE  /\ s \in Thread /\ Phase(s) /\ s.at = 0 /\ s.op # "write"
           /\ s.pc \in {"idle", "pidir_tail", "again"}
           /\ \/ s = Idle
              \/ /\ s.ino = thr[t].ino /\ s.op = thr[t].op /\ s.dir = thr[t].dir
                 /\ s.pi = thr[t].pi /\ s.pidir = thr[t].pidir /\ s.pc # "idle"
<1> DEFINE r == thr[t]
<1>1. r \in Thread /\ Phase(r)
  BY ThreadFields, Zenon
<1>2. CASE AfterCount(t) = "idle"
  <2>1. s = Idle
    BY <1>2, Zenon DEF At
  <2>2. Idle \in Thread /\ Idle.at = 0 /\ Idle.op # "write" /\ Idle.pc = "idle"
    BY Sizes, SMT DEF Idle, Thread, PC
  <2>3. Phase(Idle)
    BY SMT DEF Phase, Idle, Unnumbered, Gone
  <2> QED BY <2>1, <2>2, <2>3, Zenon
<1>3. CASE AfterCount(t) # "idle"
  <2>1. PICK pc \in {"pidir_tail", "again"} :
          /\ AfterCount(t) = pc /\ (pc = "again" => r.op = "mkdir")
          /\ r.op \in {"create", "mkdir"}
    BY <1>3, Zenon DEF AfterCount
  <2>2. s = [r EXCEPT !.pc = pc, !.at = 0]
    BY <1>3, <2>1, Zenon DEF At
  <2>3. /\ s \in Thread /\ s.pc = pc /\ s.at = 0 /\ s.ino = r.ino /\ s.op = r.op
        /\ s.pi = r.pi /\ s.dir = r.dir /\ s.pidir = r.pidir
    <3>1. 0 \in 0 .. NumPages
      BY PageNumbers, Zenon
    <3> QED BY <1>1, <2>1, <2>2, <3>1, ZenonT(40) DEF Thread, PC
  <2>4. Phase(s)
    BY <1>1, <2>1, <2>3, ZenonT(40) DEF Phase, Unnumbered, Gone
  <2> QED BY <2>1, <2>3, <2>4, ZenonT(40)
<1> QED BY <1>2, <1>3, Zenon

\* CopyPage, when there is no page.
LEMMA CopyFailed ==
    ASSUME IInv, NEW t \in Threads, thr[t].pc = "count", NEW s, s = At(thr[t], AfterCount(t)),
           NEW c \in Maps, mlock[c] = NoThread, mlock' = [mlock EXCEPT ![c] = t],
           leaked' = leaked \cup {c}, thr' = [thr EXCEPT ![t] = s], inuse' = inuse,
           nodes' = nodes, dangling' = dangling, map_id' = map_id, table' = table,
           mem' = mem, free' = free, tmutex' = tmutex, plock' = plock, live' = live,
           latest' = latest, overlap' = overlap
    PROVE  IInv'
<1>1. /\ Types /\ LockInv /\ OwnInv /\ NumberInv /\ TableInv /\ OneThreadEach /\ MutexesHeld
  BY Zenon DEF IInv, OwnInv, LockInv
<1>2. /\ s \in Thread /\ Phase(s) /\ s.at = 0 /\ s.pc \in {"idle", "pidir_tail", "again"}
      /\ \/ s = Idle
         \/ /\ s.ino = thr[t].ino /\ s.op = thr[t].op /\ s.dir = thr[t].dir
            /\ s.pi = thr[t].pi /\ s.pidir = thr[t].pidir
  BY <1>1, CountedThread, Zenon
<1>3. MovesTo(t, s)
  <2>1. CASE s = Idle
    BY <1>1, <2>1, Returns, Zenon
  <2>2. CASE s # Idle
    BY <1>1, <1>2, <2>2, GoesOn, ZenonT(40)
  <2> QED BY <2>1, <2>2, Zenon
<1>4. /\ Carries(t, s) /\ Alone(t, s) /\ (s.pc \notin Unnumbered => InUse(s.ino))
      /\ s.pc \in Paged => (s.ino = thr[t].ino /\ thr[t].pc \in Paged) \/ s.ino \in live
  BY <1>1, <1>3, MovedIno, ZenonT(40)
<1>5. /\ thr[t].pc \notin Locked /\ s.pc \notin Gone /\ thr[t].pc # "switch" /\ s.pc # "switch"
      /\ thr[t].pc # "address" /\ s.pc # "address"
  BY <1>2, SMT DEF Locked, Gone
<1>6. PageInv' /\ UpdateInv' /\ FlagsAgree' /\ PageLocks'
  BY <1>4, <1>5, CarryStep, ZenonT(40)
<1>7. LockInv'
  <2>1. \A u \in Threads : thr[u].pc = "address" \/ thr'[u].pc = "address" => thr'[u] = thr[u]
    BY <1>1, <1>5, OneThread, Zenon
  <2>2. MutexesHeld'
    BY <1>1, <2>1, SMT DEF MutexesHeld
  <2> QED BY <1>1, <1>5, <2>2, LeakLocks, ZenonT(40)
<1>8. OwnInv' /\ NumberInv'
  BY <1>1, <1>4, <1>5, MoveOwns, MoveNumbers, ZenonT(40)
<1>9. Types'
  <2>1. /\ mlock' \in [Maps -> Threads \cup {NoThread}] /\ leaked' \subseteq Maps
        /\ latest' \in [Inos -> Field]
    BY <1>1, ZenonT(40) DEF Types, TypeOK
  <2>2. TypeOK'
    BY <1>1, <2>1, ZenonT(40) DEF Types, TypeOK
  <2> QED BY <1>1, <1>2, <2>1, <2>2, MoveTypes, ZenonT(40)
<1>10. TableInv'
  <2>1. leaked \subseteq leaked' /\ \A d \in Maps : Numbers(d)' \subseteq Numbers(d)
    BY Zenon DEF Numbers
  <2> QED BY <1>1, <1>5, <2>1, MoveTables, ZenonT(40)
<1> QED BY <1>6, <1>7, <1>8, <1>9, <1>10, ZenonT(40) DEF IInv

\* CopyPage, when page q is there for the copy of the page of i.
CopyMade(t, i, q) ==
    /\ thr[t].pc = "count" /\ thr[t].ino = i /\ nova_get_inode_address(i) /\ q \in free
    /\ mlock' = [mlock EXCEPT ![cpuid(i)] = t]
    /\ mem' = [mem EXCEPT ![q] = mem[Addr(i)]] /\ free' = free \ {q}
    /\ thr' = [thr EXCEPT ![t] = [@ EXCEPT !.pc = "switch", !.at = q]]
    /\ overlap \subseteq overlap' /\ overlap' \subseteq Inos
    /\ \A u \in Threads :
         /\ thr[u].pi = Addr(i) => thr[u].ino \in overlap'
         /\ thr[u].pidir = Addr(i) => thr[u].dir \in overlap'
         /\ thr[u].at = Addr(i) /\ u # t => thr[u].ino \in overlap'
    /\ leaked' = leaked /\ inuse' = inuse /\ nodes' = nodes /\ dangling' = dangling
    /\ map_id' = map_id /\ table' = table /\ tmutex' = tmutex /\ plock' = plock
    /\ live' = live /\ latest' = latest

\* The thread that copies, and the pages, after that.
Copied(t, i, q) ==
    /\ i \in Inos /\ cpuid(i) \in Maps /\ Addr(i) \in 1 .. NumPages /\ Addr(i) # q
    /\ q \in 1 .. NumPages /\ mlock[cpuid(i)] = NoThread /\ cpuid(i) \notin leaked
    /\ thr'[t] \in Thread /\ Phase(thr'[t]) /\ thr'[t].pc = "switch" /\ thr'[t].at = q
    /\ thr'[t].ino = i /\ thr'[t].op = thr[t].op /\ thr'[t].dir = thr[t].dir
    /\ thr'[t].pi = thr[t].pi /\ thr'[t].pidir = thr[t].pidir
    /\ thr' = [thr EXCEPT ![t] = thr'[t]]
    /\ \A u \in Threads : u # t => thr'[u] = thr[u]
    /\ mem'[q] = mem[Addr(i)] /\ \A p \in 1 .. NumPages : p # q => mem'[p] = mem[p]
    /\ \A j : Addr(j)' = Addr(j)
    /\ \A j \in Inos : Addr(j) # q

\* CopyPage does that.
LEMMA CopyFacts ==
    ASSUME IInv, NEW t \in Threads, NEW i, NEW q, CopyMade(t, i, q)
    PROVE  Copied(t, i, q)
<1>1. Types /\ PageInv /\ LeakedHeld
  BY Zenon DEF IInv, LockInv
<1>2. /\ thr \in [Threads -> Thread] /\ thr[t] \in Thread /\ Phase(thr[t])
      /\ thr[t].pc = "count" /\ thr[t].ino = i /\ i \in Inos
      /\ mem \in [1 .. NumPages -> [Inos -> Field]] /\ free \subseteq 1 .. NumPages
  BY <1>1, ThreadFields, ZenonT(40) DEF CopyMade, Types, TypeOK, Field
<1>3. cpuid(i) \in Maps /\ Addr(i) \in 1 .. NumPages /\ mlock[cpuid(i)] = NoThread
  BY <1>1, <1>2, InoParts, LookedUp, ZenonT(40) DEF CopyMade, nova_get_inode_address
<1>4. q \in free /\ q \in 1 .. NumPages
  BY <1>2, Zenon DEF CopyMade
<1>5. cpuid(i) \notin leaked
  BY <1>1, <1>3, Zenon DEF LeakedHeld
<1>6. \A j \in Inos : Addr(j) # q
  BY <1>1, <1>4, InoParts, ZenonT(40) DEF PageInv, TablesTaken, Addr
<1>7. PICK s : s = [thr[t] EXCEPT !.pc = "switch", !.at = q]
  BY Zenon
<1>8. thr' = [thr EXCEPT ![t] = s] /\ thr'[t] = s /\ \A u \in Threads : u # t => thr'[u] = thr[u]
  BY <1>2, <1>7, ZenonT(40) DEF CopyMade
<1>9. q \in 0 .. NumPages /\ q # 0
  BY <1>4, Sizes, SMT
<1>10. /\ s \in Thread /\ s.pc = "switch" /\ s.at = q /\ s.ino = i /\ s.op = thr[t].op
       /\ s.dir = thr[t].dir /\ s.pi = thr[t].pi /\ s.pidir = thr[t].pidir
  BY <1>2, <1>7, <1>9, ZenonT(40) DEF Thread, PC
<1>11. Phase(s)
  BY <1>2, <1>9, <1>10, ZenonT(40) DEF Phase, Unnumbered, Gone
<1>12. mem'[q] = mem[Addr(i)] /\ \A p \in 1 .. NumPages : p # q => mem'[p] = mem[p]
  BY <1>2, <1>4, ZenonT(40) DEF CopyMade
<1>13. \A j : Addr(j)' = Addr(j)
  BY Zenon DEF CopyMade, Addr, cpuid, superpage_count, internal_ino
<1>14. thr' = [thr EXCEPT ![t] = thr'[t]]
  BY <1>8, Zenon
<1> HIDE DEF CopyMade
<1> QED BY <1>2, <1>3, <1>4, <1>5, <1>6, <1>8, <1>10, <1>11, <1>12, <1>13, <1>14, ZenonT(40) DEF Copied

\* The locks, the inodes, the numbers and the tables.
LEMMA CopyLocks ==
    ASSUME IInv, NEW t \in Threads, NEW i, NEW q, CopyMade(t, i, q)
    PROVE  Types' /\ LockInv' /\ OwnInv' /\ NumberInv' /\ TableInv'
<1> Copied(t, i, q)
  BY CopyFacts, Zenon
<1>1. /\ Types /\ LockInv /\ OwnInv /\ NumberInv /\ TableInv /\ OneThreadEach
      /\ MutexesHeld /\ MappingsHeld /\ SwitchersHold /\ LeakedHeld
  BY Zenon DEF IInv, OwnInv, LockInv
<1> DEFINE c == cpuid(i)
<1>2. PICK s : s = thr'[t]
  BY Zenon
<1>3. /\ i \in Inos /\ c \in Maps /\ mlock[c] = NoThread /\ c \notin leaked
      /\ q \in 1 .. NumPages /\ s \in Thread /\ Phase(s) /\ s.pc = "switch" /\ s.ino = i
      /\ thr' = [thr EXCEPT ![t] = s] /\ \A u \in Threads : u # t => thr'[u] = thr[u]
      /\ Addr(i) \in 1 .. NumPages
  BY <1>2, Copied(t, i, q), ZenonT(40) DEF Copied
<1>4. /\ thr[t].pc = "count" /\ thr[t].ino = i /\ mlock' = [mlock EXCEPT ![c] = t]
      /\ mem' = [mem EXCEPT ![q] = mem[Addr(i)]] /\ free' = free \ {q}
      /\ overlap' \subseteq Inos /\ leaked' = leaked /\ inuse' = inuse /\ nodes' = nodes
      /\ dangling' = dangling /\ map_id' = map_id /\ table' = table /\ tmutex' = tmutex
      /\ plock' = plock /\ live' = live /\ latest' = latest
  BY Zenon DEF CopyMade
<1> HIDE DEF c
<1>5. \A u \in Threads : u # NoThread
  BY TableAssumption, Zenon
<1>6. mlock'[c] = t /\ \A d \in Maps : d # c => mlock'[d] = mlock[d]
  BY <1>1, <1>3, <1>4, ZenonT(40) DEF Types, TypeOK
<1>7. Types'
  <2>1. /\ mlock' \in [Maps -> Threads \cup {NoThread}] /\ latest' \in [Inos -> Field]
        /\ mem' \in [1 .. NumPages -> [Inos -> Field]] /\ free' \subseteq 1 .. NumPages
    BY <1>1, <1>3, <1>4, ZenonT(40) DEF Types, TypeOK, Field
  <2>2. TypeOK'
    BY <1>1, <1>4, <2>1, ZenonT(40) DEF Types, TypeOK, Field
  <2> QED BY <1>1, <1>3, <2>1, <2>2, MoveTypes, ZenonT(40)
<1>8. LockInv'
  <2>1. \A u \in Threads : thr[u].pc = "address" \/ thr'[u].pc = "address" => thr'[u] = thr[u]
    <3>1. thr'[t].pc # "address" /\ thr[t].pc # "address"
      BY <1>2, <1>3, <1>4, ZenonT(40)
    <3> QED BY <1>3, <3>1, Zenon
  <2>2. MutexesHeld'
    BY <1>1, <1>4, <2>1, SMTT(40) DEF MutexesHeld
  <2>3. MappingsHeld'
    <3>1. SUFFICES ASSUME NEW u \in Threads, NEW d \in Maps, mlock'[d] = u, d \notin leaked'
                   PROVE  thr'[u].pc = "switch" /\ cpuid(thr'[u].ino) = d
      BY ZenonT(40) DEF MappingsHeld, cpuid
    <3>2. CASE d = c
      BY <1>2, <1>3, <1>6, <3>1, <3>2, ZenonT(40) DEF c
    <3>3. CASE d # c
      <4>1. thr[u].pc = "switch" /\ cpuid(thr[u].ino) = d
        BY <1>1, <1>4, <1>6, <3>1, <3>3, ZenonT(40) DEF MappingsHeld
      <4>2. thr'[u] = thr[u]
        BY <1>3, <1>4, <4>1, ZenonT(40)
      <4> QED BY <4>1, <4>2, ZenonT(40)
    <3> QED BY <3>2, <3>3, Zenon
  <2>4. SwitchersHold'
    <3>1. SUFFICES ASSUME NEW u \in Threads, thr'[u].pc = "switch"
                   PROVE  mlock'[cpuid(thr'[u].ino)] = u /\ cpuid(thr'[u].ino) \notin leaked'
      BY DEF SwitchersHold, cpuid
    <3>2. CASE u = t
      <4>1. cpuid(thr'[u].ino) = c
        BY <1>2, <1>3, <3>2, ZenonT(40) DEF c
      <4> QED BY <1>3, <1>4, <1>6, <3>2, <4>1, ZenonT(40)
    <3>3. CASE u # t
      <4>1. thr'[u] = thr[u]
        BY <1>3, <3>3, Zenon
      <4>2. mlock[cpuid(thr[u].ino)] = u /\ cpuid(thr[u].ino) \notin leaked
        BY <1>1, <3>1, <4>1, ZenonT(40) DEF SwitchersHold
      <4>3. cpuid(thr[u].ino) \in Maps /\ cpuid(thr[u].ino) # c
        BY <1>1, <1>3, <1>5, <4>2, ThreadFields, InoParts, ZenonT(40)
      <4>4. mlock'[cpuid(thr[u].ino)] = u /\ cpuid(thr[u].ino) \notin leaked'
        BY <1>4, <1>6, <4>2, <4>3, ZenonT(40)
      <4> QED BY <4>1, <4>4, ZenonT(40)
    <3> QED BY <3>2, <3>3, Zenon
  <2>5. LeakedHeld'
    <3>1. leaked \subseteq Maps
      BY <1>1, Zenon DEF Types, TypeOK
    <3> QED BY <1>1, <1>3, <1>4, <1>6, <3>1, ZenonT(40) DEF LeakedHeld
  <2> QED BY <2>2, <2>3, <2>4, <2>5, Zenon DEF LockInv
<1>9. OwnInv' /\ NumberInv'
  <2>1. Alone(t, s) /\ s.pc \notin Gone
    BY <1>1, <1>3, <1>4, ZenonT(40) DEF Alone, OneThreadEach, Gone
  <2>2. InUse(s.ino)
    <3>1. InUse(thr[t].ino)
      BY <1>1, <1>4, ZenonT(40) DEF NumberInv, ThreadsHeld, Unnumbered
    <3> QED BY <1>3, <1>4, <3>1, ZenonT(40)
  <2>3. OwnInv'
    BY <1>1, <1>3, <1>4, <2>1, MoveOwns, ZenonT(40)
  <2> QED BY <1>1, <1>3, <1>4, <2>2, <2>3, MoveNumbers, ZenonT(40)
<1>10. TableInv'
  <2>1. leaked \subseteq leaked' /\ \A d \in Maps : Numbers(d)' \subseteq Numbers(d)
    BY <1>4, Zenon DEF Numbers
  <2>2. thr[t].pc # "address" /\ s.pc # "address"
    BY <1>3, <1>4, ZenonT(40)
  <2> QED BY <1>1, <1>3, <1>4, <2>1, <2>2, MoveTables, ZenonT(40)
<1> QED BY <1>7, <1>8, <1>9, <1>10, Zenon

\* The addresses held after a copy were held before, and the one that is copied
\* makes its inode an overlapped one.
LEMMA CopyHeld ==
    ASSUME IInv, NEW t \in Threads, NEW i, NEW q, CopyMade(t, i, q),
           NEW u \in Threads, NEW j \in Inos, NEW p \in 1 .. NumPages, Held(thr'[u], j, p)
    PROVE  Held(thr[u], j, p) /\ (p = Addr(i) => j \in overlap')
<1> Copied(t, i, q)
  BY CopyFacts, Zenon
<1>1. PICK r : r = thr[u]
  BY Zenon
<1>2. PICK s : s = thr'[u]
  BY Zenon
<1>3. PICK a : a = Addr(i)
  BY Zenon
<1>4. /\ r.pi = a => r.ino \in overlap'
      /\ r.pidir = a => r.dir \in overlap'
      /\ r.at = a /\ u # t => r.ino \in overlap'
  BY <1>1, <1>3, Zenon DEF CopyMade
<1>5. CASE u # t
  <2>1. s = r
    BY <1>1, <1>2, <1>5, Copied(t, i, q), ZenonT(40) DEF Copied
  <2> QED BY <1>1, <1>2, <1>3, <1>4, <1>5, <2>1, ZenonT(40) DEF Held
<1>6. CASE u = t
  <2>1. s.pc = "switch" /\ s.ino = r.ino /\ s.dir = r.dir /\ s.pi = r.pi /\ s.pidir = r.pidir
    <3>1. thr[t].ino = i
      BY Zenon DEF CopyMade
    <3>2. /\ thr'[t].pc = "switch" /\ thr'[t].ino = i /\ thr'[t].dir = thr[t].dir
          /\ thr'[t].pi = thr[t].pi /\ thr'[t].pidir = thr[t].pidir
      BY Copied(t, i, q), ZenonT(40) DEF Copied
    <3> QED BY <1>1, <1>2, <1>6, <3>1, <3>2, ZenonT(40)
  <2> QED BY <1>1, <1>2, <1>3, <1>4, <2>1, ZenonT(40) DEF Held
<1> QED BY <1>5, <1>6, Zenon

\* The pages: the new one is nobody's but the copier's.
LEMMA CopyPages ==
    ASSUME IInv, NEW t \in Threads, NEW i, NEW q, CopyMade(t, i, q)
    PROVE  PageInv'
<1> Copied(t, i, q)
  BY CopyFacts, Zenon
<1>1. /\ Types /\ TablesApart /\ TablesTaken /\ CopiesApart /\ LivePaged /\ ThreadsPaged
      /\ HeldTaken
  BY Zenon DEF IInv, PageInv
<1>2. /\ thr'[t].pc = "switch" /\ thr'[t].at = q /\ thr'[t].ino = i
      /\ \A u \in Threads : u # t => thr'[u] = thr[u]
      /\ \A j : Addr(j)' = Addr(j)
      /\ Addr(i) \in 1 .. NumPages /\ q \in 1 .. NumPages
  BY Copied(t, i, q), ZenonT(40) DEF Copied
<1>3. /\ table' = table /\ live' = live /\ free' = free \ {q} /\ q \in free
      /\ thr[t].pc = "count"
  BY Zenon DEF CopyMade
<1>4. TablesApart' /\ TablesTaken' /\ LivePaged'
  <2>1. TablesApart'
    BY <1>1, <1>3, SMT DEF TablesApart
  <2>2. TablesTaken'
    BY <1>1, <1>3, Zenon DEF TablesTaken
  <2>3. LivePaged'
    BY <1>1, <1>2, <1>3, Zenon DEF LivePaged
  <2> QED BY <2>1, <2>2, <2>3, Zenon
<1>5. CopiesApart'
  <2>1. SUFFICES ASSUME NEW u \in Threads, thr'[u].pc = "switch", NEW b, b = thr'[u].at
                 PROVE  /\ b \notin free'
                        /\ \A c \in Maps, k \in Blocks : table'[c][k] # b
                        /\ \A v \in Threads : v # u /\ thr'[v].pc = "switch" => thr'[v].at # b
    BY DEF CopiesApart, CopyApart
  <2>2. \A c \in Maps, k \in Blocks : table[c][k] # q
    BY <1>1, <1>3, Zenon DEF TablesTaken
  <2>3. \A v \in Threads : v # t /\ thr'[v].pc = "switch" =>
          /\ thr'[v].at \notin free /\ thr'[v].at # q
          /\ \A c \in Maps, k \in Blocks : table[c][k] # thr'[v].at
          /\ \A w \in Threads : w # v /\ w # t /\ thr'[w].pc = "switch" => thr'[w].at # thr'[v].at
    BY <1>1, <1>2, <1>3, SMTT(40) DEF CopiesApart, CopyApart
  <2>4. CASE u = t
    <3>1. b = q
      BY <1>2, <2>1, <2>4, Zenon
    <3> QED BY <1>3, <2>2, <2>3, <2>4, <3>1, ZenonT(40)
  <2>5. CASE u # t
    <3>1. b \notin free /\ b # q /\ \A c \in Maps, k \in Blocks : table[c][k] # b
      BY <2>1, <2>3, <2>5, ZenonT(40)
    <3>2. \A v \in Threads : v # u /\ thr'[v].pc = "switch" => thr'[v].at # b
      BY <1>2, <2>1, <2>3, <2>5, <3>1, ZenonT(40)
    <3> QED BY <1>3, <3>1, <3>2, ZenonT(40)
  <2> QED BY <2>4, <2>5, Zenon
<1>6. ThreadsPaged'
  <2>1. SUFFICES ASSUME NEW u \in Threads, thr'[u].pc \in Paged, NEW j, j = thr'[u].ino
                 PROVE  Addr(j)' # 0
    BY DEF ThreadsPaged, Addr, cpuid, superpage_count, internal_ino
  <2>2. CASE u = t
    <3>1. j = i
      BY <1>2, <2>1, <2>2, Zenon
    <3> QED BY <1>2, <3>1, Sizes, SMT
  <2>3. CASE u # t
    <3>1. thr[u].pc \in Paged /\ j = thr[u].ino
      BY <1>2, <2>1, <2>3, Zenon
    <3>2. Addr(j) # 0
      BY <1>1, <3>1, Zenon DEF ThreadsPaged
    <3> QED BY <1>2, <3>2, Zenon
  <2> QED BY <2>2, <2>3, Zenon
<1>7. HeldTaken'
  <2>1. SUFFICES ASSUME NEW u \in Threads, NEW j \in Inos, NEW p \in 1 .. NumPages,
                        Held(thr'[u], j, p)
                 PROVE  p \notin free' /\ Addr(j)' # 0
    BY DEF HeldTaken, Held
  <2>2. Held(thr[u], j, p)
    BY <2>1, CopyHeld, Zenon
  <2>3. p \notin free /\ Addr(j) # 0
    BY <1>1, <2>2, Zenon DEF HeldTaken
  <2> QED BY <1>2, <1>3, <2>3, Zenon
<1> QED BY <1>4, <1>5, <1>6, <1>7, Zenon DEF PageInv

\* The inodes of one page are at one address.
LEMMA OnePage ==
    ASSUME NEW i, NEW j, SamePage(i, j)
    PROVE  Addr(i) = Addr(j)
  BY Zenon DEF SamePage, Addr

\* The copy has what was last stored.
LEMMA CopyUpdates ==
    ASSUME IInv, NEW t \in Threads, NEW i, NEW q, CopyMade(t, i, q)
    PROVE  UpdateInv'
<1> Copied(t, i, q)
  BY CopyFacts, Zenon
<1>1. /\ Types /\ FreeZero /\ UnpagedZero /\ PagesLatest /\ CopiesLatest /\ HeldCurrent
      /\ CopiesApart
  BY Zenon DEF IInv, UpdateInv, PageInv
<1>2. /\ i \in Inos /\ Addr(i) \in 1 .. NumPages
      /\ thr'[t].pc = "switch" /\ thr'[t].at = q /\ thr'[t].ino = i
      /\ \A u \in Threads : u # t => thr'[u] = thr[u]
      /\ mem'[q] = mem[Addr(i)] /\ \A p \in 1 .. NumPages : p # q => mem'[p] = mem[p]
      /\ \A j \in Inos : Addr(j) # q
  BY Copied(t, i, q), ZenonT(40) DEF Copied
<1>3. \A j : Addr(j)' = Addr(j)
  BY Copied(t, i, q), ZenonT(40) DEF Copied
<1>4. /\ latest' = latest /\ free' = free \ {q} /\ q \in free /\ overlap \subseteq overlap'
      /\ thr[t].pc = "count"
  BY Zenon DEF CopyMade
<1>5. free \subseteq 1 .. NumPages /\ \A u \in Threads : thr[u] \in Thread
  BY <1>1, Zenon DEF Types, TypeOK
<1>6. FreeZero'
  BY <1>1, <1>2, <1>4, <1>5, ZenonT(40) DEF FreeZero
<1>7. UnpagedZero'
  BY <1>1, <1>3, <1>4, ZenonT(40) DEF UnpagedZero
<1>8. \A j \in Inos : Addr(j) # 0 => Addr(j) \in 1 .. NumPages /\ mem'[Addr(j)] = mem[Addr(j)]
  <2>1. SUFFICES ASSUME NEW j \in Inos, Addr(j) # 0
                 PROVE  Addr(j) \in 1 .. NumPages /\ mem'[Addr(j)] = mem[Addr(j)]
    BY Zenon
  <2>2. Addr(j) \in 0 .. NumPages
    BY <1>1, AddrType, Zenon
  <2>3. Addr(j) \in 1 .. NumPages
    BY <2>1, <2>2, Sizes, SMTT(40)
  <2> QED BY <1>2, <2>3, Zenon
<1>9. PagesLatest'
  <2>1. SUFFICES ASSUME NEW j \in Inos \ overlap', Addr(j)' # 0
                 PROVE  mem'[Addr(j)'][j] = latest'[j]
    BY Zenon DEF PagesLatest, Fields
  <2>2. j \in Inos \ overlap /\ Addr(j) # 0
    BY <1>3, <1>4, <2>1, Zenon
  <2>3. mem[Addr(j)][j] = latest[j]
    BY <1>1, <2>2, Zenon DEF PagesLatest, Fields
  <2>4. mem'[Addr(j)] = mem[Addr(j)]
    BY <1>8, <2>2, Zenon
  <2> QED BY <1>3, <1>4, <2>3, <2>4, ZenonT(40)
<1>10. CopiesLatest'
  <2>1. SUFFICES ASSUME NEW j \in Inos \ overlap', NEW u \in Threads, thr'[u].pc = "switch",
                        SamePage(thr'[u].ino, j), NEW b, b = thr'[u].at
                 PROVE  mem'[b][j] = latest'[j]
    BY DEF CopiesLatest, Copying, SamePage, cpuid, superpage_count, internal_ino
  <2>2. j \in Inos \ overlap
    BY <1>4, <2>1, Zenon
  <2>3. CASE u = t
    <3>1. b = q /\ SamePage(i, j)
      BY <1>2, <2>1, <2>3, ZenonT(40)
    <3>2. Addr(i) = Addr(j)
      BY <3>1, OnePage, Zenon
    <3>3. Addr(j) # 0
      BY <1>2, <3>2, Sizes, SMT
    <3>4. mem[Addr(j)][j] = latest[j]
      BY <1>1, <2>2, <3>3, Zenon DEF PagesLatest, Fields
    <3>5. mem'[b][j] = mem[Addr(j)][j]
      BY <1>2, <3>1, <3>2, ZenonT(40)
    <3> QED BY <1>4, <3>4, <3>5, ZenonT(40)
  <2>4. CASE u # t
    <3>1. thr[u].pc = "switch" /\ SamePage(thr[u].ino, j) /\ b = thr[u].at
      BY <1>2, <2>1, <2>4, ZenonT(40)
    <3>2. Copying(u, j) /\ thr[u].at \notin free /\ thr[u] \in Thread /\ Phase(thr[u])
      BY <1>1, <1>5, <3>1, Zenon DEF Copying, CopiesApart, CopyApart, Types
    <3>3. b \in 1 .. NumPages /\ b # q
      <4>1. b \in 0 .. NumPages /\ b \notin free
        BY <3>1, <3>2, ZenonT(40) DEF Thread
      <4>2. b # 0
        BY <3>1, <3>2, ZenonT(40) DEF Phase
      <4> QED BY <1>4, <4>1, <4>2, PageNumbers, ZenonT(40)
    <3>4. mem[b][j] = latest[j]
      BY <1>1, <2>2, <3>1, <3>2, ZenonT(40) DEF CopiesLatest
    <3>5. mem'[b] = mem[b]
      BY <1>2, <3>3, Zenon
    <3> QED BY <1>4, <3>4, <3>5, ZenonT(40)
  <2> QED BY <2>3, <2>4, Zenon
<1>11. HeldCurrent'
  <2>1. SUFFICES ASSUME NEW j \in Inos \ overlap', NEW u \in Threads, NEW p \in 1 .. NumPages,
                        Held(thr'[u], j, p)
                 PROVE  p = Addr(j)' /\ \A v \in Threads :
                          ~ (thr'[v].pc = "switch" /\ SamePage(thr'[v].ino, j))
    BY DEF HeldCurrent, Held, Copying, SamePage, cpuid, superpage_count, internal_ino
  <2>2. Held(thr[u], j, p) /\ (p = Addr(i) => j \in overlap')
    BY <2>1, CopyHeld, Zenon
  <2>3. j \in Inos \ overlap
    BY <1>4, <2>1, Zenon
  <2>4. p = Addr(j) /\ \A v \in Threads : ~ Copying(v, j)
    BY <1>1, <2>2, <2>3, Zenon DEF HeldCurrent
  <2>5. Addr(j) # Addr(i)
    BY <2>1, <2>2, <2>4, ZenonT(40)
  <2>6. ~ SamePage(i, j)
    BY <2>5, OnePage, Zenon
  <2>7. ASSUME NEW v \in Threads, thr'[v].pc = "switch", SamePage(thr'[v].ino, j)
        PROVE  FALSE
    <3>1. v # t
      BY <1>2, <2>6, <2>7, ZenonT(40)
    <3>2. thr'[v] = thr[v]
      BY <1>2, <3>1, Zenon
    <3>3. Copying(v, j)
      BY <2>7, <3>2, ZenonT(40) DEF Copying
    <3> QED BY <2>4, <3>3, Zenon
  <2> QED BY <1>3, <2>4, <2>7, Zenon
<1> QED BY <1>6, <1>7, <1>9, <1>10, <1>11, Zenon DEF UpdateInv

\* A writer finds in the copy what it finds in the page.
LEMMA CopyFlags ==
    ASSUME IInv, NEW t \in Threads, NEW i, NEW q, CopyMade(t, i, q)
    PROVE  FlagsAgree' /\ PageLocks'
<1> Copied(t, i, q)
  BY CopyFacts, Zenon
<1>1. Types /\ FlagsAgree /\ PageLocks /\ CopiesApart /\ HeldTaken /\ ThreadsPaged
  BY Zenon DEF IInv, PageInv
<1>2. /\ i \in Inos /\ Addr(i) \in 1 .. NumPages
      /\ thr'[t].pc = "switch" /\ thr'[t].at = q /\ thr'[t].ino = i
      /\ thr'[t].op = thr[t].op /\ thr'[t].pi = thr[t].pi
      /\ \A u \in Threads : u # t => thr'[u] = thr[u]
      /\ mem'[q] = mem[Addr(i)] /\ \A p \in 1 .. NumPages : p # q => mem'[p] = mem[p]
      /\ \A j \in Inos : Addr(j) # q
  BY Copied(t, i, q), ZenonT(40) DEF Copied
<1>3. \A j : Addr(j)' = Addr(j) /\ Fields(j)' = mem'[Addr(j)'][j]
  BY Copied(t, i, q), ZenonT(40) DEF Copied, Fields
<1>4. q \in free /\ plock' = plock /\ thr[t].pc = "count" /\ thr[t].ino = i
  BY Zenon DEF CopyMade
<1>5. \A u \in Threads : thr[u] \in Thread /\ Phase(thr[u]) /\ thr[u].ino \in Inos
  BY <1>1, ThreadFields, Zenon DEF Types
<1>6. \A p \in 1 .. NumPages : p \notin free => mem'[p] = mem[p]
  BY <1>2, <1>4, Zenon
<1>7. \A j \in Inos : Addr(j) # 0 => Addr(j) \in 1 .. NumPages /\ Fields(j)' = Fields(j)
  <2>1. SUFFICES ASSUME NEW j \in Inos, Addr(j) # 0
                 PROVE  Addr(j) \in 1 .. NumPages /\ Fields(j)' = Fields(j)
    BY Zenon
  <2>2. Addr(j) \in 0 .. NumPages
    BY <1>1, AddrType, ZenonT(40)
  <2>3. Addr(j) \in 1 .. NumPages
    BY <2>1, <2>2, Sizes, SMT
  <2>4. mem'[Addr(j)] = mem[Addr(j)] /\ Fields(j) = mem[Addr(j)][j]
    BY <1>2, <2>3, Zenon DEF Fields
  <2> QED BY <1>3, <2>3, <2>4, ZenonT(40)
\* The copies are there as they were.
<1>8. \A v \in Threads : v # t /\ thr[v].pc = "switch" => mem'[thr[v].at] = mem[thr[v].at]
  <2>1. SUFFICES ASSUME NEW v \in Threads, v # t, thr[v].pc = "switch"
                 PROVE  mem'[thr[v].at] = mem[thr[v].at]
    BY Zenon
  <2>2. thr[v].at \in 0 .. NumPages /\ thr[v].at # 0
    BY <1>5, <2>1, ZenonT(40) DEF Thread, Phase
  <2>3. thr[v].at \notin free
    BY <1>1, <2>1, Zenon DEF CopiesApart, CopyApart
  <2>4. thr[v].at \in 1 .. NumPages
    BY <2>2, Sizes, SMT
  <2> QED BY <1>6, <2>3, <2>4, Zenon
<1>9. FlagsAgree'
  <2>1. SUFFICES ASSUME NEW u \in Threads, thr'[u].op = "write",
                        NEW s, s = thr'[u], NEW j, j = s.ino
                 PROVE  /\ s.pi # 0 => mem'[s.pi][j].ino = Fields(j)'.ino
                        /\ s.at # 0 => mem'[s.at][j].ino = Fields(j)'.ino
                        /\ \A v \in Threads : thr'[v].pc = "switch" /\ SamePage(thr'[v].ino, j)
                             => mem'[thr'[v].at][j].ino = Fields(j)'.ino
    BY ZenonT(60) DEF FlagsAgree, SameFlag, Copying, SamePage, Fields, Addr, cpuid,
                      superpage_count, internal_ino
  <2>2. PICK r : r = thr[u]
    BY Zenon
  <2>3. /\ r.op = "write" /\ r.ino = j /\ r.pi = s.pi /\ r \in Thread /\ Phase(r)
        /\ j \in Inos /\ (u # t => s = r) /\ (u = t => s.at = q /\ j = i /\ r.pc = "count")
    <3>1. CASE u = t
      BY <1>2, <1>4, <1>5, <2>1, <2>2, <3>1, ZenonT(40)
    <3>2. CASE u # t
      BY <1>2, <1>5, <2>1, <2>2, <3>2, ZenonT(40)
    <3> QED BY <3>1, <3>2, Zenon
  <2>4. CASE r.pc \in Paged
    <3>1. Addr(j) # 0 /\ SameFlag(r)
      BY <1>1, <2>2, <2>3, <2>4, ZenonT(40) DEF ThreadsPaged, FlagsAgree
    <3>2. Fields(j)' = Fields(j)
      BY <1>7, <2>3, <3>1, Zenon
    <3>3. PICK f : f = Fields(j).ino
      BY Zenon
    <3>4. /\ r.pi # 0 => mem[r.pi][j].ino = f
          /\ r.at # 0 => mem[r.at][j].ino = f
          /\ \A v \in Threads : Copying(v, j) => mem[thr[v].at][j].ino = f
      BY <2>3, <3>1, <3>3, ZenonT(40) DEF SameFlag
    <3>5. ASSUME NEW p \in 0 .. NumPages, p # 0, Held(r, j, p) PROVE mem'[p] = mem[p]
      <4>1. p \in 1 .. NumPages
        BY <3>5, PageNumbers, ZenonT(40)
      <4>2. p \notin free
        BY <1>1, <2>2, <2>3, <3>5, <4>1, ZenonT(40) DEF HeldTaken
      <4> QED BY <1>6, <4>1, <4>2, Zenon
    <3>6. r.pi \in 0 .. NumPages /\ r.at \in 0 .. NumPages
      BY <2>3, Zenon DEF Thread
    <3>7. s.pi # 0 => mem'[s.pi][j].ino = f
      <4>1. SUFFICES ASSUME r.pi # 0 PROVE mem'[r.pi][j].ino = f
        BY <2>3, ZenonT(40)
      <4>2. Held(r, j, r.pi)
        BY <2>3, <4>1, ZenonT(40) DEF Held
      <4>3. mem'[r.pi] = mem[r.pi]
        BY <3>5, <3>6, <4>1, <4>2, Zenon
      <4> QED BY <3>4, <4>1, <4>3, ZenonT(40)
    <3>8. mem[Addr(j)][j].ino = f
      BY <3>3, Zenon DEF Fields
    <3>9. s.at # 0 => mem'[s.at][j].ino = f
      <4>1. CASE u = t
        BY <1>2, <2>3, <3>8, <4>1, ZenonT(40)
      <4>2. CASE u # t /\ r.at # 0
        <5>1. CASE r.pc # "switch"
          <6>1. Held(r, j, r.at)
            BY <2>3, <4>2, <5>1, ZenonT(40) DEF Held
          <6>2. mem'[r.at] = mem[r.at]
            BY <3>5, <3>6, <4>2, <6>1, ZenonT(40)
          <6> QED BY <2>3, <3>4, <4>2, <6>2, ZenonT(40)
        <5>2. CASE r.pc = "switch"
          <6>1. mem'[r.at] = mem[r.at]
            BY <1>8, <2>2, <4>2, <5>2, Zenon
          <6> QED BY <2>3, <3>4, <4>2, <6>1, ZenonT(40)
        <5> QED BY <5>1, <5>2, ZenonT(40)
      <4> QED BY <2>3, <4>1, <4>2, ZenonT(40)
    <3>10. ASSUME NEW v \in Threads, thr'[v].pc = "switch", SamePage(thr'[v].ino, j)
           PROVE  mem'[thr'[v].at][j].ino = f
      <4>1. CASE v = t
        <5>1. SamePage(i, j) /\ thr'[v].at = q
          BY <1>2, <3>10, <4>1, ZenonT(40)
        <5>2. Addr(i) = Addr(j)
          BY <5>1, OnePage, Zenon
        <5> QED BY <1>2, <3>8, <5>1, <5>2, ZenonT(40)
      <4>2. CASE v # t
        <5>1. thr'[v] = thr[v]
          BY <1>2, <4>2, Zenon
        <5>2. Copying(v, j) /\ thr[v].pc = "switch"
          BY <3>10, <5>1, ZenonT(40) DEF Copying
        <5>3. mem'[thr[v].at] = mem[thr[v].at]
          BY <1>8, <4>2, <5>2, Zenon
        <5>4. mem[thr[v].at][j].ino = f
          BY <3>4, <5>2, Zenon
        <5> QED BY <5>1, <5>3, <5>4, ZenonT(40)
      <4> QED BY <4>1, <4>2, Zenon
    <3>11. Fields(j)'.ino = f
      BY <3>2, <3>3, ZenonT(40)
    <3> QED BY <3>7, <3>9, <3>10, <3>11, ZenonT(40)
  <2>5. CASE r.pc \notin Paged
    <3>1. r.pc \in {"idle", "number", "address"}
      BY <2>3, <2>5, ZenonT(40) DEF Paged, PC, Thread
    <3>2. r.op # "write"
      BY <2>3, <3>1, NoWriter, Zenon
    <3> QED BY <2>3, <3>2, Zenon
  <2> QED BY <2>4, <2>5, Zenon
<1>10. PageLocks'
  <2>1. \A j : Fields(j)' = mem'[table'[cpuid(j)][superpage_count(j)]][j]
    BY Zenon DEF Fields, Addr, cpuid, superpage_count, internal_ino
  <2>2. SUFFICES ASSUME NEW u \in Threads, NEW l \in Maps \X Blocks, plock'[l] = u,
                        NEW j, j = thr'[u].ino
                 PROVE  /\ thr'[u].pc \in Locked
                        /\ l = LockFor(thr'[u],
                                 mem'[table'[cpuid(j)][superpage_count(j)]][j].ino)
    BY <2>1, ZenonT(40) DEF PageLocks
  <2>3. thr[u].pc \in Locked /\ l = LockFor(thr[u], Fields(thr[u].ino).ino)
    BY <1>1, <1>4, <2>2, ZenonT(40) DEF PageLocks
  <2>4. u # t
    BY <1>4, <2>3, ZenonT(40) DEF Locked
  <2>5. thr'[u] = thr[u] /\ j = thr[u].ino /\ j \in Inos
    BY <1>2, <1>5, <2>2, <2>4, ZenonT(40)
  <2>6. Addr(j) # 0
    BY <1>1, <2>3, <2>5, ZenonT(40) DEF ThreadsPaged, Locked, Paged, PC
  <2>7. mem'[table'[cpuid(j)][superpage_count(j)]][j] = Fields(thr[u].ino)
    BY <1>7, <2>1, <2>5, <2>6, ZenonT(40)
  <2> QED BY <2>3, <2>5, <2>7, ZenonT(40)
<1> QED BY <1>9, <1>10, Zenon

\* CopyPage: the page is copied, or there is none to copy it to.
LEMMA CopyStep ==
    ASSUME IInv, NEW t \in Threads, thr[t].pc = "count",
           CopyPage(t, thr[t].ino, AfterCount(t))
    PROVE  IInv'
<1>1. PICK i : i = thr[t].ino
  BY Zenon
<1>2. Types /\ i \in Inos /\ cpuid(i) \in Maps
  <2>1. Types
    BY Zenon DEF IInv
  <2>2. i \in Inos
    BY <1>1, <2>1, ThreadFields, Zenon
  <2> QED BY <2>1, <2>2, InoParts, Zenon
<1>3. PICK s : s = At(thr[t], AfterCount(t))
  BY Zenon
<1>4. CASE free = {}
  <2>1. PICK c \in Maps : c = cpuid(i)
    BY <1>2, Zenon
  <2>2. /\ mlock[c] = NoThread /\ mlock' = [mlock EXCEPT ![c] = t]
        /\ leaked' = leaked \cup {c} /\ thr' = [thr EXCEPT ![t] = s]
        /\ mem' = mem /\ free' = free /\ overlap' = overlap
        /\ inuse' = inuse /\ nodes' = nodes /\ dangling' = dangling /\ map_id' = map_id
        /\ table' = table /\ tmutex' = tmutex /\ plock' = plock /\ live' = live
        /\ latest' = latest
    BY <1>1, <1>3, <1>4, <2>1, ZenonT(40) DEF CopyPage, nova_get_inode_address
  <2> QED BY <1>3, <2>2, CopyFailed, ZenonT(60)
<1>5. CASE free # {}
  <2>1. PICK q : q = NewPage
    BY Zenon
  <2>2. q \in free
    BY <1>2, <1>5, <2>1, NewPageFree, Zenon
  <2>3. PICK o : o = {<<thr[u].ino, thr[u].pi>> : u \in Threads}
                  \cup {<<thr[u].ino, thr[u].at>> : u \in Threads \ {t}}
                  \cup {<<thr[u].dir, thr[u].pidir>> : u \in Threads}
    BY Zenon
  <2>4. overlap' = overlap \cup {h[1] : h \in {g \in o : g[2] = Addr(i)}}
    BY <1>1, <1>5, <2>3, ZenonT(40) DEF CopyPage
  <2>5. \A u \in Threads : thr[u].ino \in Inos /\ thr[u].dir \in Inos
    BY <1>2, ThreadFields, Zenon DEF Types, Thread
  <2>6. overlap \subseteq overlap' /\ overlap' \subseteq Inos
    <3>1. overlap \subseteq Inos
      BY <1>2, Zenon DEF Types, TypeOK
    <3>2. \A h \in o : h[1] \in Inos
      <4>1. SUFFICES ASSUME NEW h \in o PROVE h[1] \in Inos
        BY Zenon
      <4>2. PICK u \in Threads : \/ h = <<thr[u].ino, thr[u].pi>>
                                 \/ h = <<thr[u].ino, thr[u].at>>
                                 \/ h = <<thr[u].dir, thr[u].pidir>>
        BY <2>3, <4>1, ZenonT(40)
      <4>3. h[1] = thr[u].ino \/ h[1] = thr[u].dir
        <5>1. CASE h = <<thr[u].ino, thr[u].pi>>
          BY <5>1, PairParts, ZenonT(40)
        <5>2. CASE h = <<thr[u].ino, thr[u].at>>
          BY <5>2, PairParts, ZenonT(40)
        <5>3. CASE h = <<thr[u].dir, thr[u].pidir>>
          BY <5>3, PairParts, ZenonT(40)
        <5> QED BY <4>2, <5>1, <5>2, <5>3, Zenon
      <4> QED BY <2>5, <4>3, ZenonT(40)
    <3> QED BY <2>4, <3>1, <3>2, ZenonT(40)
  <2>7. \A u \in Threads :
          /\ <<thr[u].ino, thr[u].pi>> \in o
          /\ <<thr[u].dir, thr[u].pidir>> \in o
          /\ u # t => <<thr[u].ino, thr[u].at>> \in o
    BY <2>3, ZenonT(40)
  <2>8. \A x, y : <<x, y>> \in o /\ y = Addr(i) => x \in overlap'
    <3>1. SUFFICES ASSUME NEW x, NEW y, NEW h, h = <<x, y>>, h \in o, y = Addr(i)
                   PROVE  x \in overlap'
      BY Zenon
    <3>2. h[1] = x /\ h[2] = y
      BY <3>1, PairParts, ZenonT(40)
    <3>3. h[1] \in overlap'
      BY <2>4, <3>1, <3>2, ZenonT(40)
    <3> QED BY <3>2, <3>3, Zenon
  <2>9. \A u \in Threads :
          /\ thr[u].pi = Addr(i) => thr[u].ino \in overlap'
          /\ thr[u].pidir = Addr(i) => thr[u].dir \in overlap'
          /\ thr[u].at = Addr(i) /\ u # t => thr[u].ino \in overlap'
    BY <2>7, <2>8, ZenonT(40)
  <2>10. thr' = [thr EXCEPT ![t].pc = "switch", ![t].at = q]
    BY <1>5, <2>1, ZenonT(40) DEF CopyPage
  <2>11. thr' = [thr EXCEPT ![t] = [@ EXCEPT !.pc = "switch", !.at = q]]
    <3>1. thr \in [Threads -> Thread]
      BY <1>2, Zenon DEF Types
    <3> QED BY <2>10, <3>1, ZenonT(40)
  <2>12. /\ mlock' = [mlock EXCEPT ![cpuid(i)] = t] /\ nova_get_inode_address(i)
         /\ mem' = [mem EXCEPT ![q] = mem[Addr(i)]] /\ free' = free \ {q}
         /\ leaked' = leaked /\ inuse' = inuse /\ nodes' = nodes /\ dangling' = dangling
         /\ map_id' = map_id /\ table' = table /\ tmutex' = tmutex /\ plock' = plock
         /\ live' = live /\ latest' = latest
    BY <1>1, <1>5, <2>1, ZenonT(40) DEF CopyPage
  <2>13. CopyMade(t, i, q)
    BY <1>1, <2>2, <2>6, <2>9, <2>11, <2>12, ZenonT(40) DEF CopyMade
  <2> QED BY <2>13, CopyLocks, CopyPages, CopyUpdates, CopyFlags, Zenon DEF IInv
<1> QED BY <1>4, <1>5, Zenon

-----------------------------------------------------------------------------
(* The switch to the copy                                                  *)

\* SwitchPage: thread t makes page b the page of i, and goes on as s.
SwitchMade(t, i, b, s) ==
    /\ thr[t].pc = "switch" /\ thr[t].ino = i /\ thr[t].at = b
    /\ s = At(thr[t], AfterCount(t))
    /\ table' = [table EXCEPT ![cpuid(i)][superpage_count(i)] = b]
    /\ mlock' = [mlock EXCEPT ![cpuid(i)] = NoThread]
    /\ thr' = [thr EXCEPT ![t] = s]
    /\ inuse' = inuse /\ nodes' = nodes /\ dangling' = dangling /\ map_id' = map_id
    /\ mem' = mem /\ free' = free /\ tmutex' = tmutex /\ plock' = plock
    /\ live' = live /\ latest' = latest /\ overlap' = overlap /\ leaked' = leaked

\* The thread and the tables after that: nobody else copies a page of the map, and
\* what is held was held before.
SwitchedThread(t, i, b, s) ==
    /\ i \in Inos /\ cpuid(i) \in Maps /\ superpage_count(i) \in Blocks
    /\ b \in 1 .. NumPages /\ CopyApart(t)
    /\ s \in Thread /\ Phase(s) /\ s.op # "write" /\ s.pc \in {"idle", "pidir_tail", "again"}
    /\ (s.ino = i /\ s.pc # "idle") \/ (s.ino = 0 /\ s.pc = "idle")
    /\ thr'[t] = s /\ \A u \in Threads : u # t => thr'[u] = thr[u]
    /\ \A u \in Threads : \A j, p : Held(thr'[u], j, p) => Held(thr[u], j, p)
SwitchedTable(t, i, b) ==
    /\ table'[cpuid(i)][superpage_count(i)] = b
    /\ \A c \in Maps, k \in Blocks :
         c # cpuid(i) \/ k # superpage_count(i) => table'[c][k] = table[c][k]
    /\ \A j \in Inos : SamePage(i, j) => Addr(j)' = b
    /\ \A j \in Inos : ~ SamePage(i, j) => Addr(j)' = Addr(j)
    /\ Addr(i) # 0
    /\ mlock[cpuid(i)] = t /\ cpuid(i) \notin leaked
    /\ \A u \in Threads : thr'[u].pc = "switch" =>
         u # t /\ thr'[u] = thr[u] /\ cpuid(thr[u].ino) # cpuid(i)

\* SwitchPage leaves the thread so,
LEMMA SwitchThread ==
    ASSUME IInv, NEW t \in Threads, NEW i, NEW b, NEW s, SwitchMade(t, i, b, s)
    PROVE  SwitchedThread(t, i, b, s)
<1>1. Types /\ CopiesApart
  BY Zenon DEF IInv, PageInv
<1>2. /\ thr[t].pc = "switch" /\ thr[t].ino = i /\ thr[t].at = b
      /\ s = At(thr[t], AfterCount(t)) /\ thr' = [thr EXCEPT ![t] = s]
  BY Zenon DEF SwitchMade
<1>3. thr[t] \in Thread /\ Phase(thr[t]) /\ i \in Inos
  BY <1>1, <1>2, ThreadFields, Zenon
<1>4. cpuid(i) \in Maps /\ superpage_count(i) \in Blocks
  BY <1>3, InoParts, Zenon
<1>5. b \in 1 .. NumPages
  <2>1. b \in 0 .. NumPages /\ b # 0
    BY <1>2, <1>3, ZenonT(40) DEF Thread, Phase
  <2> QED BY <2>1, PageNumbers, Zenon
<1>6. CopyApart(t)
  BY <1>1, <1>2, Zenon DEF CopiesApart
<1>7. /\ s \in Thread /\ Phase(s) /\ s.at = 0 /\ s.op # "write"
      /\ s.pc \in {"idle", "pidir_tail", "again"}
      /\ \/ s = Idle
         \/ /\ s.ino = thr[t].ino /\ s.op = thr[t].op /\ s.dir = thr[t].dir
            /\ s.pi = thr[t].pi /\ s.pidir = thr[t].pidir /\ s.pc # "idle"
  BY <1>1, <1>2, CountedThread, Zenon
<1>8. Idle.ino = 0 /\ Idle.pc = "idle" /\ Idle.pi = 0 /\ Idle.pidir = 0 /\ Idle.at = 0
  BY Zenon DEF Idle
<1>9. (s.ino = i /\ s.pc # "idle") \/ (s.ino = 0 /\ s.pc = "idle")
  BY <1>2, <1>7, <1>8, Zenon
<1>10. thr'[t] = s /\ \A u \in Threads : u # t => thr'[u] = thr[u]
  BY <1>1, <1>2, OneThread, Zenon
<1>11. \A u \in Threads : \A j, p : Held(thr'[u], j, p) => Held(thr[u], j, p)
  <2>1. SUFFICES ASSUME NEW u \in Threads, NEW j, NEW p, Held(thr'[u], j, p)
                 PROVE  Held(thr[u], j, p)
    BY Zenon
  <2>2. CASE u # t
    BY <1>10, <2>1, <2>2, Zenon
  <2>3. CASE u = t
    <3>1. Held(s, j, p)
      BY <1>10, <2>1, <2>3, Zenon
    <3>2. PICK r : r = thr[t]
      BY Zenon
    <3>3. Held(r, j, p)
      BY <1>7, <1>8, <3>1, <3>2, ZenonT(40) DEF Held
    <3> QED BY <2>3, <3>2, <3>3, Zenon
  <2> QED BY <2>2, <2>3, Zenon
<1> QED BY <1>3, <1>4, <1>5, <1>6, <1>7, <1>9, <1>10, <1>11, ZenonT(40) DEF SwitchedThread

\* and the tables so.
LEMMA SwitchTable ==
    ASSUME IInv, NEW t \in Threads, NEW i, NEW b, NEW s, SwitchMade(t, i, b, s)
    PROVE  SwitchedTable(t, i, b)
<1> SwitchedThread(t, i, b, s)
  BY SwitchThread, Zenon
<1>1. Types /\ SwitchersHold /\ ThreadsPaged
  BY Zenon DEF IInv, LockInv, PageInv
<1>2. /\ i \in Inos /\ cpuid(i) \in Maps /\ superpage_count(i) \in Blocks
      /\ s.pc \in {"idle", "pidir_tail", "again"}
      /\ thr'[t] = s /\ \A u \in Threads : u # t => thr'[u] = thr[u]
  BY SwitchedThread(t, i, b, s), Zenon DEF SwitchedThread
<1>3. thr[t].pc = "switch" /\ thr[t].ino = i
  BY Zenon DEF SwitchMade
<1>4. /\ table \in [Maps -> [Blocks -> 0 .. NumPages]]
      /\ table' = [table EXCEPT ![cpuid(i)][superpage_count(i)] = b]
  BY <1>1, Zenon DEF SwitchMade, Types, TypeOK
<1>5. /\ table'[cpuid(i)][superpage_count(i)] = b
      /\ \A c \in Maps, k \in Blocks :
           c # cpuid(i) \/ k # superpage_count(i) => table'[c][k] = table[c][k]
  BY <1>2, <1>4, ZenonT(40)
<1>6. \A j : Addr(j)' = table'[cpuid(j)][superpage_count(j)]
  BY Zenon DEF Addr, cpuid, superpage_count, internal_ino
<1>7. ASSUME NEW j \in Inos, SamePage(i, j) PROVE Addr(j)' = b
  BY <1>5, <1>6, <1>7, ZenonT(40) DEF SamePage
<1>8. ASSUME NEW j \in Inos, ~ SamePage(i, j) PROVE Addr(j)' = Addr(j)
  <2>1. cpuid(j) \in Maps /\ superpage_count(j) \in Blocks
    BY InoParts, Zenon
  <2>2. table'[cpuid(j)][superpage_count(j)] = table[cpuid(j)][superpage_count(j)]
    BY <1>5, <1>8, <2>1, Zenon DEF SamePage
  <2> QED BY <1>6, <2>2, Zenon DEF Addr
<1>9. Addr(i) # 0
  BY <1>1, <1>3, ZenonT(40) DEF ThreadsPaged, Paged, PC
<1>10. mlock[cpuid(i)] = t /\ cpuid(i) \notin leaked
  BY <1>1, <1>3, ZenonT(40) DEF SwitchersHold
<1>11. ASSUME NEW u \in Threads, thr'[u].pc = "switch"
       PROVE  u # t /\ thr'[u] = thr[u] /\ cpuid(thr[u].ino) # cpuid(i)
  <2>1. u # t
    BY <1>2, <1>11, ZenonT(40)
  <2>2. thr'[u] = thr[u]
    BY <1>2, <2>1, Zenon
  <2>3. mlock[cpuid(thr[u].ino)] = u
    BY <1>1, <1>11, <2>2, ZenonT(40) DEF SwitchersHold
  <2> QED BY <1>10, <2>1, <2>2, <2>3, ZenonT(40)
<1> QED BY <1>5, <1>7, <1>8, <1>9, <1>10, <1>11, ZenonT(40) DEF SwitchedTable

\* The locks, the inodes and the numbers.
LEMMA SwitchLocks ==
    ASSUME IInv, NEW t \in Threads, NEW i, NEW b, NEW s, SwitchMade(t, i, b, s)
    PROVE  Types' /\ LockInv' /\ OwnInv' /\ NumberInv'
<1> SwitchedThread(t, i, b, s) /\ SwitchedTable(t, i, b)
  BY SwitchThread, SwitchTable, Zenon
<1>1. /\ Types /\ LockInv /\ OwnInv /\ NumberInv /\ OneThreadEach
      /\ MutexesHeld /\ MappingsHeld /\ SwitchersHold /\ LeakedHeld
  BY Zenon DEF IInv, OwnInv, LockInv
<1> DEFINE c == cpuid(i)
<1>2. /\ i \in Inos /\ c \in Maps /\ superpage_count(i) \in Blocks /\ b \in 1 .. NumPages
      /\ s \in Thread /\ Phase(s) /\ s.pc \in {"idle", "pidir_tail", "again"}
      /\ (s.ino = i /\ s.pc # "idle") \/ (s.ino = 0 /\ s.pc = "idle")
      /\ thr'[t] = s /\ \A u \in Threads : u # t => thr'[u] = thr[u]
  BY SwitchedThread(t, i, b, s), Zenon DEF SwitchedThread
<1>3. /\ mlock[c] = t /\ c \notin leaked
      /\ \A u \in Threads : thr'[u].pc = "switch" =>
           u # t /\ thr'[u] = thr[u] /\ cpuid(thr[u].ino) # c
  BY SwitchedTable(t, i, b), Zenon DEF SwitchedTable
<1>4. /\ thr[t].pc = "switch" /\ thr[t].ino = i
      /\ table' = [table EXCEPT ![c][superpage_count(i)] = b]
      /\ mlock' = [mlock EXCEPT ![c] = NoThread] /\ thr' = [thr EXCEPT ![t] = s]
      /\ inuse' = inuse /\ nodes' = nodes /\ dangling' = dangling /\ map_id' = map_id
      /\ mem' = mem /\ free' = free /\ tmutex' = tmutex /\ plock' = plock
      /\ live' = live /\ latest' = latest /\ overlap' = overlap /\ leaked' = leaked
  BY Zenon DEF SwitchMade
<1> HIDE DEF c
<1>5. \A u \in Threads : u # NoThread
  BY TableAssumption, Zenon
<1>6. mlock'[c] = NoThread /\ \A d \in Maps : d # c => mlock'[d] = mlock[d]
  BY <1>1, <1>2, <1>4, ZenonT(40) DEF Types, TypeOK
<1>7. Types'
  <2>1. mlock' \in [Maps -> Threads \cup {NoThread}] /\ latest' \in [Inos -> Field]
    BY <1>1, <1>2, <1>4, ZenonT(40) DEF Types, TypeOK
  <2>2. table' \in [Maps -> [Blocks -> 0 .. NumPages]]
    <3>1. table \in [Maps -> [Blocks -> 0 .. NumPages]] /\ b \in 0 .. NumPages
      BY <1>1, <1>2, PageNumbers, ZenonT(40) DEF Types, TypeOK
    <3> QED BY <1>2, <1>4, <3>1, ZenonT(40)
  <2>3. TypeOK'
    BY <1>1, <1>4, <2>1, <2>2, ZenonT(40) DEF Types, TypeOK
  <2> QED BY <1>1, <1>2, <1>4, <2>1, <2>3, MoveTypes, ZenonT(40)
<1>8. LockInv'
  <2>1. \A u \in Threads : thr[u].pc = "address" \/ thr'[u].pc = "address" => thr'[u] = thr[u]
    <3>1. thr'[t].pc # "address" /\ thr[t].pc # "address"
      BY <1>2, <1>4, ZenonT(40)
    <3> QED BY <1>2, <3>1, Zenon
  <2>2. MutexesHeld'
    BY <1>1, <1>4, <2>1, SMTT(40) DEF MutexesHeld
  <2>3. MappingsHeld'
    <3>1. SUFFICES ASSUME NEW u \in Threads, NEW d \in Maps, mlock'[d] = u, d \notin leaked'
                   PROVE  thr'[u].pc = "switch" /\ cpuid(thr'[u].ino) = d
      BY DEF MappingsHeld, cpuid
    <3>2. d # c
      BY <1>5, <1>6, <3>1, Zenon
    <3>3. thr[u].pc = "switch" /\ cpuid(thr[u].ino) = d
      BY <1>1, <1>4, <1>6, <3>1, <3>2, ZenonT(40) DEF MappingsHeld
    <3>4. u # t
      BY <1>4, <3>2, <3>3, ZenonT(40) DEF c
    <3>5. thr'[u] = thr[u]
      BY <1>2, <3>4, Zenon
    <3> QED BY <3>3, <3>5, ZenonT(40)
  <2>4. SwitchersHold'
    <3>1. SUFFICES ASSUME NEW u \in Threads, thr'[u].pc = "switch"
                   PROVE  mlock'[cpuid(thr'[u].ino)] = u /\ cpuid(thr'[u].ino) \notin leaked'
      BY DEF SwitchersHold, cpuid
    <3>2. thr'[u] = thr[u] /\ cpuid(thr[u].ino) # c
      BY <1>3, <3>1, Zenon
    <3>3. mlock[cpuid(thr[u].ino)] = u /\ cpuid(thr[u].ino) \notin leaked
      BY <1>1, <3>1, <3>2, ZenonT(40) DEF SwitchersHold
    <3>4. cpuid(thr[u].ino) \in Maps
      BY <1>1, ThreadFields, InoParts, ZenonT(40)
    <3>5. mlock'[cpuid(thr[u].ino)] = u /\ cpuid(thr[u].ino) \notin leaked'
      BY <1>4, <1>6, <3>2, <3>3, <3>4, ZenonT(40)
    <3> QED BY <3>2, <3>5, ZenonT(40)
  <2>5. LeakedHeld'
    <3>1. leaked \subseteq Maps
      BY <1>1, Zenon DEF Types, TypeOK
    <3> QED BY <1>1, <1>3, <1>4, <1>6, <3>1, ZenonT(40) DEF LeakedHeld
  <2> QED BY <2>2, <2>3, <2>4, <2>5, Zenon DEF LockInv
<1>9. OwnInv' /\ NumberInv'
  <2>1. Alone(t, s) /\ s.pc \notin Gone
    BY <1>1, <1>2, <1>4, ZenonT(40) DEF Alone, OneThreadEach, Gone
  <2>2. s.pc \notin Unnumbered => InUse(s.ino)
    <3>1. InUse(thr[t].ino)
      BY <1>1, <1>4, ZenonT(40) DEF NumberInv, ThreadsHeld, Unnumbered
    <3> QED BY <1>2, <1>4, <3>1, ZenonT(40) DEF Unnumbered
  <2>3. OwnInv'
    BY <1>1, <1>2, <1>4, <2>1, MoveOwns, ZenonT(40)
  <2> QED BY <1>1, <1>2, <1>4, <2>2, <2>3, MoveNumbers, ZenonT(40)
<1> QED BY <1>7, <1>8, <1>9, Zenon

\* The pages: the old page is in no table any more, and is not freed.
LEMMA SwitchPages ==
    ASSUME IInv, NEW t \in Threads, NEW i, NEW b, NEW s, SwitchMade(t, i, b, s)
    PROVE  PageInv'
<1> SwitchedThread(t, i, b, s) /\ SwitchedTable(t, i, b)
  BY SwitchThread, SwitchTable, Zenon
<1>1. /\ Types /\ TablesApart /\ TablesTaken /\ CopiesApart /\ LivePaged /\ ThreadsPaged
      /\ HeldTaken
  BY Zenon DEF IInv, PageInv
<1> DEFINE c == cpuid(i)  k == superpage_count(i)
<1>2. /\ i \in Inos /\ c \in Maps /\ k \in Blocks /\ b \in 1 .. NumPages
      /\ s.pc \in {"idle", "pidir_tail", "again"}
      /\ (s.ino = i /\ s.pc # "idle") \/ (s.ino = 0 /\ s.pc = "idle")
      /\ thr'[t] = s /\ \A u \in Threads : u # t => thr'[u] = thr[u]
      /\ \A u \in Threads : \A j, p : Held(thr'[u], j, p) => Held(thr[u], j, p)
  BY SwitchedThread(t, i, b, s), Zenon DEF SwitchedThread
<1>3. /\ table'[c][k] = b
      /\ \A d \in Maps, m \in Blocks : d # c \/ m # k => table'[d][m] = table[d][m]
      /\ \A u \in Threads : thr'[u].pc = "switch" => u # t /\ thr'[u] = thr[u]
  BY SwitchedTable(t, i, b), Zenon DEF SwitchedTable
<1>4. \A j \in Inos : Addr(j) # 0 => Addr(j)' # 0
  <2>1. SUFFICES ASSUME NEW j \in Inos, Addr(j) # 0 PROVE Addr(j)' # 0
    BY Zenon
  <2>2. CASE SamePage(i, j)
    BY <1>2, <2>2, PageNumbers, ZenonT(40) DEF SwitchedTable
  <2>3. CASE ~ SamePage(i, j)
    BY <2>1, <2>3, ZenonT(40) DEF SwitchedTable
  <2> QED BY <2>2, <2>3, Zenon
<1>5. /\ b \notin free /\ \A d \in Maps, m \in Blocks : table[d][m] # b
      /\ \A u \in Threads : u # t /\ thr[u].pc = "switch" => thr[u].at # b
  <2>1. CopyApart(t) /\ thr[t].at = b
    BY SwitchedThread(t, i, b, s), Zenon DEF SwitchedThread, SwitchMade
  <2> QED BY <2>1, ZenonT(40) DEF CopyApart
<1>6. live' = live /\ free' = free
  BY Zenon DEF SwitchMade
<1> HIDE DEF c, k
<1>7. TablesApart'
  <2>1. SUFFICES ASSUME NEW d \in Maps, NEW e \in Maps, NEW m \in Blocks, NEW n \in Blocks,
                        table'[d][m] = table'[e][n], d # e \/ m # n
                 PROVE  table'[d][m] = 0
    BY SMTT(40) DEF TablesApart
  <2>2. CASE d = c /\ m = k
    <3>1. table'[e][n] = table[e][n]
      BY <1>3, <2>1, <2>2, ZenonT(40)
    <3>2. table[e][n] # b /\ table'[d][m] = b
      BY <1>3, <1>5, <2>2, ZenonT(40)
    <3> QED BY <2>1, <3>1, <3>2, Zenon
  <2>3. CASE e = c /\ n = k
    <3>1. table'[d][m] = table[d][m]
      BY <1>3, <2>1, <2>3, ZenonT(40)
    <3>2. table[d][m] # b /\ table'[e][n] = b
      BY <1>3, <1>5, <2>3, ZenonT(40)
    <3> QED BY <2>1, <3>1, <3>2, Zenon
  <2>4. CASE ~ (d = c /\ m = k) /\ ~ (e = c /\ n = k)
    <3>1. table'[d][m] = table[d][m] /\ table'[e][n] = table[e][n]
      BY <1>3, <2>4, Zenon
    <3>2. table[d][m] = table[e][n]
      BY <2>1, <3>1, Zenon
    <3>3. TablesApart
      BY <1>1, Zenon
    <3>4. table[d][m] = 0 \/ (d = e /\ m = n)
      <4>1. \A x \in Blocks : \A y \in Blocks :
              table[d][x] = table[e][y] => table[d][x] = 0 \/ (d = e /\ x = y)
        BY <3>3, OnePlace, ZenonT(40)
      <4>2. \A y \in Blocks : table[d][m] = table[e][y] => table[d][m] = 0 \/ (d = e /\ m = y)
        BY <4>1, ZenonT(40)
      <4>3. table[d][m] = table[e][n] => table[d][m] = 0 \/ (d = e /\ m = n)
        BY <4>2, ZenonT(40)
      <4> QED BY <3>2, <4>3, Zenon
    <3> QED BY <2>1, <3>1, <3>4, Zenon
  <2> QED BY <2>2, <2>3, <2>4, Zenon
<1>8. TablesTaken'
  <2>1. SUFFICES ASSUME NEW d \in Maps, NEW m \in Blocks PROVE table'[d][m] \notin free
    BY <1>6, ZenonT(40) DEF TablesTaken
  <2>2. table[d][m] \notin free
    BY <1>1, Zenon DEF TablesTaken
  <2> QED BY <1>3, <1>5, <2>2, ZenonT(40)
<1>9. CopiesApart'
  <2>1. SUFFICES ASSUME NEW u \in Threads, thr'[u].pc = "switch", NEW a, a = thr'[u].at
                 PROVE  /\ a \notin free'
                        /\ \A d \in Maps, m \in Blocks : table'[d][m] # a
                        /\ \A v \in Threads : v # u /\ thr'[v].pc = "switch" => thr'[v].at # a
    BY ZenonT(40) DEF CopiesApart, CopyApart
  <2>2. u # t /\ thr[u].pc = "switch" /\ a = thr[u].at
    BY <1>3, <2>1, ZenonT(40)
  <2>3. CopyApart(u)
    BY <1>1, <2>2, Zenon DEF CopiesApart
  <2>4. a # b
    BY <1>5, <2>2, ZenonT(40)
  <2>5. /\ a \notin free /\ \A d \in Maps, m \in Blocks : table[d][m] # a
        /\ \A v \in Threads : v # u /\ thr[v].pc = "switch" => thr[v].at # a
    BY <2>2, <2>3, ZenonT(40) DEF CopyApart
  <2>6. \A d \in Maps, m \in Blocks : table'[d][m] # a
    BY <1>3, <2>4, <2>5, ZenonT(40)
  <2>7. \A v \in Threads : v # u /\ thr'[v].pc = "switch" => thr'[v].at # a
    BY <1>3, <2>5, ZenonT(40)
  <2> QED BY <1>6, <2>5, <2>6, <2>7, Zenon
<1>10. LivePaged'
  <2>1. live \subseteq Inos
    BY <1>1, Zenon DEF Types, TypeOK
  <2> QED BY <1>1, <1>4, <1>6, <2>1, ZenonT(40) DEF LivePaged
<1>11. ThreadsPaged'
  <2>1. SUFFICES ASSUME NEW u \in Threads, thr'[u].pc \in Paged, NEW j, j = thr'[u].ino
                 PROVE  Addr(j)' # 0
    BY DEF ThreadsPaged, Addr, cpuid, superpage_count, internal_ino
  <2>2. thr[u].ino = j /\ thr[u].pc \in Paged
    <3>1. CASE u = t
      BY <1>2, <2>1, <3>1, ZenonT(40) DEF SwitchMade, Paged, PC
    <3>2. CASE u # t
      BY <1>2, <2>1, <3>2, ZenonT(40)
    <3> QED BY <3>1, <3>2, Zenon
  <2>3. j \in Inos
    BY <1>1, <2>2, ThreadFields, Zenon
  <2>4. Addr(j) # 0
    BY <1>1, <2>2, ZenonT(40) DEF ThreadsPaged
  <2> QED BY <1>4, <2>3, <2>4, ZenonT(40)
<1>12. HeldTaken'
  <2>1. SUFFICES ASSUME NEW u \in Threads, NEW j \in Inos, NEW p \in 1 .. NumPages,
                        Held(thr'[u], j, p)
                 PROVE  p \notin free' /\ Addr(j)' # 0
    BY DEF HeldTaken, Held
  <2>2. Held(thr[u], j, p)
    BY <1>2, <2>1, Zenon
  <2>3. p \notin free /\ Addr(j) # 0
    BY <1>1, <2>2, Zenon DEF HeldTaken
  <2> QED BY <1>4, <1>6, <2>3, Zenon
<1> QED BY <1>7, <1>8, <1>9, <1>10, <1>11, <1>12, ZenonT(40) DEF PageInv

\* A place of the tables has a page when it had one.
LEMMA SwitchTables ==
    ASSUME IInv, NEW t \in Threads, NEW i, NEW b, NEW s, SwitchMade(t, i, b, s)
    PROVE  TableInv'
<1> SwitchedThread(t, i, b, s) /\ SwitchedTable(t, i, b)
  BY SwitchThread, SwitchTable, Zenon
<1>1. NoHoles /\ NumbersPaged /\ OnlyNextMissing
  BY Zenon DEF IInv, TableInv
<1>2. \A d \in Maps, m \in Blocks : table'[d][m] # 0 <=> table[d][m] # 0
  <2>1. b # 0
    BY Sizes, SMT DEF SwitchedThread
  <2>2. table[cpuid(i)][superpage_count(i)] # 0
    BY Zenon DEF SwitchedTable, Addr
  <2> QED BY <2>1, <2>2, ZenonT(40) DEF SwitchedTable
<1>3. leaked' = leaked /\ inuse' = inuse
  BY Zenon DEF SwitchMade
<1>4. \A u \in Threads : thr[u].pc = "address" \/ thr'[u].pc = "address" => thr'[u] = thr[u]
  <2>1. thr'[t].pc # "address" /\ thr[t].pc # "address"
    BY SMT DEF SwitchMade, SwitchedThread
  <2>2. \A u \in Threads : u # t => thr'[u] = thr[u]
    BY Zenon DEF SwitchedThread
  <2> QED BY <2>1, <2>2, Zenon
<1>5. NoHoles'
  BY <1>1, <1>2, Zenon DEF NoHoles
<1>6. NumbersPaged'
  <2>1. SUFFICES ASSUME NEW d \in Maps, d \notin leaked', NEW n \in Numbers(d)'
                 PROVE  table'[d][n \div NumInodes] # 0 \/ Addressing(d, n)'
    BY Zenon DEF NumbersPaged
  <2>2. n \in Numbers(d)
    BY <1>3, <2>1, Zenon DEF Numbers
  <2>3. n \div NumInodes \in Blocks
    <3>1. RangesSound
      BY Zenon DEF IInv, NumberInv
    <3>2. n \in 0 .. MAX_INODE - 1
      BY <2>2, <3>1, NumberBound, Zenon
    <3>3. n \in Nat /\ n < MAX_INODE
      BY <3>2, Sizes, SMT
    <3> QED BY <3>3, BlockOf, Zenon
  <2>4. table[d][n \div NumInodes] # 0 \/ Addressing(d, n)
    BY <1>1, <1>3, <2>1, <2>2, Zenon DEF NumbersPaged
  <2>5. Addressing(d, n) => Addressing(d, n)'
    BY <1>4, Zenon DEF Addressing
  <2> QED BY <1>2, <2>3, <2>4, <2>5, Zenon
<1>7. OnlyNextMissing'
  <2>1. SUFFICES ASSUME NEW u \in Threads, thr'[u].pc = "address", NEW d, d = thr'[u].cpu,
                        d \notin leaked', NEW j, j = thr'[u].ino,
                        NEW m \in Blocks, m < superpage_count(j)
                 PROVE  table'[d][m] # 0
    BY ZenonT(40) DEF OnlyNextMissing, superpage_count, internal_ino
  <2>2. thr[u].pc = "address" /\ d = thr[u].cpu /\ j = thr[u].ino /\ d \notin leaked
    BY <1>3, <1>4, <2>1, ZenonT(40)
  <2>3. table[d][m] # 0
    BY <1>1, <2>1, <2>2, ZenonT(40) DEF OnlyNextMissing
  <2>4. d \in Maps
    BY <2>2, Zenon DEF IInv, Types, Thread
  <2> QED BY <1>2, <2>3, <2>4, Zenon
<1> QED BY <1>5, <1>6, <1>7, Zenon DEF TableInv

\* The copy has what was last stored, unless a store overlapped it.
LEMMA SwitchUpdates ==
    ASSUME IInv, NEW t \in Threads, NEW i, NEW b, NEW s, SwitchMade(t, i, b, s)
    PROVE  UpdateInv'
<1> SwitchedThread(t, i, b, s) /\ SwitchedTable(t, i, b)
  BY SwitchThread, SwitchTable, Zenon
<1>1. FreeZero /\ UnpagedZero /\ PagesLatest /\ CopiesLatest /\ HeldCurrent
  BY Zenon DEF IInv, UpdateInv
<1>2. /\ mem' = mem /\ latest' = latest /\ free' = free /\ overlap' = overlap
      /\ thr[t].pc = "switch" /\ thr[t].ino = i /\ thr[t].at = b
  BY Zenon DEF SwitchMade
<1>3. /\ \A j \in Inos : SamePage(i, j) => Addr(j)' = b
      /\ \A j \in Inos : ~ SamePage(i, j) => Addr(j)' = Addr(j)
      /\ \A u \in Threads : thr'[u].pc = "switch" => thr'[u] = thr[u]
  BY SwitchedTable(t, i, b), ZenonT(40) DEF SwitchedTable
<1>4. b # 0 /\ Addr(i) # 0
  BY PageNumbers, ZenonT(40) DEF SwitchedThread, SwitchedTable
<1>5. \A j : SamePage(i, j) => Copying(t, j)
  BY <1>2, ZenonT(40) DEF Copying
<1>6. FreeZero'
  BY <1>1, <1>2, Zenon DEF FreeZero, Zero
<1>7. UnpagedZero'
  <2>1. SUFFICES ASSUME NEW j \in Inos, Addr(j)' = 0 PROVE latest[j] = Zero
    BY <1>2, ZenonT(40) DEF UnpagedZero, Zero
  <2>2. ~ SamePage(i, j)
    BY <1>3, <1>4, <2>1, Zenon
  <2>3. Addr(j) = 0
    BY <1>3, <2>1, <2>2, ZenonT(40)
  <2> QED BY <1>1, <2>3, ZenonT(40) DEF UnpagedZero
<1>8. PagesLatest'
  <2>1. SUFFICES ASSUME NEW j \in Inos \ overlap', Addr(j)' # 0
                 PROVE  mem'[Addr(j)'][j] = latest'[j]
    BY ZenonT(40) DEF PagesLatest, Fields
  <2>2. CASE SamePage(i, j)
    <3>1. mem[thr[t].at][j] = latest[j]
      BY <1>1, <1>2, <1>5, <2>1, <2>2, ZenonT(40) DEF CopiesLatest
    <3> QED BY <1>2, <1>3, <2>1, <2>2, <3>1, ZenonT(40)
  <2>3. CASE ~ SamePage(i, j)
    <3>1. Addr(j)' = Addr(j)
      BY <1>3, <2>1, <2>3, Zenon
    <3>2. mem[Addr(j)][j] = latest[j]
      BY <1>1, <1>2, <2>1, <3>1, ZenonT(40) DEF PagesLatest, Fields
    <3> QED BY <1>2, <3>1, <3>2, ZenonT(40)
  <2> QED BY <2>2, <2>3, ZenonT(40)
<1>9. CopiesLatest'
  <2>1. SUFFICES ASSUME NEW j \in Inos \ overlap', NEW u \in Threads, thr'[u].pc = "switch",
                        SamePage(thr'[u].ino, j), NEW a, a = thr'[u].at
                 PROVE  mem'[a][j] = latest'[j]
    BY DEF CopiesLatest, Copying, SamePage, cpuid, superpage_count, internal_ino
  <2>2. thr'[u] = thr[u]
    BY <1>3, <2>1, ZenonT(40)
  <2>3. Copying(u, j) /\ a = thr[u].at
    BY <2>1, <2>2, ZenonT(40) DEF Copying
  <2>4. mem[a][j] = latest[j]
    BY <1>1, <1>2, <2>1, <2>3, ZenonT(40) DEF CopiesLatest
  <2> QED BY <1>2, <2>4, ZenonT(40)
<1>10. HeldCurrent'
  <2>1. SUFFICES ASSUME NEW j \in Inos \ overlap', NEW u \in Threads, NEW p \in 1 .. NumPages,
                        Held(thr'[u], j, p)
                 PROVE  p = Addr(j)' /\ \A v \in Threads :
                          ~ (thr'[v].pc = "switch" /\ SamePage(thr'[v].ino, j))
    BY DEF HeldCurrent, Held, Copying, SamePage, cpuid, superpage_count, internal_ino
  <2>2. Held(thr[u], j, p)
    BY <2>1, Zenon DEF SwitchedThread
  <2>3. p = Addr(j) /\ \A v \in Threads : ~ Copying(v, j)
    BY <1>1, <1>2, <2>1, <2>2, ZenonT(40) DEF HeldCurrent
  <2>4. ~ SamePage(i, j)
    BY <1>5, <2>3, Zenon
  <2>5. Addr(j)' = Addr(j)
    BY <1>3, <2>1, <2>4, Zenon
  <2>6. ASSUME NEW v \in Threads, thr'[v].pc = "switch", SamePage(thr'[v].ino, j)
        PROVE  FALSE
    <3>1. thr'[v] = thr[v]
      BY <1>3, <2>6, ZenonT(40)
    <3>2. Copying(v, j)
      BY <2>6, <3>1, ZenonT(40) DEF Copying
    <3> QED BY <2>3, <3>2, Zenon
  <2> QED BY <2>3, <2>5, <2>6, ZenonT(40)
<1> QED BY <1>6, <1>7, <1>8, <1>9, <1>10, ZenonT(40) DEF UpdateInv

\* A writer finds in the copy what it found in the page.
LEMMA SwitchFlags ==
    ASSUME IInv, NEW t \in Threads, NEW i, NEW b, NEW s, SwitchMade(t, i, b, s)
    PROVE  FlagsAgree' /\ PageLocks'
<1> SwitchedThread(t, i, b, s) /\ SwitchedTable(t, i, b)
  BY SwitchThread, SwitchTable, Zenon
<1>1. Types /\ FlagsAgree /\ PageLocks
  BY Zenon DEF IInv
<1>2. /\ mem' = mem /\ plock' = plock
      /\ thr[t].pc = "switch" /\ thr[t].ino = i /\ thr[t].at = b
  BY Zenon DEF SwitchMade
<1>3. /\ \A j \in Inos : SamePage(i, j) => Addr(j)' = b
      /\ \A j \in Inos : ~ SamePage(i, j) => Addr(j)' = Addr(j)
      /\ \A u \in Threads : thr'[u].pc = "switch" => thr'[u] = thr[u]
  BY SwitchedTable(t, i, b), Zenon DEF SwitchedTable
<1>4. thr'[t] = s /\ s.op # "write" /\ \A u \in Threads : u # t => thr'[u] = thr[u]
  BY SwitchedThread(t, i, b, s), Zenon DEF SwitchedThread
<1>5. ASSUME NEW u \in Threads, thr[u].op = "write", NEW j, j = thr[u].ino
      PROVE  /\ Fields(j)'.ino = Fields(j).ino
             /\ thr[u].pi # 0 => mem[thr[u].pi][j].ino = Fields(j).ino
             /\ thr[u].at # 0 => mem[thr[u].at][j].ino = Fields(j).ino
             /\ \A v \in Threads : Copying(v, j) => mem[thr[v].at][j].ino = Fields(j).ino
  <2>1. SameFlag(thr[u]) /\ j \in Inos
    BY <1>1, <1>5, ThreadFields, ZenonT(40) DEF FlagsAgree
  <2>2. /\ thr[u].pi # 0 => mem[thr[u].pi][j].ino = Fields(j).ino
        /\ thr[u].at # 0 => mem[thr[u].at][j].ino = Fields(j).ino
        /\ \A v \in Threads : Copying(v, j) => mem[thr[v].at][j].ino = Fields(j).ino
    BY <1>5, <2>1, ZenonT(40) DEF SameFlag
  <2>3. Fields(j)' = mem'[Addr(j)'][j]
    BY ZenonT(40) DEF Fields
  <2>4. CASE SamePage(i, j)
    <3>1. Copying(t, j)
      BY <1>2, <2>4, ZenonT(40) DEF Copying
    <3>2. mem[thr[t].at][j].ino = Fields(j).ino
      BY <2>2, <3>1, ZenonT(40)
    <3>3. Fields(j)' = mem[b][j]
      BY <1>2, <1>3, <2>1, <2>3, <2>4, ZenonT(40)
    <3> QED BY <1>2, <2>2, <3>2, <3>3, ZenonT(40)
  <2>5. CASE ~ SamePage(i, j)
    <3>1. Fields(j)' = Fields(j)
      BY <1>2, <1>3, <2>1, <2>3, <2>5, ZenonT(40) DEF Fields
    <3> QED BY <2>2, <3>1, ZenonT(40)
  <2> QED BY <2>4, <2>5, Zenon
<1>6. FlagsAgree'
  <2>1. SUFFICES ASSUME NEW u \in Threads, thr'[u].op = "write",
                        NEW r, r = thr'[u], NEW j, j = r.ino
                 PROVE  /\ r.pi # 0 => mem'[r.pi][j].ino = Fields(j)'.ino
                        /\ r.at # 0 => mem'[r.at][j].ino = Fields(j)'.ino
                        /\ \A v \in Threads : thr'[v].pc = "switch" /\ SamePage(thr'[v].ino, j)
                             => mem'[thr'[v].at][j].ino = Fields(j)'.ino
    BY ZenonT(40) DEF FlagsAgree, SameFlag, Copying, SamePage, Fields, Addr, cpuid,
                      superpage_count, internal_ino
  <2>2. r = thr[u] /\ thr[u].op = "write"
    BY <1>4, <2>1, ZenonT(40)
  <2>3. PICK f : f = Fields(j).ino
    BY Zenon
  <2>4. /\ Fields(j)'.ino = f
        /\ r.pi # 0 => mem[r.pi][j].ino = f
        /\ r.at # 0 => mem[r.at][j].ino = f
        /\ \A v \in Threads : Copying(v, j) => mem[thr[v].at][j].ino = f
    BY <1>5, <2>1, <2>2, <2>3, ZenonT(40)
  <2>5. ASSUME NEW v \in Threads, thr'[v].pc = "switch", SamePage(thr'[v].ino, j)
        PROVE  mem'[thr'[v].at][j].ino = f
    <3>1. thr'[v] = thr[v]
      BY <1>3, <2>5, ZenonT(40)
    <3>2. Copying(v, j)
      BY <2>5, <3>1, ZenonT(40) DEF Copying
    <3> QED BY <1>2, <2>4, <3>1, <3>2, ZenonT(40)
  <2> QED BY <1>2, <2>4, <2>5, ZenonT(40)
<1>7. PageLocks'
  <2>1. \A j : Fields(j)' = mem'[table'[cpuid(j)][superpage_count(j)]][j]
    BY ZenonT(40) DEF Fields, Addr, cpuid, superpage_count, internal_ino
  <2>2. SUFFICES ASSUME NEW u \in Threads, NEW l \in Maps \X Blocks, plock'[l] = u,
                        NEW j, j = thr'[u].ino
                 PROVE  /\ thr'[u].pc \in Locked
                        /\ l = LockFor(thr'[u],
                                 mem'[table'[cpuid(j)][superpage_count(j)]][j].ino)
    BY <2>1, ZenonT(40) DEF PageLocks
  <2>3. thr[u].pc \in Locked /\ l = LockFor(thr[u], Fields(thr[u].ino).ino)
    BY <1>1, <1>2, <2>2, ZenonT(40) DEF PageLocks
  <2>4. u # t
    BY <1>2, <2>3, ZenonT(40) DEF Locked
  <2>5. thr'[u] = thr[u] /\ j = thr[u].ino
    BY <1>4, <2>2, <2>4, ZenonT(40)
  <2>6. CASE thr[u].op = "write"
    <3>1. Fields(j)'.ino = Fields(j).ino
      BY <1>5, <2>5, <2>6, ZenonT(40)
    <3>2. mem'[table'[cpuid(j)][superpage_count(j)]][j].ino = Fields(thr[u].ino).ino
      BY <2>1, <2>5, <3>1, ZenonT(40)
    <3> QED BY <2>3, <2>5, <3>2, ZenonT(40)
  <2>7. CASE thr[u].op # "write"
    BY <2>3, <2>5, <2>7, ZenonT(40) DEF LockFor
  <2> QED BY <2>6, <2>7, Zenon
<1> QED BY <1>6, <1>7, ZenonT(40)

\* SwitchPage keeps the invariant.
LEMMA SwitchStep ==
    ASSUME IInv, NEW t \in Threads, thr[t].pc = "switch",
           SwitchPage(t, thr[t].ino, AfterCount(t))
    PROVE  IInv'
<1>1. PICK i, b, s : i = thr[t].ino /\ b = thr[t].at /\ s = At(thr[t], AfterCount(t))
  BY Zenon
<1>2. /\ table' = [table EXCEPT ![cpuid(i)][superpage_count(i)] = b]
      /\ mlock' = [mlock EXCEPT ![cpuid(i)] = NoThread]
      /\ thr' = [thr EXCEPT ![t] = s]
      /\ inuse' = inuse /\ nodes' = nodes /\ dangling' = dangling /\ map_id' = map_id
      /\ mem' = mem /\ free' = free /\ tmutex' = tmutex /\ plock' = plock
      /\ live' = live /\ latest' = latest /\ overlap' = overlap /\ leaked' = leaked
  BY <1>1, ZenonT(40) DEF SwitchPage, history
<1>3. SwitchMade(t, i, b, s)
  BY <1>1, <1>2, ZenonT(40) DEF SwitchMade
<1> QED BY <1>3, SwitchLocks, SwitchPages, SwitchTables, SwitchUpdates, SwitchFlags, ZenonT(40) DEF IInv
=============================================================================

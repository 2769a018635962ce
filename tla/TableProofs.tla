---------------------------- MODULE TableProofs -----------------------------
(***************************************************************************)
(* Proofs about InodeTable, for any number of CPUs, inodes to a page,      *)
(* pages, threads and operations: numbers and pages are given out once     *)
(* (NumbersHeld, PagesOwned), a thread that returned holds no lock         *)
(* (LocksReleased), and a migration loses no update that its copy does not *)
(* overlap (UpdatesKept).  The invariant is in TableInvariants; here are   *)
(* the steps that begin an operation, store to an inode, give a number out *)
(* or take one back, and the theorems.                                     *)
(***************************************************************************)
EXTENDS TableRanges, TablePages

-----------------------------------------------------------------------------
(* The steps that begin an operation                                       *)

\* An idle thread is on no inode, and no thread is on one that is not busy.
LEMMA NotBusy ==
    ASSUME Types, NEW i \in Inos \ Busy, i # 0, NEW u \in Threads
    PROVE  thr[u].ino # i
<1>1. thr[u].pc = "idle" => thr[u].ino = 0
  <2>1. thr[u].pc = "idle" => thr[u] = Idle
    BY Zenon DEF Types, Phase
  <2> QED BY <2>1 DEF Idle
<1>2. thr[u].pc # "idle" => thr[u].ino \in Busy
  <2>1. SUFFICES ASSUME thr[u].pc # "idle" PROVE thr[u].ino \in Busy
    BY Zenon
  <2>2. u \in {v \in Threads : thr[v].pc # "idle"}
    BY <2>1, Zenon
  <2>3. {thr[u].ino, thr[u].dir}
          \in {{thr[v].ino, thr[v].dir} : v \in {w \in Threads : thr[w].pc # "idle"}}
    BY <2>2, Zenon
  <2> QED BY <2>3, Zenon DEF Busy
<1> QED BY <1>1, <1>2, Zenon

\* BeginCreate: no number yet; nova_create holds the address of the directory.
LEMMA BeginCreateStep ==
    ASSUME IInv, NEW t \in Threads, NEW op \in {"create", "mkdir"}, NEW d,
           BeginCreate(t, op, d)
    PROVE  IInv'
<1> DEFINE a == IF op = "create" THEN nova_get_inode(d) ELSE 0
           s == [Idle EXCEPT !.pc = "number", !.op = op, !.cpu = map_id, !.dir = d,
                             !.pidir = a]
<1>1. Types /\ map_id \in Maps /\ live \subseteq Inos /\ thr[t].pc = "idle"
  BY Zenon DEF IInv, Types, TypeOK, BeginCreate, Begin
<1>2. d \in Inos
  BY <1>1, Sizes, Zenon DEF BeginCreate
<1>3. a \in 0 .. NumPages /\ (a # 0 => Fresh(d, a))
  <2>1. CASE op = "create"
    <3>1. Fresh(d, Addr(d)) /\ Addr(d) \in 1 .. NumPages
      BY <1>1, <1>2, <2>1, LookedUp, ZenonT(40) DEF BeginCreate
    <3>2. a = 0 \/ a = Addr(d)
      BY <2>1, Zenon DEF nova_get_inode
    <3> QED BY <3>1, <3>2, PageNumbers, ZenonT(40)
  <2>2. CASE op # "create"
    BY <2>2, PageNumbers, ZenonT(40)
  <2> QED BY <2>1, <2>2, Zenon
<1>4. thr' = [thr EXCEPT ![t] = s]
  BY Zenon DEF BeginCreate
<1>5. map_id' \in Maps
  <2>1. map_id' = (map_id + 1) % CPUS /\ map_id + 1 \in Nat
    BY <1>1, PlainNumbers, ZenonT(40) DEF BeginCreate, NextMap
  <2>2. (map_id + 1) % CPUS \in 0 .. CPUS - 1
    BY <2>1, Sizes, DivMod, ZenonT(40)
  <2> QED BY <2>1, <2>2, Zenon DEF Maps
<1>6. UNCHANGED <<inuse, nodes, dangling, table, mem, free, tmutex, mlock, plock,
                  live, latest, overlap, leaked>>
  BY Zenon DEF BeginCreate, locks
<1> HIDE DEF a
<1>7. /\ s \in Thread /\ s.pc = "number" /\ s.op = op /\ s.cpu = map_id /\ s.ino = 0
      /\ s.dir = d /\ s.pi = 0 /\ s.pidir = a /\ s.at = 0
  <2>1. 0 \in 0 .. NumPages /\ 0 \in Inos
    BY Sizes, PageNumbers, Zenon
  <2> QED BY <1>1, <1>2, <1>3, <2>1, ZenonT(40) DEF Thread, PC, Idle
<1> HIDE DEF s
<1>8. Phase(s)
  BY <1>7, ZenonT(40) DEF Phase, Unnumbered, Gone
<1>9. MovesTo(t, s)
  <2>1. ASSUME NEW i \in Inos, NEW p \in 1 .. NumPages, Held(s, i, p) PROVE Fresh(i, p)
    BY <1>3, <1>7, <2>1, ZenonT(40) DEF Held
  <2>2. s.op # "write"
    BY <1>7, ZenonT(40)
  <2> QED BY <1>1, <1>7, <1>8, <2>1, <2>2, ZenonT(40) DEF MovesTo, Carries, Unnumbered
<1> QED BY <1>1, <1>4, <1>5, <1>6, <1>7, <1>9, LookupStep, ZenonT(40) DEF Locked, Gone

\* BeginWrite and BeginUnlink: a file that has a name and that nobody is on.
LEMMA BeginOtherStep ==
    ASSUME IInv, NEW t \in Threads, NEW i \in live,
           BeginWrite(t, i) \/ \E d \in Dirs : BeginUnlink(t, d, i)
    PROVE  IInv'
<1> DEFINE a == Addr(i)
<1>1. /\ Types /\ map_id \in Maps /\ thr[t].pc = "idle" /\ i \in Inos
      /\ internal_ino(i) > range_high /\ i # 0 /\ live \subseteq Inos
  <2>1. Types /\ map_id \in Maps /\ live \subseteq Inos /\ internal_ino(i) > range_high
    BY Zenon DEF IInv, Types, TypeOK, NumberInv, LiveHeld
  <2>2. thr[t].pc = "idle"
    BY Zenon DEF BeginWrite, BeginUnlink, Begin
  <2> QED BY <2>1, <2>2, NormalHigh, ZenonT(40)
<1>2. /\ Fresh(i, a) /\ a \in 0 .. NumPages /\ a # 0 /\ cpuid(i) \in Maps
      /\ \A u \in Threads : thr[u].ino # i
  <2>1. nova_get_inode_address(i) /\ i \notin Busy
    BY Zenon DEF BeginWrite, BeginUnlink
  <2>2. Fresh(i, a) /\ a \in 1 .. NumPages
    BY <1>1, <2>1, LookedUp, ZenonT(40)
  <2>3. a \in 0 .. NumPages /\ a # 0
    BY <2>2, PageNumbers, Zenon
  <2> QED BY <1>1, <2>1, <2>2, <2>3, NotBusy, InoParts, ZenonT(40)
<1>3. UNCHANGED <<inuse, nodes, dangling, map_id, table, mem, free, tmutex, mlock, plock,
                  live, latest, overlap, leaked>>
  BY Zenon DEF BeginWrite, BeginUnlink, locks
<1> HIDE DEF a
<1>4. PICK s \in Thread :
        /\ thr' = [thr EXCEPT ![t] = s]
        /\ s.pc \in {"blocks", "pidir"} /\ s.op \in {"write", "unlink"}
        /\ s.pc = "blocks" <=> s.op = "write"
        /\ s.ino = i /\ s.pi = a /\ s.pidir = 0 /\ s.at = 0
  <2>1. 0 \in 0 .. NumPages /\ 0 \in Inos
    BY Sizes, PageNumbers, Zenon
  <2>2. CASE BeginWrite(t, i)
    <3> DEFINE s == [Idle EXCEPT !.pc = "blocks", !.op = "write", !.cpu = cpuid(i),
                                 !.ino = i, !.pi = a]
    <3>1. thr' = [thr EXCEPT ![t] = s]
      BY <2>2, Zenon DEF BeginWrite, a
    <3>2. /\ s \in Thread /\ s.pc = "blocks" /\ s.op = "write"
          /\ s.ino = i /\ s.pi = a /\ s.pidir = 0 /\ s.at = 0
      BY <1>1, <1>2, <2>1, ZenonT(40) DEF Thread, PC, Idle
    <3> HIDE DEF s
    <3> QED BY <3>1, <3>2, Zenon
  <2>3. ASSUME NEW d \in Dirs, BeginUnlink(t, d, i)
        PROVE  \E s \in Thread :
                 /\ thr' = [thr EXCEPT ![t] = s] /\ s.pc = "pidir" /\ s.op = "unlink"
                 /\ s.ino = i /\ s.pi = a /\ s.pidir = 0 /\ s.at = 0
    <3> DEFINE s == [Idle EXCEPT !.pc = "pidir", !.op = "unlink", !.cpu = cpuid(i),
                                 !.ino = i, !.dir = d, !.pi = a]
    <3>1. thr' = [thr EXCEPT ![t] = s] /\ d \in Inos
      BY <1>1, <2>3, Sizes, ZenonT(40) DEF BeginUnlink, a
    <3>2. /\ s \in Thread /\ s.pc = "pidir" /\ s.op = "unlink"
          /\ s.ino = i /\ s.pi = a /\ s.pidir = 0 /\ s.at = 0
      BY <1>1, <1>2, <2>1, <3>1, ZenonT(40) DEF Thread, PC, Idle
    <3> HIDE DEF s
    <3> QED BY <3>1, <3>2, ZenonT(40)
  <2> QED BY <2>2, <2>3, ZenonT(40)
<1>8. Phase(s)
  BY <1>1, <1>2, <1>4, ZenonT(40) DEF Phase, Unnumbered, Gone
<1>9. MovesTo(t, s)
  <2>1. ASSUME NEW j \in Inos, NEW p \in 1 .. NumPages, Held(s, j, p) PROVE Fresh(j, p)
    BY <1>2, <1>4, <2>1, ZenonT(40) DEF Held
  <2>2. Fresh(s.ino, s.pi) /\ s.at = 0 /\ s.ino \in live /\ \A u \in Threads : thr[u].ino # s.ino
    BY <1>2, <1>4, ZenonT(40)
  <2> QED BY <1>1, <1>4, <1>8, <2>1, <2>2, ZenonT(40) DEF MovesTo, Carries
<1> QED BY <1>1, <1>3, <1>4, <1>9, LookupStep, ZenonT(40) DEF Locked, Gone

-----------------------------------------------------------------------------
(* The steps that store                                                    *)

\* Store goes through an address that the thread holds, or to no table page.
LEMMA StoreThrough ==
    ASSUME NEW t \in Threads, NEW s, NEW page \in 0 .. NumPages, NEW i \in Inos,
           NEW what \in Stores, Store(page, i, what), page # 0 => Held(thr[t], i, page),
           what = "number" => i = thr[t].ino /\ i # 0 /\ thr[t].op # "write" /\ s.op # "write"
    PROVE  StoresOrNot(t, s)
<1>1. CASE page = 0
  BY <1>1, Zenon DEF Store, StoresOrNot
<1>2. CASE page # 0
  <2>1. page \in 1 .. NumPages
    BY <1>2, PageNumbers, ZenonT(40)
  <2>2. StoredAt(page, i, what)
    BY <1>2, Zenon DEF Store, StoredAt
  <2> QED BY <1>2, <2>1, <2>2, ZenonT(40) DEF StoresOrNot
<1> QED BY <1>1, <1>2, ZenonT(40)

\* What is the same after all of them.
LEMMA StoredKeeps ==
    ASSUME NEW page, NEW i, NEW what, Stored(page, i, what)
    PROVE  /\ Store(page, i, what)
           /\ inuse' = inuse /\ nodes' = nodes /\ dangling' = dangling /\ map_id' = map_id
           /\ table' = table /\ free' = free /\ tmutex' = tmutex /\ mlock' = mlock
           /\ overlap' = overlap /\ leaked' = leaked
  BY Zenon DEF Stored

\* PiTail, WriteBlocks and Clear store through pi.
LEMMA PiStep ==
    ASSUME IInv, NEW t \in Threads, PiTail(t) \/ WriteBlocks(t) \/ Clear(t)
    PROVE  IInv'
<1> DEFINE r == thr[t]
<1>1. /\ Types /\ r \in Thread /\ Phase(r) /\ r.ino \in Inos /\ r.pi \in 0 .. NumPages
      /\ map_id \in Maps /\ thr \in [Threads -> Thread]
  BY ThreadFields, Zenon DEF IInv, Types, TypeOK
<1>2. PICK pc \in {"pidir_tail", "lock", "release"}, what \in {"value", "clear"} :
        /\ thr' = [thr EXCEPT ![t].pc = pc]
        /\ Stored(r.pi, r.ino, what)
        /\ pc = "pidir_tail" => r.pc = "pi_tail"
        /\ pc = "lock" => r.pc = "blocks"
        /\ pc = "release" => r.pc = "clear"
  BY Zenon DEF PiTail, WriteBlocks, Clear, Goto
<1>3. plock' = plock /\ live' = live
  BY Zenon DEF PiTail, WriteBlocks, Clear
<1> DEFINE s == [r EXCEPT !.pc = pc]
<1>4. thr' = [thr EXCEPT ![t] = s]
  BY <1>2, Zenon
<1>5. /\ s \in Thread /\ s.pc = pc /\ s.at = r.at /\ s.ino = r.ino /\ s.op = r.op
      /\ s.pi = r.pi /\ s.dir = r.dir /\ s.pidir = r.pidir
  BY <1>1, <1>2, ZenonT(40) DEF Thread, PC
<1> HIDE DEF s
<1>6. Phase(s)
  BY <1>1, <1>2, <1>5, ZenonT(40) DEF Phase, Unnumbered, Gone
<1>7. MovesTo(t, s)
  <2>1. r.pc \in {"pi_tail", "blocks", "clear"}
    BY <1>2, ZenonT(40)
  <2>2. r.pc \notin {"idle", "number", "address", "switch"} /\ s.pc \notin {"address", "switch"}
    BY <1>2, <1>5, <2>1, ZenonT(40)
  <2> QED BY <1>1, <1>5, <1>6, <2>2, GoesOn, ZenonT(40)
<1>8. StoresOrNot(t, s)
  <2>1. what \in Stores /\ what # "number"
    BY <1>2, ZenonT(40) DEF Stores
  <2>2. r.pi # 0 => Held(r, r.ino, r.pi)
    BY Zenon DEF Held
  <2>3. Store(r.pi, r.ino, what)
    BY <1>2, StoredKeeps, ZenonT(40)
  <2> QED BY <1>1, <2>1, <2>2, <2>3, StoreThrough, ZenonT(40)
<1>9. LiveOrNot(t, s) /\ r.pc \notin Locked
  BY <1>2, <1>3, <1>5, ZenonT(40) DEF LiveOrNot, Gone, Locked
<1>10. /\ inuse' = inuse /\ nodes' = nodes /\ dangling' = dangling /\ map_id' \in Maps
       /\ table' = table /\ free' = free /\ tmutex' = tmutex /\ mlock' = mlock
       /\ overlap' = overlap /\ leaked' = leaked
  BY <1>1, <1>2, StoredKeeps, ZenonT(40)
<1> QED BY <1>3, <1>4, <1>7, <1>8, <1>9, <1>10, UnlockedStep, ZenonT(40)

\* Fill stores through at, PidirTail through pidir.
LEMMA FillStep ==
    ASSUME IInv, NEW t \in Threads, Fill(t)
    PROVE  IInv'
<1> DEFINE r == thr[t]  s == [r EXCEPT !.pc = "update", !.at = 0]
<1>1. /\ Types /\ r \in Thread /\ Phase(r) /\ r.ino \in Inos /\ r.at \in 0 .. NumPages
      /\ map_id \in Maps /\ thr \in [Threads -> Thread]
  BY ThreadFields, ZenonT(40) DEF IInv, Types, TypeOK
<1>2. r.pc = "fill" /\ Stored(r.at, r.ino, "number") /\ plock' = plock /\ live' = live
  BY Zenon DEF Fill
<1>4. thr' = [thr EXCEPT ![t] = s]
  BY <1>1, Zenon DEF Fill
<1>5. /\ s \in Thread /\ s.pc = "update" /\ s.at = 0 /\ s.ino = r.ino /\ s.op = r.op
      /\ s.pi = r.pi /\ s.dir = r.dir /\ s.pidir = r.pidir
  <2>1. 0 \in 0 .. NumPages
    BY PageNumbers, Zenon
  <2> QED BY <1>1, <2>1, ZenonT(40) DEF Thread, PC
<1> HIDE DEF s
<1>6. Phase(s)
  BY <1>1, <1>2, <1>5, ZenonT(40) DEF Phase, Unnumbered, Gone
<1>7. MovesTo(t, s)
  <2>1. r.pc \notin {"idle", "number", "address", "switch"} /\ s.pc \notin {"address", "switch"}
    BY <1>2, <1>5, ZenonT(40)
  <2> QED BY <1>1, <1>5, <1>6, <2>1, GoesOn, ZenonT(40)
<1>8. StoresOrNot(t, s)
  <2>1. r.op # "write" /\ s.op # "write" /\ r.ino # 0 /\ "number" \in Stores
    <3>1. r.op \in {"create", "mkdir"} /\ r.pc \notin Unnumbered
      BY <1>1, <1>2, ZenonT(40) DEF Phase, Unnumbered
    <3> QED BY <1>1, <1>5, <3>1, PagedIno, ZenonT(40) DEF Stores
  <2>2. Held(r, r.ino, r.at)
    BY <1>1, <1>2, ZenonT(40) DEF Held, Phase
  <2>3. Store(r.at, r.ino, "number")
    BY <1>2, StoredKeeps, Zenon
  <2> QED BY <1>1, <2>1, <2>2, <2>3, StoreThrough, ZenonT(40)
<1>9. LiveOrNot(t, s) /\ s.pc \in Locked
  BY <1>2, <1>5, ZenonT(40) DEF LiveOrNot, Gone, Locked
<1>10. /\ inuse' = inuse /\ nodes' = nodes /\ dangling' = dangling /\ map_id' \in Maps
       /\ table' = table /\ free' = free /\ tmutex' = tmutex /\ mlock' = mlock
       /\ overlap' = overlap /\ leaked' = leaked
  BY <1>1, <1>2, StoredKeeps, ZenonT(40)
<1> QED BY <1>2, <1>4, <1>5, <1>7, <1>8, <1>9, <1>10, UnlockedStep, ZenonT(40)

\* PidirTail: the store to the directory through the address taken before.
LEMMA PidirTailStep ==
    ASSUME IInv, NEW t \in Threads, PidirTail(t)
    PROVE  IInv'
<1> DEFINE r == thr[t]  s == [r EXCEPT !.pc = "valid", !.pidir = 0]
<1>1. /\ Types /\ r \in Thread /\ Phase(r) /\ r.dir \in Inos /\ r.pidir \in 0 .. NumPages
      /\ map_id \in Maps /\ thr \in [Threads -> Thread]
  BY ThreadFields, ZenonT(40) DEF IInv, Types, TypeOK
<1>2. r.pc = "pidir_tail" /\ Stored(r.pidir, r.dir, "value") /\ plock' = plock /\ live' = live
  BY Zenon DEF PidirTail
<1>4. thr' = [thr EXCEPT ![t] = s]
  BY <1>1, Zenon DEF PidirTail
<1>5. /\ s \in Thread /\ s.pc = "valid" /\ s.at = r.at /\ s.ino = r.ino /\ s.op = r.op
      /\ s.pi = r.pi /\ s.dir = r.dir /\ s.pidir = 0
  <2>1. 0 \in 0 .. NumPages
    BY PageNumbers, Zenon
  <2> QED BY <1>1, <2>1, ZenonT(40) DEF Thread, PC
<1> HIDE DEF s
<1>6. Phase(s)
  BY <1>1, <1>2, <1>5, ZenonT(40) DEF Phase, Unnumbered, Gone
<1>7. MovesTo(t, s)
  <2>1. r.pc \notin {"idle", "number", "address", "switch"} /\ s.pc \notin {"address", "switch"}
    BY <1>2, <1>5, ZenonT(40)
  <2> QED BY <1>1, <1>5, <1>6, <2>1, GoesOn, ZenonT(40)
<1>8. StoresOrNot(t, s)
  <2>1. "value" \in Stores /\ "value" # "number"
    BY DEF Stores
  <2>2. r.pidir # 0 => Held(r, r.dir, r.pidir)
    BY Zenon DEF Held
  <2>3. Store(r.pidir, r.dir, "value")
    BY <1>2, StoredKeeps, Zenon
  <2> QED BY <1>1, <2>1, <2>2, <2>3, StoreThrough, ZenonT(40)
<1>9. LiveOrNot(t, s) /\ r.pc \notin Locked
  BY <1>2, <1>5, Zenon DEF LiveOrNot, Gone, Locked
<1>10. /\ inuse' = inuse /\ nodes' = nodes /\ dangling' = dangling /\ map_id' \in Maps
       /\ table' = table /\ free' = free /\ tmutex' = tmutex /\ mlock' = mlock
       /\ overlap' = overlap /\ leaked' = leaked
  BY <1>1, <1>2, StoredKeeps, ZenonT(40)
<1> QED BY <1>2, <1>4, <1>7, <1>8, <1>9, <1>10, UnlockedStep, ZenonT(40)

\* Valid gives the inode a name and returns, or takes its name.
LEMMA ValidStep ==
    ASSUME IInv, NEW t \in Threads, Valid(t)
    PROVE  IInv'
<1> DEFINE r == thr[t]  what == IF r.op # "unlink" THEN "valid" ELSE "invalid"
<1>1. /\ Types /\ r \in Thread /\ Phase(r) /\ r.ino \in Inos /\ r.pi \in 0 .. NumPages
      /\ map_id \in Maps /\ thr \in [Threads -> Thread]
  BY ThreadFields, ZenonT(40) DEF IInv, Types, TypeOK
<1>2. r.pc = "valid" /\ Stored(r.pi, r.ino, what) /\ plock' = plock
  BY ZenonT(40) DEF Valid
<1>3. /\ what \in Stores /\ what # "number" /\ r.pc \notin Locked /\ r.pc \in Paged
      /\ r.pc \notin {"idle", "number", "address", "switch"}
  BY <1>2, ZenonT(40) DEF Stores, Locked, Paged, PC
<1>4. ASSUME NEW s PROVE StoresOrNot(t, s)
  <2>1. r.pi # 0 => Held(r, r.ino, r.pi)
    BY Zenon DEF Held
  <2>2. Store(r.pi, r.ino, what)
    BY <1>2, StoredKeeps, ZenonT(40)
  <2> QED BY <1>1, <1>3, <2>1, <2>2, StoreThrough, ZenonT(40)
<1>5. /\ inuse' = inuse /\ nodes' = nodes /\ dangling' = dangling /\ map_id' \in Maps
      /\ table' = table /\ free' = free /\ tmutex' = tmutex /\ mlock' = mlock
      /\ overlap' = overlap /\ leaked' = leaked
  BY <1>1, <1>2, StoredKeeps, ZenonT(40)
<1> HIDE DEF what
<1>6. CASE r.op # "unlink"
  <2>1. thr' = [thr EXCEPT ![t] = Idle] /\ live' = live \cup {r.ino}
    BY <1>6, Zenon DEF Valid, Leave
  <2>2. MovesTo(t, Idle)
    BY <1>1, <1>3, Returns, ZenonT(40)
  <2>3. LiveOrNot(t, Idle)
    <3>1. Idle.pc \notin Gone
      BY ZenonT(40) DEF Idle, Gone
    <3> QED BY <1>3, <2>1, <3>1, ZenonT(40) DEF LiveOrNot
  <2> QED BY <1>2, <1>3, <1>4, <1>5, <2>1, <2>2, <2>3, UnlockedStep, ZenonT(40)
<1>7. CASE r.op = "unlink"
  <2> DEFINE s == [r EXCEPT !.pc = "evict", !.pi = 0]
  <2>1. thr' = [thr EXCEPT ![t] = s] /\ live' = live \ {r.ino}
    BY <1>1, <1>7, ZenonT(40) DEF Valid
  <2>2. /\ s \in Thread /\ s.pc = "evict" /\ s.at = r.at /\ s.ino = r.ino /\ s.op = r.op
        /\ s.pi = 0 /\ s.dir = r.dir /\ s.pidir = r.pidir
    <3>1. 0 \in 0 .. NumPages
      BY PageNumbers, Zenon
    <3> QED BY <1>1, <3>1, ZenonT(40) DEF Thread, PC
  <2> HIDE DEF s
  <2>3. Phase(s)
    BY <1>1, <1>2, <1>7, <2>2, ZenonT(40) DEF Phase, Unnumbered, Gone
  <2>4. MovesTo(t, s)
    <3>1. s.pc \notin {"address", "switch"}
      BY <2>2, ZenonT(40)
    <3> QED BY <1>1, <1>3, <2>2, <2>3, <3>1, GoesOn, ZenonT(40)
  <2>5. LiveOrNot(t, s)
    BY <2>1, <2>2, ZenonT(40) DEF LiveOrNot
  <2> QED BY <1>2, <1>3, <1>4, <1>5, <2>1, <2>4, <2>5, UnlockedStep, ZenonT(40)
<1> QED BY <1>6, <1>7, ZenonT(40)

\* Wherever a thread looks for nova_ino, LockOf selects the same page lock.
LEMMA OneLock ==
    ASSUME FlagsAgree, NEW t \in Threads, NEW p \in {thr[t].pi, thr[t].at}, p # 0
    PROVE  LockOf(thr[t], p) = LockFor(thr[t], Fields(thr[t].ino).ino)
<1>1. LockOf(thr[t], p) = LockFor(thr[t], mem[p][thr[t].ino].ino)
  BY LockByFlag, Zenon
<1>2. CASE thr[t].op = "write"
  <2>1. mem[p][thr[t].ino].ino = Fields(thr[t].ino).ino
    BY <1>2, Zenon DEF FlagsAgree, SameFlag
  <2> QED BY <1>1, <2>1, ZenonT(40)
<1>3. CASE thr[t].op # "write"
  BY <1>1, <1>3, ZenonT(40) DEF LockFor
<1> QED BY <1>2, <1>3, ZenonT(40)

\* LockPage takes the lock that the thread will release.
LEMMA LockPageStep ==
    ASSUME IInv, NEW t \in Threads, LockPage(t)
    PROVE  IInv'
<1> DEFINE r == thr[t]  lock == LockOf(r, r.pi)
<1>1. /\ Types /\ r \in Thread /\ Phase(r) /\ r.pi \in 0 .. NumPages
      /\ map_id \in Maps /\ thr \in [Threads -> Thread]
  BY ThreadFields, Zenon DEF IInv, Types, TypeOK
<1>2. /\ r.pc \in {"init", "lock"} /\ r.pi # 0
      /\ r.pc = "init" => r.op \in {"create", "mkdir"}
      /\ r.pc = "lock" => r.op = "write"
  BY <1>1, ZenonT(40) DEF LockPage, Phase
<1>3. UNCHANGED <<inuse, nodes, dangling, map_id, table, mem, free, tmutex, mlock,
                  live, latest, overlap, leaked>>
  BY Zenon DEF LockPage, history
<1>4. PICK pc \in {"relook", "tail", "fill"}, pi \in {0, r.pi} :
        /\ thr' = [thr EXCEPT ![t] = [@ EXCEPT !.pc = pc, !.at = r.pi, !.pi = pi]]
        /\ pc = "tail" => r.op = "write"
        /\ pc = "fill" => r.op # "write"
  <2> DEFINE pc == IF nova_ino(r.pi, r.ino) > 1 THEN "relook"
                   ELSE IF r.op = "write" THEN "tail" ELSE "fill"
             pi == IF r.op = "create" THEN r.pi ELSE 0
  <2>1. thr' = [thr EXCEPT ![t] = [@ EXCEPT !.pc = pc, !.at = r.pi, !.pi = pi]]
    BY Zenon DEF LockPage
  <2>2. /\ pc \in {"relook", "tail", "fill"} /\ pi \in {0, r.pi}
        /\ pc = "tail" => r.op = "write"
        /\ pc = "fill" => r.op # "write"
    BY Zenon
  <2> HIDE DEF pc, pi
  <2> QED BY <2>1, <2>2, ZenonT(40)
<1> DEFINE s == [r EXCEPT !.pc = pc, !.at = r.pi, !.pi = pi]
<1>5. thr' = [thr EXCEPT ![t] = s]
  BY <1>4, ZenonT(40)
<1>6. /\ s \in Thread /\ s.pc = pc /\ s.at = r.pi /\ s.ino = r.ino /\ s.op = r.op
      /\ s.pi = pi /\ s.dir = r.dir /\ s.pidir = r.pidir
  <2>1. pi \in 0 .. NumPages
    BY <1>1, <1>4, PageNumbers, ZenonT(40)
  <2> QED BY <1>1, <1>4, <2>1, ZenonT(40) DEF Thread, PC
<1> HIDE DEF s
<1>7. Phase(s)
  BY <1>1, <1>2, <1>4, <1>6, ZenonT(40) DEF Phase, Unnumbered, Gone
<1>8. MovesTo(t, s)
  <2>1. r.pc \notin {"idle", "number", "address", "switch"} /\ s.pc \notin {"address", "switch"}
    BY <1>2, <1>4, <1>6, ZenonT(40)
  <2> QED BY <1>1, <1>4, <1>6, <1>7, <2>1, GoesOn, ZenonT(40)
<1>9. LiveOrNot(t, s) /\ StoresOrNot(t, s) /\ s.pc \in Locked /\ r.pc \notin Locked
  BY <1>2, <1>3, <1>4, <1>6, ZenonT(40) DEF LiveOrNot, StoresOrNot, Gone, Locked
<1>10. PlockOrNot(t, s)
  <2>1. plock' = [plock EXCEPT ![lock] = t]
    BY ZenonT(40) DEF LockPage
  <2>2. plock \in [Maps \X Blocks -> Threads \cup {NoThread}]
    BY <1>1, ZenonT(40) DEF Types, TypeOK
  <2>3. lock = LockFor(r, Fields(r.ino).ino)
    BY <1>2, OneLock, ZenonT(40) DEF IInv
  <2>4. lock = LockFor(s, mem'[Addr(s.ino)][s.ino].ino)
    BY <1>3, <1>6, <2>3, ZenonT(40) DEF LockFor, Fields
  <2>5. \A l \in Maps \X Blocks : plock[l] # t
    BY <1>9, ZenonT(40) DEF IInv, PageLocks
  <2> HIDE DEF lock
  <2>6. \A l \in Maps \X Blocks : plock'[l] = IF l = lock THEN t ELSE plock[l]
    BY <2>1, <2>2, ZenonT(40)
  <2>7. plock' \in [Maps \X Blocks -> Threads \cup {NoThread}]
    BY <2>1, <2>2, ZenonT(40)
  <2> QED BY <1>9, <2>4, <2>5, <2>6, <2>7, ZenonT(40) DEF PlockOrNot
<1> QED BY <1>1, <1>3, <1>5, <1>8, <1>9, <1>10, LocalStep, ZenonT(40)

\* StoreUnlock releases it.
LEMMA StoreUnlockStep ==
    ASSUME IInv, NEW t \in Threads, StoreUnlock(t)
    PROVE  IInv'
<1> DEFINE r == thr[t]  s == [r EXCEPT !.pc = "count"]  lock == LockOf(r, r.at)
<1>1. /\ Types /\ r \in Thread /\ Phase(r) /\ r.ino \in Inos /\ r.at \in 0 .. NumPages
      /\ map_id \in Maps /\ thr \in [Threads -> Thread]
  BY ThreadFields, Zenon DEF IInv, Types, TypeOK
<1>2. r.pc \in {"attrs", "tail"} /\ Stored(r.at, r.ino, "value") /\ live' = live
  BY ZenonT(40) DEF StoreUnlock
<1>3. r.at # 0
  BY <1>1, <1>2, ZenonT(40) DEF Phase
<1>4. thr' = [thr EXCEPT ![t] = s]
  BY Zenon DEF StoreUnlock, Goto
<1>5. /\ s \in Thread /\ s.pc = "count" /\ s.at = r.at /\ s.ino = r.ino /\ s.op = r.op
      /\ s.pi = r.pi /\ s.dir = r.dir /\ s.pidir = r.pidir
  BY <1>1, ZenonT(40) DEF Thread, PC
<1> HIDE DEF s
<1>6. Phase(s)
  BY <1>1, <1>2, <1>3, <1>5, ZenonT(40) DEF Phase, Unnumbered, Gone
<1>7. MovesTo(t, s)
  <2>1. r.pc \notin {"idle", "number", "address", "switch"} /\ s.pc \notin {"address", "switch"}
    BY <1>2, <1>5, ZenonT(40)
  <2> QED BY <1>1, <1>5, <1>6, <2>1, GoesOn, ZenonT(40)
<1>8. StoresOrNot(t, s)
  <2>1. "value" \in Stores /\ "value" # "number"
    BY DEF Stores
  <2>2. Held(r, r.ino, r.at)
    BY <1>2, <1>3, Zenon DEF Held
  <2>3. Store(r.at, r.ino, "value")
    BY <1>2, StoredKeeps, ZenonT(40)
  <2> QED BY <1>1, <2>1, <2>2, <2>3, StoreThrough, ZenonT(40)
<1>9. LiveOrNot(t, s)
  BY <1>2, <1>5, Zenon DEF LiveOrNot, Gone
<1>10. PlockOrNot(t, s)
  <2>1. plock' = [plock EXCEPT ![lock] = NoThread]
    BY ZenonT(40) DEF StoreUnlock
  <2>2. plock \in [Maps \X Blocks -> Threads \cup {NoThread}] /\ NoThread \notin Threads
    BY <1>1, TableAssumption, ZenonT(40) DEF Types, TypeOK
  <2>3. lock = LockFor(r, Fields(r.ino).ino)
    BY <1>3, OneLock, ZenonT(40) DEF IInv
  <2>5. \A l \in Maps \X Blocks : plock[l] = t => l = lock
    BY <2>3, ZenonT(40) DEF IInv, PageLocks
  <2> HIDE DEF lock
  <2>6. \A l \in Maps \X Blocks : plock'[l] = IF l = lock THEN NoThread ELSE plock[l]
    BY <2>1, <2>2, ZenonT(40)
  <2>7. plock' \in [Maps \X Blocks -> Threads \cup {NoThread}]
    BY <2>1, <2>2, ZenonT(40)
  <2> QED BY <2>2, <2>5, <2>6, <2>7, ZenonT(40) DEF PlockOrNot
<1>11. /\ inuse' = inuse /\ nodes' = nodes /\ dangling' = dangling /\ map_id' \in Maps
       /\ table' = table /\ free' = free /\ tmutex' = tmutex /\ mlock' = mlock
       /\ overlap' = overlap /\ leaked' = leaked
  BY <1>1, <1>2, StoredKeeps, ZenonT(40)
<1> QED BY <1>4, <1>7, <1>8, <1>9, <1>10, <1>11, LocalStep, ZenonT(40)

-----------------------------------------------------------------------------
(* The steps that take a number back and give one out                      *)

\* Release: the number of the inode, or number 0 of map 0 when nova_ino is not set.
LEMMA ReleaseStep ==
    ASSUME IInv, NEW t \in Threads, Release(t)
    PROVE  IInv'
<1> DEFINE r == thr[t]
<1>1. /\ Types /\ LockInv /\ OwnInv /\ NumberInv /\ PageInv /\ TableInv
      /\ UpdateInv /\ FlagsAgree /\ PageLocks /\ OneThreadEach /\ ThreadsPaged
      /\ RangesSound
  BY Zenon DEF IInv, OwnInv, PageInv, NumberInv
<1>2. /\ r \in Thread /\ Phase(r) /\ r.pc = "release" /\ r.ino \in Inos /\ map_id \in Maps
      /\ thr' = [thr EXCEPT ![t] = Idle]
  BY <1>1, ThreadFields, ZenonT(40) DEF Types, TypeOK, Release, Leave
<1>3. /\ map_id' = map_id /\ table' = table /\ mem' = mem /\ free' = free
      /\ tmutex' = tmutex /\ mlock' = mlock /\ plock' = plock /\ live' = live
      /\ latest' = latest /\ overlap' = overlap /\ leaked' = leaked
  BY Zenon DEF Release, locks
<1>4. PICK ino \in Inos : ino = nova_ino(r.pi, r.ino) /\ (ino = r.ino \/ ino = 0)
  BY <1>2, Sizes, ZenonT(40) DEF nova_ino
<1> DEFINE c == cpuid(ino)  n == internal_ino(ino)
<1>5. PICK oom \in {FALSE} \cup {faults < MaxFaults} :
        LET f == nova_free_inuse_inode(c, n, oom)
        IN  /\ inuse' = [inuse EXCEPT ![c] = f.ranges] /\ nodes' = [nodes EXCEPT ![c] = f.nodes]
            /\ dangling' = f.dangling
  BY <1>4, Zenon DEF Release
<1>a. PICK f : f = nova_free_inuse_inode(c, n, oom)
  BY Zenon
<1>b. c \in Maps /\ n \in 0 .. MAX_INODE - 1
  BY InoParts, Zenon
<1>6. r.pc \notin Unnumbered /\ r.pc \in Gone /\ r.pc \notin Locked /\ r.pc \notin {"address", "switch"}
  BY <1>2, ZenonT(40) DEF Unnumbered, Gone, Locked
<1>7. internal_ino(r.ino) > range_high
  BY <1>2, <1>6, Zenon DEF Phase
<1>c. MovesTo(t, Idle)
  BY <1>1, <1>6, Returns, ZenonT(40)
<1>d. /\ Carries(t, Idle) /\ Idle.pc \notin {"address", "switch"}
      /\ Alone(t, Idle)
      /\ Idle.pc \in Paged => (Idle.ino = thr[t].ino /\ thr[t].pc \in Paged) \/ Idle.ino \in live
  BY <1>1, <1>c, MovedIno, ZenonT(40) DEF MovesTo, Carries
<1>8. MovesTo(t, Idle) /\ thr'[t] = Idle /\ \A u \in Threads : u # t => thr'[u] = thr[u]
  BY <1>1, <1>2, <1>c, OneThread, ZenonT(40)
<1> HIDE DEF c, n
<1>9. /\ Sound(f.ranges) /\ f.nodes = Cardinality(f.ranges)
      /\ Covered(inuse[c]) \ {n} \subseteq Covered(f.ranges)
      /\ Covered(f.ranges) \subseteq Covered(inuse[c])
      /\ f.dangling = dangling \/ f.dangling = dangling \cup {c}
      /\ c \notin f.dangling => f.ranges # {}
  <2>1. n \in Nat /\ Ranges(c) /\ f = nova_free_inuse_inode(c, n, oom)
    BY <1>1, <1>a, <1>b, BelowMax, ZenonT(40) DEF RangesSound
  <2>2. Freed(c, n, f)
    BY <1>b, <2>1, FreedNumber, ZenonT(40)
  <2> QED BY <2>2, ZenonT(40) DEF Freed
<1>10. /\ inuse' = [inuse EXCEPT ![c] = f.ranges] /\ nodes' = [nodes EXCEPT ![c] = f.nodes]
       /\ dangling' \in {dangling, dangling \cup {c}} /\ dangling' = f.dangling
  BY <1>5, <1>9, <1>a, ZenonT(40)
<1>11. /\ RangesSound' /\ inuse' \in [Maps -> SUBSET ((0 .. MAX_INODE) \X (0 .. MAX_INODE))]
       /\ nodes' \in [Maps -> Nat] /\ dangling' \subseteq Maps
  <2>1. c \notin dangling' => f.ranges # {}
    BY <1>9, <1>10, ZenonT(40)
  <2> QED BY <1>1, <1>b, <1>9, <1>10, <2>1, RangesAfter, ZenonT(40)
<1>12. /\ Numbers(c)' = Covered(f.ranges) /\ Numbers(c) = Covered(inuse[c])
       /\ \A d \in Maps : d # c => Numbers(d)' = Numbers(d)
  BY <1>1, <1>b, <1>10, NumbersOf, ZenonT(40)
<1>13. \A d \in Maps : \A m : m \in Numbers(d) => m \in Numbers(d)' \/ (d = c /\ m = n)
  BY <1>9, <1>12, ZenonT(40)
<1>14. \A d \in Maps : Numbers(d)' \subseteq Numbers(d)
  BY <1>9, <1>12, ZenonT(40)
<1>15. ReservedHeld'
  <2>1. ASSUME NEW m \in 0 .. range_high, m = n PROVE c = 0 /\ m = 0
    <3>1. CASE ino = r.ino
      <4>1. m > range_high
        BY <1>7, <2>1, <3>1, ZenonT(40) DEF n
      <4> QED BY <2>1, <4>1, HighNumbers, ZenonT(40)
    <3>2. CASE ino = 0
      BY <2>1, <3>2, ZeroParts, ZenonT(40) DEF n, c
    <3> QED BY <1>4, <3>1, <3>2, ZenonT(40)
  <2>2. \A d \in Maps, m \in 0 .. range_high : m \in Numbers(d)' \/ (d = 0 /\ m = 0)
    BY <1>1, <1>13, <2>1, ZenonT(40) DEF NumberInv, ReservedHeld
  <2> QED BY <2>2, ZenonT(40) DEF ReservedHeld
<1>16. ASSUME NEW i \in Inos, InUse(i), internal_ino(i) > range_high, i # r.ino
       PROVE  InUse(i)'
  <2>1. cpuid(i) \in Maps
    BY InoParts, Zenon
  <2>2. ASSUME cpuid(i) = c, internal_ino(i) = n PROVE FALSE
    <3>1. i = ino
      BY <1>4, <2>2, SameIno, ZenonT(40) DEF c, n
    <3>2. i # 0
      BY <1>16, NormalHigh, ZenonT(40)
    <3> QED BY <1>4, <1>16, <3>1, <3>2, ZenonT(40)
  <2>3. internal_ino(i) \in Numbers(cpuid(i))'
    BY <1>13, <1>16, <2>1, <2>2, ZenonT(40) DEF InUse
  <2> QED BY <2>3, ZenonT(40) DEF InUse
<1>17. LiveHeld'
  <2>1. \A i \in live : i \in Inos /\ InUse(i) /\ internal_ino(i) > range_high /\ i # r.ino
    BY <1>1, <1>6, ZenonT(40) DEF Types, TypeOK, NumberInv, LiveHeld, OwnInv, GoneUnnamed
  <2>2. \A i \in live : InUse(i)' /\ internal_ino(i) > range_high
    BY <1>16, <2>1, ZenonT(40)
  <2> QED BY <1>3, <2>2, ZenonT(40) DEF LiveHeld
<1>18. ThreadsHeld'
  <2>1. SUFFICES ASSUME NEW u \in Threads, NEW i, i = thr'[u].ino, thr'[u].pc \notin Unnumbered
                 PROVE  InUse(i)'
    BY ZenonT(40) DEF ThreadsHeld
  <2>2. u # t /\ thr'[u] = thr[u]
    <3>1. Idle.pc \in Unnumbered
      BY Zenon DEF Idle, Unnumbered
    <3>2. u # t
      BY <1>8, <2>1, <3>1, ZenonT(40)
    <3> QED BY <1>8, <3>2, Zenon
  <2>3. thr[u].ino \in Inos /\ Phase(thr[u]) /\ thr[u].pc \notin Unnumbered
    BY <1>1, <2>1, <2>2, ThreadFields, ZenonT(40)
  <2>4. InUse(thr[u].ino) /\ internal_ino(thr[u].ino) > range_high
    BY <1>1, <2>3, Zenon DEF NumberInv, ThreadsHeld, Phase
  <2>5. r.ino # 0
    BY <1>2, <1>7, NormalHigh, ZenonT(40)
  <2>6. thr[u].ino # r.ino
    BY <1>1, <2>2, <2>5, ZenonT(40) DEF OneThreadEach
  <2>7. InUse(thr[u].ino)'
    BY <1>16, <2>1, <2>2, <2>3, <2>4, <2>6, ZenonT(40)
  <2> QED BY <1>16, <2>1, <2>2, <2>3, <2>4, <2>6, ZenonT(40)
<1>19. NumberInv'
  BY <1>11, <1>15, <1>17, <1>18, ZenonT(40) DEF NumberInv
<1>20. Types'
  <2>1. TypeOK'
    BY <1>1, <1>3, <1>11, ZenonT(40) DEF Types, TypeOK
  <2>2. latest' \in [Inos -> Field] /\ Idle \in Thread /\ Phase(Idle)
    BY <1>1, <1>3, <1>d, ZenonT(40) DEF Types, Carries
  <2> QED BY <1>1, <1>2, <2>1, <2>2, MoveTypes, ZenonT(40)
<1>21. StoresOrNot(t, Idle)
  BY <1>3, Zenon DEF StoresOrNot
<1>22. FlagsKept(t, Idle)
  BY <1>1, <1>21, StoresKeep, ZenonT(40)
<1>23. PlockOrNot(t, Idle)
  BY <1>1, <1>2, <1>3, <1>6, <1>d, <1>22, PlockKept, ZenonT(40)
<1>24. LockInv' /\ PageInv' /\ TableInv'
  BY <1>1, <1>2, <1>3, <1>6, <1>8, <1>d, <1>14, MoveLocks, MovePages, MoveTables, ZenonT(40)
<1>25. OwnInv'
  <2>1. Idle.pc \notin Gone
    BY DEF Idle, Gone
  <2> QED BY <1>1, <1>2, <1>3, <1>d, <2>1, MoveOwns, ZenonT(40)
<1>26. UpdateInv'
  BY <1>1, <1>2, <1>3, <1>d, MoveUpdates, ZenonT(40)
<1>27. FlagsAgree'
  BY <1>1, <1>2, <1>3, <1>d, <1>22, MoveFlags, ZenonT(40)
<1>28. PageLocks'
  BY <1>1, <1>2, <1>3, <1>d, <1>22, <1>23, MovePageLocks, ZenonT(40) DEF PlockOrNot
<1> QED BY <1>19, <1>20, <1>24, <1>25, <1>26, <1>27, <1>28, ZenonT(40) DEF IInv

\* While the mutex of a map is free, no thread waits for the address of a number of it.
LEMMA NoneAddressing ==
    ASSUME Types, LockInv, NEW c \in Maps, tmutex[c] = NoThread, NEW n \in 0 .. MAX_INODE - 1
    PROVE  ~ Addressing(c, n)
<1>1. ASSUME NEW u \in Threads, thr[u].pc = "address", thr[u].ino = n * CPUS + c PROVE FALSE
  <2>1. cpuid(n * CPUS + c) = c
    BY InoOf, Zenon
  <2>2. thr[u].cpu = c
    BY <1>1, <2>1, ZenonT(40) DEF Types, Phase
  <2>3. tmutex[c] = u
    BY <1>1, <2>2, Zenon DEF LockInv, MutexesHeld
  <2> QED BY <2>3, TableAssumption, Zenon
<1> QED BY <1>1, Zenon DEF Addressing

\* A new number is that of an inode that nobody knows.
LEMMA NewIno ==
    ASSUME IInv, NEW c \in Maps, NEW a, Given(c, a), NEW i, i = a.new * CPUS + c
    PROVE  /\ i \in Inos /\ cpuid(i) = c /\ internal_ino(i) = a.new
           /\ a.new > range_high /\ i # 0 /\ i \notin live
           /\ \A u \in Threads : thr[u].ino # i
<1>1. /\ a.new \in 0 .. MAX_INODE - 1 /\ a.new # 0 /\ a.new \in Nat
      /\ a.new \notin Numbers(c)
  <2>1. a.new \in Nat /\ 0 < a.new /\ a.new < MAX_INODE - 1 /\ a.new \notin Covered(inuse[c])
    BY Zenon DEF Given
  <2> QED BY <2>1, BelowMax, ZenonT(40) DEF Numbers, Covered
<1>2. i \in Inos /\ cpuid(i) = c /\ internal_ino(i) = a.new
  BY <1>1, InoOf, Zenon
<1>3. ~ InUse(i)
  BY <1>1, <1>2, Zenon DEF InUse
<1>4. a.new > range_high
  <2>1. SUFFICES ASSUME a.new \in 0 .. range_high PROVE FALSE
    BY <1>1, HighNumbers, ZenonT(40)
  <2> QED BY <1>1, <2>1, Zenon DEF IInv, NumberInv, ReservedHeld
<1>5. i # 0
  BY <1>2, <1>4, NormalHigh, Zenon
<1>6. i \notin live
  BY <1>3, Zenon DEF IInv, NumberInv, LiveHeld
<1>7. ASSUME NEW u \in Threads, thr[u].ino = i PROVE FALSE
  <2>1. CASE thr[u].pc \in Unnumbered
    <3>1. thr[u].ino = 0
      <4>1. (thr[u].pc = "idle" /\ thr[u] = Idle) \/ thr[u].ino = 0
        BY <2>1, ZenonT(40) DEF IInv, Types, Phase, Unnumbered
      <4>2. Idle.ino = 0
        BY Zenon DEF Idle
      <4> QED BY <4>1, <4>2, Zenon
    <3> QED BY <1>5, <1>7, <3>1, Zenon
  <2>2. CASE thr[u].pc \notin Unnumbered
    BY <1>3, <1>7, <2>2, ZenonT(40) DEF IInv, NumberInv, ThreadsHeld
  <2> QED BY <2>1, <2>2, Zenon
<1> QED BY <1>2, <1>4, <1>5, <1>6, <1>7, ZenonT(40)

\* NewNumber: a number that was free is that of this thread, which keeps the mutex.
LEMMA NumberGiven ==
    ASSUME IInv, NEW t \in Threads, NEW c, c = thr[t].cpu, thr[t].pc = "number",
           tmutex[c] = NoThread, NEW a, Given(c, a), NEW i, i = a.new * CPUS + c,
           NEW s, s = [thr[t] EXCEPT !.pc = "address", !.ino = i],
           thr' = [thr EXCEPT ![t] = s], tmutex' = [tmutex EXCEPT ![c] = t],
           inuse' = [inuse EXCEPT ![c] = a.ranges], nodes' = [nodes EXCEPT ![c] = a.nodes],
           dangling' = dangling, map_id' = map_id, table' = table, mem' = mem, free' = free,
           mlock' = mlock, plock' = plock, live' = live, latest' = latest,
           overlap' = overlap, leaked' = leaked
    PROVE  IInv'
<1> DEFINE r == thr[t]
<1>1. /\ Types /\ LockInv /\ OwnInv /\ NumberInv /\ TableInv /\ OneThreadEach /\ RangesSound
      /\ NumbersPaged /\ NoHoles /\ OnlyNextMissing
  BY Zenon DEF IInv, OwnInv, NumberInv, TableInv
<1>2. /\ r \in Thread /\ Phase(r) /\ c \in Maps /\ r.ino = 0 /\ r.pi = 0 /\ r.at = 0
      /\ r.op \in {"create", "mkdir"}
  BY <1>1, ThreadFields, Zenon DEF Phase, Unnumbered
<1>3. /\ i \in Inos /\ cpuid(i) = c /\ internal_ino(i) = a.new /\ a.new > range_high
      /\ i # 0 /\ i \notin live /\ \A u \in Threads : thr[u].ino # i
  BY <1>2, NewIno, ZenonT(40)
<1>4. /\ a.new \in Nat /\ 0 < a.new /\ a.new < MAX_INODE - 1
      /\ a.new - 1 \in Covered(inuse[c])
      /\ Sound(a.ranges) /\ a.nodes = Cardinality(a.ranges) /\ a.ranges # {}
      /\ \A m : m \in Covered(a.ranges) <=> m \in Covered(inuse[c]) \/ m = a.new
  BY Zenon DEF Given
<1>5. /\ s \in Thread /\ s.pc = "address" /\ s.at = 0 /\ s.ino = i /\ s.op = r.op
      /\ s.pi = 0 /\ s.dir = r.dir /\ s.pidir = r.pidir /\ s.cpu = c
  BY <1>2, <1>3, Zenon DEF Thread, PC
<1>6. thr'[t] = s /\ \A u \in Threads : u # t => thr'[u] = thr[u]
  BY <1>1, OneThread, Zenon
<1>7. Phase(s)
  BY <1>2, <1>3, <1>5, ZenonT(40) DEF Phase, Unnumbered, Gone
<1>8. Carries(t, s)
  <2>1. \A j, p : Held(s, j, p) => Held(r, j, p)
    BY <1>5, Zenon DEF Held
  <2> QED BY <1>2, <1>5, <1>7, <2>1, ZenonT(40) DEF Carries
<1>9. PageInv' /\ UpdateInv' /\ FlagsAgree' /\ PageLocks'
  BY <1>5, <1>8, CarryStep, ZenonT(40) DEF Locked, Paged
<1>10. /\ RangesSound' /\ inuse' \in [Maps -> SUBSET ((0 .. MAX_INODE) \X (0 .. MAX_INODE))]
       /\ nodes' \in [Maps -> Nat]
  BY <1>1, <1>2, <1>4, RangesAfter, ZenonT(40)
<1>11. /\ \A m : m \in Numbers(c)' <=> m \in Numbers(c) \/ m = a.new
       /\ \A d \in Maps : d # c => Numbers(d)' = Numbers(d)
  <2>1. /\ Numbers(c)' = Covered(a.ranges) /\ Numbers(c) = Covered(inuse[c])
        /\ \A d \in Maps : d # c => Numbers(d)' = Numbers(d)
    BY <1>1, <1>2, NumbersOf, ZenonT(40)
  <2> QED BY <1>4, <2>1, ZenonT(40)
<1>12. \A d \in Maps : \A m : m \in Numbers(d)' <=> m \in Numbers(d) \/ (d = c /\ m = a.new)
  BY <1>2, <1>11, ZenonT(40)
<1>13. tmutex'[c] = t /\ \A d \in Maps : d # c => tmutex'[d] = tmutex[d]
  BY <1>1, <1>2, ZenonT(40) DEF Types, TypeOK
<1>14. Types'
  <2>1. tmutex' \in [Maps -> Threads \cup {NoThread}]
    BY <1>1, ZenonT(40) DEF Types, TypeOK
  <2>2. TypeOK'
    BY <1>1, <1>10, <2>1, ZenonT(40) DEF Types, TypeOK
  <2>3. latest' \in [Inos -> Field]
    BY <1>1, Zenon DEF Types
  <2> QED BY <1>1, <1>5, <1>7, <2>2, <2>3, MoveTypes, ZenonT(40)
<1>15. LockInv'
  <2>1. ASSUME NEW u \in Threads, NEW d \in Maps
        PROVE  tmutex'[d] = u <=> thr'[u].pc = "address" /\ thr'[u].cpu = d
    <3>1. tmutex[d] = u <=> thr[u].pc = "address" /\ thr[u].cpu = d
      BY <1>1, ZenonT(40) DEF LockInv, MutexesHeld
    <3>2. NoThread # u
      BY TableAssumption, Zenon
    <3>3. CASE u = t
      <4>1. thr'[u] = s /\ thr[u].pc # "address"
        BY <1>6, <3>3, ZenonT(40)
      <4>2. thr'[u].pc = "address" /\ thr'[u].cpu = c /\ tmutex[d] # u
        BY <1>5, <3>1, <4>1, ZenonT(40)
      <4>3. CASE d = c
        BY <1>13, <3>3, <4>2, <4>3, ZenonT(40)
      <4>4. CASE d # c
        BY <1>13, <4>2, <4>4, ZenonT(40)
      <4> QED BY <4>3, <4>4, ZenonT(40)
    <3>4. CASE u # t
      <4>1. thr'[u] = thr[u]
        BY <1>6, <3>4, Zenon
      <4> QED BY <1>13, <3>1, <3>2, <3>4, <4>1, ZenonT(40)
    <3> QED BY <3>3, <3>4, ZenonT(40)
  <2>2. MutexesHeld'
    BY <2>1, Zenon DEF MutexesHeld
  <2>3. \A u \in Threads : thr[u].pc = "switch" \/ thr'[u].pc = "switch" => thr'[u] = thr[u]
    BY <1>5, <1>6, ZenonT(40)
  <2>4. MappingsHeld'
    BY <1>1, <2>3, ZenonT(40) DEF LockInv, MappingsHeld
  <2>5. SwitchersHold'
    <3>1. SUFFICES ASSUME NEW u \in Threads, thr'[u].pc = "switch", NEW j, j = thr'[u].ino
                   PROVE  mlock'[cpuid(j)] = u /\ cpuid(j) \notin leaked'
      BY ZenonT(40) DEF SwitchersHold, cpuid
    <3>2. thr[u].pc = "switch" /\ j = thr[u].ino
      BY <2>3, <3>1, ZenonT(40)
    <3> QED BY <1>1, <3>2, ZenonT(40) DEF LockInv, SwitchersHold
  <2>6. LeakedHeld'
    BY <1>1, Zenon DEF LockInv, LeakedHeld
  <2> QED BY <2>2, <2>4, <2>5, <2>6, ZenonT(40) DEF LockInv
<1>16. OwnInv'
  <2>1. Alone(t, s) /\ s.pc \notin Gone
    BY <1>3, <1>5, ZenonT(40) DEF Alone, Gone
  <2> QED BY <1>1, <2>1, MoveOwns, ZenonT(40)
<1>17. NumberInv'
  <2>1. ReservedHeld'
    <3>1. \A d \in Maps, m \in 0 .. range_high : m \in Numbers(d)' \/ (d = 0 /\ m = 0)
      BY <1>1, <1>12, Zenon DEF NumberInv, ReservedHeld
    <3> QED BY <3>1 DEF ReservedHeld
  <2>2. ASSUME NEW j \in Inos, InUse(j) \/ j = i PROVE InUse(j)'
    <3>1. cpuid(j) \in Maps
      BY InoParts, Zenon
    <3>2. internal_ino(j) \in Numbers(cpuid(j))'
      BY <1>3, <1>12, <2>2, <3>1, ZenonT(40) DEF InUse
    <3> QED BY <3>2 DEF InUse
  <2>3. LiveHeld'
    <3>1. \A j \in live : j \in Inos /\ InUse(j) /\ internal_ino(j) > range_high
      BY <1>1, Zenon DEF Types, TypeOK, NumberInv, LiveHeld
    <3>2. \A j \in live : InUse(j)' /\ internal_ino(j) > range_high
      BY <2>2, <3>1, ZenonT(40)
    <3> QED BY <3>2, ZenonT(40) DEF LiveHeld
  <2>4. ThreadsHeld'
    <3>1. SUFFICES ASSUME NEW u \in Threads, NEW j, j = thr'[u].ino, thr'[u].pc \notin Unnumbered
                   PROVE  InUse(j)'
      BY DEF ThreadsHeld
    <3>2. CASE u = t
      <4>0. thr'[u] = s
        BY <1>6, <3>2, ZenonT(40)
      <4>1. j = i /\ j \in Inos
        BY <1>3, <1>5, <3>1, <4>0, ZenonT(40)
      <4> QED BY <2>2, <4>1, Zenon
    <3>3. CASE u # t
      <4>1. thr'[u] = thr[u] /\ thr[u].ino \in Inos
        BY <1>1, <1>6, <3>3, ThreadFields, ZenonT(40)
      <4>2. InUse(thr[u].ino)
        BY <1>1, <3>1, <4>1, Zenon DEF NumberInv, ThreadsHeld
      <4>3. j \in Inos /\ InUse(j)
        BY <3>1, <4>1, <4>2, Zenon
      <4> QED BY <2>2, <4>3, Zenon
    <3> QED BY <3>2, <3>3, ZenonT(40)
  <2> QED BY <1>10, <2>1, <2>3, <2>4, ZenonT(40) DEF NumberInv
<1>18. TableInv'
  <2>1. NoHoles'
    BY <1>1, Zenon DEF NoHoles
  <2>2. NumbersPaged'
    <3>1. SUFFICES ASSUME NEW d \in Maps, d \notin leaked, NEW m, m \in Numbers(d)'
                   PROVE  table[d][m \div NumInodes] # 0 \/ Addressing(d, m)'
      BY ZenonT(40) DEF NumbersPaged
    <3>2. CASE m \in Numbers(d)
      <4>1. Addressing(d, m) => Addressing(d, m)'
        BY <1>6, ZenonT(40) DEF Addressing
      <4> QED BY <1>1, <3>1, <3>2, <4>1, ZenonT(40) DEF NumbersPaged
    <3>3. CASE d = c /\ m = a.new
      <4>1. thr'[t].pc = "address" /\ thr'[t].ino = m * CPUS + d
        BY <1>5, <1>6, <3>3, Zenon
      <4> QED BY <4>1, ZenonT(40) DEF Addressing
    <3> QED BY <1>12, <3>1, <3>2, <3>3, ZenonT(40)
  <2>3. ASSUME c \notin leaked, NEW k \in Blocks, k < superpage_count(i) PROVE table[c][k] # 0
    <3> DEFINE n == a.new - 1
    <3>1. n \in Nat /\ n + 1 = a.new /\ n \in 0 .. MAX_INODE - 1 /\ n < MAX_INODE
      BY <1>4, BelowMax, ZenonT(40)
    <3>2. n \in Numbers(c)
      BY <1>4, ZenonT(40) DEF Numbers, Covered
    <3>a. k \in Nat /\ k < (n + 1) \div NumInodes
      <4>1. superpage_count(i) = a.new \div NumInodes
        BY <1>3, ZenonT(40) DEF superpage_count
      <4> QED BY <2>3, <3>1, <4>1, PlainNumbers, ZenonT(40)
    <3> HIDE DEF n
    <3>3. k <= n \div NumInodes /\ n \div NumInodes \in Blocks
      BY <3>1, <3>a, BlockBefore, BlockOf, ZenonT(40)
    <3>4. ~ Addressing(c, n)
      BY <1>1, <1>2, <3>1, NoneAddressing, Zenon
    <3>5. table[c][n \div NumInodes] # 0
      BY <1>1, <1>2, <2>3, <3>2, <3>4, ZenonT(40) DEF NumbersPaged
    <3> QED BY <1>1, <1>2, <3>3, <3>5, ZenonT(40) DEF NoHoles
  <2>4. OnlyNextMissing'
    <3>1. SUFFICES ASSUME NEW u \in Threads, thr'[u].pc = "address", thr'[u].cpu \notin leaked,
                          NEW k \in Blocks, k < superpage_count(thr'[u].ino)
                   PROVE  table[thr'[u].cpu][k] # 0
      BY ZenonT(40) DEF OnlyNextMissing
    <3>2. CASE u = t
      <4>1. thr'[u].ino = i /\ thr'[u].cpu = c
        BY <1>5, <1>6, <3>2, ZenonT(40)
      <4> QED BY <2>3, <3>1, <4>1, ZenonT(40)
    <3>3. CASE u # t
      <4>1. thr'[u] = thr[u]
        BY <1>6, <3>3, Zenon
      <4> QED BY <1>1, <3>1, <4>1, ZenonT(40) DEF OnlyNextMissing
    <3> QED BY <3>2, <3>3, ZenonT(40)
  <2> QED BY <2>1, <2>2, <2>4, Zenon DEF TableInv
<1> QED BY <1>9, <1>14, <1>15, <1>16, <1>17, <1>18, ZenonT(40) DEF IInv

\* NewNumber.
LEMMA NewNumberStep ==
    ASSUME IInv, NEW t \in Threads, NewNumber(t)
    PROVE  IInv'
<1>1. Types /\ thr \in [Threads -> Thread] /\ RangesSound
  BY Zenon DEF IInv, Types, NumberInv
<1>a. PICK c \in Maps : c = thr[t].cpu
  BY <1>1, ThreadFields, Zenon
<1>b. PICK a : a = nova_alloc_unused_inode(c)
  BY Zenon
<1>2. c = thr[t].cpu /\ a = nova_alloc_unused_inode(c)
  BY <1>a, <1>b, Zenon
<1>3. /\ thr[t].pc = "number" /\ tmutex[c] = NoThread /\ c \notin dangling
      /\ inuse' = [inuse EXCEPT ![c] = a.ranges] /\ nodes' = [nodes EXCEPT ![c] = a.nodes]
      /\ a.new = 0 => thr' = [thr EXCEPT ![t] = Idle] /\ tmutex' = tmutex
      /\ a.new # 0 => /\ thr' = [thr EXCEPT ![t].pc = "address", ![t].ino = a.new * CPUS + c]
                      /\ tmutex' = [tmutex EXCEPT ![c] = t]
  BY <1>2, Zenon DEF NewNumber, Leave
<1>4. /\ dangling' = dangling /\ map_id' = map_id /\ table' = table /\ mem' = mem
      /\ free' = free /\ mlock' = mlock /\ plock' = plock /\ live' = live
      /\ latest' = latest /\ overlap' = overlap /\ leaked' = leaked
  BY Zenon DEF NewNumber, history
<1>5. \/ a.new = 0 /\ a.ranges = inuse[c] /\ a.nodes = nodes[c]
      \/ Given(c, a)
  BY <1>1, <1>2, <1>3, NewNumberOf, ZenonT(40) DEF RangesSound
<1>6. CASE a.new = 0 /\ a.ranges = inuse[c] /\ a.nodes = nodes[c]
  <2>1. inuse' = inuse /\ nodes' = nodes
    <3>1. /\ inuse \in [Maps -> SUBSET ((0 .. MAX_INODE) \X (0 .. MAX_INODE))]
          /\ nodes \in [Maps -> Nat]
      BY <1>1, ZenonT(40) DEF Types, TypeOK
    <3>2. [inuse EXCEPT ![c] = inuse[c]] = inuse /\ [nodes EXCEPT ![c] = nodes[c]] = nodes
      BY <3>1, SameValue, ZenonT(40)
    <3> QED BY <1>3, <1>6, <3>2, ZenonT(40)
  <2> QED BY <1>3, <1>4, <1>6, <2>1, ReturnStep, ZenonT(40) DEF Locked
<1>7. CASE Given(c, a)
  <2>1. a.new # 0
    <3>1. a.new \in Nat /\ 0 < a.new
      BY <1>7, Zenon DEF Given
    <3> QED BY <3>1
  <2>2. PICK i, s : i = a.new * CPUS + c /\ s = [thr[t] EXCEPT !.pc = "address", !.ino = i]
    BY Zenon
  <2>3. thr' = [thr EXCEPT ![t] = s]
    BY <1>1, <1>3, <2>1, <2>2, ZenonT(40)
  <2> QED BY <1>2, <1>3, <1>4, <1>7, <2>1, <2>2, <2>3, NumberGiven, ZenonT(40)
<1> QED BY <1>5, <1>6, <1>7, Zenon

-----------------------------------------------------------------------------
(* The invariant                                                           *)

\* A step of a migration, and an operation that ends for lack of memory.
LEMMA MigrateStep ==
    ASSUME IInv, NEW t \in Threads, Migrate(t)
    PROVE  IInv'
<1>1. CASE inode_page_count_increase_with_migrate(t, AfterCount(t))
  <2>1. thr[t].pc = "count"
    BY <1>1, Zenon DEF inode_page_count_increase_with_migrate
  <2>2. CASE CopyPage(t, thr[t].ino, AfterCount(t))
    BY <2>1, <2>2, CopyStep, Zenon
  <2>3. CASE /\ thr' = [thr EXCEPT ![t] = At(@, AfterCount(t))]
             /\ UNCHANGED <<inuse, nodes, dangling, map_id, table, mem, free, locks, history>>
    <3>1. /\ inuse' = inuse /\ nodes' = nodes /\ dangling' = dangling /\ map_id' = map_id
          /\ table' = table /\ mem' = mem /\ free' = free /\ tmutex' = tmutex
          /\ mlock' = mlock /\ plock' = plock /\ live' = live /\ latest' = latest
          /\ overlap' = overlap /\ leaked' = leaked
      BY <2>3, ZenonT(40) DEF locks, history
    <3>2. thr' = [thr EXCEPT ![t] = At(@, AfterCount(t))]
      BY <2>3, Zenon
    <3> QED BY <2>1, <3>1, <3>2, CountStep, ZenonT(40)
  <2> QED BY <1>1, <2>2, <2>3, Zenon DEF inode_page_count_increase_with_migrate
<1>2. CASE thr[t].pc = "switch" /\ SwitchPage(t, thr[t].ino, AfterCount(t))
  BY <1>2, SwitchStep, Zenon
<1> QED BY <1>1, <1>2, Zenon DEF Migrate

\* NoInode: the operation returns with what it had.
LEMMA NoInodeStep ==
    ASSUME IInv, NEW t \in Threads, NoInode(t)
    PROVE  IInv'
<1>1. /\ inuse' = inuse /\ nodes' = nodes /\ dangling' = dangling /\ map_id' = map_id
      /\ table' = table /\ mem' = mem /\ free' = free /\ tmutex' = tmutex
      /\ mlock' = mlock /\ plock' = plock /\ live' = live /\ latest' = latest
      /\ overlap' = overlap /\ leaked' = leaked
  BY ZenonT(40) DEF NoInode, locks
<1>2. thr' = [thr EXCEPT ![t] = Idle] /\ thr[t].pc = "init"
  BY Zenon DEF NoInode, Leave
<1>3. thr[t].pc \notin {"address", "switch"} /\ thr[t].pc \notin Locked
  BY <1>2, ZenonT(40) DEF Locked
<1> QED BY <1>1, <1>2, <1>3, ReturnStep, ZenonT(40)

\* Every step keeps the invariant.
LEMMA NextInv ==
    ASSUME IInv, [Next]_vars
    PROVE  IInv'
<1>1. CASE UNCHANGED vars
  BY <1>1, StutterStep, ZenonT(40)
<1>2. ASSUME NEW t \in Threads, Step(t) PROVE IInv'
  <2>1. CASE NewNumber(t)
    BY <2>1, NewNumberStep, ZenonT(40)
  <2>2. CASE NewAddress(t)
    BY <2>2, NewAddressStep, Zenon
  <2>3. CASE LockPage(t)
    BY <2>3, LockPageStep, Zenon
  <2>4. CASE \/ nova_get_inode_by_ino_or_pi_addr(t) \/ nova_update_inode(t)
             \/ Again(t) \/ Evict(t)
    BY <2>4, AddressStep, ZenonT(40)
  <2>5. CASE Fill(t)
    BY <2>5, FillStep, Zenon
  <2>6. CASE StoreUnlock(t)
    BY <2>6, StoreUnlockStep, Zenon
  <2>7. CASE Migrate(t)
    BY <2>7, MigrateStep, Zenon
  <2>8. CASE Pidir(t)
    BY <2>8, PidirStep, Zenon
  <2>9. CASE PiTail(t) \/ WriteBlocks(t) \/ Clear(t)
    BY <2>9, PiStep, ZenonT(40)
  <2>10. CASE PidirTail(t)
    BY <2>10, PidirTailStep, Zenon
  <2>11. CASE Valid(t)
    BY <2>11, ValidStep, Zenon
  <2>12. CASE Release(t)
    BY <2>12, ReleaseStep, Zenon
  <2> QED BY <1>2, <2>1, <2>2, <2>3, <2>4, <2>5, <2>6, <2>7, <2>8, <2>9, <2>10, <2>11, <2>12,
             ZenonT(40) DEF Step
<1>3. ASSUME NEW t \in Threads, NoInode(t) PROVE IInv'
  BY <1>3, NoInodeStep, Zenon
<1>4. ASSUME NEW t \in Threads, NEW d \in Dirs, BeginCreate(t, "create", d) \/ BeginCreate(t, "mkdir", d)
      PROVE  IInv'
  <2>1. PICK op \in {"create", "mkdir"} : BeginCreate(t, op, d)
    BY <1>4, Zenon
  <2> QED BY <2>1, BeginCreateStep, ZenonT(40)
<1>5. ASSUME NEW t \in Threads, NEW i \in live,
             BeginWrite(t, i) \/ \E d \in Dirs : BeginUnlink(t, d, i)
      PROVE  IInv'
  BY <1>5, BeginOtherStep, ZenonT(40)
<1> QED BY <1>1, <1>2, <1>3, <1>4, <1>5, ZenonT(40) DEF Next

\* The invariant of TableInvariants, which the four theorems rest on.
THEOREM TableInvariant == Spec => []IInv
<1>1. Init => IInv
  <2>1. IsFiniteSet({<<0, range_high>>}) /\ Cardinality({<<0, range_high>>}) = 1
    BY FS_Singleton, Zenon
  <2> QED BY <2>1, InitInv, Zenon
<1>2. IInv /\ [Next]_vars => IInv'
  BY NextInv, Zenon
<1> QED BY <1>1, <1>2, PTL DEF Spec

\* nova_alloc_unused_inode and nova_free_inuse_inode keep the ranges of a map apart
\* and counted, and a file, a file being created and a reserved number in a range.
THEOREM NumbersStayHeld == Spec => []NumbersHeld
<1>1. IInv => NumbersHeld
  BY HeldNumbers, Zenon
<1> QED BY <1>1, TableInvariant, PTL

\* However extensions of the tables, copies and switches interleave, no page is in
\* two places, none that is used is free, and every file has its page.
THEOREM PagesStayOwned == Spec => []PagesOwned
<1>1. IInv => PagesOwned
  BY OwnedPages, Zenon
<1> QED BY <1>1, TableInvariant, PTL

\* migrate_inode_page loses no update that its copy does not overlap.
THEOREM UpdatesStayKept == Spec => []UpdatesKept
<1>1. IInv => UpdatesKept
  BY KeptUpdates, Zenon
<1> QED BY <1>1, TableInvariant, PTL

\* An operation that has returned holds no mutex and no page lock, and no mapping
\* lock but of a lookup or a migration that found no page.
THEOREM LocksAreReleased == Spec => []LocksReleased
<1>1. IInv => LocksReleased
  BY ReleasedLocks, Zenon
<1> QED BY <1>1, TableInvariant, PTL
=============================================================================

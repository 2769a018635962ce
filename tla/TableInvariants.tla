-------------------------- MODULE TableInvariants ---------------------------
(***************************************************************************)
(* The inductive invariant of InodeTable, for any number of CPUs, inodes   *)
(* to a page, pages, threads and operations.                               *)
(***************************************************************************)
EXTENDS InodeTable

-----------------------------------------------------------------------------
(* The inductive invariant                                                 *)

Field == [ino : BOOLEAN, valid : BOOLEAN, val : Nat]
PC == {"idle", "number", "address", "init", "lock", "relook", "fill", "update", "attrs",
       "tail", "count", "switch", "again", "pidir", "pi_tail", "pidir_tail", "valid",
       "blocks", "evict", "clear", "release"}
Thread == [pc : PC, op : {"none", "create", "mkdir", "write", "unlink"}, cpu : Maps,
           ino : Inos, dir : Inos, pi : 0 .. NumPages, pidir : 0 .. NumPages,
           at : 0 .. NumPages]

\* Where a thread has an inode, and where the inode has a page.
Unnumbered == {"idle", "number"}
Paged == PC \ {"idle", "number", "address"}
Gone == {"evict", "clear", "release"}

\* What each operation has at each point: its inode, the addresses it will store
\* through, and the map it took the number from.
Phase(r) ==
    /\ r.pc = "idle" => r = Idle
    /\ r.pc = "number" => r.ino = 0
    /\ r.pc \in Unnumbered => r.pi = 0 /\ r.at = 0
    /\ r.pc \notin Unnumbered => internal_ino(r.ino) > range_high
    /\ r.pc = "address" => r.cpu = cpuid(r.ino)
    /\ r.pc \in {"number", "address", "init", "fill", "update", "attrs", "again"}
         => r.op \in {"create", "mkdir"}
    /\ r.pc \in {"lock", "blocks", "tail"} => r.op = "write"
    /\ r.pc = "relook" => r.op \in {"create", "mkdir", "write"}
    /\ r.pc = "pidir" => r.op # "write"
    /\ r.op = "write" => r.pidir = 0
    /\ r.pc \in Gone => r.op = "unlink"
    /\ r.pc = "valid" \/ r.pc \in Gone => r.pidir = 0
    /\ r.pc \in {"init", "lock", "blocks", "clear", "release"} => r.pi # 0
    /\ r.pc \in {"relook", "fill", "attrs", "tail", "count", "switch"} => r.at # 0

Types ==
    /\ TypeOK
    /\ latest \in [Inos -> Field]
    /\ thr \in [Threads -> Thread]
    /\ \A t \in Threads : Phase(thr[t])

\* Who holds a mutex, a mapping lock and a page lock, and which it will release.
MutexesHeld ==
    \A t \in Threads, c \in Maps :
      tmutex[c] = t <=> thr[t].pc = "address" /\ thr[t].cpu = c
MappingsHeld ==
    \A t \in Threads, c \in Maps :
      mlock[c] = t /\ c \notin leaked => thr[t].pc = "switch" /\ cpuid(thr[t].ino) = c
SwitchersHold ==
    \A t \in Threads : thr[t].pc = "switch" =>
      mlock[cpuid(thr[t].ino)] = t /\ cpuid(thr[t].ino) \notin leaked
LeakedHeld == \A c \in leaked : mlock[c] # NoThread
\* (a writer reads in the page whether nova_ino is set)
LockFor(r, flag) ==
    nova_get_specific_inode_page_lock(IF r.op = "write" /\ ~ flag THEN 0 ELSE r.ino)
Locked == {"relook", "fill", "update", "attrs", "tail"}
PageLocks ==
    \A t \in Threads, l \in Maps \X Blocks :
      plock[l] = t =>
        thr[t].pc \in Locked /\ l = LockFor(thr[t], Fields(thr[t].ino).ino)

\* The page of i is being copied by u.
SamePage(i, j) == cpuid(i) = cpuid(j) /\ superpage_count(i) = superpage_count(j)
Copying(u, i) == thr[u].pc = "switch" /\ SamePage(thr[u].ino, i)

\* Whatever page a writer looks at, it finds the same nova_ino.
SameFlag(r) ==
    /\ r.pi # 0 => mem[r.pi][r.ino].ino = Fields(r.ino).ino
    /\ r.at # 0 => mem[r.at][r.ino].ino = Fields(r.ino).ino
    /\ \A u \in Threads : Copying(u, r.ino) =>
         mem[thr[u].at][r.ino].ino = Fields(r.ino).ino
FlagsAgree == \A t \in Threads : thr[t].op = "write" => SameFlag(thr[t])

\* No two operations are on one inode, and one that is going away has no name.
OneThreadEach ==
    \A t, u \in Threads : t # u /\ thr[t].ino # 0 => thr[t].ino # thr[u].ino
GoneUnnamed == \A t \in Threads : thr[t].pc \in Gone => thr[t].ino \notin live

\* The ranges of a map, of which there is a first one, and the numbers in them.
Apart(r, s) == r[2] + 1 < s[1] \/ s[2] + 1 < r[1]
Sound(S) ==
    /\ IsFiniteSet(S) /\ S \subseteq (0 .. MAX_INODE) \X (0 .. MAX_INODE)
    /\ \A r \in S : r[1] <= r[2] /\ r[2] < MAX_INODE - 1
    /\ \A r, s \in S : r # s => Apart(r, s)
Ranges(c) ==
    /\ Sound(inuse[c]) /\ nodes[c] = Cardinality(inuse[c])
    /\ c \notin dangling => inuse[c] # {}
RangesSound == \A c \in Maps : Ranges(c)
ReservedHeld ==
    \A c \in Maps, n \in 0 .. range_high : n \in Numbers(c) \/ (c = 0 /\ n = 0)
LiveHeld == \A i \in live : InUse(i) /\ internal_ino(i) > range_high
ThreadsHeld == \A t \in Threads : thr[t].pc \notin Unnumbered => InUse(thr[t].ino)

\* An address that a thread holds, to store to inode i.
Held(r, i, p) ==
    /\ p # 0
    /\ \/ i = r.ino /\ p = r.pi
       \/ i = r.dir /\ p = r.pidir
       \/ i = r.ino /\ p = r.at /\ r.pc # "switch"

\* A page is in one place of the tables, the target of one copy, or free; the inodes
\* that are used have a page, and the addresses held are not free.
TablesApart ==
    \A c, d \in Maps, j, k \in Blocks :
      table[c][j] = table[d][k] => table[c][j] = 0 \/ (c = d /\ j = k)
TablesTaken == \A c \in Maps, k \in Blocks : table[c][k] \notin free
CopyApart(t) ==
    /\ thr[t].at \notin free
    /\ \A c \in Maps, k \in Blocks : table[c][k] # thr[t].at
    /\ \A u \in Threads : u # t /\ thr[u].pc = "switch" => thr[u].at # thr[t].at
CopiesApart == \A t \in Threads : thr[t].pc = "switch" => CopyApart(t)
LivePaged == \A i \in live : Addr(i) # 0
ThreadsPaged == \A t \in Threads : thr[t].pc \in Paged => Addr(thr[t].ino) # 0
HeldTaken ==
    \A t \in Threads, i \in Inos, p \in 1 .. NumPages :
      Held(thr[t], i, p) => p \notin free /\ Addr(i) # 0

\* The tables have no holes, a number in use has its page, and a number that is
\* about to get one lacks no page below.
NoHoles ==
    \A c \in Maps, j, k \in Blocks : j <= k /\ table[c][k] # 0 => table[c][j] # 0
Addressing(c, n) ==
    \E t \in Threads : thr[t].pc = "address" /\ thr[t].ino = n * CPUS + c
NumbersPaged ==
    \A c \in Maps : c \notin leaked =>
      \A n \in Numbers(c) : table[c][n \div NumInodes] # 0 \/ Addressing(c, n)
OnlyNextMissing ==
    \A t \in Threads : thr[t].pc = "address" /\ thr[t].cpu \notin leaked =>
      \A k \in Blocks : k < superpage_count(thr[t].ino) => table[thr[t].cpu][k] # 0

\* The stores that no copy overlapped.
FreeZero == \A p \in free : mem[p] = [i \in Inos |-> Zero]
UnpagedZero == \A i \in Inos : Addr(i) = 0 => latest[i] = Zero
PagesLatest == \A i \in Inos \ overlap : Addr(i) # 0 => Fields(i) = latest[i]
CopiesLatest ==
    \A i \in Inos \ overlap, u \in Threads : Copying(u, i) => mem[thr[u].at][i] = latest[i]
HeldCurrent ==
    \A i \in Inos \ overlap, t \in Threads, p \in 1 .. NumPages :
      Held(thr[t], i, p) => p = Addr(i) /\ \A u \in Threads : ~ Copying(u, i)

LockInv == MutexesHeld /\ MappingsHeld /\ SwitchersHold /\ LeakedHeld
OwnInv == OneThreadEach /\ GoneUnnamed
NumberInv == RangesSound /\ ReservedHeld /\ LiveHeld /\ ThreadsHeld
PageInv ==
    TablesApart /\ TablesTaken /\ CopiesApart /\ LivePaged /\ ThreadsPaged /\ HeldTaken
TableInv == NoHoles /\ NumbersPaged /\ OnlyNextMissing
UpdateInv == FreeZero /\ UnpagedZero /\ PagesLatest /\ CopiesLatest /\ HeldCurrent

IInv ==
    /\ Types /\ LockInv /\ OwnInv /\ NumberInv /\ PageInv /\ TableInv
    /\ UpdateInv /\ FlagsAgree /\ PageLocks
=============================================================================

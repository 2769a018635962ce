----------------------------- MODULE InodeTable -----------------------------
(***************************************************************************)
(* Inode numbers, the table pages that hold the inodes, the mapping tables *)
(* that find a page by inode number, and the migration of a page that was  *)
(* written too often (inode.c, mappingtable.c, wearleveling.c, nova.h).    *)
(*                                                                         *)
(* Threads create, write and remove inodes.  A thread looks the address of *)
(* an inode up under the mapping lock of its map and stores through it     *)
(* later, sometimes under the lock of the table page.  A migration copies  *)
(* the page to a new one and switches the mapping; it takes the mapping    *)
(* lock alone.  The VFS (external) keeps two operations off one inode.     *)
(*                                                                         *)
(* An inode is three fields: whether nova_ino is set, the valid byte and a *)
(* number for the rest, which grows with each change of log_tail.  Whether *)
(* a page is migrated is left open here (Wear models the counters).        *)
(* The page locks assume the number of CPUs they hard-code.                *)
(***************************************************************************)
EXTENDS Integers, FiniteSets, FiniteSetsExt

CONSTANTS
    CPUS,                    \* number of CPUs, so of maps
    NumInodes,               \* inodes in a table page
    NOVA_NORMAL_INODE_START, \* lower numbers are reserved
    MAX_INODE,               \* bound on the numbers of a map
    NumPages,                \* the pages the allocator has for the table
    Threads, NoThread,
    Dirs,                    \* the directories used, the root or made earlier
    MaxOps,                  \* bound on the operations begun
    MaxFaults                \* bound on the allocations of DRAM that fail

Root == 1

\* The highest reserved number of a map.
range_high ==
    (NOVA_NORMAL_INODE_START - 1) \div CPUS
      + IF NOVA_NORMAL_INODE_START % CPUS = 0 THEN 0 ELSE 1

ASSUME TableAssumption ==
    /\ CPUS \in Nat \ {0} /\ NumInodes \in Nat \ {0}
    /\ NOVA_NORMAL_INODE_START \in Nat \ {0, 1} /\ MAX_INODE \in Nat
    /\ NumPages \in Nat /\ NumPages >= CPUS /\ Root \in Dirs
    /\ NoThread \notin Threads /\ MaxOps \in Nat /\ MaxFaults \in Nat
    \* (16 reserved numbers, 32 inodes to a page and 2^31 numbers to a map)
    /\ range_high < NumInodes /\ range_high < MAX_INODE - 1

VARIABLES
    inuse,    \* per map, the ranges of numbers in use, <<low, high>>
    nodes,    \* per map, num_range_node_inode
    dangling, \* maps whose first_inode_range points to a range that was freed
    map_id,   \* the map that gives out the next number
    table,    \* per map, the mapping table: page of the k-th block, 0 if none
    mem,      \* table pages: per page and inode its fields
    free,     \* pages not given out
    tmutex,   \* inode_table_mutex of a map
    mlock,    \* inode_page_mapping_table_lock of a map
    plock,    \* inode page locks
    thr,      \* the threads
    live,     \* inodes that were created and not removed
    latest,   \* the fields of each inode as last stored
    overlap,  \* inodes a thread was about to store to when their page was copied
    leaked,   \* maps whose mapping lock was left held
    ops, faults

vars == <<inuse, nodes, dangling, map_id, table, mem, free, tmutex, mlock, plock, thr,
          live, latest, overlap, leaked, ops, faults>>
locks == <<tmutex, mlock, plock>>
history == <<live, latest, overlap, leaked, ops, faults>>

Maps == 0 .. CPUS - 1
Inos == 0 .. MAX_INODE * CPUS - 1
Blocks == 0 .. (MAX_INODE - 1) \div NumInodes

cpuid(ino) == ino % CPUS
internal_ino(ino) == ino \div CPUS
superpage_count(ino) == internal_ino(ino) \div NumInodes
Normal(ino) == ino >= NOVA_NORMAL_INODE_START

\* A page is zeroed when it is allocated.
Zero == [ino |-> FALSE, valid |-> FALSE, val |-> 0]
\* The page of inode ino, and its fields.
Addr(ino) == table[cpuid(ino)][superpage_count(ino)]
Fields(ino) == mem[Addr(ino)][ino]

\* A thread: where it is, the operation, its map and inode, the directory, and
\* the addresses it holds (0: none): the operation's and the callee's.
Idle == [pc |-> "idle", op |-> "none", cpu |-> 0, ino |-> 0, dir |-> 0,
         pi |-> 0, pidir |-> 0, at |-> 0]
At(r, pc) == IF pc = "idle" THEN Idle ELSE [r EXCEPT !.pc = pc, !.at = 0]
Goto(t, pc) == thr' = [thr EXCEPT ![t].pc = pc]
Leave(t) == thr' = [thr EXCEPT ![t] = Idle]
Busy == UNION {{thr[t].ino, thr[t].dir} : t \in {u \in Threads : thr[u].pc # "idle"}}
-----------------------------------------------------------------------------
(* Numbers.                                                                *)

nova_init_inode_inuse_list ==
    /\ inuse = [c \in Maps |-> {<<0, range_high>>}]
    /\ nodes = [c \in Maps |-> 1]
    /\ dangling = {}

Numbers(c) == UNION {r[1] .. r[2] : r \in inuse[c]}
InUse(ino) == internal_ino(ino) \in Numbers(cpuid(ino))
\* The range that first_inode_range points to, until it is freed: the lowest.
FirstRange(c) == CHOOSE r \in inuse[c] : \A s \in inuse[c] : r[1] <= s[1]

\* Mutant: the first range grows over the second.
AllocUnmerged(c) ==
    LET i == FirstRange(c)
    IN  IF i[2] + 1 < MAX_INODE - 1
        THEN [new |-> i[2] + 1, ranges |-> (inuse[c] \ {i}) \cup {<<i[1], i[2] + 1>>},
              nodes |-> nodes[c]]
        ELSE [new |-> 0, ranges |-> inuse[c], nodes |-> nodes[c]]
\* The number behind the first range, which merges with the second if it meets it.
nova_alloc_unused_inode(c) ==
    LET i == FirstRange(c)
        rest == inuse[c] \ {i}
        new == i[2] + 1
        next == CHOOSE r \in rest : \A s \in rest : r[1] <= s[1]
    IN  CASE rest # {} /\ new = next[1] - 1 ->
               [new |-> new, ranges |-> (rest \ {next}) \cup {<<i[1], next[2]>>},
                nodes |-> nodes[c] - 1]
          [] new < (IF rest = {} THEN MAX_INODE ELSE next[1]) - 1 ->
               [new |-> new, ranges |-> rest \cup {<<i[1], new>>}, nodes |-> nodes[c]]
          [] OTHER -> [new |-> 0, ranges |-> inuse[c], nodes |-> nodes[c]]

\* What is left of the range r of map c when n leaves it.  When a range is to be
\* split and there is no memory for the second part, n stays.
nova_free_inuse_inode(c, n, oom) ==
    LET holding == {r \in inuse[c] : n \in r[1] .. r[2]}
        r == CHOOSE s \in holding : TRUE
        left == IF r[1] < n THEN {<<r[1], n - 1>>} ELSE {}
        right == IF n < r[2] THEN {<<n + 1, r[2]>>} ELSE {}
    IN  IF holding = {} \/ (oom /\ left # {} /\ right # {})
        THEN [ranges |-> inuse[c], nodes |-> nodes[c], dangling |-> dangling]
        ELSE [ranges |-> (inuse[c] \ {r}) \cup left \cup right,
              nodes |-> nodes[c] - 1 + Cardinality(left) + Cardinality(right),
              dangling |-> IF r = FirstRange(c) /\ left \cup right = {}
                           THEN dangling \cup {c} ELSE dangling]
-----------------------------------------------------------------------------
(* Addresses.  A lookup that fails returns with the mapping lock held.     *)

\* The pages of map c up to the one of ino that the table does not have.
Missing(ino) == {k \in 0 .. superpage_count(ino) : table[cpuid(ino)][k] = 0}
NewPage == Min(free)

\* Look up, without extending the table: inodes in use have a page.
nova_get_inode_address(ino) ==
    mlock[cpuid(ino)] = NoThread /\ Addr(ino) # 0

\* nova_get_inode: reserved inodes are not in the table pages, but the lookup is
\* done for them too.
nova_get_inode(ino) == IF Normal(ino) THEN Addr(ino) ELSE 0

\* The fields of an inode after a store: the number of a new inode, the attributes
\* and the log tail, the valid flag, and what nova_free_inode clears.
Changed(f, what) ==
    CASE what = "number" -> [f EXCEPT !.ino = TRUE, !.val = 0]
      [] what = "value" -> [f EXCEPT !.val = @ + 1]
      [] what = "valid" -> [f EXCEPT !.valid = TRUE]
      [] what = "invalid" -> [f EXCEPT !.valid = FALSE]
      [] what = "clear" -> [f EXCEPT !.valid = FALSE, !.val = 0]

\* A store to the fields of ino at address page (the fields of reserved inodes are
\* left out).
Store(page, ino, what) ==
    IF page = 0 THEN UNCHANGED <<mem, latest>>
    ELSE /\ mem' = [mem EXCEPT ![page][ino] = Changed(@, what)]
         /\ latest' = [latest EXCEPT ![ino] = Changed(@, what)]
Stored(page, ino, what) ==
    /\ Store(page, ino, what)
    /\ UNCHANGED <<inuse, nodes, dangling, map_id, table, free, tmutex, mlock, overlap, leaked, ops, faults>>

\* pi->nova_ino, and the lock of the page it names.
nova_ino(page, ino) == IF mem[page][ino].ino THEN ino ELSE 0
nova_get_specific_inode_page_lock(ino) == <<cpuid(ino), superpage_count(ino)>>
LockOf(r, page) == nova_get_specific_inode_page_lock(
                      IF r.op = "write" THEN nova_ino(page, r.ino) ELSE r.ino)

\* Copy the page of ino to a new one, then switch the mapping.  When there is no
\* page, this too returns with the mapping lock held.  The old page is not freed.
CopyPage(t, ino, next) ==
    LET c == cpuid(ino)
        held == {<<thr[u].ino, thr[u].pi>> : u \in Threads}
                  \cup {<<thr[u].ino, thr[u].at>> : u \in Threads \ {t}}
                  \cup {<<thr[u].dir, thr[u].pidir>> : u \in Threads}
    IN  /\ nova_get_inode_address(ino)
        /\ mlock' = [mlock EXCEPT ![c] = t]
        /\ IF free = {}
           THEN /\ leaked' = leaked \cup {c}
                /\ thr' = [thr EXCEPT ![t] = At(@, next)]
                /\ UNCHANGED <<mem, free, overlap>>
           ELSE /\ mem' = [mem EXCEPT ![NewPage] = mem[Addr(ino)]]
                /\ free' = free \ {NewPage}
                /\ thr' = [thr EXCEPT ![t].pc = "switch", ![t].at = NewPage]
                /\ overlap' = overlap \cup {h[1] : h \in {g \in held : g[2] = Addr(ino)}}
                /\ UNCHANGED leaked
        /\ UNCHANGED <<inuse, nodes, dangling, map_id, table, tmutex, plock, live, latest, ops, faults>>

\* Mutant: the block of the inode's number is switched.
SwitchByNumber(t, ino, next) ==
    /\ table' = [table EXCEPT ![cpuid(ino)][internal_ino(ino) % NumInodes] = thr[t].at]
    /\ mlock' = [mlock EXCEPT ![cpuid(ino)] = NoThread]
    /\ thr' = [thr EXCEPT ![t] = At(@, next)]
    /\ UNCHANGED <<inuse, nodes, dangling, map_id, mem, free, tmutex, plock, history>>
\* Mutant: the new page is freed in place of the old one.
SwitchFreesNew(t, ino, next) ==
    /\ table' = [table EXCEPT ![cpuid(ino)][superpage_count(ino)] = thr[t].at]
    /\ free' = free \cup {thr[t].at}
    /\ mlock' = [mlock EXCEPT ![cpuid(ino)] = NoThread]
    /\ thr' = [thr EXCEPT ![t] = At(@, next)]
    /\ UNCHANGED <<inuse, nodes, dangling, map_id, mem, tmutex, plock, history>>
\* Mutant: the mapping lock is not released.
SwitchKeepsLock(t, ino, next) ==
    /\ table' = [table EXCEPT ![cpuid(ino)][superpage_count(ino)] = thr[t].at]
    /\ thr' = [thr EXCEPT ![t] = At(@, next)]
    /\ UNCHANGED <<inuse, nodes, dangling, map_id, mem, free, locks, history>>
SwitchPage(t, ino, next) ==
    /\ table' = [table EXCEPT ![cpuid(ino)][superpage_count(ino)] = thr[t].at]
    /\ mlock' = [mlock EXCEPT ![cpuid(ino)] = NoThread]
    /\ thr' = [thr EXCEPT ![t] = At(@, next)]
    /\ UNCHANGED <<inuse, nodes, dangling, map_id, mem, free, tmutex, plock, history>>

\* The page that was written is migrated or is not; an inode whose nova_ino is
\* not set counts as reserved.
inode_page_count_increase_with_migrate(t, next) ==
    LET r == thr[t]
    IN  /\ r.pc = "count"
        /\ \/ /\ thr' = [thr EXCEPT ![t] = At(@, next)]
              /\ UNCHANGED <<inuse, nodes, dangling, map_id, table, mem, free, locks, history>>
           \/ Normal(nova_ino(r.at, r.ino)) /\ CopyPage(t, r.ino, next)
-----------------------------------------------------------------------------
(* Creating.                                                               *)

Begin(t) == thr[t].pc = "idle" /\ ops < MaxOps /\ ops' = ops + 1

NextMap(m) == (m + 1) % CPUS

\* nova_create and nova_mknod take the address of the directory first, nova_mkdir
\* takes it when it commits.
BeginCreate(t, op, d) ==
    /\ Begin(t)
    /\ d \in (Dirs \cap (live \cup {Root})) \ Busy
    /\ op = "create" => nova_get_inode_address(d)
    /\ thr' = [thr EXCEPT ![t] =
          [Idle EXCEPT !.pc = "number", !.op = op, !.cpu = map_id, !.dir = d,
                       !.pidir = IF op = "create" THEN nova_get_inode(d) ELSE 0]]
    /\ map_id' = NextMap(map_id)
    /\ UNCHANGED <<inuse, nodes, dangling, table, mem, free, locks, live, latest, overlap, leaked, faults>>

\* nova_new_nova_inode: a number, then its address, under the mutex of the map.  What
\* a map does whose first range was freed is not modelled.
NewNumber(t) ==
    LET c == thr[t].cpu
        a == nova_alloc_unused_inode(c)
    IN  /\ thr[t].pc = "number" /\ tmutex[c] = NoThread /\ c \notin dangling
        /\ inuse' = [inuse EXCEPT ![c] = a.ranges]
        /\ nodes' = [nodes EXCEPT ![c] = a.nodes]
        /\ IF a.new = 0 THEN Leave(t) /\ UNCHANGED tmutex
           ELSE /\ thr' = [thr EXCEPT ![t].pc = "address", ![t].ino = a.new * CPUS + c]
                /\ tmutex' = [tmutex EXCEPT ![c] = t]
        /\ UNCHANGED <<dangling, map_id, table, mem, free, mlock, plock, history>>

\* The table is extended by the page that is missing (numbers are given out from
\* the lowest, so it is one).  Without a page the number is not given back.
NewAddress(t) ==
    LET c == thr[t].cpu
        ino == thr[t].ino
        missing == Missing(ino)
    IN  /\ thr[t].pc = "address" /\ mlock[c] = NoThread
        /\ tmutex' = [tmutex EXCEPT ![c] = NoThread]
        /\ IF missing # {} /\ free = {}
           THEN /\ mlock' = [mlock EXCEPT ![c] = t]
                /\ leaked' = leaked \cup {c}
                /\ Leave(t)
                /\ UNCHANGED <<table, free>>
           ELSE /\ table' = [table EXCEPT ![c] = [k \in Blocks |->
                                IF k \in missing THEN NewPage ELSE @[k]]]
                /\ free' = IF missing = {} THEN free ELSE free \ {NewPage}
                /\ thr' = [thr EXCEPT ![t].pc = "init",
                                      ![t].pi = table'[c][superpage_count(ino)]]
                /\ UNCHANGED <<mlock, leaked>>
        /\ UNCHANGED <<inuse, nodes, dangling, map_id, mem, plock, live, latest, overlap, ops, faults>>

\* nova_new_vfs_inode: the page is locked and, if the inode was used before, its
\* address looked up again; without memory for it the operation ends.
LockPage(t) ==
    LET r == thr[t]
        lock == LockOf(r, r.pi)
    IN  /\ r.pc \in {"init", "lock"} /\ plock[lock] = NoThread
        /\ plock' = [plock EXCEPT ![lock] = t]
        /\ thr' = [thr EXCEPT ![t] = [@ EXCEPT
              !.pc = IF nova_ino(r.pi, r.ino) > 1 THEN "relook"
                     ELSE IF r.op = "write" THEN "tail" ELSE "fill",
              !.at = r.pi,
              !.pi = IF r.op = "create" THEN r.pi ELSE 0]]
        /\ UNCHANGED <<inuse, nodes, dangling, map_id, table, mem, free, tmutex, mlock, history>>

NoInode(t) ==
    /\ thr[t].pc = "init" /\ faults < MaxFaults
    /\ faults' = faults + 1
    /\ Leave(t)
    /\ UNCHANGED <<inuse, nodes, dangling, map_id, table, mem, free, locks, live, latest, overlap, leaked, ops>>

nova_get_inode_by_ino_or_pi_addr(t) ==
    LET r == thr[t]
    IN  /\ r.pc = "relook" /\ nova_get_inode_address(r.ino)
        /\ thr' = [thr EXCEPT ![t].pc = IF r.op = "write" THEN "tail" ELSE "fill",
                              ![t].at = Addr(r.ino)]
        /\ UNCHANGED <<inuse, nodes, dangling, map_id, table, mem, free, locks, history>>

\* The fields of a new inode; then nova_update_inode looks the address up once
\* more and stores the others.
Fill(t) ==
    /\ thr[t].pc = "fill"
    /\ Stored(thr[t].at, thr[t].ino, "number")
    /\ thr' = [thr EXCEPT ![t].pc = "update", ![t].at = 0]
    /\ UNCHANGED <<plock, live>>

nova_update_inode(t) ==
    /\ thr[t].pc = "update" /\ nova_get_inode_address(thr[t].ino)
    /\ thr' = [thr EXCEPT ![t].pc = "attrs", ![t].at = Addr(thr[t].ino)]
    /\ UNCHANGED <<inuse, nodes, dangling, map_id, table, mem, free, locks, history>>

\* Mutant: the page stays locked.
StoreKeepsLock(t) ==
    /\ thr[t].pc \in {"attrs", "tail"}
    /\ Stored(thr[t].at, thr[t].ino, "value")
    /\ Goto(t, "count")
    /\ UNCHANGED <<plock, live>>
\* The stores of nova_update_inode and of nova_update_tail_wwb, and the unlock.
StoreUnlock(t) ==
    LET r == thr[t]
    IN  /\ r.pc \in {"attrs", "tail"}
        /\ Stored(r.at, r.ino, "value")
        /\ plock' = [plock EXCEPT ![LockOf(r, r.at)] = NoThread]
        /\ Goto(t, "count")
        /\ UNCHANGED live

\* nova_mkdir takes both addresses when it commits.
Again(t) ==
    /\ thr[t].pc = "again" /\ nova_get_inode_address(thr[t].ino)
    /\ thr' = [thr EXCEPT ![t].pc = "pidir", ![t].pi = Addr(thr[t].ino)]
    /\ UNCHANGED <<inuse, nodes, dangling, map_id, table, mem, free, locks, history>>

Pidir(t) ==
    /\ thr[t].pc = "pidir" /\ nova_get_inode_address(thr[t].dir)
    /\ thr' = [thr EXCEPT ![t].pc = IF thr[t].op = "unlink" THEN "pi_tail" ELSE "pidir_tail",
                          ![t].pidir = nova_get_inode(thr[t].dir)]
    /\ UNCHANGED <<inuse, nodes, dangling, map_id, table, mem, free, locks, history>>

\* nova_lite_transaction_for_new_inode and, with pi_tail, _for_time_and_link: the
\* stores go to the addresses held, under no lock of the table.
PiTail(t) ==
    /\ thr[t].pc = "pi_tail"
    /\ Stored(thr[t].pi, thr[t].ino, "value")
    /\ Goto(t, "pidir_tail")
    /\ UNCHANGED <<plock, live>>

PidirTail(t) ==
    /\ thr[t].pc = "pidir_tail"
    /\ Stored(thr[t].pidir, thr[t].dir, "value")
    /\ thr' = [thr EXCEPT ![t].pc = "valid", ![t].pidir = 0]
    /\ UNCHANGED <<plock, live>>

Valid(t) ==
    LET r == thr[t]
        new == r.op # "unlink"
    IN  /\ r.pc = "valid"
        /\ Stored(r.pi, r.ino, IF new THEN "valid" ELSE "invalid")
        /\ live' = IF new THEN live \cup {r.ino} ELSE live \ {r.ino}
        /\ IF new THEN Leave(t)
           ELSE thr' = [thr EXCEPT ![t].pc = "evict", ![t].pi = 0]
        /\ UNCHANGED plock
-----------------------------------------------------------------------------
(* Writing and removing.                                                   *)

BeginWrite(t, i) ==
    /\ Begin(t)
    /\ i \in live \ Busy /\ nova_get_inode_address(i)
    /\ thr' = [thr EXCEPT ![t] = [Idle EXCEPT !.pc = "blocks", !.op = "write", !.cpu = cpuid(i),
                                             !.ino = i, !.pi = Addr(i)]]
    /\ UNCHANGED <<inuse, nodes, dangling, map_id, table, mem, free, locks, live, latest, overlap, leaked, faults>>

\* nova_cow_file_write adds to i_blocks through the address it took first.
WriteBlocks(t) ==
    /\ thr[t].pc = "blocks"
    /\ Stored(thr[t].pi, thr[t].ino, "value")
    /\ Goto(t, "lock")
    /\ UNCHANGED <<plock, live>>

BeginUnlink(t, d, i) ==
    /\ Begin(t)
    /\ d \in (Dirs \cap (live \cup {Root})) \ Busy
    /\ i \in live \ (Dirs \cup Busy) /\ nova_get_inode_address(i)
    /\ thr' = [thr EXCEPT ![t] = [Idle EXCEPT !.pc = "pidir", !.op = "unlink", !.cpu = cpuid(i),
                                             !.ino = i, !.dir = d, !.pi = Addr(i)]]
    /\ UNCHANGED <<inuse, nodes, dangling, map_id, table, mem, free, locks, live, latest, overlap, leaked, faults>>

\* nova_free_inode: the inode is cleared, with the page locked for i_blocks.
Evict(t) ==
    /\ thr[t].pc = "evict" /\ nova_get_inode_address(thr[t].ino)
    /\ thr' = [thr EXCEPT ![t] = [@ EXCEPT !.pc = "clear", !.pi = Addr(thr[t].ino), !.dir = 0]]
    /\ UNCHANGED <<inuse, nodes, dangling, map_id, table, mem, free, locks, history>>

Clear(t) ==
    LET r == thr[t]
    IN  /\ r.pc = "clear"
        /\ plock[nova_get_specific_inode_page_lock(nova_ino(r.pi, r.ino))] = NoThread
        /\ Stored(r.pi, r.ino, "clear")
        /\ Goto(t, "release")
        /\ UNCHANGED <<plock, live>>

\* The number is the one the inode holds.
Release(t) ==
    LET ino == nova_ino(thr[t].pi, thr[t].ino)
        c == cpuid(ino)
    IN  /\ thr[t].pc = "release" /\ tmutex[c] = NoThread
        /\ \E oom \in {FALSE} \cup {faults < MaxFaults} :
             LET f == nova_free_inuse_inode(c, internal_ino(ino), oom)
             IN  /\ inuse' = [inuse EXCEPT ![c] = f.ranges]
                 /\ nodes' = [nodes EXCEPT ![c] = f.nodes]
                 /\ dangling' = f.dangling
                 /\ faults' = IF oom THEN faults + 1 ELSE faults
        /\ Leave(t)
        /\ UNCHANGED <<map_id, table, mem, free, locks, live, latest, overlap, leaked, ops>>
-----------------------------------------------------------------------------
nova_init_inode_table ==
    /\ table = [c \in Maps |-> [k \in Blocks |-> IF k = 0 THEN c + 1 ELSE 0]]
    /\ free = CPUS + 1 .. NumPages
    /\ mem = [p \in 1 .. NumPages |-> [i \in Inos |-> Zero]]
    /\ mlock = [c \in Maps |-> NoThread]
    /\ plock = [l \in Maps \X Blocks |-> NoThread]

Init ==
    /\ nova_init_inode_inuse_list
    /\ nova_init_inode_table
    /\ map_id = 0 /\ tmutex = [c \in Maps |-> NoThread]
    /\ thr = [t \in Threads |-> Idle]
    /\ live = {} /\ latest = [i \in Inos |-> Zero]
    /\ overlap = {} /\ leaked = {} /\ ops = 0 /\ faults = 0

AfterCount(t) ==
    CASE thr[t].op = "create" -> "pidir_tail"
      [] thr[t].op = "mkdir" -> "again"
      [] OTHER -> "idle"

Migrate(t) ==
    \/ inode_page_count_increase_with_migrate(t, AfterCount(t))
    \/ thr[t].pc = "switch" /\ SwitchPage(t, thr[t].ino, AfterCount(t))

Step(t) ==
    \/ NewNumber(t) \/ NewAddress(t) \/ LockPage(t) \/ nova_get_inode_by_ino_or_pi_addr(t)
    \/ Fill(t) \/ nova_update_inode(t) \/ StoreUnlock(t) \/ Migrate(t) \/ Again(t)
    \/ Pidir(t) \/ PiTail(t) \/ PidirTail(t) \/ Valid(t) \/ WriteBlocks(t)
    \/ Evict(t) \/ Clear(t) \/ Release(t)

Next ==
    \E t \in Threads :
      \/ Step(t) \/ NoInode(t)
      \/ \E d \in Dirs : BeginCreate(t, "create", d) \/ BeginCreate(t, "mkdir", d)
      \/ \E i \in live : BeginWrite(t, i) \/ \E d \in Dirs : BeginUnlink(t, d, i)

Spec == Init /\ [][Next]_vars
-----------------------------------------------------------------------------
TypeOK ==
    /\ inuse \in [Maps -> SUBSET ((0 .. MAX_INODE) \X (0 .. MAX_INODE))]
    /\ nodes \in [Maps -> Nat] /\ map_id \in Maps
    /\ table \in [Maps -> [Blocks -> 0 .. NumPages]]
    /\ mem \in [1 .. NumPages -> [Inos -> [ino : BOOLEAN, valid : BOOLEAN, val : Nat]]]
    /\ free \subseteq 1 .. NumPages
    /\ tmutex \in [Maps -> Threads \cup {NoThread}]
    /\ mlock \in [Maps -> Threads \cup {NoThread}]
    /\ plock \in [Maps \X Blocks -> Threads \cup {NoThread}]
    /\ live \cup overlap \subseteq Inos /\ leaked \cup dangling \subseteq Maps

Creating == {thr[t].ino : t \in {u \in Threads : thr[u].op \in {"create", "mkdir"} /\ thr[u].ino # 0}}

\* nova_alloc_unused_inode and nova_free_inuse_inode: the ranges of a map neither
\* overlap nor touch, num_range_node_inode counts them, and every file, every file
\* being created and every reserved number but 0 is in a range.
NumbersHeld ==
    /\ \A c \in Maps :
         /\ nodes[c] = Cardinality(inuse[c])
         /\ \A r \in inuse[c] : r[1] <= r[2]
         /\ \A r, s \in inuse[c] : r # s => r[2] + 1 < s[1] \/ s[2] + 1 < r[1]
    /\ \A i \in live \cup Creating \cup 1 .. NOVA_NORMAL_INODE_START - 1 : InUse(i)

\* The pages of the tables are distinct and the allocator does not have them, and a
\* file has its page, whatever migrations and extensions of the table interleave.
PagesOwned ==
    LET mapped == {p \in Maps \X Blocks : table[p[1]][p[2]] # 0}
    IN  /\ \A p, q \in mapped : p # q => table[p[1]][p[2]] # table[q[1]][q[2]]
        /\ \A p \in mapped : table[p[1]][p[2]] \notin free
        /\ \A i \in live : Addr(i) # 0

\* migrate_inode_page loses no update that it does not overlap: the inode found
\* through the mapping table has the fields last stored, unless its page was copied
\* while a thread held an address in it for a later store.
UpdatesKept ==
    \A i \in Inos : Normal(i) /\ Addr(i) # 0 /\ i \notin overlap => Fields(i) = latest[i]

\* A thread that has returned holds no lock, but the mapping lock of a lookup or a
\* migration that found no page.
LocksReleased ==
    \A t \in Threads : thr[t].pc = "idle" =>
        /\ \A c \in Maps : tmutex[c] # t /\ (mlock[c] = t => c \in leaked)
        /\ \A l \in DOMAIN plock : plock[l] # t

\* The mutexes are taken in an order that never leaves all threads waiting, so that
\* every operation returns, unless an allocation of a page has failed or a map lost
\* its first range.  (No step of
\* an operation is repeated: a thread that is never stuck returns.)
NeverStuck ==
    (\E t \in Threads : thr[t].pc # "idle") /\ leaked \cup dangling = {} =>
        \E t \in Threads : ENABLED Step(t)

\* "each directory operation is atomic" (README.md): the inode of a file that was
\* created is valid, so that its name does not lead to an invalid inode.
CreatedValid == \A i \in live : Fields(i).valid
=============================================================================

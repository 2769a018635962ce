------------------------------- MODULE Mount --------------------------------
(***************************************************************************)
(* The life of a mounted instance (super.c, bbuild.c): a mount with the    *)
(* init option formats the device, an unmount saves the inode numbers in   *)
(* use and the free block ranges in the logs of two special inodes, power  *)
(* may fail at any step, and a mount without init is to take up what is    *)
(* there.                                                                  *)
(*                                                                         *)
(* Stores are flushed at once but durable only after a fence: "pend" holds *)
(* the stores since the last fence, "nvm" the durable contents, and a      *)
(* power failure keeps any of the pending stores.  A saved log is a chain  *)
(* of pages whose next pointers are fenced before its head is stored, so a *)
(* head stands for its chain; a tail is a number of entries.               *)
(*                                                                         *)
(* Operations of the mounted file system are modelled elsewhere (InodeTable *)
(* and Balloc); here they leave any set of inode numbers in use and any    *)
(* blocks free.                                                            *)
(***************************************************************************)
EXTENDS Integers, FiniteSets, Sequences, FiniteSetsExt, SequencesExt, Functions

CONSTANTS
    CPUS,                \* sbi->cpus
    NumBlocks,           \* sbi->num_blocks
    Reserved,            \* sbi->reserved_blocks
    MaxInternal,         \* bound: internal inode numbers per map
    RANGENODE_PER_PAGE,  \* range entries that fit in a log page
    MaxBoots             \* bound: power failures and mounts

ASSUME MountAssumption ==
    /\ CPUS \in Nat \ {0} /\ NumBlocks \in Nat /\ Reserved \in 1 .. NumBlocks
    /\ MaxInternal \in Nat \ {0} /\ RANGENODE_PER_PAGE \in Nat \ {0}

VARIABLES
    phase,       \* what the mount, or the unmount, of the device does next
    nvm, pend,   \* durable contents, and the stores since the last fence
    inuse,       \* per CPU: the internal numbers in the in-use tree
    free,        \* the blocks of the free lists
    log,         \* the chain of pages the save in progress has allocated
    page_locks,  \* inode_page_locks: "null", "free", or the lock of inode 3 "held"
    saved,       \* the entries being saved; history: the lists as last saved
    formatted,   \* history: nova_init has returned
    boots

vars == <<phase, nvm, pend, inuse, free, log, page_locks, saved,
          formatted, boots>>

Cpus == 0 .. CPUS - 1
Blocks == 0 .. NumBlocks - 1
Internal == 0 .. MaxInternal - 1
PerList == NumBlocks \div CPUS
SHARED_CPU == CPUS
Lists == Cpus \cup {SHARED_CPU}
Region(c) == {b \in Blocks : (IF b \div PerList >= CPUS THEN SHARED_CPU ELSE b \div PerList) = c}

\* The inodes the saves go to: the reserved slots of the inode list (6) and of
\* the block list (3), and inode 3's place in the inode table.
Slots == {"inodelist", "blocknode", "diverted"}

NothingSaved ==
    [inodes |-> [c \in Cpus |-> {}], blocks |-> [c \in Lists |-> {}], entries |-> 0]

\* The pages a format allocates on its CPU: a journal page and an inode table
\* page per CPU, and the first log page of the root directory.
Meta == Reserved .. Reserved + 2 * CPUS

-----------------------------------------------------------------------------
(* Persistence.                                                            *)

\* The contents once a set of stores has reached the device.
Apply(m, stores) ==
    [a \in DOMAIN m \cup {s[1] : s \in stores} |->
        IF \E s \in stores : s[1] = a THEN (CHOOSE s \in stores : s[1] = a)[2] ELSE m[a]]

Store(stores) == pend' = {s \in pend : \A w \in stores : w[1] # s[1]} \cup stores
Fence == nvm' = Apply(nvm, pend) /\ pend' = {}
FenceThenStore(stores) == nvm' = Apply(Apply(nvm, pend), stores) /\ pend' = {}

Read(m, a, default) == IF a \in DOMAIN m THEN m[a] ELSE default
HeadOf(m, slot) == Read(m, <<"head", slot>>, <<>>)
TailOf(m, slot) == Read(m, <<"tail", slot>>, 0)

-----------------------------------------------------------------------------
(* Range nodes and their log entries.                                      *)

\* The nodes of a range tree that holds the numbers s, as <<low, high>>.
Nodes(s) ==
    {r \in s \X s : /\ r[1] <= r[2]
                    /\ r[1] .. r[2] \subseteq s
                    /\ r[1] - 1 \notin s /\ r[2] + 1 \notin s}

InOrder(nodes) == SetToSortSeq(nodes, LAMBDA x, y : x[1] < y[1])

\* The entries for the trees of several CPUs, in the order they are saved.
Entries(cpus, tree) ==
    FlattenSeq([i \in 1 .. cpus |->
        LET nodes == InOrder(Nodes(tree[i - 1]))
        IN  [k \in DOMAIN nodes |-> <<i - 1, nodes[k][1], nodes[k][2]>>]])

InodeEntries == Entries(CPUS, inuse)

\* Mutant: the ranges as they were before the pages of the log were allocated.
BlockEntriesBefore ==
    LET all == Entries(CPUS + 1, [c \in 0 .. CPUS |-> (free \cup Range(log)) \cap Region(c)])
    IN  [k \in DOMAIN all |-> <<0, all[k][2], all[k][3]>>]

\* Block entries carry no CPU.
BlockEntries ==
    LET all == Entries(CPUS + 1, [c \in 0 .. CPUS |-> free \cap Region(c)])
    IN  [k \in DOMAIN all |-> <<0, all[k][2], all[k][3]>>]

\* Mutant: the last, partly filled page is not counted.
PagesRoundedDown(n) == n \div RANGENODE_PER_PAGE

\* The log pages that hold n entries.
Pages(n) == n \div RANGENODE_PER_PAGE + IF n % RANGENODE_PER_PAGE > 0 THEN 1 ELSE 0

\* nova_allocate_inode_log_pages: allocations take the front of free ranges.
Allocations(n) ==
    {P \in kSubset(n, free) :
        \A b \in P, c \in Lists :
            {b, b - 1} \subseteq Region(c) /\ b - 1 \in free => b - 1 \in P}

\* The place of the i-th entry in a chain, as page and index.
Place(chain, i) ==
    <<"entry", chain[(i - 1) \div RANGENODE_PER_PAGE + 1], (i - 1) % RANGENODE_PER_PAGE>>
Room(chain) == Len(chain) * RANGENODE_PER_PAGE

\* nova_save_range_nodes_to_log: an entry past the last page is not stored
\* ("inode log reaches end?"), the tail moves on all the same.
nova_save_range_nodes_to_log(chain, entries) ==
    {<<Place(chain, i), entries[i]>> : i \in {j \in DOMAIN entries : j <= Room(chain)}}

-----------------------------------------------------------------------------
(* Reading the lists back.                                                 *)

\* nova_can_skip_full_scan asks first whether the block list has a log.
HasLog(m, slot) == HeadOf(m, slot) # <<>> /\ TailOf(m, slot) # 0

\* The contents without the entries no log with a head and a tail leads to.
Reachable(m) ==
    LET pages == UNION {Range(HeadOf(m, s)) : s \in {x \in Slots : HasLog(m, x)}}
    IN  [a \in {x \in DOMAIN m : x[1] = "entry" => x[2] \in pages} |-> m[a]]

\* The walk from head to tail fails when the chain ends first; a place that was
\* never stored holds whatever the page held before.
Readable(m, slot) == HeadOf(m, slot) # <<>> /\ TailOf(m, slot) <= Room(HeadOf(m, slot))
LogOf(m, slot) ==
    {Read(m, Place(HeadOf(m, slot), i), <<0, 0, 0>>) : i \in 1 .. TailOf(m, slot)}

\* nova_init_inode_list_from_inode: the in-use maps.
nova_init_inode_list_from_inode(m) ==
    [c \in Cpus |-> UNION {e[2] .. e[3] : e \in {x \in LogOf(m, "inodelist") : x[1] = c}}]

\* nova_init_blockmap_from_inode: a range goes to the list of its first block.
nova_init_blockmap_from_inode(m, slot) ==
    [c \in Lists |-> UNION {e[2] .. e[3] : e \in {x \in LogOf(m, slot) : x[2] \in Region(c)}}]

-----------------------------------------------------------------------------
(* Format: a mount with the init option.                                   *)

\* nova_fill_super up to nova_init, and nova_init up to the inode table: the
\* reserved area is cleared and the magic number stored; then the journals and
\* the inode table are set up, each ending in a barrier.  The mapping tables
\* and page locks are new, so inode 3's place in the table is an empty one.
nova_init ==
    /\ phase = "off" /\ boots < MaxBoots
    /\ boots' = boots + 1
    /\ phase' = "tables"
    /\ pend' = {<<<<"super", "1">>, "magic">>, <<<<"super", "2">>, "bad">>,
                <<<<"root", "1">>, "bad">>}
               \cup {<<<<"head", s>>, <<>>>> : s \in {"inodelist", "blocknode"}}
               \cup {<<<<"tail", s>>, 0>> : s \in {"inodelist", "blocknode"}}
    /\ nvm' = [a \in DOMAIN nvm \ {<<"head", "diverted">>, <<"tail", "diverted">>} |-> nvm[a]]
    /\ formatted' = FALSE
    /\ UNCHANGED <<inuse, free, log, page_locks, saved>>

\* nova_init_blockmap, nova_lite_journal_hard_init, nova_init_inode_inuse_list
\* and nova_init_inode_table, after whose barrier nothing refers to the old
\* logs; when an allocation fails nova_fill_super releases
\* what it has and the mount fails.
InitTables ==
    /\ phase = "tables"
    /\ \/ /\ phase' = "super"
          /\ free' = UNION {Region(c) : c \in Cpus} \ (0 .. Reserved - 1 \cup Meta)
          /\ inuse' = [c \in Cpus |-> {0}]
       \/ /\ phase' = "off"
          /\ UNCHANGED <<free, inuse>>
    /\ page_locks' = "free"
    /\ nvm' = Reachable(Apply(nvm, pend))
    /\ pend' = {}
    /\ saved' = NothingSaved
    /\ UNCHANGED <<log, formatted, boots>>

\* nova_sync_super and its copy are flushed, then the root inode is filled.
InitSuper ==
    /\ phase = "super"
    /\ phase' = "root"
    /\ Store({<<<<"super", "1">>, "good">>, <<<<"super", "2">>, "good">>,
              <<<<"root", "1">>, "good">>})
    /\ UNCHANGED <<nvm, inuse, free, log, page_locks, saved, formatted, boots>>

\* Mutant: no barrier at the end of the format.
InitRootUnfenced ==
    /\ phase = "root"
    /\ phase' = "run"
    /\ formatted' = TRUE
    /\ UNCHANGED <<nvm, pend, inuse, free, log, page_locks, saved, boots>>

\* nova_append_dir_init_entries and the final barrier.
InitRoot ==
    /\ phase = "root"
    /\ phase' = "run"
    /\ Fence
    /\ formatted' = TRUE
    /\ UNCHANGED <<inuse, free, log, page_locks, saved, boots>>

\* The mounted file system has created and deleted files.
Work ==
    /\ phase = "run"
    /\ inuse' \in [Cpus -> {S \in SUBSET Internal : 0 \in S}]
    /\ free' \in SUBSET (UNION {Region(c) : c \in Cpus} \ (0 .. Reserved - 1 \cup Meta))
    /\ phase' = "unmount"
    /\ UNCHANGED <<nvm, pend, log, page_locks, saved, formatted, boots>>

-----------------------------------------------------------------------------
(* Unmount: nova_put_super.                                                *)

\* Allocation of the pages of a saved log; with too few free blocks it returns
\* what there is, nothing is saved and the pages are not given back.
AllocateLog(n, ok, failed) ==
    /\ \/ /\ n > 0
          /\ \E P \in Allocations(n) :
                log' = SetToSortSeq(P, <) /\ free' = free \ P
          /\ phase' = ok
       \/ /\ n = 0 \/ Cardinality(free) < n
          /\ log' = <<>> /\ free' = {}
          /\ phase' = failed
    /\ Fence

\* nova_save_inode_list_to_log counts the nodes and allocates the pages.
CountInodes ==
    /\ phase = "unmount"
    /\ AllocateLog(Pages(Len(InodeEntries)), "inodes", "blocks")
    /\ UNCHANGED <<inuse, page_locks, saved, formatted, boots>>

\* Its head and its entries are stored; the trees are emptied.
nova_save_inode_list_to_log ==
    /\ phase = "inodes"
    /\ Store({<<<<"head", "inodelist">>, log>>}
             \cup nova_save_range_nodes_to_log(log, InodeEntries))
    /\ saved' = [saved EXCEPT !.inodes = inuse, !.entries = Len(InodeEntries)]
    /\ inuse' = [c \in Cpus |-> {}]
    /\ phase' = "inodetail"
    /\ UNCHANGED <<nvm, free, log, page_locks, formatted, boots>>

\* Mutant: no barrier before the tail.
TailUnordered(slot) ==
    nvm' = Apply(nvm, {<<<<"tail", slot>>, saved.entries>>}) /\ UNCHANGED pend

\* nova_update_tail_wwb: a barrier, then the tail, flushed with a fence.
nova_update_tail_wwb(slot) ==
    FenceThenStore({<<<<"tail", slot>>, saved.entries>>})

SaveInodeTail ==
    /\ phase = "inodetail"
    /\ nova_update_tail_wwb("inodelist")
    /\ phase' = "blocks"
    /\ log' = <<>>
    /\ UNCHANGED <<inuse, free, page_locks, saved, formatted, boots>>

\* nova_save_blocknode_mappings_to_log counts after the inode list has its
\* pages ("Save everything before blocknode mapping!"); by then the in-use maps
\* are saved or lost.
CountBlocks ==
    /\ phase = "blocks"
    /\ AllocateLog(Pages(Len(BlockEntries)), "ranges", "off")
    /\ inuse' = [c \in Cpus |-> {}]
    /\ UNCHANGED <<page_locks, saved, formatted, boots>>

\* Its head goes where nova_get_inode_by_ino_or_pi_addr finds inode 3 without
\* an address, in the inode table; the lock taken is the one of inode 3, the
\* lock released the one of the number found there, so that one stays held.
nova_save_blocknode_mappings_to_log ==
    /\ phase = "ranges"
    /\ Store({<<<<"head", "diverted">>, log>>}
             \cup nova_save_range_nodes_to_log(log, BlockEntries))
    /\ saved' = [saved EXCEPT !.blocks = [c \in Lists |-> free \cap Region(c)],
                              !.entries = Len(BlockEntries)]
    /\ free' = {}
    /\ page_locks' = "held"
    /\ phase' = "blocktail"
    /\ UNCHANGED <<nvm, inuse, log, formatted, boots>>

SaveBlockTail ==
    /\ phase = "blocktail"
    /\ nova_update_tail_wwb("diverted")
    /\ phase' = "off"
    /\ inuse' = [c \in Cpus |-> {}] /\ log' = <<>>
    /\ UNCHANGED <<free, page_locks, saved, formatted, boots>>

-----------------------------------------------------------------------------
(* Mount without init, and power failures.                                 *)

Super(m, k) == Read(m, <<"super", k>>, "bad")

\* nova_check_integrity: the primary superblock after a repair from the
\* redundant copy, first for a wrong magic number, then for a wrong checksum.
Repaired(m) ==
    LET first == IF Super(m, "1") = "bad" THEN Super(m, "2") ELSE Super(m, "1")
    IN  IF first = "good" THEN first ELSE Super(m, "2")

nova_fill_super ==
    /\ phase = "off" /\ boots < MaxBoots
    /\ boots' = boots + 1
    /\ LET m == Apply(nvm, pend)
       IN  IF Repaired(m) # "good" THEN UNCHANGED <<phase, pend>>
           ELSE phase' = "recover" /\ Store({<<<<"super", "1">>, "good">>})
    /\ UNCHANGED <<nvm, inuse, free, log, page_locks, saved, formatted>>

\* nova_recovery: if the reserved slot of the block list has a log the lists
\* are read and the log freed, else the failure recovery begins; both take the
\* page lock of inode 3 first.  The locks exist if the module has formatted an
\* instance since it was loaded; the mapping tables they guard do not, as only
\* a format creates them.
nova_recovery ==
    /\ phase = "recover"
    /\ phase' = IF page_locks = "held" THEN "hung" ELSE "oops"
    /\ UNCHANGED <<nvm, pend, inuse, free, log, page_locks, saved, formatted, boots>>

\* Power fails, or a stuck machine is reset: any of the pending stores may
\* have reached the device.
Reset ==
    /\ boots < MaxBoots
    /\ boots' = boots + 1
    /\ \E stores \in SUBSET pend : nvm' = Reachable(Apply(nvm, stores))
    /\ pend' = {}
    /\ phase' = "off"
    /\ inuse' = [c \in Cpus |-> {}] /\ free' = {} /\ log' = <<>>
    /\ page_locks' = "null"
    /\ UNCHANGED <<saved, formatted>>

Init ==
    /\ phase = "off"
    /\ nvm = <<>> /\ pend = {}
    /\ inuse = [c \in Cpus |-> {}] /\ free = {} /\ log = <<>>
    /\ page_locks = "null"
    /\ saved = NothingSaved
    /\ formatted = FALSE
    /\ boots = 0

Next ==
    \/ nova_init \/ InitTables \/ InitSuper \/ InitRoot \/ Work
    \/ CountInodes \/ nova_save_inode_list_to_log \/ SaveInodeTail
    \/ CountBlocks \/ nova_save_blocknode_mappings_to_log \/ SaveBlockTail
    \/ nova_fill_super \/ nova_recovery \/ Reset

Spec == Init /\ [][Next]_vars

-----------------------------------------------------------------------------
(* Properties.                                                             *)

\* Types: blocks and numbers are in range, a lock state is one of three.
TypeOK ==
    /\ inuse \in [Cpus -> SUBSET Internal] /\ free \subseteq Blocks
    /\ Range(log) \subseteq Blocks
    /\ page_locks \in {"null", "free", "held"}
    /\ boots \in 0 .. MaxBoots
    /\ \A s, w \in pend : s[1] = w[1] => s = w

\* The inode list is exact as soon as its log has a durable tail: whatever
\* power failure follows, reading it back gives the maps of the unmount.
InodeListExact ==
    HasLog(nvm, "inodelist") =>
        /\ Readable(nvm, "inodelist")
        /\ nova_init_inode_list_from_inode(nvm) = saved.inodes

\* The block list is published last and only when complete: once its log has a
\* durable head and tail, reading it back gives every free list as it was, and
\* the inode list, if it could be saved, is durable too.
BlockListExact ==
    HasLog(nvm, "diverted") =>
        /\ Readable(nvm, "diverted")
        /\ nova_init_blockmap_from_inode(nvm, "diverted") = saved.blocks
        /\ HeadOf(nvm, "inodelist") # <<>> => HasLog(nvm, "inodelist")

\* A block the saved list calls free is in neither saved log, nor one of the
\* pages the format allocated ("Save everything before blocknode mapping!").
LogsNotFree ==
    HasLog(nvm, "diverted") =>
        UNION Range(nova_init_blockmap_from_inode(nvm, "diverted"))
            \cap (Range(HeadOf(nvm, "inodelist")) \cup Range(HeadOf(nvm, "diverted"))
                  \cup Meta \cup 0 .. Reserved - 1) = {}

\* When nova_init has returned, both superblocks and the root inode survive
\* every power failure.
FormatDurable ==
    formatted => /\ Super(nvm, "1") = "good" /\ Super(nvm, "2") = "good"
                 /\ Read(nvm, <<"root", "1">>, "bad") = "good"

\* "To recover an existing NOVA instance, mount NOVA without the init option"
\* (README.md:58): once nova_init has returned, such a mount neither faults nor
\* waits for ever.
MountReturns == formatted => phase \notin {"oops", "hung"}

=============================================================================

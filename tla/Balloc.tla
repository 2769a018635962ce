------------------------------- MODULE Balloc -------------------------------
(***************************************************************************)
(* The block allocator of balloc.c: one free list per CPU and a shared one,*)
(* each an rb-tree of ranges of free blocks with two cached node pointers, *)
(* first_node (the leftmost node) and p_node (the rotating allocation      *)
(* pointer of the wear leveller), and two counters.                        *)
(*                                                                         *)
(* A tree is the set of its node names, ordered by low; low and high hold  *)
(* the range_low and range_high of every node.  Node names stand for       *)
(* addresses of slab objects: a node keeps its name while its range moves, *)
(* so a pointer to an erased node can be told from a live one.             *)
(*                                                                         *)
(* A list is changed only under its s_lock, so each locked region is one   *)
(* step.  nova_new_blocks drops the lock between attempts and reads the    *)
(* counters of the other lists without it: an attempt and each of those    *)
(* reads are separate steps, and any other call may come between them.     *)
(*                                                                         *)
(* Every inode has i_blk_type NOVA_BLOCK_TYPE_4K (nova_set_blocksize_hint  *)
(* has no caller), so btype is 0 and nova_get_numblocks is 1 throughout.   *)
(***************************************************************************)
EXTENDS Integers, FiniteSets

CONSTANTS
    NumBlocks,       \* sbi->num_blocks
    CPUS,            \* sbi->cpus
    ReservedBlocks,  \* sbi->reserved_blocks
    Proc,            \* the concurrent callers of nova_new_blocks
    MaxRequest,      \* bound on the blocks of one allocation or free
    MaxLost          \* bound on the blocks lost to failed frees

\* A device large enough that list 0 has blocks left after the reserved ones.
ASSUME SizesAssumption ==
    /\ NumBlocks \in Nat /\ CPUS \in Nat \ {0}
    /\ ReservedBlocks \in Nat \ {0} /\ ReservedBlocks < NumBlocks \div CPUS
    /\ MaxRequest \in Nat \ {0} /\ MaxLost \in Nat

PerListBlocks == NumBlocks \div CPUS
SHARED == CPUS
PerCPU == 0 .. CPUS - 1
List == 0 .. CPUS
Block == 0 .. NumBlocks - 1
Reserved == 0 .. ReservedBlocks - 1
Node == Block
NULL == -1
MaxRetries == 3

VARIABLES
    tree,             \* list -> names of the nodes in its block_free_tree
    low, high,        \* node -> range_low, range_high
    first_node,       \* list -> node or NULL
    p_node,           \* list -> node or NULL
    num_free_blocks,  \* list -> counter
    num_blocknode,    \* list -> counter
    call,             \* caller -> its frame of nova_new_blocks
    held,             \* blocks handed out and not given back
    lost              \* blocks given back by a free that failed

listVars == <<tree, low, high, first_node, p_node,
              num_free_blocks, num_blocknode>>
vars == <<listVars, call, held, lost>>

-----------------------------------------------------------------------------
(* Ranges, trees and lists *)

\* The list a block is freed to.
ListOf(b) ==
    IF b \div PerListBlocks >= CPUS THEN SHARED ELSE b \div PerListBlocks

\* block_start .. block_end of a list; the shared list has the remainder.
Territory(l) ==
    IF l = SHARED THEN CPUS * PerListBlocks .. NumBlocks - 1
                  ELSE l * PerListBlocks .. (l + 1) * PerListBlocks - 1

Size(n) == high[n] - low[n] + 1
FreeBlocks(l) == {b \in Block : \E n \in tree[l] : low[n] <= b /\ b <= high[n]}
AllFree == {b \in Block : \E l \in List : b \in FreeBlocks(l)}
UsedNodes == UNION {tree[l] : l \in List}

Leftmost(S) == CHOOSE n \in S : \A m \in S : low[n] <= low[m]
Rightmost(S) == CHOOSE n \in S : \A m \in S : low[m] <= low[n]

RbFirst(l) == IF tree[l] = {} THEN NULL ELSE Leftmost(tree[l])

RbNext(l, n) ==
    LET after == {m \in tree[l] : low[n] < low[m]}
    IN  IF after = {} THEN NULL ELSE Leftmost(after)

\* The neighbours nova_find_free_slot returns for a range starting at b.
Prev(l, b) ==
    LET before == {m \in tree[l] : low[m] < b}
    IN  IF before = {} THEN NULL ELSE Rightmost(before)

Following(l, b) ==
    LET after == {m \in tree[l] : b < low[m]}
    IN  IF after = {} THEN NULL ELSE Leftmost(after)

-----------------------------------------------------------------------------
(* Initial states: a fresh file system, or one rebuilt by a failure scan *)

Idle == [pc |-> "idle", num |-> 1, cpuid |-> 0, retried |-> 0,
         i |-> 0, best |-> 0, most |-> 0, quiet |-> FALSE]

\* nova_init_blockmap(sb, 0): one node per CPU; the remainder is in no tree.
FreshStart(l) == IF l = 0 THEN ReservedBlocks ELSE l * PerListBlocks

InitFresh ==
    /\ tree = [l \in List |-> IF l = SHARED THEN {} ELSE {FreshStart(l)}]
    /\ low = [n \in Node |-> IF \E l \in PerCPU : n = FreshStart(l)
                             THEN n ELSE 0]
    /\ high = [n \in Node |-> IF \E l \in PerCPU : n = FreshStart(l)
                              THEN (n \div PerListBlocks + 1) * PerListBlocks - 1
                              ELSE 0]
    /\ first_node = [l \in List |-> IF l = SHARED THEN NULL ELSE FreshStart(l)]
    /\ p_node = first_node
    /\ num_free_blocks = [l \in List |->
          IF l = SHARED THEN 0
          ELSE IF l = 0 THEN PerListBlocks - ReservedBlocks ELSE PerListBlocks]
    /\ num_blocknode = [l \in List |-> IF l = SHARED THEN 0 ELSE 1]
    /\ held = {}

\* First and last blocks of the free runs inside each list's territory.
RunStarts(used, l) ==
    {b \in Territory(l) \ used : b - 1 \notin Territory(l) \ used}
RunEnd(used, b) ==
    CHOOSE e \in Territory(ListOf(b)) :
        /\ b <= e /\ (b .. e) \cap used = {}
        /\ e + 1 \notin Territory(ListOf(b)) \ used

\* nova_build_blocknode_map: one node per run of clear bits; p_node stays NULL.
InitScanned(used) ==
    /\ tree = [l \in List |-> RunStarts(used, l)]
    /\ low = [n \in Node |-> IF \E l \in List : n \in RunStarts(used, l)
                             THEN n ELSE 0]
    /\ high = [n \in Node |-> IF \E l \in List : n \in RunStarts(used, l)
                              THEN RunEnd(used, n) ELSE 0]
    /\ first_node = [l \in List |-> RbFirst(l)]
    /\ p_node = [l \in List |-> NULL]
    /\ num_free_blocks = [l \in List |-> Cardinality(Territory(l) \ used)]
    /\ num_blocknode = [l \in List |-> Cardinality(RunStarts(used, l))]
    /\ held = used \ Reserved

Init ==
    /\ \/ InitFresh
       \/ \E used \in SUBSET Block : Reserved \subseteq used /\ InitScanned(used)
    /\ call = [p \in Proc |-> Idle]
    /\ lost = {}

-----------------------------------------------------------------------------
(* nova_new_blocks *)

\* Another call changed a list: a scan in progress may be reading stale counts.
Disturb(p) == [q \in Proc |-> IF q = p THEN Idle
                              ELSE [call[q] EXCEPT !.quiet = FALSE]]

NewBlocks(p, cpuid, num) ==
    /\ call[p].pc = "idle"
    /\ call' = [call EXCEPT ![p] = [Idle EXCEPT !.pc = "try", !.num = num,
                                     !.cpuid = cpuid, !.quiet = TRUE]]
    /\ UNCHANGED <<listVars, held, lost>>

\* The request does not fit in the node: the whole node is taken.
TakeWholeNode(l, first, n) ==
    LET next == RbNext(l, n)
    IN  /\ tree' = [tree EXCEPT ![l] = @ \ {n}]
        /\ low' = [low EXCEPT ![n] = 0]
        /\ high' = [high EXCEPT ![n] = 0]
        /\ num_blocknode' = [num_blocknode EXCEPT ![l] = @ - 1]
        /\ first_node' = [first_node EXCEPT
              ![l] = IF n = first THEN next ELSE first]
        /\ p_node' = [p_node EXCEPT
              ![l] = IF n = first \/ next # NULL THEN next ELSE first]

\* The node is larger than the request: its first num blocks are taken.
TakePartOfNode(l, first, n, num) ==
    /\ low' = [low EXCEPT ![n] = @ + num]
    /\ first_node' = [first_node EXCEPT ![l] = first]
    /\ p_node' = [p_node EXCEPT ![l] = n]
    /\ UNCHANGED <<tree, high, num_blocknode>>

\* Mutant: the counter drops by the request, not by what the node could give.
AllocCountsRequest(l, first, n, num) ==
    LET got == IF num >= Size(n) THEN Size(n) ELSE num
    IN  /\ IF num >= Size(n) THEN TakeWholeNode(l, first, n)
                             ELSE TakePartOfNode(l, first, n, num)
        /\ num_free_blocks' = [num_free_blocks EXCEPT ![l] = @ - num]
        /\ held' = held \cup (low[n] .. low[n] + got - 1)

\* nova_alloc_blocks_in_free_list: the node at p_node, all of it or its head.
AllocBlocksInFreeList(l, first, n, num) ==
    LET got == IF num >= Size(n) THEN Size(n) ELSE num
    IN  /\ IF num >= Size(n) THEN TakeWholeNode(l, first, n)
                             ELSE TakePartOfNode(l, first, n, num)
        /\ num_free_blocks' = [num_free_blocks EXCEPT ![l] = @ - got]
        /\ held' = held \cup (low[n] .. low[n] + got - 1)

\* The list has enough blocks; a NULL pointer is first reset to rb_first.
Allocate(p) ==
    LET l == call[p].cpuid
        reset == first_node[l] = NULL \/ p_node[l] = NULL
    IN  /\ call[p].pc = "try"
        /\ num_free_blocks[l] >= call[p].num
        /\ AllocBlocksInFreeList(l,
              IF reset THEN RbFirst(l) ELSE first_node[l],
              IF reset THEN RbFirst(l) ELSE p_node[l],
              call[p].num)
        /\ call' = Disturb(p)
        /\ UNCHANGED lost

TooSmall(p) ==
    /\ call[p].pc = "try"
    /\ num_free_blocks[call[p].cpuid] < call[p].num

\* Mutant: the retry bound is forgotten.
RetryUnbounded(p) ==
    /\ TooSmall(p)
    /\ call' = [call EXCEPT ![p].pc = "scan"]
    /\ UNCHANGED <<listVars, held, lost>>

\* The list is too small: look for another one, at most MaxRetries times.
Retry(p) ==
    /\ TooSmall(p)
    /\ call[p].retried < MaxRetries
    /\ call' = [call EXCEPT ![p].pc = "scan"]
    /\ UNCHANGED <<listVars, held, lost>>

NoSpace(p) ==
    /\ TooSmall(p)
    /\ call[p].retried >= MaxRetries
    /\ call' = [call EXCEPT ![p] = Idle]
    /\ UNCHANGED <<listVars, held, lost>>

\* Mutant: the search compares the wrong way round.
ScanSmallest(p) ==
    LET c == call[p]
        better == num_free_blocks[c.i] < c.most
    IN  /\ c.pc = "scan" /\ c.i < CPUS
        /\ call' = [call EXCEPT
              ![p].i = @ + 1,
              ![p].best = IF better THEN c.i ELSE @,
              ![p].most = IF better THEN num_free_blocks[c.i] ELSE @]
        /\ UNCHANGED <<listVars, held, lost>>

\* One iteration of nova_get_candidate_free_list, which holds no lock.
ScanList(p) ==
    LET c == call[p]
        better == num_free_blocks[c.i] > c.most
    IN  /\ c.pc = "scan" /\ c.i < CPUS
        /\ call' = [call EXCEPT
              ![p].i = @ + 1,
              ![p].best = IF better THEN c.i ELSE @,
              ![p].most = IF better THEN num_free_blocks[c.i] ELSE @]
        /\ UNCHANGED <<listVars, held, lost>>

\* Mutant: retried is not incremented.
ScanDoneUncounted(p) ==
    /\ call[p].pc = "scan" /\ call[p].i = CPUS
    /\ call' = [call EXCEPT ![p] =
          [call[p] EXCEPT !.pc = "try", !.cpuid = call[p].best,
                          !.i = 0, !.best = 0, !.most = 0]]
    /\ UNCHANGED <<listVars, held, lost>>

\* The candidate becomes the list to try.
ScanDone(p) ==
    /\ call[p].pc = "scan" /\ call[p].i = CPUS
    /\ call' = [call EXCEPT ![p] =
          [call[p] EXCEPT !.pc = "try", !.cpuid = call[p].best,
                          !.retried = call[p].retried + 1,
                          !.i = 0, !.best = 0, !.most = 0]]
    /\ UNCHANGED <<listVars, held, lost>>

-----------------------------------------------------------------------------
(* nova_free_blocks *)

\* Mutant: p_node is not moved off the erased node.
FitsHoleStale(l, prev, next) ==
    /\ tree' = [tree EXCEPT ![l] = @ \ {next}]
    /\ low' = [low EXCEPT ![next] = 0]
    /\ high' = [high EXCEPT ![prev] = high[next], ![next] = 0]
    /\ num_blocknode' = [num_blocknode EXCEPT ![l] = @ - 1]
    /\ UNCHANGED <<first_node, p_node>>

\* The freed range joins its two neighbours; the right one is erased.
FitsHole(l, prev, next) ==
    /\ tree' = [tree EXCEPT ![l] = @ \ {next}]
    /\ low' = [low EXCEPT ![next] = 0]
    /\ high' = [high EXCEPT ![prev] = high[next], ![next] = 0]
    /\ num_blocknode' = [num_blocknode EXCEPT ![l] = @ - 1]
    /\ p_node' = [p_node EXCEPT
          ![l] = IF next # @ THEN @
                 ELSE IF RbNext(l, next) # NULL THEN RbNext(l, next)
                 ELSE first_node[l]]
    /\ UNCHANGED first_node

\* Mutant: the left neighbour grows by one block too few.
AlignsLeftShort(prev, num) ==
    /\ high' = [high EXCEPT ![prev] = @ + num - 1]
    /\ UNCHANGED <<tree, low, first_node, p_node, num_blocknode>>

AlignsLeft(prev, num) ==
    /\ high' = [high EXCEPT ![prev] = @ + num]
    /\ UNCHANGED <<tree, low, first_node, p_node, num_blocknode>>

\* Mutant: the right neighbour grows by one block too few.
AlignsRightShort(next, num) ==
    /\ low' = [low EXCEPT ![next] = @ - num + 1]
    /\ UNCHANGED <<tree, high, first_node, p_node, num_blocknode>>

AlignsRight(next, num) ==
    /\ low' = [low EXCEPT ![next] = @ - num]
    /\ UNCHANGED <<tree, high, first_node, p_node, num_blocknode>>

NewNode(l, prev, b, num, curr) ==
    /\ tree' = [tree EXCEPT ![l] = @ \cup {curr}]
    /\ low' = [low EXCEPT ![curr] = b]
    /\ high' = [high EXCEPT ![curr] = b + num - 1]
    /\ num_blocknode' = [num_blocknode EXCEPT ![l] = @ + 1]
    /\ first_node' = [first_node EXCEPT ![l] = IF prev = NULL THEN curr ELSE @]
    /\ UNCHANGED p_node

\* Mutant: the case of two touching neighbours is not told from the left one.
InsertLeftOrRight(l, b, num, curr) ==
    LET prev == Prev(l, b)
        next == Following(l, b)
        left == prev # NULL /\ high[prev] + 1 = b
        right == next # NULL /\ b + num = low[next]
    IN  CASE left            -> AlignsLeft(prev, num)
          [] ~left /\ right  -> AlignsRight(next, num)
          [] ~left /\ ~right -> NewNode(l, prev, b, num, curr)

InsertRange(l, b, num, curr) ==
    LET prev == Prev(l, b)
        next == Following(l, b)
        left == prev # NULL /\ high[prev] + 1 = b
        right == next # NULL /\ b + num = low[next]
    IN  CASE left /\ right   -> FitsHole(l, prev, next)
          [] left /\ ~right  -> AlignsLeft(prev, num)
          [] ~left /\ right  -> AlignsRight(next, num)
          [] ~left /\ ~right -> NewNode(l, prev, b, num, curr)

\* The preallocated curr_node is an object not in use.
Unused == CHOOSE n \in Node : n \notin UsedNodes

FreeBlocksCall(b, num) ==
    LET l == ListOf(b)
    IN  /\ b .. b + num - 1 \subseteq held
        /\ UsedNodes # Node
        /\ InsertRange(l, b, num, Unused)
        /\ num_free_blocks' = [num_free_blocks EXCEPT ![l] = @ + num]
        /\ held' = held \ (b .. b + num - 1)
        /\ call' = [q \in Proc |-> [call[q] EXCEPT !.quiet = FALSE]]
        /\ UNCHANGED lost

\* curr_node cannot be allocated: -ENOMEM, reported and never retried.
FreeFails(b, num) ==
    /\ b .. b + num - 1 \subseteq held
    /\ Cardinality(lost) + num <= MaxLost
    /\ held' = held \ (b .. b + num - 1)
    /\ lost' = lost \cup (b .. b + num - 1)
    /\ UNCHANGED <<listVars, call>>

-----------------------------------------------------------------------------
CallStep(p) ==
    Allocate(p) \/ Retry(p) \/ NoSpace(p) \/ ScanList(p) \/ ScanDone(p)

Next ==
    \/ \E p \in Proc : CallStep(p)
    \/ \E p \in Proc, cpuid \in PerCPU, num \in 1 .. MaxRequest :
          NewBlocks(p, cpuid, num)
    \/ \E b \in Block, num \in 1 .. MaxRequest :
          FreeBlocksCall(b, num) \/ FreeFails(b, num)

Spec == Init /\ [][Next]_vars

\* A caller that has entered nova_new_blocks keeps running: it holds a spinlock
\* or runs a bounded loop, and no step of it waits for another caller.
FairSpec == Spec /\ \A p \in Proc : WF_vars(CallStep(p))
-----------------------------------------------------------------------------
(* Properties *)

\* A frame of nova_new_blocks; a search is started only by a retry left.
Frame == {f \in [pc : {"idle", "try", "scan"}, num : 1 .. MaxRequest,
                 cpuid : PerCPU, retried : 0 .. MaxRetries,
                 i : List, best : PerCPU, most : Nat, quiet : BOOLEAN] :
             f.pc = "scan" => f.retried < MaxRetries}

\* Every variable keeps its type: in particular the unsigned counters never
\* wrap below zero and no call of nova_new_blocks retries more than MaxRetries
\* times.
TypeOK ==
    /\ tree \in [List -> SUBSET Node]
    /\ low \in [Node -> Block] /\ high \in [Node -> Block]
    /\ first_node \in [List -> Node \cup {NULL}]
    /\ p_node \in [List -> Node \cup {NULL}]
    /\ num_free_blocks \in [List -> Nat] /\ num_blocknode \in [List -> Nat]
    /\ call \in [Proc -> Frame]
    /\ held \subseteq Block /\ lost \subseteq Block

\* No block is in two ranges of any free lists, nor both free and handed out,
\* and none disappears: what nova_new_blocks and nova_free_blocks do to ranges
\* keeps every block reserved, held, lost or free, except the remainder that
\* nova_init_blockmap puts in no tree.
BlocksAccounted ==
    /\ \A l \in List : \A n \in tree[l] : low[n] <= high[n]
    /\ \A l, k \in List : \A n \in tree[l], m \in tree[k] :
          (n = m /\ l = k) \/ high[n] < low[m] \/ high[m] < low[n]
    /\ AllFree \cap (held \cup lost \cup Reserved) = {}
    /\ held \cap (lost \cup Reserved) = {} /\ lost \cap Reserved = {}
    /\ Block \ Territory(SHARED) \subseteq AllFree \cup held \cup lost \cup Reserved

\* The unlocked reader and the admission test of nova_new_blocks trust the
\* counters: they equal the blocks and the nodes of the tree after every
\* merge, split and whole-node allocation.
CountersExact ==
    \A l \in List : /\ num_free_blocks[l] = Cardinality(FreeBlocks(l))
                     /\ num_blocknode[l] = Cardinality(tree[l])

\* The cached pointers survive every merge and erase: first_node is the
\* leftmost node, or NULL in an empty tree, and p_node is never left on a node
\* that was erased and freed.
IsFirst(l, n) ==
    IF tree[l] = {} THEN n = NULL
                    ELSE n \in tree[l] /\ \A m \in tree[l] : low[n] <= low[m]

PointersLive ==
    \A l \in List : /\ IsFirst(l, first_node[l])
                     /\ p_node[l] \in tree[l] \cup {NULL}

\* Frees coalesce: no list ever holds two adjacent ranges, so a request gets
\* fewer blocks than it asked for only where the free run really ends.
Coalesced ==
    \A l \in List : \A n, m \in tree[l] : high[n] + 1 # low[m]

\* nova_new_blocks returns -ENOSPC to an undisturbed caller only when every
\* per-CPU list is too small for the request (the unlocked candidate search
\* may mislead a caller only if another call changed a list meanwhile).
EnospcJustified ==
    \A p \in Proc :
        TooSmall(p) /\ call[p].retried >= MaxRetries /\ call[p].quiet =>
            \A l \in PerCPU : num_free_blocks[l] < call[p].num

\* Every call of nova_new_blocks returns, however often the lists it picks
\* are emptied by others before it locks them.
CallReturns == \A p \in Proc : call[p].pc # "idle" ~> call[p].pc = "idle"

\* The allocator implements the abstract pool: whatever the lists, trees and
\* pointers do, callers see runs taken from and returned to one set.
Pool == INSTANCE BlockPool WITH free <- AllFree
PoolImplemented == Pool!PoolSpec
=============================================================================

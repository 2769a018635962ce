-------------------------------- MODULE Wear --------------------------------
(***************************************************************************)
(* The write counters and the write detection (writecount.c, average.c,    *)
(* detect.c, hash.c, detect_time.c, occupySpace.c, should_migrate of       *)
(* wearleveling.c).                                                        *)
(*                                                                         *)
(* Every store to NVM passes through write_count_increase (data, log and   *)
(* journal pages, inode pages), inode_page_count_increase_with_migrate     *)
(* (inode pages that may move) or inode_page_count_increase_by_vir (inode  *)
(* tails).  These run in the writing thread, whose thread id is the "pid"  *)
(* the tables are keyed by.  The counters of a block are changed under     *)
(* block_write_count_lock; the running average, the detection mode, the    *)
(* thresholds and the space table are read and written outside it, so each *)
(* of those accesses is a step of its own here.                            *)
(*                                                                         *)
(* record_malice_process is never called (its call at detect.c:79 is a     *)
(* comment), so the list of malicious processes is always empty and the    *)
(* discount of write_count_increase for its members is never taken.        *)
(* last_global_max_update and exceed_average influence nothing that is     *)
(* read and are left out.                                                  *)
(***************************************************************************)
EXTENDS Integers, FiniteSets, Sequences, FiniteSetsExt, SequencesExt, Functions

CONSTANTS
    Threads,          \* writing threads, one pid each, all in one hash bucket
    BLOCKS_MAX,       \* number of counted blocks (nova.h)
    InodePages,       \* the blocks that are inode table pages; the others hold data
    HZ,               \* jiffies in a second, which is also TIME_INTERVAL
    MAX_ENDURANCE,    \* writes a block endures
    EXPECT_L_S,       \* life expected of the device, in seconds
    DEVIATION_HIGH,   \* the step, and the first value, of max_deviation
    Word,             \* number of values of an unsigned long
    MaxWrites,        \* bound: counted writes
    MaxJiffies,       \* bound: clock
    MaxFaults         \* bound: failed allocations

ASSUME WearAssumption ==
    /\ BLOCKS_MAX \in Nat \ {0} /\ HZ \in Nat \ {0}
    /\ MAX_ENDURANCE \in Nat /\ EXPECT_L_S \in Nat
    /\ DEVIATION_HIGH \in Nat \ {0, 1} /\ Word \in Nat
    /\ DEVIATION_HIGH * (Cardinality(Threads) + 1) <= Word
    /\ IsFiniteSet(Threads) /\ Threads # {} /\ "free" \notin Threads

VARIABLES
    write_count, block_write_count, global_max_update,
    count_hand, count_average, max_deviation,
    jiffies, expires, pm_use_time,
    detect_mode, time_base, change_time_base_flag, prepare_lock,
    write_traffic, process_count, table, space,
    pc, arg,          \* per thread: the next step, and its local values
    modeSince,        \* history: when detect_mode last changed
    faults

blockVars == <<write_count, block_write_count, global_max_update>>
averageVars == <<count_hand, count_average>>
clockVars == <<jiffies, expires, pm_use_time>>
modeVars == <<detect_mode, time_base, change_time_base_flag, modeSince>>
tableVars == <<process_count, table, faults>>
vars == <<blockVars, averageVars, max_deviation, clockVars, modeVars,
          prepare_lock, write_traffic, tableVars, space, pc, arg>>

Blocks == 0 .. BLOCKS_MAX - 1
Kinds(b) == IF b \in InodePages THEN {"inode", "tail"} ELSE {"data"}
NoNode == [total_count |-> 0]
Nodes == {p \in Threads : table[p] # NoNode}
Free == "free"
Unsigned(n) == n % Word

\* The writes counted so far; each has incremented count_hand once.
Writes == MapThenSumSet(LAMBDA b : block_write_count[b], Blocks)

-----------------------------------------------------------------------------
(* Threads: a thread runs one counted write at a time.                     *)

NoArg == [block |-> 0, kind |-> "data", at |-> 0, tail |-> "head"]

Goto(t, step) ==
    /\ pc' = [pc EXCEPT ![t] = step]
    /\ arg' = IF step = "idle" THEN [arg EXCEPT ![t] = NoArg] ELSE arg

\* Goto a step, remembering a value that was read.
GotoWith(t, step, a) ==
    /\ pc' = [pc EXCEPT ![t] = step]
    /\ arg' = [arg EXCEPT ![t] = IF step = "idle" THEN NoArg ELSE a]

\* What follows record_one_sec_write_info: an inode page asks should_migrate,
\* a data write updates the space table.
AfterRecord(t) == CASE arg[t].kind = "inode" -> "should"
                    [] arg[t].kind = "data"  -> "space"
                    [] OTHER -> "idle"

\* inode_page_count_increase_by_vir does not record the write for detection.
AfterAverage(t) == IF arg[t].kind = "tail" THEN "idle" ELSE "prepare"

-----------------------------------------------------------------------------
(* Counters.                                                               *)

\* The part of write_count_increase and inode_page_count_increase_by_vir
\* under block_write_count_lock, and the atomic increment of count_hand that
\* follows the unlock.
CountBlock(b) ==
    /\ write_count' = [write_count EXCEPT ![b] = @ + 1]
    /\ block_write_count' = [block_write_count EXCEPT ![b] = @ + 1]
    /\ global_max_update' =
           IF global_max_update < block_write_count[b] + 1
           THEN block_write_count[b] + 1 ELSE global_max_update
    /\ count_hand' = count_hand + 1
    /\ UNCHANGED count_average

\* A block number past the counted blocks returns before anything is counted.
write_count_increase(t, b, kind) ==
    /\ pc[t] = "idle"
    /\ Writes < MaxWrites
    /\ IF b >= BLOCKS_MAX
       THEN UNCHANGED <<blockVars, averageVars, write_traffic, pc, arg>>
       ELSE /\ CountBlock(b)
            /\ write_traffic' = write_traffic + IF kind = "tail" THEN 1 ELSE 0
            /\ GotoWith(t, "average", [NoArg EXCEPT !.block = b, !.kind = kind])
    /\ UNCHANGED <<max_deviation, clockVars, modeVars, prepare_lock,
                   tableVars, space>>

\* Mutant: the hand is full only past the number of blocks.
ReadHandLate(t) ==
    /\ pc[t] = "average"
    /\ Goto(t, IF count_hand > BLOCKS_MAX THEN "carry" ELSE AfterAverage(t))
    /\ UNCHANGED <<blockVars, averageVars, max_deviation, clockVars, modeVars,
                   prepare_lock, write_traffic, tableVars, space>>

\* The read of count_hand and, when it is full, the two atomic stores.
ReadHand(t) ==
    /\ pc[t] = "average"
    /\ Goto(t, IF count_hand >= BLOCKS_MAX THEN "carry" ELSE AfterAverage(t))
    /\ UNCHANGED <<blockVars, averageVars, max_deviation, clockVars, modeVars,
                   prepare_lock, write_traffic, tableVars, space>>

IncAverage(t) ==
    /\ pc[t] = "carry"
    /\ count_average' = count_average + 1
    /\ Goto(t, "clear")
    /\ UNCHANGED <<blockVars, count_hand, max_deviation, clockVars,
                   modeVars, prepare_lock, write_traffic, tableVars, space>>

ClearHand(t) ==
    /\ pc[t] = "clear"
    /\ count_hand' = 0
    /\ Goto(t, AfterAverage(t))
    /\ UNCHANGED <<blockVars, count_average, max_deviation, clockVars,
                   modeVars, prepare_lock, write_traffic, tableVars, space>>

-----------------------------------------------------------------------------
(* Detection mode: 0 none, 1 whole device, 2 per process.                  *)

\* life_caculate_remaining_ideal_leveling, in unsigned arithmetic.
life_caculate_remaining_ideal_leveling(total, average) ==
    Unsigned(BLOCKS_MAX * Unsigned(MAX_ENDURANCE - average)) \div total

detect_global_remaining_ideal_wear_leveling(total) ==
    /\ total >= 1
    /\ LET global_actual == life_caculate_remaining_ideal_leveling(total, count_average)
       IN  /\ global_actual # 0
           /\ global_actual < Unsigned(EXPECT_L_S - pm_use_time)

SetMode(m) ==
    /\ detect_mode' = m
    /\ modeSince' = IF m = detect_mode THEN modeSince ELSE jiffies

\* record_one_sec_write_info takes detect_prepare_lock for detect_prepare; the
\* first write after a window opens a new one, and a write a second later
\* changes the mode, reading write_traffic first.
detect_prepare(t) ==
    /\ pc[t] = "prepare"
    /\ prepare_lock = Free
    /\ time_base' = IF change_time_base_flag THEN jiffies ELSE time_base
    /\ change_time_base_flag' = FALSE
    /\ IF jiffies - time_base' >= HZ
       THEN /\ prepare_lock' = t
            /\ GotoWith(t, "change", [arg[t] EXCEPT !.at = write_traffic])
       ELSE Goto(t, "read0") /\ UNCHANGED prepare_lock
    /\ UNCHANGED <<blockVars, averageVars, max_deviation, clockVars, detect_mode,
                   modeSince, write_traffic, tableVars, space>>

\* The first store of detect_mode_change: rand_interval decides whether mode 0
\* becomes 1, the traffic of the window whether mode 1 becomes 2.
detect_mode_change(t) ==
    /\ pc[t] = "change"
    /\ \/ /\ detect_mode = 1
          /\ IF detect_global_remaining_ideal_wear_leveling(arg[t].at)
             THEN SetMode(2) /\ UNCHANGED write_traffic /\ Goto(t, "close")
             ELSE /\ write_traffic' = 0
                  /\ Goto(t, "stop")
                  /\ UNCHANGED <<detect_mode, modeSince>>
       \/ /\ detect_mode = 2
          /\ SetMode(0)
          /\ Goto(t, "forget")
          /\ UNCHANGED write_traffic
       \/ /\ detect_mode = 0
          /\ \E m \in {0, 1} : SetMode(m)
          /\ Goto(t, "reset")
          /\ UNCHANGED write_traffic
    /\ UNCHANGED <<blockVars, averageVars, max_deviation, clockVars, time_base,
                   change_time_base_flag, prepare_lock, tableVars, space>>

\* The second store of detect_mode_change.
CloseStores(t) ==
    /\ pc[t] \in {"close", "stop", "forget", "reset"}
    /\ IF pc[t] = "stop" THEN SetMode(0) ELSE UNCHANGED <<detect_mode, modeSince>>
    /\ write_traffic' = IF pc[t] = "reset" THEN 0 ELSE write_traffic
    /\ process_count' = IF pc[t] = "forget" THEN 0 ELSE process_count
    /\ GotoWith(t, "read0", [arg[t] EXCEPT !.at = 0])
    /\ UNCHANGED <<blockVars, averageVars, max_deviation, clockVars, time_base,
                   table, faults, space>>

\* Mutant: the end of a window leaves the time base in use.
CloseKeepsBase(t) ==
    CloseStores(t) /\ prepare_lock' = Free /\ UNCHANGED change_time_base_flag

\* Then the end of detect_prepare and of its lock.
CloseWindow(t) ==
    /\ CloseStores(t)
    /\ change_time_base_flag' = TRUE
    /\ prepare_lock' = Free

-----------------------------------------------------------------------------
(* The table of processes.                                                 *)

\* Mutant: a new page is not counted.
InsertUncounted(node, b, ok) ==
    IF node.pages[b] > 0
    THEN [node EXCEPT !.pages[b] = @ + 1,
                      !.max_count = Max({@, node.pages[b] + 1}),
                      !.max_page_writecount = Max({@, block_write_count[b]})]
    ELSE IF ok THEN [node EXCEPT !.pages[b] = 1] ELSE node

\* insert_detect_hash_node on a node, when the allocation it may need succeeds
\* (ok) or not.
insert_detect_hash_node(node, b, ok) ==
    IF node.pages[b] > 0
    THEN [node EXCEPT !.pages[b] = @ + 1,
                      !.max_count = Max({@, node.pages[b] + 1}),
                      !.max_page_writecount = Max({@, block_write_count[b]})]
    ELSE IF ok THEN [node EXCEPT !.pages[b] = 1, !.page_count = @ + 1]
    ELSE node

NewNode(b) ==
    [total_count |-> 1, max_count |-> 1, page_count |-> 0,
     max_page_writecount |-> block_write_count[b], pages |-> [x \in Blocks |-> 0]]

\* process_count is incremented before the node is allocated.
insert_into_hash_table(p, b, nodeOk, pageOk) ==
    /\ process_count' = process_count + 1
    /\ table' = IF nodeOk
                THEN [table EXCEPT ![p] = insert_detect_hash_node(NewNode(b), b, pageOk)]
                ELSE table

\* update_hash_table, under process_mutex_lock.
update_hash_table(p, b) ==
    \E nodeOk, pageOk \in BOOLEAN :
        /\ faults' = faults + Cardinality({x \in {<<1, nodeOk>>, <<2, pageOk>>} : ~x[2]})
        /\ faults' <= MaxFaults
        /\ IF table[p] = NoNode
           THEN (nodeOk \/ pageOk) /\ insert_into_hash_table(p, b, nodeOk, pageOk)
           ELSE /\ nodeOk /\ (pageOk \/ table[p].pages[b] = 0)
                /\ table' = [table EXCEPT ![p] = insert_detect_hash_node(
                                 [@ EXCEPT !.total_count = @ + 1], b, pageOk)]
                /\ UNCHANGED process_count

\* record_one_sec_write_info after detect_prepare: detect_mode is read up to
\* three times, with no lock.
record_one_sec_write_info(t) ==
    /\ \/ /\ pc[t] = "read0"
          /\ Goto(t, IF detect_mode = 0 THEN AfterRecord(t) ELSE "read1")
          /\ UNCHANGED <<write_traffic, tableVars>>
       \/ /\ pc[t] = "read1"
          /\ write_traffic' = write_traffic + IF detect_mode = 1 THEN 1 ELSE 0
          /\ Goto(t, IF detect_mode = 1 THEN AfterRecord(t) ELSE "read2")
          /\ UNCHANGED tableVars
       \/ /\ pc[t] = "read2"
          /\ Goto(t, IF detect_mode = 2 THEN "update" ELSE AfterRecord(t))
          /\ UNCHANGED <<write_traffic, tableVars>>
       \/ /\ pc[t] = "update"
          /\ update_hash_table(t, arg[t].block)
          /\ Goto(t, AfterRecord(t))
          /\ UNCHANGED write_traffic
    /\ UNCHANGED <<blockVars, averageVars, max_deviation, clockVars, modeVars,
                   prepare_lock, space, arg>>

-----------------------------------------------------------------------------
(* What the counters decide.                                               *)

\* Mutant: the threshold is raised whatever the average.
RaiseAlways(t) ==
    /\ \/ /\ pc[t] = "should"
          /\ Goto(t, IF write_count[arg[t].block] >= max_deviation THEN "raise" ELSE "idle")
          /\ UNCHANGED max_deviation
       \/ /\ pc[t] = "raise"
          /\ max_deviation' = max_deviation + DEVIATION_HIGH
          /\ Goto(t, "idle")
    /\ UNCHANGED <<blockVars, averageVars, clockVars, modeVars, prepare_lock,
                   write_traffic, tableVars, space>>

\* should_migrate: a stray semicolon after each of its last two conditions
\* makes their blocks unconditional, so a page at the threshold always moves;
\* the threshold is read, compared and raised in separate atomic operations.
should_migrate(t) ==
    /\ \/ /\ pc[t] = "should"
          /\ Goto(t, IF /\ write_count[arg[t].block] >= max_deviation
                        /\ Unsigned(max_deviation - count_average) < DEVIATION_HIGH \div 2
                     THEN "raise" ELSE "idle")
          /\ UNCHANGED max_deviation
       \/ /\ pc[t] = "raise"
          /\ max_deviation' = max_deviation + DEVIATION_HIGH
          /\ Goto(t, "idle")
    /\ UNCHANGED <<blockVars, averageVars, clockVars, modeVars, prepare_lock,
                   write_traffic, tableVars, space>>

\* Mutant: the walk does not look at the last entry.
WalkSkipsLast(t) ==
    /\ pc[t] = "space"
    /\ GotoWith(t, IF detect_mode = 0 \/ (space # <<>> /\ t \in Range(Front(space)))
                   THEN "idle" ELSE "link",
                [arg[t] EXCEPT !.tail = IF space = <<>> THEN "head" ELSE Last(space)])
    /\ UNCHANGED <<blockVars, averageVars, max_deviation, clockVars, modeVars,
                   prepare_lock, write_traffic, tableVars, space>>

\* The test of detect_mode in nova_cow_file_write and the walk of
\* insert_into_spaceTable: to the thread's own entry, or to the last one.
SpaceWalk(t) ==
    /\ pc[t] = "space"
    /\ GotoWith(t, IF detect_mode = 0 \/ t \in Range(space) THEN "idle" ELSE "link",
                [arg[t] EXCEPT !.tail = IF space = <<>> THEN "head" ELSE Last(space)])
    /\ UNCHANGED <<blockVars, averageVars, max_deviation, clockVars, modeVars,
                   prepare_lock, write_traffic, tableVars, space>>

\* The chain after t's entry is stored in the next pointer of the entry (or
\* the head) its walk ended at: whatever was linked there meanwhile is dropped.
Linked(t) ==
    LET tail == arg[t].tail
    IN  IF tail = "head" THEN <<t>>
        ELSE IF tail \in Range(space)
        THEN Append(SubSeq(space, 1, CHOOSE i \in DOMAIN space : space[i] = tail), t)
        ELSE space

SpaceLink(t) ==
    /\ pc[t] = "link"
    /\ space' = Linked(t)
    /\ pc' = [pc EXCEPT ![t] = "idle"]
    /\ arg' = [u \in Threads |->
                  IF u = t THEN NoArg
                  ELSE IF pc[u] = "link" /\ arg[u].tail \in Range(space) \ Range(space')
                  THEN [arg[u] EXCEPT !.tail = "dropped"] ELSE arg[u]]
    /\ UNCHANGED <<blockVars, averageVars, max_deviation, clockVars, modeVars,
                   prepare_lock, write_traffic, tableVars>>

-----------------------------------------------------------------------------
(* Time, and the initial states.                                           *)

\* my_function, the timer that counts the seconds of use, fires every HZ.
Tick ==
    /\ jiffies < MaxJiffies
    /\ jiffies' = jiffies + 1
    /\ expires' = IF jiffies' = expires THEN expires + HZ ELSE expires
    /\ pm_use_time' = IF jiffies' = expires THEN pm_use_time + 1 ELSE pm_use_time
    /\ UNCHANGED <<blockVars, averageVars, max_deviation, modeVars, prepare_lock,
                   write_traffic, tableVars, space, pc, arg>>

\* What the module's initialisation leaves (init_block_write_count,
\* init_hash_table, init_spaceTable, init_detect_timer and the initialisers).
Quiet ==
    /\ global_max_update = Max(Range(block_write_count))
    /\ write_count = block_write_count
    /\ count_hand = 0
    /\ max_deviation = DEVIATION_HIGH
    /\ jiffies = 0 /\ expires = HZ
    /\ time_base = 0 /\ change_time_base_flag = TRUE
    /\ prepare_lock = Free
    /\ process_count = 0 /\ faults = 0
    /\ table = [p \in Threads |-> NoNode]
    /\ space = <<>>
    /\ pc = [t \in Threads |-> "idle"]
    /\ arg = [t \in Threads |-> NoArg]

Init ==
    /\ block_write_count = [b \in Blocks |-> 0]
    /\ count_average = 0
    /\ detect_mode = 0 /\ modeSince = -HZ /\ write_traffic = 0 /\ pm_use_time = 0
    /\ Quiet

\* A device in use, time counted from now: inode updates have written every block once, and the last
\* of them, a second after the first, opened a device-wide window in which it
\* was the first write.
UsedInit ==
    /\ block_write_count = [b \in Blocks |-> 1]
    /\ count_average = 1
    /\ detect_mode = 1 /\ modeSince = 0 /\ write_traffic = 1 /\ pm_use_time = 1
    /\ Quiet

Next ==
    \/ Tick
    \/ \E t \in Threads :
        \/ \E b \in 0 .. BLOCKS_MAX : \E kind \in Kinds(b) : write_count_increase(t, b, kind)
        \/ ReadHand(t)
        \/ IncAverage(t)
        \/ ClearHand(t)
        \/ detect_prepare(t)
        \/ detect_mode_change(t)
        \/ CloseWindow(t)
        \/ record_one_sec_write_info(t)
        \/ should_migrate(t)
        \/ SpaceWalk(t)
        \/ SpaceLink(t)

Spec == Init /\ [][Next]_vars
UsedSpec == UsedInit /\ [][Next]_vars

-----------------------------------------------------------------------------
(* Properties.                                                             *)

\* Types: counters are numbers, the mode is 0, 1 or 2, the mode lock is held
\* exactly by a thread between the start and the end of a mode change.
TypeOK ==
    /\ write_count \in [Blocks -> Nat] /\ block_write_count \in [Blocks -> Nat]
    /\ {global_max_update, count_hand, count_average, max_deviation, jiffies,
        pm_use_time, time_base, write_traffic, process_count} \subseteq Nat
    /\ detect_mode \in 0 .. 2
    /\ \A t \in Threads : prepare_lock = t <=>
           pc[t] \in {"change", "close", "stop", "forget", "reset"}
    /\ Range(space) \subseteq Threads

\* The average kept by count_hand and count_average is approximate, because
\* the hand is incremented, read and cleared in separate atomic operations:
\* several threads may carry for one full hand, and a late clear discards what
\* others counted.  The error is bounded by the number of threads: the average
\* is at most that many times too large, a carry discards at most one hand and
\* one count per thread.
AverageTracks ==
    LET n == Cardinality(Threads)
    IN  /\ count_hand < BLOCKS_MAX + n
        /\ BLOCKS_MAX * count_average <= n * Writes
        /\ Writes < (count_average + 1) * (BLOCKS_MAX + n)

\* The detection mode goes from 0 to 1, from 1 to 2 or back, and from 2 to 0,
\* and every mode lasts at least one interval, however many threads find the
\* interval over at the same time (detect_prepare under its lock).
ModeCycle ==
    [][detect_mode' # detect_mode =>
           /\ <<detect_mode, detect_mode'>> \in {<<0, 1>>, <<1, 2>>, <<1, 0>>, <<2, 0>>}
           /\ jiffies - modeSince >= HZ]_vars

\* The process table never records a write more often than the block counters
\* do, and its figures agree with each other except for failed allocations:
\* total_count is the sum over the pages, page_count their number, max_count
\* the largest (the check written out in calculate_average, utility.c:27).
RecordedOnce ==
    /\ \A b \in Blocks :
           MapThenSumSet(LAMBDA p : table[p].pages[b], Nodes) <= block_write_count[b]
    /\ \A p \in Nodes :
           LET node == table[p]
               sum == MapThenSumSet(LAMBDA b : node.pages[b], Blocks)
           IN  /\ node.total_count - sum \in 0 .. faults
               /\ node.page_count = Cardinality({b \in Blocks : node.pages[b] > 0})
               /\ node.max_count = Max({1} \cup Range(node.pages))
               /\ node.max_page_writecount <= global_max_update
    /\ process_count <= Cardinality(Nodes) + faults

\* The migration threshold follows the average write count: unsynchronised
\* comparisons and additions in should_migrate never push it further ahead
\* than half a step plus one step per thread.
ThresholdFollows ==
    max_deviation < count_average + DEVIATION_HIGH \div 2
                        + Cardinality(Threads) * DEVIATION_HIGH

\* A process has at most one entry in the space table, although the table is
\* walked and extended without a lock.
SpaceOnce == IsInjective(space)

=============================================================================

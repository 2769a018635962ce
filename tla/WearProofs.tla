----------------------------- MODULE WearProofs -----------------------------
(***************************************************************************)
(* Proofs about Wear for every number of threads and blocks and every      *)
(* interval, endurance and threshold step: the detection mode changes in   *)
(* order and at most once per interval, the migration threshold stays near *)
(* the average, and no process gets two entries in the space table.        *)
(***************************************************************************)
EXTENDS Wear, TLAPS, FiniteSetTheorems

-----------------------------------------------------------------------------
(* The detection mode *)

Changing == {"change", "close", "stop", "forget", "reset"}
Changed == {"close", "forget", "reset"}
Waiting == {"change", "stop"}
Outside == {"idle", "average", "carry", "clear", "prepare", "read0", "read1",
            "read2", "update", "should", "raise", "space", "link"}

\* What the detection mode rests on: a thread that changes the mode holds
\* detect_prepare_lock in an open window, and while the window is open and the
\* mode not yet changed, the mode is as old as the window.
ModeInv ==
    /\ jiffies \in Nat /\ time_base \in Nat /\ modeSince \in Int
    /\ detect_mode \in {0, 1, 2}
    /\ change_time_base_flag \in BOOLEAN
    /\ pc \in [Threads -> Outside \cup Changing]
    /\ modeSince <= jiffies
    /\ \A t \in Threads : pc[t] \in Changing =>
           prepare_lock = t /\ ~change_time_base_flag
    /\ \A t \in Threads : pc[t] \in Waiting =>
           jiffies - time_base >= HZ /\ modeSince <= time_base
    /\ \A t \in Threads : pc[t] = "stop" => detect_mode = 1
    /\ ~change_time_base_flag =>
           modeSince <= time_base \/ \E t \in Threads : pc[t] \in Changed

-----------------------------------------------------------------------------

\* Whatever state the counters start from, the mode starts old enough.
LEMMA ModeInit == Init \/ UsedInit => ModeInv
  <1> SUFFICES ASSUME Init \/ UsedInit PROVE ModeInv
    BY Zenon
  <1>1. HZ \in Nat
    BY WearAssumption, Zenon
  <1>2. jiffies = 0 /\ time_base = 0 /\ pc = [t \in Threads |-> "idle"]
    BY Zenon DEF Init, UsedInit, Quiet
  <1>4. change_time_base_flag = TRUE
    BY Zenon DEF Init, UsedInit, Quiet
  <1>3. detect_mode \in {0, 1, 2} /\ modeSince \in Int /\ modeSince <= 0
    BY <1>1 DEF Init, UsedInit
  <1>5. change_time_base_flag \in BOOLEAN /\ change_time_base_flag
    BY <1>4, Zenon
  <1>6. \A t \in Threads : pc[t] = "idle"
    BY <1>2, Zenon
  <1>7. pc \in [Threads -> Outside \cup Changing]
    BY <1>2, Zenon DEF Outside
  <1>8. \A t \in Threads : pc[t] \notin Changing /\ pc[t] \notin Waiting /\ pc[t] # "stop"
    BY <1>6, Zenon DEF Changing, Waiting
  <1>9. jiffies \in Nat /\ time_base \in Nat /\ modeSince <= jiffies
    BY <1>2, <1>3, Zenon
  <1> QED
    BY <1>3, <1>5, <1>7, <1>8, <1>9, Zenon DEF ModeInv

\* A step that leaves the window and the mode alone and takes its thread from
\* one place outside a mode change to another.
LEMMA OutsideStep ==
    ASSUME ModeInv, NEW t \in Threads, pc[t] \notin Changing,
           NEW step \in Outside, pc' = [pc EXCEPT ![t] = step],
           UNCHANGED <<jiffies, modeVars, prepare_lock>>
    PROVE  ModeInv'
  BY Zenon DEF ModeInv, modeVars, Outside, Changing, Changed, Waiting

\* After the average or the record a thread is outside a mode change.
LEMMA NextPlace ==
    ASSUME NEW t
    PROVE  AfterAverage(t) \in Outside /\ AfterRecord(t) \in Outside
  BY Zenon DEF AfterAverage, AfterRecord, Outside

\* Every action keeps ModeInv (detect_prepare opens and closes windows under its
\* lock, detect_mode_change runs in an expired one).
LEMMA ModeStep == ModeInv /\ [Next]_vars => ModeInv'
  <1> SUFFICES ASSUME ModeInv, [Next]_vars PROVE ModeInv'
    BY Zenon
  <1>0. HZ \in Nat \ {0} /\ Free \notin Threads
    BY WearAssumption, Zenon DEF Free
  <1>1. CASE UNCHANGED vars
    BY <1>1, Zenon DEF ModeInv, vars, modeVars, clockVars
  <1>2. CASE Tick
    BY <1>2, <1>0 DEF Tick, ModeInv, modeVars, Changing, Changed, Waiting
  <1>3. ASSUME NEW t \in Threads, NEW b \in 0 .. BLOCKS_MAX, NEW kind,
               write_count_increase(t, b, kind)
        PROVE  ModeInv'
    <2>1. CASE b >= BLOCKS_MAX
      BY <1>3, <2>1, Zenon DEF write_count_increase, ModeInv, modeVars, clockVars
    <2>2. CASE ~(b >= BLOCKS_MAX)
      <3>1. pc[t] = "idle" /\ pc' = [pc EXCEPT ![t] = "average"]
        BY <1>3, <2>2, Zenon DEF write_count_increase, GotoWith
      <3>2. UNCHANGED <<jiffies, modeVars, prepare_lock>>
        BY <1>3, <2>2, Zenon DEF write_count_increase, GotoWith, clockVars
      <3>3. pc[t] \notin Changing /\ "average" \in Outside
        BY <3>1, Zenon DEF Outside, Changing
      <3> QED
        BY <3>1, <3>2, <3>3, OutsideStep, Zenon
    <2> QED
      BY <2>1, <2>2, Zenon
  <1>4. ASSUME NEW t \in Threads,
               \/ ReadHand(t) \/ IncAverage(t) \/ ClearHand(t)
               \/ record_one_sec_write_info(t) \/ should_migrate(t)
               \/ SpaceWalk(t) \/ SpaceLink(t)
        PROVE  ModeInv'
    <2>1. PICK step \in Outside : pc' = [pc EXCEPT ![t] = step]
      BY <1>4, NextPlace, Zenon
         DEF ReadHand, IncAverage, ClearHand, record_one_sec_write_info,
             should_migrate, SpaceWalk, SpaceLink, Goto, GotoWith, Outside
    <2>2. pc[t] \notin Changing
      BY <1>4, Zenon DEF ReadHand, IncAverage, ClearHand, record_one_sec_write_info,
                  should_migrate, SpaceWalk, SpaceLink, Changing
    <2>3. UNCHANGED <<jiffies, modeVars, prepare_lock>>
      BY <1>4, Zenon DEF ReadHand, IncAverage, ClearHand, record_one_sec_write_info,
                  should_migrate, SpaceWalk, SpaceLink, clockVars
    <2> QED
      BY <2>1, <2>2, <2>3, OutsideStep, Zenon
  <1>5. ASSUME NEW t \in Threads, detect_prepare(t) PROVE ModeInv'
    <2>1. \A u \in Threads : pc[u] \notin Changing
      BY <1>0, <1>5, Zenon DEF detect_prepare, ModeInv
    <2>2. /\ jiffies' = jiffies /\ detect_mode' = detect_mode
          /\ modeSince' = modeSince /\ ~change_time_base_flag'
          /\ change_time_base_flag' \in BOOLEAN
      BY <1>5, Zenon DEF detect_prepare, clockVars
    <2>3. time_base' \in Nat /\ modeSince <= time_base'
      BY <1>5, <2>1, Zenon DEF detect_prepare, ModeInv, Changing, Changed
    <2>4. \/ /\ jiffies - time_base' >= HZ /\ prepare_lock' = t
             /\ pc' = [pc EXCEPT ![t] = "change"]
          \/ pc' = [pc EXCEPT ![t] = "read0"]
      BY <1>5, Zenon DEF detect_prepare, Goto, GotoWith
    <2>5. /\ pc' \in [Threads -> Outside \cup Changing]
          /\ \A u \in Threads : pc'[u] \in Changing =>
                 /\ u = t /\ pc'[u] = "change"
                 /\ prepare_lock' = t /\ jiffies - time_base' >= HZ
      BY <2>1, <2>4, Zenon DEF ModeInv, Outside, Changing
    <2> QED
      BY <2>2, <2>3, <2>5, Zenon DEF ModeInv, Changing, Waiting
  <1>6. ASSUME NEW t \in Threads, detect_mode_change(t) PROVE ModeInv'
    <2>1. \A u \in Threads : pc[u] \in Changing => u = t
      BY <1>6, Zenon DEF detect_mode_change, ModeInv, Changing
    <2>2. /\ UNCHANGED <<jiffies, time_base, change_time_base_flag, prepare_lock>>
          /\ pc[t] = "change"
      BY <1>6, Zenon DEF detect_mode_change, clockVars
    <2>3. \/ /\ pc' = [pc EXCEPT ![t] = "stop"] /\ detect_mode = 1
             /\ UNCHANGED <<detect_mode, modeSince>>
          \/ /\ \E step \in Changed : pc' = [pc EXCEPT ![t] = step]
             /\ detect_mode' \in {0, 1, 2} /\ modeSince' \in {modeSince, jiffies}
      BY <1>6, Zenon DEF detect_mode_change, SetMode, Goto, Changed
    <2> QED
      BY <2>1, <2>2, <2>3 DEF ModeInv, Outside, Changing, Changed, Waiting
  <1>7. ASSUME NEW t \in Threads, CloseWindow(t) PROVE ModeInv'
    <2>1. \A u \in Threads : pc[u] \in Changing => u = t
      BY <1>7, Zenon DEF CloseWindow, CloseStores, ModeInv, Changing
    <2>2. /\ UNCHANGED <<jiffies, time_base>> /\ change_time_base_flag'
          /\ change_time_base_flag' \in BOOLEAN
          /\ pc' = [pc EXCEPT ![t] = "read0"]
      BY <1>7, Zenon DEF CloseWindow, CloseStores, GotoWith, clockVars
    <2>3. detect_mode' \in {0, 1, 2} /\ modeSince' \in {modeSince, jiffies}
      BY <1>7, Zenon DEF CloseWindow, CloseStores, SetMode, ModeInv
    <2>4. /\ pc' \in [Threads -> Outside \cup Changing]
          /\ \A u \in Threads : pc'[u] \notin Changing
      BY <2>1, <2>2, Zenon DEF ModeInv, Outside, Changing
    <2> QED
      BY <2>2, <2>3, <2>4 DEF ModeInv, Changing, Waiting
  <1> QED
    BY <1>1, <1>2, <1>3, <1>4, <1>5, <1>6, <1>7, Zenon DEF Next

\* The only steps that change the mode are detect_mode_change, once the interval
\* is over, and the end of a device-wide window that found nothing.
LEMMA ModeCycleStep ==
    ModeInv /\ [Next]_vars =>
        [detect_mode' # detect_mode =>
           /\ <<detect_mode, detect_mode'>> \in {<<0, 1>>, <<1, 2>>, <<1, 0>>, <<2, 0>>}
           /\ jiffies - modeSince >= HZ]_vars
  <1> SUFFICES ASSUME ModeInv, Next, detect_mode' # detect_mode
               PROVE  /\ <<detect_mode, detect_mode'>> \in
                              {<<0, 1>>, <<1, 2>>, <<1, 0>>, <<2, 0>>}
                      /\ jiffies - modeSince >= HZ
    BY ZenonT(30)
  <1>1. PICK t \in Threads :
            detect_mode_change(t) \/ (CloseWindow(t) /\ pc[t] = "stop")
    BY Zenon DEF Next, Tick, write_count_increase, ReadHand, IncAverage, ClearHand,
           detect_prepare, CloseWindow, CloseStores, record_one_sec_write_info,
           should_migrate, SpaceWalk, SpaceLink, modeVars
  <1>2. HZ \in Nat
    BY WearAssumption, Zenon
  <1>3. jiffies - modeSince >= HZ
    BY <1>1, <1>2 DEF detect_mode_change, ModeInv, Waiting
  <1>4. \/ detect_mode = 0 /\ detect_mode' = 1
        \/ detect_mode = 1 /\ detect_mode' \in {0, 2}
        \/ detect_mode = 2 /\ detect_mode' = 0
    BY <1>1, Zenon DEF detect_mode_change, CloseWindow, CloseStores, SetMode, ModeInv
  <1> QED
    BY <1>3, <1>4, Zenon

\* The mode of the write detection (detect.c) goes round in order, and every mode
\* lasts at least an interval, for any number of threads.
THEOREM ModesInOrder == Spec \/ UsedSpec => ModeCycle
  BY ModeInit, ModeStep, ModeCycleStep, PTL DEF Spec, UsedSpec, ModeCycle

-----------------------------------------------------------------------------
(* The migration threshold *)

\* The threads that have found the threshold too low and not yet raised it.
Raisers == {t \in Threads : pc[t] = "raise"}

\* ThresholdFollows is not inductive: the raises under way must be counted too.
ThresholdInv ==
    /\ max_deviation \in Nat /\ count_average \in Nat
    /\ pc \in [Threads -> Outside \cup Changing]
    /\ max_deviation + Cardinality(Raisers) * DEVIATION_HIGH
         < count_average + DEVIATION_HIGH \div 2
             + Cardinality(Threads) * DEVIATION_HIGH

\* Arithmetic of the constants.
LEMMA Constants ==
    /\ DEVIATION_HIGH \in Nat /\ DEVIATION_HIGH >= 2
    /\ DEVIATION_HIGH \div 2 \in Nat /\ DEVIATION_HIGH \div 2 >= 1
    /\ DEVIATION_HIGH \div 2 <= DEVIATION_HIGH
    /\ Cardinality(Threads) \in Nat /\ Cardinality(Threads) >= 1
    /\ Word \in Nat
    /\ DEVIATION_HIGH + Cardinality(Threads) * DEVIATION_HIGH <= Word
  <1>1. Cardinality(Threads) \in Nat /\ Cardinality(Threads) # 0
    BY WearAssumption, FS_CardinalityType, FS_EmptySet, Zenon
  <1> QED
    BY <1>1, WearAssumption

\* The number of raisers is a number, at most that of the threads.
LEMMA RaisersBounded ==
    /\ IsFiniteSet(Raisers)
    /\ Cardinality(Raisers) \in Nat
    /\ Cardinality(Raisers) <= Cardinality(Threads)
  BY WearAssumption, FS_Subset, FS_CardinalityType, Zenon DEF Raisers

\* Products with the step of the threshold.
LEMMA Products ==
    ASSUME NEW j \in Nat, NEW k \in Nat, NEW d \in Nat
    PROVE  /\ j * d \in Nat
           /\ (j + 1) * d = j * d + d
           /\ j <= k => j * d <= k * d
  OBVIOUS

\* unsigned long arithmetic is exact below the word size.
LEMMA UnsignedExact ==
    ASSUME NEW d \in Nat, d < Word, Word \in Nat
    PROVE  Unsigned(d) = d
  BY DEF Unsigned

\* Nobody raises the threshold at the start, and it is one step above zero.
LEMMA ThresholdInit == Init \/ UsedInit => ThresholdInv
  <1> SUFFICES ASSUME Init \/ UsedInit PROVE ThresholdInv
    BY Zenon
  <1>1. /\ max_deviation = DEVIATION_HIGH /\ count_average \in Nat
        /\ pc = [t \in Threads |-> "idle"]
    BY DEF Init, UsedInit, Quiet
  <1>2. Raisers = {}
    BY <1>1, Zenon DEF Raisers
  <1>3. Cardinality(Raisers) = 0
    BY <1>2, FS_EmptySet, Zenon
  <1>4. DEVIATION_HIGH <= Cardinality(Threads) * DEVIATION_HIGH
    BY Constants, Products
  <1>5. Cardinality(Threads) * DEVIATION_HIGH \in Nat
    BY Constants, Products, Zenon
  <1> QED
    BY <1>1, <1>3, <1>4, <1>5, Constants DEF ThresholdInv, Outside

\* A step that moves a thread between places other than the raise, and does not
\* lower the average.
LEMMA NoRaise ==
    ASSUME ThresholdInv, NEW t \in Threads,
           NEW step \in (Outside \cup Changing) \ {"raise"},
           pc[t] # "raise", pc' = [pc EXCEPT ![t] = step],
           max_deviation' = max_deviation,
           count_average' \in Nat, count_average <= count_average'
    PROVE  ThresholdInv'
  <1>1. Raisers' = Raisers
    BY Zenon DEF Raisers, ThresholdInv
  <1>2. /\ Cardinality(Raisers) * DEVIATION_HIGH \in Nat
        /\ Cardinality(Threads) * DEVIATION_HIGH \in Nat
    BY Constants, RaisersBounded, Products, Zenon
  <1>3. pc' \in [Threads -> Outside \cup Changing]
    BY Zenon DEF ThresholdInv
  <1> QED
    BY <1>1, <1>2, <1>3, Constants DEF ThresholdInv

\* The test of should_migrate passes only while the threshold is less than half a
\* step above the average, although the difference is unsigned.
LEMMA RaiseJustified ==
    ASSUME ThresholdInv,
           Unsigned(max_deviation - count_average) < DEVIATION_HIGH \div 2
    PROVE  max_deviation < count_average + DEVIATION_HIGH \div 2
  <1>0. max_deviation \in Nat /\ count_average \in Nat
    BY Zenon DEF ThresholdInv
  <1>1. CASE max_deviation < count_average
    BY <1>0, <1>1, Constants
  <1>2. CASE max_deviation >= count_average
    <2>1. /\ Cardinality(Raisers) * DEVIATION_HIGH \in Nat
          /\ Cardinality(Threads) * DEVIATION_HIGH \in Nat
      BY Constants, RaisersBounded, Products, Zenon
    <2>2. max_deviation - count_average \in Nat /\ max_deviation - count_average < Word
      BY <1>2, <2>1, Constants DEF ThresholdInv
    <2>3. Unsigned(max_deviation - count_average) = max_deviation - count_average
      BY <2>2, Constants, UnsignedExact, Zenon
    <2> QED
      BY <1>0, <2>3, Constants
  <1> QED
    BY <1>0, <1>1, <1>2

\* Every action keeps ThresholdInv: a raise that begins is justified at that
\* moment, and one that ends leaves one raiser fewer.
LEMMA ThresholdStep == ThresholdInv /\ [Next]_vars => ThresholdInv'
  <1> SUFFICES ASSUME ThresholdInv, [Next]_vars PROVE ThresholdInv'
    BY Zenon
  <1>1. CASE UNCHANGED vars \/ Tick
    <2>1. UNCHANGED <<pc, max_deviation, count_average>>
      BY <1>1, Zenon DEF vars, Tick, averageVars
    <2>2. Raisers' = Raisers
      BY <2>1, Zenon DEF Raisers
    <2> QED
      BY <2>1, <2>2, Zenon DEF ThresholdInv
  <1>2. ASSUME NEW t \in Threads, NEW b \in 0 .. BLOCKS_MAX, NEW kind,
               write_count_increase(t, b, kind)
        PROVE  ThresholdInv'
    <2>1. /\ pc[t] = "idle" /\ UNCHANGED <<max_deviation, count_average>>
          /\ pc' = pc \/ pc' = [pc EXCEPT ![t] = "average"]
      BY <1>2, Zenon DEF write_count_increase, CountBlock, GotoWith, averageVars
    <2>2. PICK step \in {"idle", "average"} : pc' = [pc EXCEPT ![t] = step]
      BY <2>1, Zenon DEF ThresholdInv
    <2>3. count_average' \in Nat /\ count_average <= count_average'
      BY <2>1 DEF ThresholdInv
    <2>4. step \in (Outside \cup Changing) \ {"raise"}
      BY Zenon DEF Outside
    <2> QED
      BY <2>1, <2>2, <2>3, <2>4, NoRaise, Zenon
  <1>3. ASSUME NEW t \in Threads,
               \/ ReadHand(t) \/ IncAverage(t) \/ ClearHand(t)
               \/ detect_prepare(t) \/ detect_mode_change(t) \/ CloseWindow(t)
               \/ record_one_sec_write_info(t) \/ SpaceWalk(t) \/ SpaceLink(t)
        PROVE  ThresholdInv'
    <2>1. PICK step \in (Outside \cup Changing) \ {"raise"} :
              pc' = [pc EXCEPT ![t] = step]
      BY <1>3, Zenon
         DEF ReadHand, IncAverage, ClearHand, detect_prepare, detect_mode_change,
             CloseWindow, CloseStores, record_one_sec_write_info, SpaceWalk,
             SpaceLink, Goto, GotoWith, AfterAverage, AfterRecord, Outside, Changing
    <2>2. pc[t] # "raise" /\ max_deviation' = max_deviation
      BY <1>3, Zenon DEF ReadHand, IncAverage, ClearHand, detect_prepare,
             detect_mode_change, CloseWindow, CloseStores,
             record_one_sec_write_info, SpaceWalk, SpaceLink
    <2>3. count_average' \in {count_average, count_average + 1}
      BY <1>3, Zenon DEF ReadHand, IncAverage, ClearHand, detect_prepare,
             detect_mode_change, CloseWindow, CloseStores,
             record_one_sec_write_info, SpaceWalk, SpaceLink, averageVars
    <2>4. count_average' \in Nat /\ count_average <= count_average'
      BY <2>3 DEF ThresholdInv
    <2> QED
      BY <2>1, <2>2, <2>4, NoRaise, Zenon
  <1>4. ASSUME NEW t \in Threads, should_migrate(t) PROVE ThresholdInv'
    <2>1. count_average' = count_average
      BY <1>4, Zenon DEF should_migrate, averageVars
    <2>2. CASE pc[t] = "should" /\ pc' = [pc EXCEPT ![t] = "idle"]
      <3>1. max_deviation' = max_deviation /\ pc[t] # "raise"
        BY <1>4, <2>2, Zenon DEF should_migrate
      <3>2. count_average' \in Nat /\ count_average <= count_average'
        BY <2>1 DEF ThresholdInv
      <3>3. "idle" \in (Outside \cup Changing) \ {"raise"}
        BY Zenon DEF Outside
      <3> QED
        BY <2>2, <3>1, <3>2, <3>3, NoRaise, Zenon
    <2>3. CASE pc[t] = "should" /\ pc' = [pc EXCEPT ![t] = "raise"]
      <3>1. max_deviation' = max_deviation
        BY <1>4, <2>3, Zenon DEF should_migrate
      <3>2. Unsigned(max_deviation - count_average) < DEVIATION_HIGH \div 2
        BY <1>4, <2>3, Zenon DEF should_migrate, Goto, ThresholdInv
      <3>3. max_deviation < count_average + DEVIATION_HIGH \div 2
        BY <3>2, RaiseJustified, Zenon
      <3>4. Raisers' \subseteq Threads
        BY Zenon DEF Raisers
      <3>5. Cardinality(Raisers') \in Nat /\ Cardinality(Raisers') <= Cardinality(Threads)
        BY <3>4, WearAssumption, FS_Subset, FS_CardinalityType, Zenon
      <3>6. /\ Cardinality(Raisers') * DEVIATION_HIGH \in Nat
            /\ Cardinality(Threads) * DEVIATION_HIGH \in Nat
            /\ Cardinality(Raisers') * DEVIATION_HIGH <= Cardinality(Threads) * DEVIATION_HIGH
        BY <3>5, Constants, Products, Zenon
      <3>7. pc' \in [Threads -> Outside \cup Changing]
        BY <2>3, Zenon DEF ThresholdInv, Outside
      <3> QED
        BY <2>1, <3>1, <3>3, <3>6, <3>7, Constants, SMTT(40) DEF ThresholdInv
    <2>4. CASE pc[t] = "raise"
      <3>1. /\ max_deviation' = max_deviation + DEVIATION_HIGH
            /\ pc' = [pc EXCEPT ![t] = "idle"]
        BY <1>4, <2>4, Zenon DEF should_migrate, Goto
      <3>2. t \in Raisers /\ Raisers' = Raisers \ {t}
        BY <2>4, <3>1, Zenon DEF Raisers, ThresholdInv
      <3>3. Cardinality(Raisers') = Cardinality(Raisers) - 1
        BY <3>2, RaisersBounded, FS_RemoveElement, Zenon
      <3>4. Cardinality(Raisers') \in Nat
        BY <3>2, RaisersBounded, FS_RemoveElement, FS_CardinalityType, Zenon
      <3>5. Cardinality(Raisers) * DEVIATION_HIGH
              = Cardinality(Raisers') * DEVIATION_HIGH + DEVIATION_HIGH
        BY <3>3, <3>4, RaisersBounded, Constants, Products, SMTT(40)
      <3>6. /\ Cardinality(Raisers') * DEVIATION_HIGH \in Nat
            /\ Cardinality(Threads) * DEVIATION_HIGH \in Nat
        BY <3>4, Constants, Products, Zenon
      <3>7. pc' \in [Threads -> Outside \cup Changing]
        BY <3>1, Zenon DEF ThresholdInv, Outside
      <3> QED
        BY <2>1, <3>1, <3>5, <3>6, <3>7, Constants, SMTT(40) DEF ThresholdInv
    <2> QED
      BY <1>4, <2>2, <2>3, <2>4, Zenon DEF should_migrate, Goto
  <1> QED
    BY <1>1, <1>2, <1>3, <1>4, Zenon DEF Next

\* should_migrate (wearleveling.c) compares and raises max_deviation without a
\* lock: for any number of threads it gets at most one step per thread and half a
\* step ahead of the average.
THEOREM ThresholdStaysNear == Spec \/ UsedSpec => []ThresholdFollows
  <1>1. ThresholdInv => ThresholdFollows
    <2>1. /\ Cardinality(Raisers) * DEVIATION_HIGH \in Nat
          /\ Cardinality(Threads) * DEVIATION_HIGH \in Nat
      BY Constants, RaisersBounded, Products, Zenon
    <2> QED
      BY <2>1, Constants DEF ThresholdInv, ThresholdFollows
  <1> QED
    BY <1>1, ThresholdInit, ThresholdStep, PTL DEF Spec, UsedSpec

-----------------------------------------------------------------------------
(* The space table *)

\* What the walk of insert_into_spaceTable rests on: a thread that found no entry
\* of its own still has none when it links one, since only it links one.
SpaceInv ==
    /\ pc \in [Threads -> Outside \cup Changing]
    /\ space \in Seq(Threads)
    /\ SpaceOnce
    /\ \A t \in Threads : pc[t] = "link" => t \notin Range(space)

\* The table starts empty.
LEMMA SpaceInit == Init \/ UsedInit => SpaceInv
  <1> SUFFICES ASSUME Init \/ UsedInit PROVE SpaceInv
    BY Zenon
  <1>1. space = <<>> /\ pc = [t \in Threads |-> "idle"]
    BY Zenon DEF Init, UsedInit, Quiet
  <1>2. space \in Seq(Threads) /\ SpaceOnce
    BY <1>1 DEF SpaceOnce, IsInjective
  <1> QED
    BY <1>1, <1>2, Zenon DEF SpaceInv, Outside

\* The chain that a thread without an entry leaves has its entry once, at the end,
\* and otherwise entries that were there before, in the same order.
LEMMA LinkedOnce ==
    ASSUME space \in Seq(Threads), IsInjective(space), NEW t \in Threads,
           t \notin Range(space)
    PROVE  /\ Linked(t) \in Seq(Threads) /\ IsInjective(Linked(t))
           /\ Range(Linked(t)) \subseteq Range(space) \cup {t}
  <1> DEFINE tail == arg[t].tail
             k == CHOOSE i \in DOMAIN space : space[i] = tail
  <1>1. CASE tail = "head"
    <2>1. Linked(t) = <<t>>
      BY <1>1, Zenon DEF Linked
    <2> QED
      BY <2>1 DEF IsInjective, Range
  <1>2. CASE tail # "head" /\ tail \notin Range(space)
    <2>1. Linked(t) = space
      BY <1>2, Zenon DEF Linked
    <2> QED
      BY <2>1, Zenon
  <1>3. CASE tail # "head" /\ tail \in Range(space)
    <2>1. Linked(t) = Append(SubSeq(space, 1, k), t)
      BY <1>3, Zenon DEF Linked
    <2>2. k \in DOMAIN space
      BY <1>3, Zenon DEF Range
    <2> HIDE DEF k
    <2>3. k \in Nat /\ k <= Len(space) /\ DOMAIN space = 1 .. Len(space) /\ Len(space) \in Nat
      BY <2>2
    <2> DEFINE s == SubSeq(space, 1, k)
    <2>4. s \in Seq(Threads) /\ Len(s) = k /\ \A i \in 1 .. k : s[i] = space[i]
      BY <2>3
    <2> HIDE DEF s
    <2> DEFINE l == Append(s, t)
    <2>5. /\ l \in Seq(Threads) /\ DOMAIN l = 1 .. k + 1 /\ l[k + 1] = t
          /\ \A i \in 1 .. k : l[i] = s[i]
      BY <2>3, <2>4
    <2> HIDE DEF l
    <2>6. \A i \in 1 .. k + 1 : \/ i = k + 1 /\ l[i] = t
                                \/ i \in DOMAIN space /\ l[i] = space[i]
      <3>1. \A i \in 1 .. k + 1 : i = k + 1 \/ i \in 1 .. k
        BY <2>3
      <3>2. \A i \in 1 .. k : i \in DOMAIN space
        BY <2>3
      <3> QED
        BY <2>4, <2>5, <3>1, <3>2, Zenon
    <2>7. \A i \in DOMAIN space : space[i] \in Range(space) /\ space[i] # t
      BY Zenon DEF Range
    <2>8. IsInjective(l)
      BY <2>5, <2>6, <2>7, Zenon DEF IsInjective
    <2>9. Range(l) \subseteq Range(space) \cup {t}
      BY <2>5, <2>6, <2>7, Zenon DEF Range
    <2> QED
      BY <2>1, <2>5, <2>8, <2>9, Zenon DEF l, s
  <1> QED
    BY <1>1, <1>2, <1>3, Zenon

\* A step that leaves the table alone and does not take a thread to the link.
LEMMA NoLink ==
    ASSUME SpaceInv, NEW t \in Threads, NEW step \in (Outside \cup Changing) \ {"link"},
           pc' = [pc EXCEPT ![t] = step], space' = space
    PROVE  SpaceInv'
  BY Zenon DEF SpaceInv, SpaceOnce

\* Every action keeps SpaceInv: two threads that link at once are two processes.
LEMMA SpaceStep == SpaceInv /\ [Next]_vars => SpaceInv'
  <1> SUFFICES ASSUME SpaceInv, [Next]_vars PROVE SpaceInv'
    BY Zenon
  <1> DEFINE Elsewhere == (Outside \cup Changing) \ {"link"}
  <1>1. CASE UNCHANGED vars \/ Tick
    <2>1. UNCHANGED <<pc, space>>
      BY <1>1, Zenon DEF vars, Tick
    <2> QED
      BY <2>1, Zenon DEF SpaceInv, SpaceOnce
  <1>2. ASSUME NEW t \in Threads, NEW b \in 0 .. BLOCKS_MAX, NEW kind,
               write_count_increase(t, b, kind)
        PROVE  SpaceInv'
    <2>1. /\ pc[t] = "idle" /\ space' = space
          /\ pc' = pc \/ pc' = [pc EXCEPT ![t] = "average"]
      BY <1>2, Zenon DEF write_count_increase, GotoWith
    <2>2. PICK step \in {"idle", "average"} : pc' = [pc EXCEPT ![t] = step]
      BY <2>1, Zenon DEF SpaceInv
    <2>3. step \in Elsewhere
      BY <2>2, Zenon DEF Outside
    <2> QED
      BY <2>1, <2>2, <2>3, NoLink, Zenon
  <1>3. ASSUME NEW t \in Threads,
               \/ ReadHand(t) \/ IncAverage(t) \/ ClearHand(t) \/ detect_prepare(t)
               \/ detect_mode_change(t) \/ CloseWindow(t)
               \/ record_one_sec_write_info(t) \/ should_migrate(t)
        PROVE  SpaceInv'
    <2>1. AfterAverage(t) \in Elsewhere /\ AfterRecord(t) \in Elsewhere
      BY Zenon DEF AfterAverage, AfterRecord, Outside
    <2>2. space' = space
      BY <1>3, Zenon DEF ReadHand, IncAverage, ClearHand, detect_prepare, detect_mode_change,
                         CloseWindow, CloseStores, record_one_sec_write_info, should_migrate
    <2>3. {"carry", "clear", "change", "read0", "close", "stop", "forget", "reset", "read1",
           "read2", "update", "raise", "idle"} \subseteq Elsewhere
      BY Zenon DEF Outside, Changing
    <2> HIDE DEF Elsewhere
    <2>4. CASE ReadHand(t) \/ IncAverage(t) \/ ClearHand(t)
      <3>1. PICK step \in Elsewhere : pc' = [pc EXCEPT ![t] = step]
        BY <2>1, <2>3, <2>4, Zenon DEF ReadHand, IncAverage, ClearHand, Goto
      <3> QED
        BY <2>2, <3>1, NoLink, Zenon DEF Elsewhere
    <2>5. CASE detect_prepare(t) \/ detect_mode_change(t) \/ CloseWindow(t)
      <3>1. PICK step \in Elsewhere : pc' = [pc EXCEPT ![t] = step]
        BY <2>3, <2>5, Zenon DEF detect_prepare, detect_mode_change, CloseWindow, CloseStores,
                                 Goto, GotoWith
      <3> QED
        BY <2>2, <3>1, NoLink, Zenon DEF Elsewhere
    <2>6. CASE record_one_sec_write_info(t) \/ should_migrate(t)
      <3>1. PICK step \in Elsewhere : pc' = [pc EXCEPT ![t] = step]
        BY <2>1, <2>3, <2>6, Zenon DEF record_one_sec_write_info, should_migrate, Goto
      <3> QED
        BY <2>2, <3>1, NoLink, Zenon DEF Elsewhere
    <2> QED
      BY <1>3, <2>4, <2>5, <2>6, Zenon
  <1>4. ASSUME NEW t \in Threads, SpaceWalk(t) PROVE SpaceInv'
    <2>1. CASE detect_mode = 0 \/ t \in Range(space)
      <3>1. pc' = [pc EXCEPT ![t] = "idle"] /\ space' = space /\ "idle" \in Elsewhere
        BY <1>4, <2>1, Zenon DEF SpaceWalk, GotoWith, Outside
      <3> QED
        BY <3>1, NoLink, Zenon
    <2>2. CASE ~(detect_mode = 0 \/ t \in Range(space))
      <3>1. pc' = [pc EXCEPT ![t] = "link"] /\ space' = space
        BY <1>4, <2>2, Zenon DEF SpaceWalk, GotoWith
      <3> QED
        BY <2>2, <3>1, Zenon DEF SpaceInv, SpaceOnce, Outside
    <2> QED
      BY <2>1, <2>2, Zenon
  <1>5. ASSUME NEW t \in Threads, SpaceLink(t) PROVE SpaceInv'
    <2>1. pc[t] = "link" /\ space' = Linked(t) /\ pc' = [pc EXCEPT ![t] = "idle"]
      BY <1>5, Zenon DEF SpaceLink
    <2>2. /\ space' \in Seq(Threads) /\ IsInjective(space')
          /\ Range(space') \subseteq Range(space) \cup {t}
      BY <2>1, LinkedOnce, Zenon DEF SpaceInv, SpaceOnce
    <2> QED
      BY <2>1, <2>2, Zenon DEF SpaceInv, SpaceOnce, Outside
  <1> QED
    BY <1>1, <1>2, <1>3, <1>4, <1>5, Zenon DEF Next

\* insert_into_spaceTable (occupySpace.c) walks and extends its list without a
\* lock and may drop the entries of others, but never gives a process a second
\* entry, for any number of threads.
THEOREM OneEntryPerProcess == Spec \/ UsedSpec => []SpaceOnce
  <1>1. SpaceInv => SpaceOnce
    BY Zenon DEF SpaceInv
  <1> QED
    BY <1>1, SpaceInit, SpaceStep, PTL DEF Spec, UsedSpec

=============================================================================

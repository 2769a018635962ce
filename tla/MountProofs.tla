---------------------------- MODULE MountProofs ----------------------------
(***************************************************************************)
(* What a format leaves on the device survives: once nova_init has         *)
(* returned, no unmount, no failed mount and no power failure loses the    *)
(* superblocks or the root inode.                                          *)
(***************************************************************************)
EXTENDS Mount, TLAPS

-----------------------------------------------------------------------------
(* The inductive invariant *)

\* What nova_init makes: the two superblocks and the root inode.
Made == {<<"super", "1">>, <<"super", "2">>, <<"root", "1">>}

\* Contents in which all of it is there, and stores that leave it so.
Good(m) == Made \subseteq DOMAIN m /\ \A a \in Made : m[a] = "good"
Keeps(stores) == \A s \in stores : s[1] \in Made => s[2] = "good"

\* Before its last barrier the format has stored all of it and nothing else in
\* its place; afterwards it is durable, and only ever stored again as it is.
FormatInv ==
    /\ phase = "root" =>
         Keeps(pend) /\ \A a \in Made : <<a, "good">> \in pend
    /\ formatted => Good(nvm) /\ Keeps(pend)

-----------------------------------------------------------------------------
(* Stores *)

\* Stores that reach the device keep what is there.
LEMMA ApplyKeeps ==
    ASSUME NEW m, NEW S, Good(m), Keeps(S)
    PROVE  Good(Apply(m, S))
<1> SUFFICES ASSUME NEW a \in Made
             PROVE  a \in DOMAIN Apply(m, S) /\ Apply(m, S)[a] = "good"
  BY Zenon DEF Good
<1>1. a \in DOMAIN m /\ m[a] = "good"
  BY Zenon DEF Good
<1>2. a \in DOMAIN Apply(m, S)
      /\ Apply(m, S)[a] = IF \E s \in S : s[1] = a
                          THEN (CHOOSE s \in S : s[1] = a)[2] ELSE m[a]
  BY <1>1, Zenon DEF Apply
<1>3. CASE \E s \in S : s[1] = a
  <2>1. (CHOOSE s \in S : s[1] = a) \in S /\ (CHOOSE s \in S : s[1] = a)[1] = a
    BY <1>3, Zenon
  <2> QED BY <1>2, <1>3, <2>1, Zenon DEF Keeps
<1> QED BY <1>1, <1>2, <1>3, Zenon

\* Stores that make it put it there, whatever was there before.
LEMMA ApplyMakes ==
    ASSUME NEW m, NEW S, Keeps(S), \A a \in Made : <<a, "good">> \in S
    PROVE  Good(Apply(m, S))
<1> SUFFICES ASSUME NEW a \in Made
             PROVE  a \in DOMAIN Apply(m, S) /\ Apply(m, S)[a] = "good"
  BY Zenon DEF Good
<1>1. <<a, "good">> \in S /\ <<a, "good">>[1] = a
  BY Zenon
<1>2. a \in {s[1] : s \in S} /\ \E s \in S : s[1] = a
  BY <1>1, Zenon
<1>3. a \in DOMAIN Apply(m, S)
      /\ Apply(m, S)[a] = (CHOOSE s \in S : s[1] = a)[2]
  BY <1>2, Zenon DEF Apply
<1>4. (CHOOSE s \in S : s[1] = a) \in S /\ (CHOOSE s \in S : s[1] = a)[1] = a
  BY <1>2, Zenon
<1> QED BY <1>3, <1>4, Zenon DEF Keeps

\* The reuse of pages that no log leads to concerns entries only.
LEMMA ReachableKeeps ==
    ASSUME NEW m, Good(m)
    PROVE  Good(Reachable(m))
<1> SUFFICES ASSUME NEW a \in Made
             PROVE  a \in DOMAIN Reachable(m) /\ Reachable(m)[a] = "good"
  BY Zenon DEF Good
<1>1. a \in DOMAIN m /\ m[a] = "good"
  BY Zenon DEF Good
<1>2. a[1] # "entry"
  BY DEF Made
<1> QED BY <1>1, <1>2, Zenon DEF Reachable

\* A store replaces the earlier ones to its place.
LEMMA StoreKeeps ==
    ASSUME NEW S, Keeps(pend), Keeps(S), Store(S)
    PROVE  Keeps(pend')
  BY Zenon DEF Store, Keeps

\* A saved log does not touch it: its head, its tail and its entries are elsewhere.
LEMMA LogElsewhere ==
    ASSUME NEW slot, NEW chain, NEW entries, NEW n
    PROVE  /\ Keeps({<<<<"head", slot>>, chain>>}
                    \cup nova_save_range_nodes_to_log(chain, entries))
           /\ Keeps({<<<<"tail", slot>>, n>>})
<1>1. <<"head", slot>> \notin Made /\ <<"tail", slot>> \notin Made
  BY DEF Made
<1>2. \A i : Place(chain, i) \notin Made
  BY DEF Made, Place
<1>3. ASSUME NEW s \in nova_save_range_nodes_to_log(chain, entries)
      PROVE  s[1] \notin Made
  <2>1. PICK i \in {j \in DOMAIN entries : j <= Room(chain)} :
          s = <<Place(chain, i), entries[i]>>
    BY <1>3, Zenon DEF nova_save_range_nodes_to_log
  <2>2. s[1] = Place(chain, i)
    BY <2>1
  <2> QED BY <1>2, <2>2, Zenon
<1>4. /\ <<<<"head", slot>>, chain>>[1] = <<"head", slot>>
      /\ <<<<"tail", slot>>, n>>[1] = <<"tail", slot>>
  OBVIOUS
<1> QED BY <1>1, <1>3, <1>4, Zenon DEF Keeps

-----------------------------------------------------------------------------
(* The steps *)

\* A barrier, or a barrier and a store that keeps it.
LEMMA BarrierStep ==
    ASSUME FormatInv, UNCHANGED formatted, phase' # "root", pend' = {},
           \/ nvm' = Apply(nvm, pend)
           \/ nvm' = Reachable(Apply(nvm, pend))
           \/ \E stores \in SUBSET pend : nvm' = Reachable(Apply(nvm, stores))
           \/ \E S : Keeps(S) /\ nvm' = Apply(Apply(nvm, pend), S)
    PROVE  FormatInv'
<1>1. Keeps(pend')
  BY Zenon DEF Keeps
<1>2. ASSUME formatted PROVE Good(nvm')
  <2>1. Good(nvm) /\ Keeps(pend)
    BY <1>2, Zenon DEF FormatInv
  <2>2. \A stores \in SUBSET pend : Keeps(stores)
    BY <2>1, Zenon DEF Keeps
  <2> QED BY <2>1, <2>2, ApplyKeeps, ReachableKeeps, Zenon
<1> QED BY <1>1, <1>2, Zenon DEF FormatInv, Good, Keeps

\* Stores that keep it, or none.
LEMMA StoringStep ==
    ASSUME FormatInv, UNCHANGED <<nvm, formatted>>, phase' # "root",
           UNCHANGED pend \/ \E S : Keeps(S) /\ Store(S)
    PROVE  FormatInv'
<1>1. Keeps(pend) => Keeps(pend')
  BY StoreKeeps, Zenon
<1> QED BY <1>1, Zenon DEF FormatInv, Good, Keeps

\* Every step of a format, a mount, an unmount and a power failure keeps it.
LEMMA FormatStep == FormatInv /\ [Next]_vars => FormatInv'
<1> SUFFICES ASSUME FormatInv, [Next]_vars PROVE FormatInv'
  BY Zenon
<1>1. CASE nova_init
  BY <1>1, Zenon DEF nova_init, FormatInv
<1>2. CASE InitTables
  <2>1. phase' # "root"
    BY <1>2, Zenon DEF InitTables
  <2> QED BY <1>2, <2>1, BarrierStep, Zenon DEF InitTables
<1>3. CASE InitSuper
  <2> DEFINE S == {<<<<"super", "1">>, "good">>, <<<<"super", "2">>, "good">>,
                   <<<<"root", "1">>, "good">>}
  <2>1. pend' = {s \in pend : \A w \in S : w[1] # s[1]} \cup S
    BY <1>3, Zenon DEF InitSuper, Store
  <2>2. \A a \in Made : <<a, "good">> \in S
    BY Zenon DEF Made
  <2>3. Keeps(S)
    BY DEF Keeps
  <2>4. \A a \in Made : \E w \in S : w[1] = a
    BY DEF Made
  <2>5. Keeps(pend')
    BY <2>1, <2>3, <2>4, Zenon DEF Keeps
  <2>6. \A a \in Made : <<a, "good">> \in pend'
    BY <2>1, <2>2, Zenon
  <2>7. nvm' = nvm /\ formatted' = formatted
    BY <1>3, Zenon DEF InitSuper
  <2> QED BY <2>5, <2>6, <2>7, Zenon DEF FormatInv, Good
<1>4. CASE InitRoot
  <2>1. Keeps(pend) /\ \A a \in Made : <<a, "good">> \in pend
    BY <1>4, Zenon DEF InitRoot, FormatInv
  <2>2. nvm' = Apply(nvm, pend) /\ pend' = {} /\ phase' # "root"
    BY <1>4, Zenon DEF InitRoot, Fence
  <2>3. Good(nvm')
    BY <2>1, <2>2, ApplyMakes, Zenon
  <2> QED BY <2>2, <2>3, Zenon DEF FormatInv, Good, Keeps
<1>5. CASE Work
  <2>1. UNCHANGED <<nvm, formatted>> /\ phase' # "root" /\ UNCHANGED pend
    BY <1>5, Zenon DEF Work
  <2> QED BY <2>1, StoringStep, Zenon
<1>6. CASE CountInodes \/ CountBlocks
  <2>1. phase' # "root" /\ Fence /\ UNCHANGED formatted
    BY <1>6, Zenon DEF CountInodes, CountBlocks, AllocateLog
  <2> QED BY <2>1, BarrierStep, Zenon DEF Fence
<1>7. CASE nova_save_inode_list_to_log \/ nova_save_blocknode_mappings_to_log
  <2>1. /\ UNCHANGED <<nvm, formatted>> /\ phase' # "root"
        /\ \/ Store({<<<<"head", "inodelist">>, log>>}
                    \cup nova_save_range_nodes_to_log(log, InodeEntries))
           \/ Store({<<<<"head", "diverted">>, log>>}
                    \cup nova_save_range_nodes_to_log(log, BlockEntries))
    BY <1>7, Zenon DEF nova_save_inode_list_to_log, nova_save_blocknode_mappings_to_log
  <2> QED BY <2>1, LogElsewhere, StoringStep, Zenon
<1>8. CASE SaveInodeTail \/ SaveBlockTail
  <2>1. /\ UNCHANGED formatted /\ phase' # "root"
        /\ \/ FenceThenStore({<<<<"tail", "inodelist">>, saved.entries>>})
           \/ FenceThenStore({<<<<"tail", "diverted">>, saved.entries>>})
    BY <1>8, Zenon DEF SaveInodeTail, SaveBlockTail, nova_update_tail_wwb
  <2> QED BY <2>1, LogElsewhere, BarrierStep, Zenon DEF FenceThenStore
<1>9. CASE nova_fill_super
  <2>1. /\ UNCHANGED <<nvm, formatted>> /\ phase = "off"
        /\ \/ UNCHANGED <<phase, pend>>
           \/ phase' = "recover" /\ Store({<<<<"super", "1">>, "good">>})
    BY <1>9, Zenon DEF nova_fill_super
  <2>2. Keeps({<<<<"super", "1">>, "good">>})
    BY DEF Keeps
  <2>3. phase' # "root"
    BY <2>1, Zenon
  <2> QED BY <2>1, <2>2, <2>3, StoringStep, Zenon
<1>10. CASE nova_recovery
  <2>1. UNCHANGED <<nvm, formatted>> /\ phase' # "root" /\ UNCHANGED pend
    BY <1>10, Zenon DEF nova_recovery
  <2> QED BY <2>1, StoringStep, Zenon
<1>11. CASE Reset
  <2>1. phase' # "root" /\ pend' = {} /\ UNCHANGED formatted
        /\ \E stores \in SUBSET pend : nvm' = Reachable(Apply(nvm, stores))
    BY <1>11, Zenon DEF Reset
  <2> QED BY <2>1, BarrierStep, Zenon
<1>12. CASE UNCHANGED vars
  BY <1>12, Zenon DEF vars, FormatInv, Good, Keeps
<1> QED BY <1>1, <1>2, <1>3, <1>4, <1>5, <1>6, <1>7, <1>8, <1>9, <1>10, <1>11, <1>12,
           Zenon DEF Next

\* What nova_init has made survives unmounts, mounts and power failures at any
\* step, for any number of CPUs, blocks and boots.
THEOREM FormatSurvives == Spec => []FormatDurable
<1>1. Init => FormatInv
  BY Zenon DEF Init, FormatInv
<1>2. ASSUME FormatInv PROVE FormatDurable
  <2>1. Made = {<<"super", "1">>, <<"super", "2">>, <<"root", "1">>}
    BY Zenon DEF Made
  <2> QED BY <1>2, <2>1, Zenon DEF FormatInv, Good, FormatDurable, Super, Read
<1> QED BY <1>1, <1>2, FormatStep, PTL DEF Spec
=============================================================================

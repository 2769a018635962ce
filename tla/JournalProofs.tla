--------------------------- MODULE JournalProofs ---------------------------
(***************************************************************************)
(* The lite journal through crashes.  The inductive invariant has the      *)
(* types, the shape of the head and tail pair in each phase of a           *)
(* transaction, the pages the journals own, and the entries and words from *)
(* which a crash leaves each transaction done or undone; the theorems say  *)
(* that the journals own their pages, and that undoing the durable entries *)
(* gives an image on which every transaction has taken effect or not       *)
(* happened.                                                               *)
(***************************************************************************)
EXTENDS LiteJournal, TLAPS, FiniteSetTheorems

-----------------------------------------------------------------------------
(* The inductive invariant, but for what it says of the words *)

\* A pair without entries, even one whose migration has moved only the head.
NoEntries(pr) == pr.head.off = pr.tail.off

\* A pair that spans exactly the entries of c's transaction.
Spans(c, pr) ==
    pr.tail = NextLiteJournal(IF txn[c].two = {} THEN pr.head
                              ELSE NextLiteJournal(pr.head))

\* The phases in which a transaction has words.
Active == {"entries", "tail", "store", "commit", "head"}

\* The words of a transaction in its phases; no two transactions share one.
WordsByPhase ==
    /\ \A c \in Cpu : IF txn[c].pc \in Active THEN txn[c].one # {}
                      ELSE Words(c) = {}
    /\ \A c \in Cpu : txn[c].left \subseteq Words(c)
    /\ \A c \in Cpu : txn[c].pc \in {"entries", "tail"} => txn[c].left = Words(c)
    /\ \A c \in Cpu : txn[c].pc \in {"commit", "head"} => txn[c].left = {}
    /\ \A c, d \in Cpu : c # d => Words(c) \cap Words(d) = {}

\* The pair of a mounted CPU in the phases of its transaction.
PairByPhase(c) ==
    LET pc == txn[c].pc
    IN  /\ pc \in {"idle", "entries", "head", "committed", "copied", "release"} =>
               pair[c].head = pair[c].tail
        /\ pc = "moved" => NoEntries(pair[c])
        /\ pc \in {"tail", "store", "commit"} => Spans(c, pair[c])

\* The durable pair: it lags behind from the store of the tail or the head to
\* the next fence, and from a migration to the next fence or write-back.
DurableByPhase(c) ==
    LET pc == txn[c].pc
    IN  /\ pc \in {"store", "commit", "committed", "copied"} => dpair[c] = pair[c]
        /\ pc \in {"idle", "entries", "moved", "release"} => NoEntries(dpair[c])
        /\ pc = "tail" => NoEntries(dpair[c]) \/ dpair[c] = pair[c]
        /\ pc = "head" => \/ dpair[c] = pair[c]
                          \/ dpair[c].tail = pair[c].tail /\ Spans(c, dpair[c])

\* Nothing runs until the journals are recovered, in the order of the CPUs.
DownShape ==
    /\ word = dword /\ slot = dslot /\ pair = dpair
    /\ \A c \in Cpu : txn[c] = NoTxn
    /\ \A c \in Cpu : NoEntries(pair[c]) \/ WellFormed(pair[c])
    /\ \A c \in Cpu : c < next_cpu => pair[c].head = pair[c].tail

Shape ==
    IF status = "mounted"
    THEN \A c \in Cpu : PairByPhase(c) /\ DurableByPhase(c)
    ELSE DownShape

\* The pages of c's journal: those of the pair, and the one a migration is
\* about to use or to free.
Pages(c) ==
    {pair[c].head.page, pair[c].tail.page} \cup
    (IF txn[c].pc \in Migrating THEN {txn[c].page} ELSE {})

\* Until a crash undoes a migration, the journals, the files and the free
\* lists share no page, and a migration has two different pages in hand.
PagesApart ==
    /\ \A c, d \in Cpu : c # d => Pages(c) \cap Pages(d) = {}
    /\ \A c \in Cpu : Pages(c) \cap (free \cup file) = {}
    /\ free \cap file = {}
    /\ \A c \in Cpu : txn[c].pc \in Migrating => txn[c].page # pair[c].head.page
    /\ \A c \in Cpu : txn[c].pc = "moved" => txn[c].page = pair[c].tail.page

-----------------------------------------------------------------------------
(* Slots and pairs *)

\* next_lite_journal wraps at the end of the page.
LEMMA WrapsAround ==
    ASSUME NEW i \in 0 .. Slots - 1
    PROVE  (i + 1) % Slots = IF i = Slots - 1 THEN 0 ELSE i + 1
<1> USE JournalAssumption
<1>1. CASE i = Slots - 1
  BY <1>1
<1>2. CASE i # Slots - 1
  BY <1>2
<1> QED BY <1>1, <1>2, Zenon

\* next_lite_journal stays on the page.
LEMMA SlotAfter ==
    ASSUME NEW a \in Addr
    PROVE  /\ NextLiteJournal(a) \in Addr
           /\ NextLiteJournal(a).page = a.page
           /\ NextLiteJournal(a).off = IF a.off = Slots - 1 THEN 0 ELSE a.off + 1
<1>1. a.page \in Page /\ a.off \in 0 .. Slots - 1
  BY Zenon DEF Addr
<1>2. (a.off + 1) % Slots = IF a.off = Slots - 1 THEN 0 ELSE a.off + 1
  BY <1>1, WrapsAround, Zenon
<1>3. (a.off + 1) % Slots \in 0 .. Slots - 1
  BY <1>1, <1>2, JournalAssumption
<1> QED BY <1>1, <1>2, <1>3, Zenon DEF NextLiteJournal, Addr

\* The next two slots are other slots: a page has at least three.
LEMMA NextSlot ==
    ASSUME NEW a \in Addr
    PROVE  LET b == NextLiteJournal(a)
               c == NextLiteJournal(b)
           IN  /\ b \in Addr /\ b.page = a.page /\ b.off # a.off
               /\ c \in Addr /\ c.page = a.page /\ c.off # a.off /\ c.off # b.off
<1> DEFINE b == NextLiteJournal(a)
           c == NextLiteJournal(b)
<1>1. /\ b \in Addr /\ b.page = a.page
      /\ b.off = IF a.off = Slots - 1 THEN 0 ELSE a.off + 1
  BY SlotAfter, Zenon
<1> HIDE DEF b
<1>2. /\ c \in Addr /\ c.page = b.page
      /\ c.off = IF b.off = Slots - 1 THEN 0 ELSE b.off + 1
  BY <1>1, SlotAfter, Zenon
<1>3. a.off \in 0 .. Slots - 1
  BY Zenon DEF Addr
<1> HIDE DEF c
<1>4. /\ b \in Addr /\ b.page = a.page /\ b.off # a.off
      /\ c \in Addr /\ c.page = a.page /\ c.off # a.off /\ c.off # b.off
  BY <1>1, <1>2, <1>3, JournalAssumption
<1> QED BY <1>4, Zenon DEF b, c

\* A pair without entries leaves recovery nothing to undo.
LEMMA NoEntriesNothing ==
    ASSUME NEW pr \in Pair, NoEntries(pr)
    PROVE  Uncommitted(pr) = {}
<1>1. pr.head \in Addr /\ pr.tail \in Addr
  BY Zenon DEF Pair
<1>2. pr.tail # NextLiteJournal(pr.head)
      /\ pr.tail # NextLiteJournal(NextLiteJournal(pr.head))
  BY <1>1, NextSlot, ZenonT(40) DEF NoEntries
<1> QED BY <1>2, Zenon DEF Uncommitted

\* A pair one or two slots apart covers the entries from its head.
LEMMA EntriesCovered ==
    ASSUME NEW pr \in Pair
    PROVE  LET a == pr.head
               b == NextLiteJournal(a)
           IN  /\ pr.tail = b => Uncommitted(pr) = {a}
               /\ pr.tail = NextLiteJournal(b) => Uncommitted(pr) = {a, b}
<1> DEFINE a == pr.head
           b == NextLiteJournal(a)
<1>1. pr.head \in Addr /\ pr.tail \in Addr
  BY Zenon DEF Pair
<1>2. b # a /\ NextLiteJournal(b) # a /\ NextLiteJournal(b) # b
  BY <1>1, NextSlot, Zenon
<1> QED BY <1>2, Zenon DEF Uncommitted

-----------------------------------------------------------------------------
(* Types *)

\* What the formats of the code and nova_lite_journal_hard_init leave.
LEMMA TypeInit == Init => TypeOK
<1> SUFFICES ASSUME Init PROVE TypeOK
  BY Zenon
<1>1. 0 \in Value /\ 0 \in 0 .. Slots - 1 /\ CPUS \in 0 .. CPUS
      /\ 0 \in 0 .. MaxMigrations /\ 0 \in 0 .. MaxCrashes /\ 0 \in 0 .. MaxTxn
  BY JournalAssumption DEF Value
<1>2. NoEntry \in Entry
  <2>1. NoEntry \in [{} -> Value]
    BY Zenon DEF NoEntry
  <2> QED BY <2>1, Zenon DEF Entry
<1>3. NoTxn \in Txn /\ NoTxn.pc \notin Migrating
  BY <1>1, Zenon DEF NoTxn, Txn, Migrating
<1>4. slot \in [Page -> [0 .. Slots - 1 -> Entry]]
  BY <1>2, Zenon DEF Init
<1>5. pair \in [Cpu -> Pair] /\ free \subseteq Page
  BY <1>1 DEF Init, Pair, Addr
<1>6. word \in [Word -> Value]
  BY <1>1, Zenon DEF Init
<1>7. txn \in [Cpu -> Txn] /\ \A c \in Cpu : txn[c].pc \notin Migrating
  BY <1>3, Zenon DEF Init
<1> QED BY <1>1, <1>4, <1>5, <1>6, <1>7, Zenon DEF Init, TypeOK

\* A new entry is an entry of present values.
LEMMA EntryType ==
    ASSUME TypeOK, NEW W \in SUBSET Word
    PROVE  EntryFor(W) \in Entry
<1>1. EntryFor(W) \in [W -> Value]
  BY Zenon DEF EntryFor, TypeOK
<1> QED BY <1>1, Zenon DEF Entry

\* A step that gives c the transaction t, of the right type, types txn.
LEMMA TxnType ==
    ASSUME TypeOK, NEW c \in Cpu, NEW t \in Txn, txn' = [txn EXCEPT ![c] = t],
           t.pc \in Migrating => t.page \in Page
    PROVE  txn' \in [Cpu -> Txn]
           /\ \A d \in Cpu : txn'[d].pc \in Migrating => txn'[d].page \in Page
BY Zenon DEF TypeOK

\* In particular a step that moves c to a phase other than those of a migration.
LEMMA PhaseType ==
    ASSUME TypeOK, NEW c \in Cpu,
           NEW step \in Active \cup {"idle", "committed"},
           txn' = [txn EXCEPT ![c].pc = step]
    PROVE  txn' \in [Cpu -> Txn]
           /\ \A d \in Cpu : txn'[d].pc \in Migrating => txn'[d].page \in Page
<1> DEFINE t == [txn[c] EXCEPT !.pc = step]
<1>1. txn[c] \in Txn
  BY Zenon DEF TypeOK
<1>2. t \in Txn
  BY <1>1, Zenon DEF Txn, Active
<1>3. t.pc \notin Migrating
  BY <1>1, Zenon DEF Txn, Active, Migrating
<1>4. txn' = [txn EXCEPT ![c] = t]
  BY Zenon
<1> HIDE DEF t
<1> QED BY <1>2, <1>3, <1>4, TxnType, Zenon

\* Every action keeps the types.
LEMMA TypeStep == TypeOK /\ [Next]_vars => TypeOK'
<1> SUFFICES ASSUME TypeOK, [Next]_vars PROVE TypeOK'
  BY Zenon
<1> DEFINE TypedTxn == txn' \in [Cpu -> Txn]
             /\ \A c \in Cpu : txn'[c].pc \in Migrating => txn'[c].page \in Page
<1>0. \A c \in Cpu : /\ pair[c] \in Pair /\ dpair[c] \in Pair
                     /\ pair[c].head \in Addr /\ pair[c].tail \in Addr
                     /\ pair[c].head.page \in Page /\ txn[c] \in Txn
  BY Zenon DEF TypeOK, Pair, Addr
<1>8. NoTxn \in Txn /\ NoTxn.pc \notin Migrating
  BY JournalAssumption DEF Txn, NoTxn, Value, Migrating
<1>1. ASSUME NEW c \in Cpu, NEW one \in SUBSET Word, NEW two \in SUBSET Word,
             Begin(c, one, two)
      PROVE  TypeOK'
  <2>1. EntryFor(one) \in Entry /\ EntryFor(two) \in Entry
    BY EntryType, Zenon
  <2>2. slot' \in [Page -> [0 .. Slots - 1 -> Entry]]
    <3>1. slot[pair[c].head.page] \in [0 .. Slots - 1 -> Entry]
      BY <1>0, Zenon DEF TypeOK
    <3> QED BY <1>0, <1>1, <2>1, <3>1, Zenon DEF TypeOK, Begin
  <2>3. txns + 1 \in 0 .. MaxTxn
    BY <1>1, JournalAssumption DEF Begin, TypeOK
  <2>4. TypedTxn
    BY <1>1, <2>3, Zenon DEF Begin, Txn, Value, TypeOK, Migrating
  <2> QED BY <1>1, <2>2, <2>3, <2>4, Zenon DEF Begin, TypeOK
<1>2. ASSUME NEW c \in Cpu, SetTail(c) PROVE TypeOK'
  <2>1. NextLiteJournal(pair[c].head) \in Addr
        /\ NextLiteJournal(NextLiteJournal(pair[c].head)) \in Addr
    BY <1>0, NextSlot, Zenon
  <2>2. pair' \in [Cpu -> Pair]
    BY <1>0, <1>2, <2>1, ZenonT(40) DEF SetTail, EntryOne, EntryTwo, Pair, TypeOK
  <2>3. TypedTxn
    BY <1>2, PhaseType, Zenon DEF SetTail, Active
  <2> QED BY <1>2, <2>2, <2>3, Zenon DEF SetTail, TypeOK
<1>3. ASSUME NEW c \in Cpu, FenceTail(c) PROVE TypeOK'
  <2>1. dslot' \in [Page -> [0 .. Slots - 1 -> Entry]]
    BY <1>0, <1>3, ZenonT(40) DEF FenceTail, TypeOK
  <2>2. TypedTxn
    BY <1>3, PhaseType, Zenon DEF FenceTail, Active
  <2>3. dpair' \in [Cpu -> Pair]
    BY <1>0, <1>3, Zenon DEF FenceTail, TypeOK
  <2> QED BY <1>3, <2>1, <2>2, <2>3, Zenon DEF FenceTail, TypeOK
<1>4. ASSUME NEW c \in Cpu, NEW w \in Word, Store(c, w) PROVE TypeOK'
  <2> DEFINE t == [txn[c] EXCEPT !.left = @ \ {w}]
  <2>1. txn[c].id \in Value /\ t \in Txn /\ t.pc = "store"
    BY <1>0, <1>4, ZenonT(40) DEF Store, Running, Txn
  <2>2. txn' = [txn EXCEPT ![c] = t]
    BY <1>4, Zenon DEF Store
  <2> HIDE DEF t
  <2>3. TypedTxn
    BY <2>1, <2>2, TxnType, Zenon DEF Migrating
  <2> QED BY <1>4, <2>1, <2>3, Zenon DEF Store, TypeOK
<1>5. ASSUME NEW c \in Cpu, Barrier(c) PROVE TypeOK'
  <2>1. TypedTxn
    BY <1>5, PhaseType, Zenon DEF Barrier, Active
  <2> QED BY <1>5, <2>1, Zenon DEF Barrier, TypeOK
<1>6. ASSUME NEW c \in Cpu, SetHead(c) PROVE TypeOK'
  <2>1. TypedTxn
    BY <1>6, PhaseType, Zenon DEF SetHead, Active
  <2>2. pair' \in [Cpu -> Pair]
    BY <1>0, <1>6, Zenon DEF SetHead, Pair, TypeOK
  <2> QED BY <1>6, <2>1, <2>2, Zenon DEF SetHead, TypeOK
<1>7. ASSUME NEW c \in Cpu, FenceHead(c) PROVE TypeOK'
  <2>1. txn[c].id \in Value
    BY <1>0, Zenon DEF Txn, Value
  <2>2. TypedTxn
    <3> DEFINE t == [NoTxn EXCEPT !.pc = "committed"]
    <3>1. t \in Txn /\ t.pc \notin Migrating
      BY <1>8, Zenon DEF Txn, NoTxn, Migrating
    <3>2. txn' = [txn EXCEPT ![c] = t]
      BY <1>7, Zenon DEF FenceHead
    <3> HIDE DEF t
    <3> QED BY <3>1, <3>2, TxnType, Zenon
  <2> QED BY <1>0, <1>7, <2>1, <2>2, Zenon DEF FenceHead, TypeOK
<1>9. ASSUME NEW c \in Cpu, SkipMigration(c) \/ MigrateFree(c) PROVE TypeOK'
  <2>1. TypedTxn
    BY <1>8, <1>9, TxnType, Zenon DEF SkipMigration, MigrateFree
  <2>2. MigrateFree(c) => txn[c].page \in Page
    BY Zenon DEF MigrateFree, Running, TypeOK, Migrating
  <2> QED BY <1>9, <2>1, <2>2, Zenon DEF SkipMigration, MigrateFree, nvmVars, TypeOK
<1>10. ASSUME NEW c \in Cpu, NEW q \in Page, MigrateCopy(c, q) PROVE TypeOK'
  <2> DEFINE t == [txn[c] EXCEPT !.pc = "copied", !.page = q]
  <2>a. t \in Txn /\ t.page \in Page
    BY <1>0, Zenon DEF Txn
  <2>b. txn' = [txn EXCEPT ![c] = t]
    BY <1>10, Zenon DEF MigrateCopy
  <2> HIDE DEF t
  <2>1. TypedTxn
    BY <2>a, <2>b, TxnType, Zenon
  <2>2. slot' \in [Page -> [0 .. Slots - 1 -> Entry]]
    BY <1>0, <1>10, Zenon DEF MigrateCopy, TypeOK
  <2>3. migrations' \in 0 .. MaxMigrations
    BY <1>10, JournalAssumption, SMTT(40) DEF MigrateCopy, TypeOK
  <2> QED BY <1>10, <2>1, <2>2, <2>3, Zenon DEF MigrateCopy, TypeOK
<1>11. ASSUME NEW c \in Cpu, MigrateHead(c) PROVE TypeOK'
  <2>1. txn[c].page \in Page
    BY <1>11, Zenon DEF MigrateHead, Running, TypeOK, Migrating
  <2> DEFINE t == [txn[c] EXCEPT !.pc = "moved", !.page = pair[c].head.page]
  <2>a. t \in Txn /\ t.page \in Page
    BY <1>0, Zenon DEF Txn
  <2>b. txn' = [txn EXCEPT ![c] = t]
    BY <1>11, Zenon DEF MigrateHead
  <2> HIDE DEF t
  <2>2. TypedTxn
    BY <2>a, <2>b, TxnType, Zenon
  <2>3. pair' \in [Cpu -> Pair]
    BY <1>0, <1>11, <2>1, ZenonT(40) DEF MigrateHead, Pair, Addr, TypeOK
  <2> QED BY <1>11, <2>2, <2>3, Zenon DEF MigrateHead, TypeOK
<1>12. ASSUME NEW c \in Cpu, MigrateTail(c) PROVE TypeOK'
  <2> DEFINE t == [txn[c] EXCEPT !.pc = "release"]
  <2>a. txn[c].page \in Page
    BY <1>12, Zenon DEF MigrateTail, Running, TypeOK, Migrating
  <2>b. t \in Txn /\ t.page \in Page
    BY <1>0, <2>a, Zenon DEF Txn
  <2>c. txn' = [txn EXCEPT ![c] = t]
    BY <1>12, Zenon DEF MigrateTail
  <2> HIDE DEF t
  <2>1. TypedTxn
    BY <2>b, <2>c, TxnType, Zenon
  <2>2. pair' \in [Cpu -> Pair]
    BY <1>0, <1>12, ZenonT(40) DEF MigrateTail, Pair, Addr, TypeOK
  <2> QED BY <1>12, <2>1, <2>2, Zenon DEF MigrateTail, TypeOK
<1>13. ASSUME NEW p \in Page, FileTakes(p) PROVE TypeOK'
  BY <1>13, Zenon DEF FileTakes, nvmVars, TypeOK
<1>14. ASSUME NEW w \in Word, WriteBackWord(w) PROVE TypeOK'
  BY <1>14, Zenon DEF WriteBackWord, TypeOK
<1>15. ASSUME NEW p \in Page, NEW i \in 0 .. Slots - 1, WriteBackSlot(p, i)
       PROVE  TypeOK'
  <2>1. dslot' \in [Page -> [0 .. Slots - 1 -> Entry]]
    BY <1>15, Zenon DEF WriteBackSlot, TypeOK
  <2> QED BY <1>15, <2>1, Zenon DEF WriteBackSlot, TypeOK
<1>16. ASSUME NEW c \in Cpu, WriteBackPair(c) PROVE TypeOK'
  BY <1>0, <1>16, Zenon DEF WriteBackPair, TypeOK
<1>17. CASE Crash
  <2>1. goal' \in [Word -> Value]
    <3>1. ASSUME NEW w \in Word, \E c \in Cpu : w \in Words(c)
          PROVE  txn[CHOOSE c \in Cpu : w \in Words(c)].id \in Value
      <4>1. (CHOOSE c \in Cpu : w \in Words(c)) \in Cpu
        BY <3>1, Zenon
      <4> QED BY <1>0, <4>1, Zenon DEF Txn
    <3> QED BY <1>17, <3>1, Zenon DEF Crash, TypeOK
  <2>2. TypedTxn
    BY <1>8, <1>17, Zenon DEF Crash
  <2>3. crashes' \in 0 .. MaxCrashes /\ next_cpu' \in 0 .. CPUS
    BY <1>17, JournalAssumption DEF Crash, TypeOK
  <2>4. torn' \in BOOLEAN /\ stale' \in BOOLEAN
    BY <1>17, Zenon DEF Crash
  <2> QED BY <1>17, <2>1, <2>2, <2>3, <2>4, Zenon DEF Crash, TypeOK
<1>18. ASSUME NEW c \in Cpu, RecoverClean(c) \/ RecoverFails(c) PROVE TypeOK'
  <2>1. c + 1 \in 0 .. CPUS
    BY JournalAssumption DEF Cpu
  <2> QED BY <1>18, <2>1, Zenon DEF RecoverClean, RecoverFails, nvmVars, TypeOK
<1>19. ASSUME NEW c \in Cpu, RecoverEntries(c) PROVE TypeOK'
  <2>1. c + 1 \in 0 .. CPUS
    BY JournalAssumption DEF Cpu
  <2>2. CASE status' = "oops" /\ UNCHANGED <<nvmVars, next_cpu>>
    BY <1>19, <2>2, Zenon DEF RecoverEntries, nvmVars, TypeOK
  <2>3. CASE /\ pair' = [pair EXCEPT ![c].tail = pair[c].head]
             /\ dpair' = [dpair EXCEPT ![c] = pair'[c]]
             /\ next_cpu' = c + 1
             /\ UNCHANGED <<word, dword, slot, dslot, status>>
    <3>1. pair' \in [Cpu -> Pair]
      BY <1>0, <2>3, Zenon DEF TypeOK, Pair
    <3>2. dpair' \in [Cpu -> Pair]
      BY <2>3, <3>1, Zenon DEF TypeOK
    <3> QED BY <1>19, <2>1, <2>3, <3>1, <3>2, Zenon DEF RecoverEntries, TypeOK
  <2> QED BY <1>19, <2>2, <2>3, Zenon DEF RecoverEntries
<1>20. CASE MountDone
  BY <1>20, Zenon DEF MountDone, nvmVars, TypeOK
<1>21. CASE UNCHANGED vars
  BY <1>21, Zenon DEF vars, nvmVars, TypeOK
<1> HIDE DEF TypedTxn
<1> QED BY <1>1, <1>2, <1>3, <1>4, <1>5, <1>6, <1>7, <1>9, <1>10, <1>11, <1>12,
           <1>13, <1>14, <1>15, <1>16, <1>17, <1>18, <1>19, <1>20, <1>21, Zenon DEF Next

-----------------------------------------------------------------------------
(* The words of the transactions *)

\* A step that moves c to another phase leaves its words, and the other CPUs.
LEMMA PhaseOnly ==
    ASSUME TypeOK, NEW c \in Cpu, NEW step, txn' = [txn EXCEPT ![c].pc = step]
    PROVE  /\ txn'[c].pc = step
           /\ txn'[c].one = txn[c].one /\ txn'[c].two = txn[c].two
           /\ txn'[c].left = txn[c].left /\ txn'[c].id = txn[c].id
           /\ txn'[c].page = txn[c].page
           /\ \A d \in Cpu : d # c => txn'[d] = txn[d]
           /\ \A d \in Cpu : Words(d)' = Words(d)
<1>1. txn[c] \in Txn /\ txn \in [Cpu -> Txn]
  BY Zenon DEF TypeOK
<1>2. txn'[c] = [txn[c] EXCEPT !.pc = step] /\ \A d \in Cpu : d # c => txn'[d] = txn[d]
  BY <1>1, Zenon
<1>3. /\ txn'[c].pc = step
      /\ txn'[c].one = txn[c].one /\ txn'[c].two = txn[c].two
      /\ txn'[c].left = txn[c].left /\ txn'[c].id = txn[c].id
      /\ txn'[c].page = txn[c].page
  BY <1>1, <1>2, Zenon DEF Txn
<1> QED BY <1>2, <1>3, Zenon DEF Words

\* A transaction without words.
LEMMA NoWords ==
    NoTxn.pc = "idle" /\ NoTxn.one = {} /\ NoTxn.two = {} /\ NoTxn.left = {}
BY Zenon DEF NoTxn

\* The actions keep the words of transactions apart, and use each word once.
LEMMA WordsStep ==
    ASSUME TypeOK, WordsByPhase, [Next]_vars
    PROVE  WordsByPhase'
<1>1. ASSUME NEW c \in Cpu, NEW one \in SUBSET Word, NEW two \in SUBSET Word,
             one # {}, Begin(c, one, two)
      PROVE  WordsByPhase'
  <2>1. /\ txn'[c].pc = "entries" /\ txn'[c].one = one /\ txn'[c].two = two
        /\ txn'[c].left = one \cup two
        /\ \A d \in Cpu : d # c => txn'[d] = txn[d]
    BY <1>1, Zenon DEF Begin, TypeOK
  <2>2. \A d \in Cpu : (one \cup two) \cap Words(d) = {}
    BY <1>1, Zenon DEF Begin
  <2> QED BY <1>1, <2>1, <2>2 DEF WordsByPhase, Words, Active
<1>2. ASSUME NEW c \in Cpu, NEW step \in {"tail", "store"},
             txn' = [txn EXCEPT ![c].pc = step], 
             txn[c].pc = "entries" \/ (txn[c].pc = "tail" /\ step = "store")
      PROVE  WordsByPhase'
  <2>1. /\ txn'[c].pc = step /\ txn'[c].one = txn[c].one
        /\ txn'[c].left = txn[c].left
        /\ \A d \in Cpu : d # c => txn'[d] = txn[d]
        /\ \A d \in Cpu : Words(d)' = Words(d)
    BY <1>2, PhaseOnly, Zenon
  <2> QED BY <1>2, <2>1 DEF WordsByPhase, Active
<1>3. ASSUME NEW c \in Cpu, NEW w \in Word, Store(c, w) PROVE WordsByPhase'
  <2>1. /\ txn'[c].pc = "store" /\ txn'[c].one = txn[c].one
        /\ txn'[c].two = txn[c].two /\ txn[c].pc = "store"
        /\ txn'[c].left \subseteq txn[c].left
        /\ \A d \in Cpu : d # c => txn'[d] = txn[d]
    BY <1>3, Zenon DEF Store, Running, TypeOK, Txn
  <2> QED BY <2>1 DEF WordsByPhase, Words, Active
<1>4. ASSUME NEW c \in Cpu, NEW step \in {"commit", "head"},
             txn' = [txn EXCEPT ![c].pc = step], txn[c].left = {},
             txn[c].pc \in {"store", "commit"}
      PROVE  WordsByPhase'
  <2>1. /\ txn'[c].pc = step /\ txn'[c].one = txn[c].one
        /\ txn'[c].left = txn[c].left
        /\ \A d \in Cpu : d # c => txn'[d] = txn[d]
        /\ \A d \in Cpu : Words(d)' = Words(d)
    BY <1>4, PhaseOnly, Zenon
  <2> QED BY <1>4, <2>1 DEF WordsByPhase, Active
<1>5. ASSUME NEW c \in Cpu, NEW step \in {"idle", "committed"},
             txn' = [txn EXCEPT ![c] = [NoTxn EXCEPT !.pc = step]]
      PROVE  WordsByPhase'
  <2>1. /\ txn'[c].pc = step /\ txn'[c].one = {} /\ txn'[c].two = {}
        /\ txn'[c].left = {}
        /\ \A d \in Cpu : d # c => txn'[d] = txn[d]
    BY <1>5, Zenon DEF TypeOK, NoTxn
  <2> QED BY <2>1 DEF WordsByPhase, Words, Active
<1>6. ASSUME NEW c \in Cpu, NEW step \in Migrating,
             txn[c].pc \in Migrating \cup {"committed"},
             txn'[c].pc = step, txn'[c].one = txn[c].one, txn'[c].two = txn[c].two,
             txn'[c].left = txn[c].left,
             \A d \in Cpu : d # c => txn'[d] = txn[d]
      PROVE  WordsByPhase'
  BY <1>6 DEF WordsByPhase, Words, Active, Migrating
<1>7. ASSUME \A d \in Cpu : txn'[d] = NoTxn PROVE WordsByPhase'
  BY <1>7, NoWords, ZenonT(40) DEF WordsByPhase, Words, Active
<1>8. CASE txn' = txn
  BY <1>8, Zenon DEF WordsByPhase, Words
<1> QED
  <2>1. ASSUME NEW c \in Cpu, NEW one \in SUBSET Word, NEW two \in SUBSET Word,
               Cardinality(one) \in 2 .. 4, Begin(c, one, two)
        PROVE  WordsByPhase'
    <3>1. one # {}
      BY <2>1, FS_EmptySet
    <3> QED BY <1>1, <2>1, <3>1, Zenon
  <2>2. ASSUME NEW c \in Cpu,
               SetTail(c) \/ FenceTail(c) \/ Barrier(c) \/ SetHead(c)
        PROVE  WordsByPhase'
    <3>1. CASE SetTail(c)
      BY <1>2, <3>1, Zenon DEF SetTail, Running
    <3>2. CASE FenceTail(c)
      BY <1>2, <3>2, Zenon DEF FenceTail, Running
    <3>3. CASE Barrier(c)
      BY <1>4, <3>3, Zenon DEF Barrier, Running
    <3>4. CASE SetHead(c)
      BY <1>4, <3>4, Zenon DEF SetHead, Running, WordsByPhase
    <3> QED BY <2>2, <3>1, <3>2, <3>3, <3>4, Zenon
  <2>3. ASSUME NEW c \in Cpu, FenceHead(c) \/ SkipMigration(c) \/ MigrateFree(c)
        PROVE  WordsByPhase'
    <3>1. NoTxn = [NoTxn EXCEPT !.pc = "idle"]
      BY DEF NoTxn
    <3> QED BY <1>5, <2>3, <3>1, Zenon DEF FenceHead, SkipMigration, MigrateFree
  <2>4. ASSUME NEW c \in Cpu, NEW q \in Page, MigrateCopy(c, q) PROVE WordsByPhase'
    <3>1. /\ txn'[c].pc = "copied" /\ txn[c].pc = "committed"
          /\ txn'[c].one = txn[c].one /\ txn'[c].two = txn[c].two
          /\ txn'[c].left = txn[c].left
          /\ \A d \in Cpu : d # c => txn'[d] = txn[d]
      BY <2>4, Zenon DEF MigrateCopy, Running, TypeOK, Txn
    <3> QED BY <1>6, <3>1, Zenon DEF Migrating
  <2>5. ASSUME NEW c \in Cpu, MigrateHead(c) PROVE WordsByPhase'
    <3>1. /\ txn'[c].pc = "moved" /\ txn[c].pc = "copied"
          /\ txn'[c].one = txn[c].one /\ txn'[c].two = txn[c].two
          /\ txn'[c].left = txn[c].left
          /\ \A d \in Cpu : d # c => txn'[d] = txn[d]
      BY <2>5, ZenonT(40) DEF MigrateHead, Running, TypeOK, Txn
    <3> QED BY <1>6, <3>1, Zenon DEF Migrating
  <2>6. ASSUME NEW c \in Cpu, MigrateTail(c) PROVE WordsByPhase'
    BY <1>6, <2>6, PhaseOnly DEF MigrateTail, Running, Migrating
  <2>7. CASE Crash
    BY <1>7, <2>7, Zenon DEF Crash
  <2>8. ASSUME NEW c \in Cpu, \/ WriteBackPair(c) \/ RecoverClean(c)
                              \/ RecoverEntries(c) \/ RecoverFails(c)
        PROVE  WordsByPhase'
    BY <1>8, <2>8, Zenon DEF WriteBackPair, RecoverClean, RecoverEntries, RecoverFails
  <2>9. ASSUME \/ \E p \in Page : FileTakes(p)
               \/ \E w \in Word : WriteBackWord(w)
               \/ \E p \in Page, i \in 0 .. Slots - 1 : WriteBackSlot(p, i)
               \/ MountDone
               \/ UNCHANGED vars
        PROVE  WordsByPhase'
    BY <1>8, <2>9, Zenon DEF FileTakes, WriteBackWord, WriteBackSlot, MountDone, vars
  <2> QED BY <1>3, <2>1, <2>2, <2>3, <2>4, <2>5, <2>6, <2>7, <2>8, <2>9, Zenon DEF Next

-----------------------------------------------------------------------------
(* The pairs *)

\* A step of c on a mounted file system need only be checked for c.
LEMMA ShapeOfOne ==
    ASSUME Shape, status = "mounted", status' = "mounted", NEW c \in Cpu,
           \A d \in Cpu : d # c => /\ txn'[d] = txn[d] /\ pair'[d] = pair[d]
                                   /\ dpair'[d] = dpair[d],
           PairByPhase(c)', DurableByPhase(c)'
    PROVE  Shape'
<1>1. ASSUME NEW d \in Cpu, d # c PROVE PairByPhase(d)' /\ DurableByPhase(d)'
  <2>1. txn'[d] = txn[d] /\ pair'[d] = pair[d] /\ dpair'[d] = dpair[d]
    BY <1>1, Zenon
  <2>2. PairByPhase(d) /\ DurableByPhase(d)
    BY Zenon DEF Shape
  <2> QED BY <2>1, <2>2, Zenon DEF PairByPhase, DurableByPhase, Spans
<1> QED BY <1>1, Zenon DEF Shape

\* A pair that spans one or two entries is well formed.
LEMMA SpansWellFormed ==
    ASSUME NEW c, NEW pr, Spans(c, pr)
    PROVE  WellFormed(pr)
BY Zenon DEF Spans, WellFormed

\* The steps of a transaction keep the shape of its pair.
LEMMA ShapeTransaction ==
    ASSUME TypeOK, Shape, NEW c \in Cpu,
           \/ \E one, two \in SUBSET Word : Begin(c, one, two)
           \/ SetTail(c) \/ FenceTail(c) \/ Barrier(c) \/ SetHead(c) \/ FenceHead(c)
           \/ \E w \in Word : Store(c, w)
    PROVE  Shape'
<1>0. /\ txn \in [Cpu -> Txn] /\ pair \in [Cpu -> Pair] /\ dpair \in [Cpu -> Pair]
      /\ pair[c] \in Pair /\ txn[c] \in Txn /\ dpair[c] \in Pair
  BY Zenon DEF TypeOK
<1>a. status = "mounted" => PairByPhase(c) /\ DurableByPhase(c)
  BY Zenon DEF Shape
<1>1. ASSUME NEW one \in SUBSET Word, NEW two \in SUBSET Word, Begin(c, one, two)
      PROVE  Shape'
  <2>1. /\ status = "mounted" /\ status' = "mounted" /\ txn[c].pc = "idle"
        /\ txn'[c].pc = "entries" /\ pair' = pair /\ dpair' = dpair
        /\ \A d \in Cpu : d # c => txn'[d] = txn[d]
    BY <1>0, <1>1, Zenon DEF Begin, Running
  <2>2. PairByPhase(c)' /\ DurableByPhase(c)'
    BY <1>a, <2>1, Zenon DEF PairByPhase, DurableByPhase
  <2> QED BY <2>1, <2>2, ShapeOfOne, Zenon
<1>2. CASE SetTail(c)
  <2>1. /\ status = "mounted" /\ status' = "mounted" /\ txn[c].pc = "entries"
        /\ txn'[c].pc = "tail" /\ txn'[c].two = txn[c].two /\ dpair' = dpair
        /\ \A d \in Cpu : d # c => txn'[d] = txn[d]
    BY <1>2, PhaseOnly, Zenon DEF SetTail, Running
  <2>2. /\ pair'[c].head = pair[c].head
        /\ pair'[c].tail = NextLiteJournal(IF txn[c].two = {} THEN EntryOne(c) ELSE EntryTwo(c))
        /\ \A d \in Cpu : d # c => pair'[d] = pair[d]
    BY <1>0, <1>2, Zenon DEF SetTail, Pair
  <2>3. PairByPhase(c)'
    BY <2>1, <2>2, Zenon DEF PairByPhase, Spans, EntryOne, EntryTwo
  <2>4. DurableByPhase(c)'
    BY <1>a, <2>1, Zenon DEF DurableByPhase
  <2> QED BY <2>1, <2>2, <2>3, <2>4, ShapeOfOne, Zenon
<1>3. CASE FenceTail(c)
  <2>1. /\ status = "mounted" /\ status' = "mounted" /\ txn[c].pc = "tail"
        /\ txn'[c].pc = "store" /\ txn'[c].two = txn[c].two /\ pair' = pair
        /\ \A d \in Cpu : d # c => txn'[d] = txn[d]
    BY <1>3, PhaseOnly, Zenon DEF FenceTail, Running
  <2>2. dpair'[c] = pair[c] /\ \A d \in Cpu : d # c => dpair'[d] = dpair[d]
    BY <1>0, <1>3, Zenon DEF FenceTail
  <2>3. PairByPhase(c)' /\ DurableByPhase(c)'
    BY <1>a, <2>1, <2>2, Zenon DEF PairByPhase, DurableByPhase, Spans
  <2> QED BY <2>1, <2>2, <2>3, ShapeOfOne, Zenon
<1>4. ASSUME NEW w \in Word, Store(c, w) PROVE Shape'
  <2>1. /\ status = "mounted" /\ status' = "mounted" /\ txn[c].pc = "store"
        /\ txn'[c].pc = "store" /\ txn'[c].two = txn[c].two /\ pair' = pair
        /\ dpair' = dpair
        /\ \A d \in Cpu : d # c => txn'[d] = txn[d]
    BY <1>0, <1>4, Zenon DEF Store, Running, Txn
  <2>2. PairByPhase(c)' /\ DurableByPhase(c)'
    BY <1>a, <2>1, Zenon DEF PairByPhase, DurableByPhase, Spans
  <2> QED BY <2>1, <2>2, ShapeOfOne, Zenon
<1>5. CASE Barrier(c)
  <2>1. /\ status = "mounted" /\ status' = "mounted" /\ txn[c].pc = "store"
        /\ txn'[c].pc = "commit" /\ txn'[c].two = txn[c].two /\ pair' = pair
        /\ dpair' = dpair
        /\ \A d \in Cpu : d # c => txn'[d] = txn[d]
    BY <1>5, PhaseOnly, Zenon DEF Barrier, Running
  <2>2. PairByPhase(c)' /\ DurableByPhase(c)'
    BY <1>a, <2>1, Zenon DEF PairByPhase, DurableByPhase, Spans
  <2> QED BY <2>1, <2>2, ShapeOfOne, Zenon
<1>6. CASE SetHead(c)
  <2>1. /\ status = "mounted" /\ status' = "mounted" /\ txn[c].pc = "commit"
        /\ txn'[c].pc = "head" /\ txn'[c].two = txn[c].two /\ dpair' = dpair
        /\ \A d \in Cpu : d # c => txn'[d] = txn[d]
    BY <1>6, PhaseOnly, Zenon DEF SetHead, Running
  <2>2. /\ pair'[c].head = pair[c].tail /\ pair'[c].tail = pair[c].tail
        /\ \A d \in Cpu : d # c => pair'[d] = pair[d]
    BY <1>0, <1>6, Zenon DEF SetHead, Pair
  <2>3. dpair[c] = pair[c] /\ Spans(c, pair[c])
    BY <1>a, <2>1, Zenon DEF PairByPhase, DurableByPhase
  <2>4. PairByPhase(c)' /\ DurableByPhase(c)'
    BY <2>1, <2>2, <2>3, Zenon DEF PairByPhase, DurableByPhase, Spans
  <2> QED BY <2>1, <2>2, <2>4, ShapeOfOne, Zenon
<1>7. CASE FenceHead(c)
  <2>1. /\ status = "mounted" /\ status' = "mounted" /\ txn[c].pc = "head"
        /\ txn'[c].pc = "committed" /\ pair' = pair
        /\ \A d \in Cpu : d # c => txn'[d] = txn[d]
    BY <1>0, <1>7, Zenon DEF FenceHead, Running, NoTxn
  <2>2. dpair'[c] = pair[c] /\ \A d \in Cpu : d # c => dpair'[d] = dpair[d]
    BY <1>0, <1>7, Zenon DEF FenceHead
  <2>3. PairByPhase(c)' /\ DurableByPhase(c)'
    BY <1>a, <2>1, <2>2, Zenon DEF PairByPhase, DurableByPhase
  <2> QED BY <2>1, <2>2, <2>3, ShapeOfOne, Zenon
<1> QED BY <1>1, <1>2, <1>3, <1>4, <1>5, <1>6, <1>7, Zenon

\* A migration never adds entries: head and tail keep their offsets.
LEMMA ShapeMigration ==
    ASSUME TypeOK, Shape, NEW c \in Cpu,
           \/ SkipMigration(c) \/ MigrateHead(c) \/ MigrateTail(c) \/ MigrateFree(c)
           \/ \E q \in Page : MigrateCopy(c, q)
    PROVE  Shape'
<1>0. /\ txn \in [Cpu -> Txn] /\ pair \in [Cpu -> Pair] /\ dpair \in [Cpu -> Pair]
      /\ pair[c] \in Pair /\ txn[c] \in Txn /\ dpair[c] \in Pair
      /\ pair[c].head \in Addr /\ pair[c].tail \in Addr
  BY Zenon DEF TypeOK, Pair
<1>a. status = "mounted" => PairByPhase(c) /\ DurableByPhase(c)
  BY Zenon DEF Shape
<1>1. CASE SkipMigration(c) \/ MigrateFree(c)
  <2>1. /\ status = "mounted" /\ status' = "mounted"
        /\ txn[c].pc \in {"committed", "release"}
        /\ txn'[c].pc = "idle" /\ pair' = pair /\ dpair' = dpair
        /\ \A d \in Cpu : d # c => txn'[d] = txn[d]
    BY <1>0, <1>1, NoWords, Zenon DEF SkipMigration, MigrateFree, Running, nvmVars
  <2>2. PairByPhase(c)' /\ DurableByPhase(c)'
    BY <1>a, <2>1, Zenon DEF PairByPhase, DurableByPhase, NoEntries
  <2> QED BY <2>1, <2>2, ShapeOfOne, Zenon
<1>2. ASSUME NEW q \in Page, MigrateCopy(c, q) PROVE Shape'
  <2>1. /\ status = "mounted" /\ status' = "mounted" /\ txn[c].pc = "committed"
        /\ txn'[c].pc = "copied" /\ pair' = pair /\ dpair' = dpair
        /\ \A d \in Cpu : d # c => txn'[d] = txn[d]
    BY <1>0, <1>2, Zenon DEF MigrateCopy, Running, Txn
  <2>2. PairByPhase(c)' /\ DurableByPhase(c)'
    BY <1>a, <2>1, Zenon DEF PairByPhase, DurableByPhase
  <2> QED BY <2>1, <2>2, ShapeOfOne, Zenon
<1>3. CASE MigrateHead(c)
  <2>1. /\ status = "mounted" /\ status' = "mounted" /\ txn[c].pc = "copied"
        /\ txn'[c].pc = "moved" /\ dpair' = dpair
        /\ \A d \in Cpu : d # c => txn'[d] = txn[d]
    BY <1>0, <1>3, Zenon DEF MigrateHead, Running, Txn
  <2>2. /\ pair'[c].head.off = pair[c].head.off /\ pair'[c].tail = pair[c].tail
        /\ \A d \in Cpu : d # c => pair'[d] = pair[d]
    BY <1>0, <1>3, Zenon DEF MigrateHead, Pair, Addr
  <2>3. PairByPhase(c)' /\ DurableByPhase(c)'
    BY <1>a, <2>1, <2>2, Zenon DEF PairByPhase, DurableByPhase, NoEntries
  <2> QED BY <2>1, <2>2, <2>3, ShapeOfOne, Zenon
<1>4. CASE MigrateTail(c)
  <2>1. /\ status = "mounted" /\ status' = "mounted" /\ txn[c].pc = "moved"
        /\ txn'[c].pc = "release" /\ dpair' = dpair
        /\ \A d \in Cpu : d # c => txn'[d] = txn[d]
    BY <1>4, PhaseOnly, Zenon DEF MigrateTail, Running
  <2>2. /\ pair'[c].head = pair[c].head
        /\ pair'[c].tail = [pair[c].tail EXCEPT !.page = pair[c].head.page]
        /\ \A d \in Cpu : d # c => pair'[d] = pair[d]
    BY <1>0, <1>4, Zenon DEF MigrateTail, Pair
  <2>3. pair[c].head.off = pair[c].tail.off
    BY <1>a, <2>1, Zenon DEF PairByPhase, NoEntries
  <2>4. pair'[c].tail = pair[c].head
    BY <1>0, <2>2, <2>3, ZenonT(40) DEF Addr
  <2>5. PairByPhase(c)' /\ DurableByPhase(c)'
    BY <1>a, <2>1, <2>2, <2>4, Zenon DEF PairByPhase, DurableByPhase, NoEntries
  <2> QED BY <2>1, <2>2, <2>5, ShapeOfOne, Zenon
<1> QED BY <1>1, <1>2, <1>3, <1>4, Zenon

\* A line written back is the line as it was last stored, so a durable pair is
\* the pair or what the last fence left.
LEMMA ShapeWriteBack ==
    ASSUME TypeOK, Shape,
           \/ \E c \in Cpu : WriteBackPair(c)
           \/ \E w \in Word : WriteBackWord(w)
           \/ \E p \in Page, i \in 0 .. Slots - 1 : WriteBackSlot(p, i)
           \/ \E p \in Page : FileTakes(p)
           \/ UNCHANGED vars
    PROVE  Shape'
<1>1. ASSUME NEW c \in Cpu, WriteBackPair(c) PROVE Shape'
  <2>1. status = "mounted"
    BY <1>1, Zenon DEF WriteBackPair, Shape, DownShape
  <2>2. /\ txn' = txn /\ pair' = pair /\ status' = status
        /\ dpair'[c] = pair[c] /\ \A d \in Cpu : d # c => dpair'[d] = dpair[d]
    BY <1>1, Zenon DEF WriteBackPair, TypeOK
  <2>3. PairByPhase(c) /\ DurableByPhase(c)
    BY <2>1, Zenon DEF Shape
  <2>4. PairByPhase(c)'
    BY <2>2, <2>3, Zenon DEF PairByPhase, Spans
  <2>5. DurableByPhase(c)'
    BY <2>2, <2>3, Zenon DEF PairByPhase, DurableByPhase, NoEntries, Spans
  <2> QED BY <2>1, <2>2, <2>4, <2>5, ShapeOfOne, Zenon
<1>2. ASSUME \/ \E w \in Word : WriteBackWord(w)
             \/ \E p \in Page, i \in 0 .. Slots - 1 : WriteBackSlot(p, i)
             \/ \E p \in Page : FileTakes(p)
      PROVE  Shape'
  <2>1. status = "mounted"
    BY <1>2, Zenon DEF WriteBackWord, WriteBackSlot, FileTakes, Shape, DownShape
  <2>2. txn' = txn /\ pair' = pair /\ dpair' = dpair /\ status' = status
    BY <1>2, Zenon DEF WriteBackWord, WriteBackSlot, FileTakes, nvmVars
  <2> QED BY <2>1, <2>2, Zenon DEF Shape, PairByPhase, DurableByPhase, Spans
<1>3. CASE UNCHANGED vars
  BY <1>3, Zenon DEF vars, nvmVars, Shape, PairByPhase, DurableByPhase, Spans, DownShape
<1> QED BY <1>1, <1>2, <1>3, Zenon

\* Every durable pair a crash can leave is without entries or well formed.
LEMMA DurablePairs ==
    ASSUME TypeOK, Shape, NEW c \in Cpu
    PROVE  NoEntries(dpair[c]) \/ WellFormed(dpair[c])
<1>1. CASE status = "mounted"
  <2>1. PairByPhase(c) /\ DurableByPhase(c) /\ txn[c] \in Txn
    BY <1>1, Zenon DEF Shape, TypeOK
  <2>2. NoEntries(pair[c]) \/ Spans(c, pair[c])
    BY <2>1, Zenon DEF PairByPhase, Txn, NoEntries
  <2>3. NoEntries(dpair[c]) \/ dpair[c] = pair[c] \/ Spans(c, dpair[c])
    BY <2>1, Zenon DEF DurableByPhase, Txn
  <2> QED BY <2>2, <2>3, SpansWellFormed, Zenon
<1>2. CASE status # "mounted"
  BY <1>2, Zenon DEF Shape, DownShape
<1> QED BY <1>1, <1>2, Zenon

\* A crash, the recovery of each journal, and the end of the mount.
LEMMA ShapeRecovery ==
    ASSUME TypeOK, Shape,
           \/ Crash \/ MountDone
           \/ \E c \in Cpu : RecoverClean(c) \/ RecoverEntries(c) \/ RecoverFails(c)
    PROVE  Shape'
<1>1. CASE Crash
  <2>1. \A c \in Cpu : NoEntries(dpair[c]) \/ WellFormed(dpair[c])
    BY DurablePairs, Zenon
  <2>2. /\ status' = "down" /\ word' = dword' /\ slot' = dslot' /\ pair' = dpair'
        /\ dpair' = dpair /\ next_cpu' = 0 /\ \A c \in Cpu : txn'[c] = NoTxn
    BY <1>1, Zenon DEF Crash
  <2>3. \A c \in Cpu : ~(c < next_cpu')
    BY <2>2 DEF Cpu
  <2> QED BY <2>1, <2>2, <2>3, Zenon DEF Shape, DownShape
<1>2. ASSUME NEW c \in Cpu, RecoverClean(c) PROVE Shape'
  <2>1. /\ status = "down" /\ status' = "down" /\ next_cpu = c /\ next_cpu' = c + 1
        /\ pair[c].head = pair[c].tail /\ UNCHANGED <<nvmVars, txn>>
    BY <1>2, Zenon DEF RecoverClean, Recovering
  <2>2. \A d \in Cpu : d < c + 1 => d < c \/ d = c
    BY DEF Cpu
  <2> QED BY <2>1, <2>2, Zenon DEF Shape, DownShape, nvmVars
<1>3. ASSUME NEW c \in Cpu, RecoverEntries(c) PROVE Shape'
  <2>1. status = "down" /\ next_cpu = c /\ txn' = txn
    BY <1>3, Zenon DEF RecoverEntries, Recovering
  <2>2. CASE status' = "oops" /\ UNCHANGED <<nvmVars, next_cpu>>
    BY <2>1, <2>2, Zenon DEF Shape, DownShape, nvmVars
  <2>3. CASE /\ pair' = [pair EXCEPT ![c].tail = pair[c].head]
             /\ dpair' = [dpair EXCEPT ![c] = pair'[c]]
             /\ next_cpu' = c + 1
             /\ UNCHANGED <<word, dword, slot, dslot, status>>
    <3>1. \A d \in Cpu : d < c + 1 => d < c \/ d = c
      BY DEF Cpu
    <3>2. pair \in [Cpu -> Pair] /\ pair[c] \in Pair /\ pair = dpair
      BY <2>1, Zenon DEF TypeOK, Shape, DownShape
    <3>3. /\ pair'[c].head = pair[c].head /\ pair'[c].tail = pair[c].head
          /\ \A d \in Cpu : d # c => pair'[d] = pair[d]
      BY <2>3, <3>2, Zenon DEF Pair
    <3>4. pair' = dpair'
      BY <2>3, <3>2, Zenon
    <3> QED BY <2>1, <2>3, <3>1, <3>3, <3>4, ZenonT(40) DEF Shape, DownShape, NoEntries
  <2> QED BY <1>3, <2>2, <2>3, Zenon DEF RecoverEntries
<1>4. ASSUME NEW c \in Cpu, RecoverFails(c) PROVE Shape'
  BY <1>4, Zenon DEF RecoverFails, Recovering, Shape, DownShape, nvmVars
<1>5. CASE MountDone
  <2>1. /\ status = "down" /\ next_cpu = CPUS /\ status' = "mounted"
        /\ UNCHANGED <<nvmVars, txn>>
    BY <1>5, Zenon DEF MountDone
  <2>2. \A c \in Cpu : c < CPUS
    BY JournalAssumption DEF Cpu
  <2>3. ASSUME NEW c \in Cpu
        PROVE  txn[c].pc = "idle" /\ pair[c].head = pair[c].tail /\ NoEntries(dpair[c])
    BY <2>1, <2>2, NoWords, Zenon DEF Shape, DownShape, NoEntries
  <2> QED BY <2>1, <2>3, Zenon DEF Shape, PairByPhase, DurableByPhase, nvmVars
<1> QED BY <1>1, <1>2, <1>3, <1>4, <1>5, Zenon

\* Every step keeps the shape of the pairs.
LEMMA ShapeStep ==
    ASSUME TypeOK, Shape, [Next]_vars
    PROVE  Shape'
BY ShapeTransaction, ShapeMigration, ShapeWriteBack, ShapeRecovery, Zenon DEF Next

-----------------------------------------------------------------------------
(* The rest of the inductive invariant: the entries and the words *)

\* An entry holds the old values of the words W.
Saves(e, W) == DOMAIN e = W /\ \A w \in W : e[w] = goal[w]

\* The entries of c's transaction are in the slots from a on.
Logged(c, slots, a) ==
    /\ Saves(slots[a.page][a.off], txn[c].one)
    /\ txn[c].two # {} =>
           Saves(slots[a.page][NextLiteJournal(a).off], txn[c].two)

\* A crash now would undo c's transaction: its entries are fenced, and its head
\* has not reached the NVM.
Pending(c) ==
    \/ txn[c].pc \in {"store", "commit"}
    \/ txn[c].pc = "head" /\ dpair[c] # pair[c]

\* Where the entries of c's transaction start.
LogAt(c) == IF txn[c].pc = "head" THEN dpair[c].head ELSE pair[c].head

\* The entries are in place before the tail is stored, and durable before the
\* first in-place store and until the head is durable.
EntriesByPhase(c) ==
    /\ txn[c].pc \in {"entries", "tail"} \/ Pending(c) => Logged(c, slot, LogAt(c))
    /\ Pending(c) => Logged(c, dslot, LogAt(c))

\* The words of a transaction: old before the first store, new and durable
\* after the barrier.
ValuesByPhase(c) ==
    LET pc == txn[c].pc
    IN  /\ pc \in {"entries", "tail"} =>
               \A w \in Words(c) : word[w] = goal[w] /\ dword[w] = goal[w]
        /\ pc \in {"store", "commit", "head"} =>
               \A w \in Words(c) \ txn[c].left : word[w] = txn[c].id
        /\ pc \in {"commit", "head"} => \A w \in Words(c) : dword[w] = txn[c].id

\* A word of no transaction has the value of the last one that took effect.
Settled(w) == word[w] = goal[w] /\ dword[w] = goal[w]

MountedImage ==
    /\ \A c \in Cpu : EntriesByPhase(c) /\ ValuesByPhase(c)
    /\ \A w \in Word : (\A c \in Cpu : w \notin Words(c)) => Settled(w)

\* After a crash the undo of the journals restores every word, and an entry
\* that is still to be undone is in use.
DownImage ==
    /\ \A w \in Word : Surviving(w) = {goal[w]}
    /\ \A c \in Cpu : \A a \in Uncommitted(pair[c]) : DOMAIN slot[a.page][a.off] # {}

Image == ~torn /\ ~stale => IF status = "mounted" THEN MountedImage ELSE DownImage

IInv == TypeOK /\ WordsByPhase /\ Shape /\ (~stale => PagesApart) /\ Image

-----------------------------------------------------------------------------
(* What a crash would leave *)

\* The durable journal of a CPU whose tail is fenced holds the entries of a
\* pending transaction, and otherwise nothing.
LEMMA PendingEntries ==
    ASSUME TypeOK, WordsByPhase, Shape, status = "mounted", MountedImage,
           NEW c \in Cpu, txn[c].pc # "tail"
    PROVE  /\ ~Pending(c) => Uncommitted(dpair[c]) = {}
           /\ Pending(c) =>
                 /\ \A a \in Uncommitted(dpair[c]) :
                       \E W \in {txn[c].one, txn[c].two} \ {{}} :
                           Saves(dslot[a.page][a.off], W)
                 /\ \A w \in Words(c) : \E a \in Uncommitted(dpair[c]) :
                       w \in DOMAIN dslot[a.page][a.off]
<1>0. /\ pair[c] \in Pair /\ dpair[c] \in Pair /\ txn[c] \in Txn
      /\ dpair[c].head \in Addr
  BY Zenon DEF TypeOK, Pair
<1>a. PairByPhase(c) /\ DurableByPhase(c) /\ EntriesByPhase(c)
  BY Zenon DEF Shape, MountedImage
<1>1. ASSUME ~Pending(c) PROVE Uncommitted(dpair[c]) = {}
  <2>1. NoEntries(dpair[c])
    BY <1>0, <1>a, <1>1, Zenon DEF PairByPhase, DurableByPhase, Pending, NoEntries, Txn
  <2> QED BY <1>0, <2>1, NoEntriesNothing, Zenon
<1>2. ASSUME Pending(c)
      PROVE  /\ \A a \in Uncommitted(dpair[c]) :
                   \E W \in {txn[c].one, txn[c].two} \ {{}} :
                       Saves(dslot[a.page][a.off], W)
             /\ \A w \in Words(c) : \E a \in Uncommitted(dpair[c]) :
                   w \in DOMAIN dslot[a.page][a.off]
  <2> DEFINE a == dpair[c].head
             b == NextLiteJournal(a)
  <2>1. LogAt(c) = a /\ Spans(c, dpair[c])
    BY <1>a, <1>2, Zenon DEF PairByPhase, DurableByPhase, Pending, LogAt
  <2>2. b.page = a.page
    BY <1>0, NextSlot, Zenon
  <2>3. txn[c].one # {}
    BY <1>2, Zenon DEF WordsByPhase, Pending, Active
  <2>4. /\ Saves(dslot[a.page][a.off], txn[c].one)
        /\ txn[c].two # {} => Saves(dslot[b.page][b.off], txn[c].two)
    BY <1>2, <1>a, <2>1, <2>2, Zenon DEF EntriesByPhase, Logged
  <2>5. Uncommitted(dpair[c]) = IF txn[c].two = {} THEN {a} ELSE {a, b}
    BY <1>0, <2>1, EntriesCovered, Zenon DEF Spans
  <2> HIDE DEF a, b
  <2>6. \A x \in Uncommitted(dpair[c]) :
            \E W \in {txn[c].one, txn[c].two} \ {{}} : Saves(dslot[x.page][x.off], W)
    BY <2>3, <2>4, <2>5, Zenon
  <2>7. \A w \in Words(c) : \E x \in Uncommitted(dpair[c]) :
            w \in DOMAIN dslot[x.page][x.off]
    BY <2>4, <2>5, Zenon DEF Words, Saves
  <2> QED BY <2>6, <2>7, Zenon
<1> QED BY <1>1, <1>2, Zenon

\* Undoing the durable journals restores the words of the pending transactions
\* and leaves the other words as they are in the NVM.
LEMMA SurvivingWords ==
    ASSUME TypeOK, WordsByPhase, Shape, status = "mounted", MountedImage,
           \A c \in Cpu : txn[c].pc # "tail", NEW w \in Word
    PROVE  Surviving(w) = IF \E c \in Cpu : w \in Words(c) /\ Pending(c)
                          THEN {goal[w]} ELSE {dword[w]}
<1> DEFINE at == UNION {Uncommitted(dpair[c]) : c \in Cpu}
           undo == {e \in {dslot[a.page][a.off] : a \in at} : w \in DOMAIN e}
<1>1. Surviving(w) = IF undo = {} THEN {dword[w]} ELSE {e[w] : e \in undo}
  BY Zenon DEF Surviving
<1>2. ASSUME NEW e \in undo
      PROVE  e[w] = goal[w] /\ \E c \in Cpu : w \in Words(c) /\ Pending(c)
  <2>1. PICK c \in Cpu : \E a \in Uncommitted(dpair[c]) : e = dslot[a.page][a.off]
    BY <1>2, Zenon
  <2>2. Pending(c)
    BY <2>1, PendingEntries, Zenon
  <2>3. PICK W \in {txn[c].one, txn[c].two} : Saves(e, W)
    BY <2>1, <2>2, PendingEntries, Zenon
  <2>4. w \in W /\ e[w] = goal[w]
    BY <1>2, <2>3, Zenon DEF Saves
  <2> QED BY <2>2, <2>4, Zenon DEF Words
<1>3. ASSUME NEW c \in Cpu, w \in Words(c), Pending(c) PROVE undo # {}
  <2>1. PICK a \in Uncommitted(dpair[c]) : w \in DOMAIN dslot[a.page][a.off]
    BY <1>3, PendingEntries, Zenon
  <2>2. a \in at
    BY <2>1, Zenon
  <2> QED BY <2>1, <2>2, Zenon
<1> HIDE DEF undo
<1>4. CASE undo = {}
  BY <1>1, <1>3, <1>4, Zenon
<1>5. CASE undo # {}
  <2>1. {e[w] : e \in undo} = {goal[w]}
    BY <1>2, <1>5, Zenon
  <2> QED BY <1>1, <1>2, <1>5, <2>1, Zenon
<1> QED BY <1>4, <1>5, Zenon

\* A crash leaves a transaction whose head is durable all new and every other
\* one all old.
LEMMA CrashIsAtomic ==
    ASSUME TypeOK, WordsByPhase, Shape, status = "mounted", MountedImage,
           \A c \in Cpu : txn[c].pc # "tail"
    PROVE  /\ \A c \in Cpu : IF TookEffect(c) THEN AllNew(c) ELSE AllOld(c)
           /\ \A w \in Word \ UNION {Words(c) : c \in Cpu} : Surviving(w) = {goal[w]}
<1>0. \A c \in Cpu : txn[c] \in Txn /\ Words(c) \subseteq Word
  BY Zenon DEF TypeOK, Txn, Words
<1>1. ASSUME NEW c \in Cpu, NEW w \in Words(c), Pending(c)
      PROVE  Surviving(w) = {goal[w]}
  <2>1. w \in Word
    BY <1>0, Zenon
  <2> QED BY <1>1, <2>1, SurvivingWords, Zenon
<1>2. ASSUME NEW c \in Cpu, NEW w \in Words(c), ~Pending(c)
      PROVE  Surviving(w) = {dword[w]}
  <2>1. w \in Word
    BY <1>0, Zenon
  <2>2. \A d \in Cpu : w \in Words(d) => d = c
    BY <1>2, Zenon DEF WordsByPhase
  <2> QED BY <1>2, <2>1, <2>2, SurvivingWords, Zenon
<1>3. ASSUME NEW c \in Cpu, TookEffect(c) PROVE AllNew(c)
  <2>1. ~Pending(c) /\ txn[c].pc = "head"
    BY <1>3, Zenon DEF TookEffect, Pending
  <2>2. \A w \in Words(c) : dword[w] = txn[c].id
    BY <2>1, Zenon DEF MountedImage, ValuesByPhase
  <2> QED BY <1>2, <2>1, <2>2, Zenon DEF AllNew
<1>4. ASSUME NEW c \in Cpu, ~TookEffect(c) PROVE AllOld(c)
  <2>1. CASE Pending(c)
    BY <1>1, <2>1, Zenon DEF AllOld
  <2>2. CASE ~Pending(c)
    <3>1. txn[c].pc \notin {"tail", "store", "commit", "head"}
      BY <1>4, <2>2, Zenon DEF Pending, TookEffect
    <3>2. \A w \in Words(c) : dword[w] = goal[w]
      BY <1>0, <3>1, Zenon DEF MountedImage, ValuesByPhase, WordsByPhase, Active, Txn
    <3> QED BY <1>2, <2>2, <3>2, Zenon DEF AllOld
  <2> QED BY <2>1, <2>2, Zenon
<1>5. ASSUME NEW w \in Word, \A c \in Cpu : w \notin Words(c)
      PROVE  Surviving(w) = {goal[w]}
  <2>1. dword[w] = goal[w]
    BY <1>5, Zenon DEF MountedImage, Settled
  <2> QED BY <1>5, <2>1, SurvivingWords, Zenon
<1> QED BY <1>3, <1>4, <1>5, Zenon

-----------------------------------------------------------------------------
(* The entries and the words, step by step *)

\* The entries of a transaction lie on the page of its journal.
LEMMA LogPage ==
    ASSUME TypeOK, Shape, status = "mounted", NEW c \in Cpu,
           txn[c].pc \in {"entries", "tail"} \/ Pending(c)
    PROVE  LogAt(c) \in Addr /\ LogAt(c).page = pair[c].head.page
           /\ NextLiteJournal(LogAt(c)).off \in 0 .. Slots - 1
           /\ NextLiteJournal(LogAt(c)).off # LogAt(c).off
<1>1. /\ pair[c].head \in Addr /\ dpair[c].head \in Addr
      /\ PairByPhase(c) /\ DurableByPhase(c)
  BY Zenon DEF TypeOK, Pair, Shape
<1>2. LogAt(c) \in Addr
  BY <1>1, Zenon DEF LogAt
<1>3. NextLiteJournal(LogAt(c)) \in Addr /\ NextLiteJournal(LogAt(c)).off # LogAt(c).off
  BY <1>2, NextSlot, Zenon
<1>4. CASE txn[c].pc # "head"
  BY <1>2, <1>3, <1>4, Zenon DEF LogAt, Addr
<1>5. CASE txn[c].pc = "head"
  <2>1. /\ pair[c].head = pair[c].tail /\ dpair[c].tail = pair[c].tail
        /\ Spans(c, dpair[c])
    BY <1>1, <1>5, Zenon DEF PairByPhase, DurableByPhase, Pending
  <2>2. dpair[c].tail.page = dpair[c].head.page
    BY <1>1, <2>1, NextSlot, ZenonT(40) DEF Spans
  <2> QED BY <1>2, <1>3, <1>5, <2>1, <2>2, Zenon DEF LogAt, Addr
<1> QED BY <1>4, <1>5, Zenon

\* A step of c that leaves the pages and the words of the others alone need
\* only be checked for c.
LEMMA ImageOfOne ==
    ASSUME TypeOK, WordsByPhase, Shape, status = "mounted", MountedImage,
           NEW c \in Cpu,
           \A d \in Cpu : d # c =>
               /\ txn'[d] = txn[d] /\ pair'[d] = pair[d] /\ dpair'[d] = dpair[d]
               /\ slot'[pair[d].head.page] = slot[pair[d].head.page]
               /\ dslot'[pair[d].head.page] = dslot[pair[d].head.page],
           \A w \in Word \ Words(c) : /\ word'[w] = word[w] /\ dword'[w] = dword[w]
                                      /\ goal'[w] = goal[w],
           \A w \in Words(c) : w \notin Words(c)' => Settled(w)',
           EntriesByPhase(c)', ValuesByPhase(c)'
    PROVE  MountedImage'
<1>1. ASSUME NEW d \in Cpu, d # c PROVE EntriesByPhase(d)' /\ ValuesByPhase(d)'
  <2>1. /\ txn'[d] = txn[d] /\ pair'[d] = pair[d] /\ dpair'[d] = dpair[d]
        /\ slot'[pair[d].head.page] = slot[pair[d].head.page]
        /\ dslot'[pair[d].head.page] = dslot[pair[d].head.page]
    BY <1>1, Zenon
  <2>2. EntriesByPhase(d) /\ ValuesByPhase(d)
    BY Zenon DEF MountedImage
  <2>3. \A w \in Words(d) : /\ word'[w] = word[w] /\ dword'[w] = dword[w]
                            /\ goal'[w] = goal[w]
    <3>1. Words(d) \subseteq Word /\ Words(c) \cap Words(d) = {}
      BY <1>1, ZenonT(40) DEF WordsByPhase, TypeOK, Txn, Words
    <3> QED BY <3>1, Zenon
  <2>4. Pending(d)' = Pending(d) /\ LogAt(d)' = LogAt(d) /\ Words(d)' = Words(d)
    BY <2>1, Zenon DEF Pending, LogAt, Words
  <2>5. EntriesByPhase(d)'
    <3>1. ASSUME txn[d].pc \in {"entries", "tail"} \/ Pending(d)
          PROVE  LogAt(d).page = pair[d].head.page
      BY <3>1, LogPage, Zenon
    <3>2. \A e : /\ Saves(e, txn[d].one) => Saves(e, txn[d].one)'
                 /\ Saves(e, txn[d].two) => Saves(e, txn[d].two)'
      BY <2>1, <2>3, ZenonT(40) DEF Saves, Words
    <3>3. ASSUME txn[d].pc \in {"entries", "tail"} \/ Pending(d)
          PROVE  Logged(d, slot, LogAt(d))'
      <4>1. Logged(d, slot, LogAt(d))
        BY <2>2, <3>3, Zenon DEF EntriesByPhase
      <4> QED BY <2>1, <2>4, <3>1, <3>2, <3>3, <4>1 DEF Logged
    <3>4. ASSUME Pending(d) PROVE Logged(d, dslot, LogAt(d))'
      <4>1. Logged(d, dslot, LogAt(d))
        BY <2>2, <3>4, ZenonT(40) DEF EntriesByPhase
      <4> QED BY <2>1, <2>4, <3>1, <3>2, <3>4, <4>1 DEF Logged
    <3> QED BY <2>1, <2>4, <3>3, <3>4, Zenon DEF EntriesByPhase
  <2>6. ValuesByPhase(d)'
    BY <2>1, <2>2, <2>3, <2>4 DEF ValuesByPhase
  <2> QED BY <2>5, <2>6, Zenon
<1>2. ASSUME NEW w \in Word, \A d \in Cpu : w \notin Words(d)' PROVE Settled(w)'
  <2>1. CASE w \in Words(c)
    BY <1>2, <2>1, Zenon
  <2>2. CASE w \notin Words(c)
    <3>1. \A d \in Cpu : d # c => Words(d)' = Words(d)
      BY Zenon DEF Words
    <3>2. Settled(w)
      BY <1>2, <2>2, <3>1, Zenon DEF MountedImage
    <3> QED BY <2>2, <3>2, Zenon DEF Settled
  <2> QED BY <2>1, <2>2, Zenon
<1> QED BY <1>1, <1>2, Zenon DEF MountedImage

\* nova_create_lite_transaction saves the values of the last transactions.
LEMMA ImageBegin ==
    ASSUME TypeOK, WordsByPhase, Shape, PagesApart, status = "mounted", MountedImage,
           NEW c \in Cpu, NEW one \in SUBSET Word, NEW two \in SUBSET Word,
           Begin(c, one, two)
    PROVE  MountedImage'
<1> DEFINE a == pair[c].head
           b == NextLiteJournal(a)
<1>0. /\ slot \in [Page -> [0 .. Slots - 1 -> Entry]] /\ a \in Addr /\ txn \in [Cpu -> Txn]
      /\ a.page \in Page /\ a.off \in 0 .. Slots - 1
  BY Zenon DEF TypeOK, Pair, Addr
<1>1. b \in Addr /\ b.page = a.page /\ b.off # a.off /\ b.off \in 0 .. Slots - 1
  BY <1>0, NextSlot, Zenon DEF Addr
<1>2. /\ txn'[c].pc = "entries" /\ txn'[c].one = one /\ txn'[c].two = two
      /\ txn[c].pc = "idle"
      /\ \A d \in Cpu : d # c => txn'[d] = txn[d]
      /\ pair' = pair /\ dpair' = dpair /\ dslot' = dslot
      /\ word' = word /\ dword' = dword /\ goal' = goal
  BY <1>0, Zenon DEF Begin, Running
<1>3. /\ slot'[a.page][a.off] = EntryFor(one)
      /\ two # {} => slot'[a.page][b.off] = EntryFor(two)
      /\ \A p \in Page : p # a.page => slot'[p] = slot[p]
  BY <1>0, <1>1, Zenon DEF Begin, EntryOne, EntryTwo
<1>4. \A w \in one \cup two : Settled(w)
  <2>1. \A w \in one \cup two : w \in Word /\ \A d \in Cpu : w \notin Words(d)
    BY Zenon DEF Begin
  <2> QED BY <2>1, Zenon DEF MountedImage
<1>5. Words(c) = {} /\ Words(c)' = one \cup two
  BY <1>2, Zenon DEF WordsByPhase, Active, Words
<1>6. Saves(EntryFor(one), one)' /\ Saves(EntryFor(two), two)'
  BY <1>2, <1>4, Zenon DEF Saves, EntryFor, Settled
<1>7. EntriesByPhase(c)'
  <2>1. ~Pending(c)' /\ LogAt(c)' = a
    BY <1>2, ZenonT(40) DEF Pending, LogAt
  <2>2. Logged(c, slot, a)'
    <3>1. a' = a /\ b' = b /\ EntryFor(one)' = EntryFor(one) /\ EntryFor(two)' = EntryFor(two)
      BY <1>2, Zenon DEF EntryFor
    <3>2. /\ Saves(slot[a.page][a.off], one)'
          /\ two # {} => Saves(slot[a.page][b.off], two)'
      BY <1>3, <1>6, <3>1, ZenonT(40) DEF Saves
    <3> QED BY <1>2, <3>2, ZenonT(40) DEF Logged
  <2> QED BY <2>1, <2>2, <1>2, Zenon DEF EntriesByPhase
<1>8. ValuesByPhase(c)'
  BY <1>2, <1>4, <1>5, Zenon DEF ValuesByPhase, Settled
<1>9. \A d \in Cpu : d # c => slot'[pair[d].head.page] = slot[pair[d].head.page]
  <2>1. \A d \in Cpu : pair[d].head.page \in Page /\ pair[d].head.page \in Pages(d)
    BY Zenon DEF TypeOK, Pair, Addr, Pages
  <2>2. \A d \in Cpu : d # c => pair[d].head.page # a.page
    BY <2>1 DEF PagesApart
  <2> QED BY <1>3, <2>1, <2>2, Zenon
<1> HIDE DEF a, b
<1> QED BY <1>2, <1>5, <1>7, <1>8, <1>9, ImageOfOne, Zenon

\* The fence makes the entries durable before the first in-place store.
LEMMA ImageTail ==
    ASSUME TypeOK, WordsByPhase, Shape, PagesApart, status = "mounted", MountedImage,
           NEW c \in Cpu, SetTail(c) \/ FenceTail(c)
    PROVE  MountedImage'
<1>0. /\ pair \in [Cpu -> Pair] /\ pair[c] \in Pair /\ dpair \in [Cpu -> Pair]
      /\ pair[c].head \in Addr
      /\ dslot \in [Page -> [0 .. Slots - 1 -> Entry]]
      /\ EntriesByPhase(c) /\ ValuesByPhase(c)
  BY Zenon DEF TypeOK, Pair, MountedImage
<1>1. CASE SetTail(c)
  <2>1. /\ txn[c].pc = "entries" /\ txn'[c].pc = "tail"
        /\ txn'[c].one = txn[c].one /\ txn'[c].two = txn[c].two
        /\ txn'[c].left = txn[c].left /\ txn'[c].id = txn[c].id
        /\ Words(c)' = Words(c)
        /\ \A d \in Cpu : d # c => txn'[d] = txn[d]
        /\ dpair' = dpair /\ slot' = slot /\ dslot' = dslot
        /\ word' = word /\ dword' = dword /\ goal' = goal
    BY <1>1, PhaseOnly, Zenon DEF SetTail, Running
  <2>2. pair'[c].head = pair[c].head /\ \A d \in Cpu : d # c => pair'[d] = pair[d]
    BY <1>0, <1>1, Zenon DEF SetTail, Pair
  <2>3. LogAt(c) = pair[c].head /\ LogAt(c)' = pair[c].head /\ ~Pending(c)'
    BY <2>1, <2>2, Zenon DEF LogAt, Pending
  <2>4. Logged(c, slot, pair[c].head)
    BY <1>0, <2>1, <2>3, Zenon DEF EntriesByPhase
  <2>5. Logged(c, slot, LogAt(c))'
    BY <2>1, <2>3, <2>4, Zenon DEF Logged, Saves
  <2>6. EntriesByPhase(c)'
    BY <2>3, <2>5, Zenon DEF EntriesByPhase
  <2>7. ValuesByPhase(c)'
    BY <1>0, <2>1, Zenon DEF ValuesByPhase
  <2> QED BY <2>1, <2>2, <2>6, <2>7, ImageOfOne, Zenon
<1>2. CASE FenceTail(c)
  <2> DEFINE a == pair[c].head
             b == NextLiteJournal(a)
  <2>1. /\ txn[c].pc = "tail" /\ txn'[c].pc = "store"
        /\ txn'[c].one = txn[c].one /\ txn'[c].two = txn[c].two
        /\ txn'[c].left = txn[c].left /\ txn'[c].id = txn[c].id
        /\ Words(c)' = Words(c)
        /\ \A d \in Cpu : d # c => txn'[d] = txn[d]
        /\ pair' = pair /\ slot' = slot
        /\ word' = word /\ dword' = dword /\ goal' = goal
    BY <1>2, PhaseOnly, Zenon DEF FenceTail, Running
  <2>2. \A d \in Cpu : d # c => dpair'[d] = dpair[d]
    BY <1>0, <1>2, Zenon DEF FenceTail
  <2>3. a.page \in Page /\ a.off \in 0 .. Slots - 1 /\ b.off \in 0 .. Slots - 1
    BY <1>0, NextSlot, Zenon DEF Addr
  <2>4. /\ dslot'[a.page][a.off] = slot[a.page][a.off]
        /\ txn[c].two # {} => dslot'[a.page][b.off] = slot[a.page][b.off]
        /\ \A p \in Page : p # a.page => dslot'[p] = dslot[p]
    BY <1>0, <1>2, <2>3, Zenon DEF FenceTail, EntryOne, EntryTwo
  <2>5. Logged(c, slot, a)
    BY <1>0, <2>1, Zenon DEF EntriesByPhase, LogAt
  <2>6. Logged(c, slot, a)' /\ Logged(c, dslot, a)'
    BY <2>1, <2>4, <2>5, ZenonT(40) DEF Logged, Saves
  <2>7. LogAt(c)' = a
    BY <2>1, Zenon DEF LogAt
  <2>8. EntriesByPhase(c)'
    BY <2>6, <2>7, <2>1, Zenon DEF EntriesByPhase
  <2>9. ValuesByPhase(c)'
    BY <2>1 DEF ValuesByPhase, WordsByPhase
  <2>10. \A d \in Cpu : d # c => dslot'[pair[d].head.page] = dslot[pair[d].head.page]
    <3>1. \A d \in Cpu : pair[d].head.page \in Page /\ pair[d].head.page \in Pages(d)
      BY Zenon DEF TypeOK, Pair, Addr, Pages
    <3>2. \A d \in Cpu : d # c => pair[d].head.page # a.page
      BY <3>1 DEF PagesApart
    <3> QED BY <2>4, <3>1, <3>2, Zenon
  <2> HIDE DEF a, b
  <2> QED BY <2>1, <2>2, <2>8, <2>9, <2>10, ImageOfOne, Zenon
<1> QED BY <1>1, <1>2, Zenon

\* The in-place stores and the barrier that makes them durable.
LEMMA ImageStores ==
    ASSUME TypeOK, WordsByPhase, Shape, status = "mounted", MountedImage,
           NEW c \in Cpu, (\E w \in Word : Store(c, w)) \/ Barrier(c)
    PROVE  MountedImage'
<1>0. /\ txn \in [Cpu -> Txn] /\ txn[c] \in Txn /\ word \in [Word -> Value]
      /\ EntriesByPhase(c) /\ ValuesByPhase(c) /\ Words(c) \subseteq Word
  BY Zenon DEF TypeOK, Txn, Words, MountedImage
<1>1. ASSUME txn[c].pc = "store", txn'[c].pc \in {"store", "commit"},
             txn'[c].one = txn[c].one, txn'[c].two = txn[c].two,
             pair' = pair, slot' = slot, dslot' = dslot, goal' = goal
      PROVE  EntriesByPhase(c)'
  <2>1. /\ LogAt(c) = pair[c].head /\ LogAt(c)' = pair[c].head
        /\ Pending(c) /\ Pending(c)'
    BY <1>1, Zenon DEF LogAt, Pending
  <2>2. Logged(c, slot, pair[c].head) /\ Logged(c, dslot, pair[c].head)
    BY <1>0, <2>1, Zenon DEF EntriesByPhase
  <2>3. Logged(c, slot, LogAt(c))' /\ Logged(c, dslot, LogAt(c))'
    BY <1>1, <2>1, <2>2, ZenonT(40) DEF Logged, Saves
  <2> QED BY <2>1, <2>3, Zenon DEF EntriesByPhase
<1>2. ASSUME NEW w \in Word, Store(c, w) PROVE MountedImage'
  <2>1. /\ txn[c].pc = "store" /\ txn'[c].pc = "store" /\ w \in txn[c].left
        /\ txn'[c].one = txn[c].one /\ txn'[c].two = txn[c].two
        /\ txn'[c].left = txn[c].left \ {w} /\ txn'[c].id = txn[c].id
        /\ \A d \in Cpu : d # c => txn'[d] = txn[d]
        /\ pair' = pair /\ dpair' = dpair /\ slot' = slot /\ dslot' = dslot
        /\ dword' = dword /\ goal' = goal
    BY <1>0, <1>2, Zenon DEF Store, Running, Txn
  <2>2. word'[w] = txn[c].id /\ \A v \in Word : v # w => word'[v] = word[v]
    BY <1>0, <1>2, Zenon DEF Store
  <2>3. w \in Words(c)
    BY <2>1, Zenon DEF WordsByPhase
  <2>4. Words(c)' = Words(c)
    BY <2>1, Zenon DEF Words
  <2>5. ValuesByPhase(c)'
    BY <1>0, <2>1, <2>2, <2>4, Zenon DEF ValuesByPhase
  <2>6. EntriesByPhase(c)'
    BY <1>1, <2>1, Zenon
  <2> QED BY <2>1, <2>2, <2>3, <2>4, <2>5, <2>6, ImageOfOne, Zenon
<1>3. CASE Barrier(c)
  <2>1. /\ txn[c].pc = "store" /\ txn'[c].pc = "commit" /\ txn[c].left = {}
        /\ txn'[c].one = txn[c].one /\ txn'[c].two = txn[c].two
        /\ txn'[c].left = txn[c].left /\ txn'[c].id = txn[c].id
        /\ Words(c)' = Words(c)
        /\ \A d \in Cpu : d # c => txn'[d] = txn[d]
        /\ pair' = pair /\ dpair' = dpair /\ slot' = slot /\ dslot' = dslot
        /\ word' = word /\ goal' = goal
    BY <1>3, PhaseOnly, Zenon DEF Barrier, Running
  <2>2. \A v \in Word : dword'[v] = IF v \in Words(c) THEN word[v] ELSE dword[v]
    BY <1>3, Zenon DEF Barrier
  <2>3. ValuesByPhase(c)'
    BY <1>0, <2>1, <2>2, Zenon DEF ValuesByPhase
  <2>4. EntriesByPhase(c)'
    BY <1>1, <2>1, Zenon
  <2> QED BY <2>1, <2>2, <2>3, <2>4, ImageOfOne, Zenon
<1> QED BY <1>2, <1>3, Zenon

\* The commit: the entries stay until the head is durable, and the fence that
\* makes it durable makes the new values the ones to keep.
LEMMA ImageCommit ==
    ASSUME TypeOK, WordsByPhase, Shape, status = "mounted", MountedImage,
           NEW c \in Cpu, SetHead(c) \/ FenceHead(c)
    PROVE  MountedImage'
<1>0. /\ txn \in [Cpu -> Txn] /\ pair \in [Cpu -> Pair] /\ dpair \in [Cpu -> Pair]
      /\ pair[c] \in Pair /\ Words(c) \subseteq Word
      /\ EntriesByPhase(c) /\ ValuesByPhase(c) /\ DurableByPhase(c)
  BY Zenon DEF TypeOK, Txn, Words, MountedImage, Shape
<1>1. CASE SetHead(c)
  <2>1. /\ txn[c].pc = "commit" /\ txn'[c].pc = "head"
        /\ txn'[c].one = txn[c].one /\ txn'[c].two = txn[c].two
        /\ txn'[c].left = txn[c].left /\ txn'[c].id = txn[c].id
        /\ Words(c)' = Words(c)
        /\ \A d \in Cpu : d # c => txn'[d] = txn[d]
        /\ dpair' = dpair /\ slot' = slot /\ dslot' = dslot
        /\ word' = word /\ dword' = dword /\ goal' = goal
    BY <1>1, PhaseOnly, Zenon DEF SetHead, Running
  <2>2. \A d \in Cpu : d # c => pair'[d] = pair[d]
    BY <1>0, <1>1, Zenon DEF SetHead
  <2>3. dpair[c] = pair[c] /\ LogAt(c) = pair[c].head /\ LogAt(c)' = pair[c].head
        /\ Pending(c)
    BY <1>0, <2>1, Zenon DEF DurableByPhase, LogAt, Pending
  <2>4. Logged(c, slot, pair[c].head) /\ Logged(c, dslot, pair[c].head)
    BY <1>0, <2>3, Zenon DEF EntriesByPhase
  <2>a. Logged(c, slot, LogAt(c))'
    BY <2>1, <2>3, <2>4, ZenonT(40) DEF Logged, Saves
  <2>5. Logged(c, dslot, LogAt(c))'
    BY <2>1, <2>3, <2>4, ZenonT(40) DEF Logged, Saves
  <2>6. EntriesByPhase(c)'
    BY <2>a, <2>5, Zenon DEF EntriesByPhase
  <2>7. ValuesByPhase(c)'
    BY <1>0, <2>1, Zenon DEF ValuesByPhase
  <2> QED BY <2>1, <2>2, <2>6, <2>7, ImageOfOne, Zenon
<1>2. CASE FenceHead(c)
  <2>1. /\ txn[c].pc = "head" /\ txn'[c].pc = "committed"
        /\ txn'[c].one = {} /\ txn'[c].two = {}
        /\ \A d \in Cpu : d # c => txn'[d] = txn[d]
        /\ pair' = pair /\ slot' = slot /\ dslot' = dslot
        /\ word' = word /\ dword' = dword
    BY <1>0, <1>2, Zenon DEF FenceHead, Running, NoTxn
  <2>2. /\ \A d \in Cpu : d # c => dpair'[d] = dpair[d]
        /\ \A w \in Word : goal'[w] = IF w \in Words(c) THEN txn[c].id ELSE goal[w]
    BY <1>0, <1>2, Zenon DEF FenceHead
  <2>3. \A w \in Words(c) : word[w] = txn[c].id /\ dword[w] = txn[c].id
    BY <1>0, <2>1, Zenon DEF ValuesByPhase, WordsByPhase
  <2>4. \A w \in Words(c) : Settled(w)'
    BY <1>0, <2>1, <2>2, <2>3, Zenon DEF Settled
  <2>5. EntriesByPhase(c)' /\ ValuesByPhase(c)'
    BY <2>1, Zenon DEF EntriesByPhase, ValuesByPhase, Pending
  <2> QED BY <2>1, <2>2, <2>4, <2>5, ImageOfOne, Zenon
<1> QED BY <1>1, <1>2, Zenon

\* A migration copies to a page that no journal has entries on.
LEMMA ImageMigration ==
    ASSUME TypeOK, WordsByPhase, Shape, PagesApart, status = "mounted", MountedImage,
           NEW c \in Cpu,
           \/ SkipMigration(c) \/ MigrateHead(c) \/ MigrateTail(c) \/ MigrateFree(c)
           \/ \E q \in Page : MigrateCopy(c, q)
    PROVE  MountedImage'
<1>0. /\ txn \in [Cpu -> Txn] /\ txn[c] \in Txn /\ pair \in [Cpu -> Pair]
      /\ slot \in [Page -> [0 .. Slots - 1 -> Entry]]
  BY Zenon DEF TypeOK
<1>1. /\ txn[c].pc \in Migrating \cup {"committed"}
      /\ word' = word /\ dword' = dword /\ goal' = goal
      /\ dpair' = dpair /\ dslot' = dslot
      /\ \A d \in Cpu : d # c => txn'[d] = txn[d] /\ pair'[d] = pair[d]
  BY <1>0, Zenon DEF SkipMigration, MigrateHead, MigrateTail, MigrateFree, MigrateCopy,
              Running, Migrating, nvmVars
<1>2. txn'[c].pc \in Migrating \cup {"idle"}
  <2>1. CASE SkipMigration(c) \/ MigrateFree(c)
    BY <1>0, <2>1, NoWords, Zenon DEF SkipMigration, MigrateFree
  <2>2. CASE MigrateHead(c)
    BY <1>0, <2>2, Zenon DEF MigrateHead, Txn, Migrating
  <2>3. CASE MigrateTail(c)
    <3>1. txn'[c].pc = "release"
      BY <2>3, PhaseOnly, Zenon DEF MigrateTail
    <3> QED BY <3>1, Zenon DEF Migrating
  <2>4. ASSUME NEW q \in Page, MigrateCopy(c, q)
        PROVE  txn'[c].pc \in Migrating \cup {"idle"}
    <3>1. txn'[c] = [txn[c] EXCEPT !.pc = "copied", !.page = q]
      BY <1>0, <2>4, Zenon DEF MigrateCopy
    <3>2. txn'[c].pc = "copied"
      BY <1>0, <3>1, Zenon DEF Txn
    <3> QED BY <3>2, Zenon DEF Migrating
  <2> QED BY <2>1, <2>2, <2>3, <2>4, Zenon
<1>3. EntriesByPhase(c)' /\ ValuesByPhase(c)'
  BY <1>2, Zenon DEF EntriesByPhase, ValuesByPhase, Pending, Migrating
<1>4. Words(c) = {}
  BY <1>1, Zenon DEF WordsByPhase, Active, Migrating
<1>5. \A d \in Cpu : slot'[pair[d].head.page] = slot[pair[d].head.page]
  <2>1. CASE slot' = slot
    BY <2>1, Zenon
  <2>2. ASSUME NEW q \in Page, MigrateCopy(c, q)
        PROVE  \A d \in Cpu : slot'[pair[d].head.page] = slot[pair[d].head.page]
    <3>1. \A d \in Cpu : pair[d].head.page \in Page /\ pair[d].head.page \in Pages(d)
      BY Zenon DEF TypeOK, Pair, Addr, Pages
    <3>2. \A d \in Cpu : pair[d].head.page # q
      BY <2>2, <3>1 DEF PagesApart, MigrateCopy
    <3> QED BY <1>0, <2>2, <3>1, <3>2, Zenon DEF MigrateCopy
  <2> QED BY <2>1, <2>2, Zenon DEF SkipMigration, MigrateHead, MigrateTail, MigrateFree,
                            nvmVars
<1> QED BY <1>1, <1>3, <1>4, <1>5, ImageOfOne, Zenon

\* A line that reaches the NVM early holds what the next fence would force out.
LEMMA ImageWriteBack ==
    ASSUME TypeOK, WordsByPhase, Shape, status = "mounted", MountedImage,
           \/ \E c \in Cpu : WriteBackPair(c)
           \/ \E w \in Word : WriteBackWord(w)
           \/ \E p \in Page, i \in 0 .. Slots - 1 : WriteBackSlot(p, i)
    PROVE  MountedImage'
<1>0. \A c \in Cpu : EntriesByPhase(c) /\ ValuesByPhase(c)
  BY Zenon DEF MountedImage
<1>1. ASSUME NEW c \in Cpu, WriteBackPair(c) PROVE MountedImage'
  <2>1. /\ dpair'[c] = pair[c] /\ \A d \in Cpu : d # c => dpair'[d] = dpair[d]
        /\ pair' = pair /\ txn' = txn /\ slot' = slot /\ dslot' = dslot
        /\ word' = word /\ dword' = dword /\ goal' = goal
    BY <1>1, Zenon DEF WriteBackPair, TypeOK
  <2>2. Words(c)' = Words(c) /\ ValuesByPhase(c)'
    BY <1>0, <2>1, Zenon DEF ValuesByPhase, Words
  <2>3. EntriesByPhase(c)'
    <3>1. CASE txn[c].pc = "head"
      BY <2>1, <3>1, Zenon DEF EntriesByPhase, Pending
    <3>2. CASE txn[c].pc # "head"
      BY <1>0, <2>1, <3>2, ZenonT(40) DEF EntriesByPhase, Pending, LogAt, Logged, Saves
    <3> QED BY <3>1, <3>2, Zenon
  <2> QED BY <2>1, <2>2, <2>3, ImageOfOne, Zenon
<1>2. ASSUME NEW w \in Word, WriteBackWord(w) PROVE MountedImage'
  <2>1. /\ dword'[w] = word[w] /\ \A v \in Word : v # w => dword'[v] = dword[v]
        /\ pair' = pair /\ dpair' = dpair /\ txn' = txn /\ slot' = slot
        /\ dslot' = dslot /\ word' = word /\ goal' = goal
    BY <1>2, Zenon DEF WriteBackWord, TypeOK
  <2>2. ASSUME NEW c \in Cpu PROVE EntriesByPhase(c)'
    <3>1. Pending(c)' = Pending(c) /\ LogAt(c)' = LogAt(c)
      BY <2>1, Zenon DEF Pending, LogAt
    <3>2. /\ Logged(c, slot, LogAt(c))' = Logged(c, slot, LogAt(c))
          /\ Logged(c, dslot, LogAt(c))' = Logged(c, dslot, LogAt(c))
      BY <2>1, <3>1, ZenonT(40) DEF Logged, Saves
    <3> QED BY <1>0, <2>1, <3>1, <3>2, Zenon DEF EntriesByPhase
  <2>3. \A c \in Cpu : Words(c)' = Words(c) /\ Words(c) \subseteq Word
    BY <2>1, Zenon DEF Words, TypeOK, Txn
  <2>4. \A c \in Cpu : ValuesByPhase(c)'
    BY <1>0, <2>1, <2>3 DEF ValuesByPhase, WordsByPhase
  <2>5. \A v \in Word : (\A c \in Cpu : v \notin Words(c)) => Settled(v)'
    BY <2>1, Zenon DEF MountedImage, Settled
  <2> QED BY <2>2, <2>3, <2>4, <2>5, Zenon DEF MountedImage
<1>3. ASSUME NEW p \in Page, NEW i \in 0 .. Slots - 1, WriteBackSlot(p, i)
      PROVE  MountedImage'
  <2>1. /\ pair' = pair /\ dpair' = dpair /\ txn' = txn /\ slot' = slot
        /\ word' = word /\ dword' = dword /\ goal' = goal
    BY <1>3, Zenon DEF WriteBackSlot
  <2>2. \A q \in Page, j \in 0 .. Slots - 1 :
            dslot'[q][j] = dslot[q][j] \/ dslot'[q][j] = slot[q][j]
    BY <1>3 DEF WriteBackSlot, TypeOK
  <2>3. ASSUME NEW c \in Cpu PROVE EntriesByPhase(c)'
    <3>1. Pending(c)' = Pending(c) /\ LogAt(c)' = LogAt(c)
      BY <2>1, Zenon DEF Pending, LogAt
    <3>2. ASSUME txn[c].pc \in {"entries", "tail"} \/ Pending(c)
          PROVE  Logged(c, slot, LogAt(c))'
      <4>1. Logged(c, slot, LogAt(c))
        BY <1>0, <3>2, Zenon DEF EntriesByPhase
      <4> QED BY <2>1, <3>1, <4>1, Zenon DEF Logged, Saves
    <3>3. ASSUME Pending(c) PROVE Logged(c, dslot, LogAt(c))'
      <4> DEFINE a == LogAt(c)
                 b == NextLiteJournal(a)
      <4>1. Logged(c, slot, a) /\ Logged(c, dslot, a)
        BY <1>0, <3>3, Zenon DEF EntriesByPhase
      <4>2. a.page \in Page /\ a.off \in 0 .. Slots - 1 /\ b.off \in 0 .. Slots - 1
        BY <3>3, LogPage, Zenon DEF Addr
      <4>3. Saves(dslot'[a.page][a.off], txn[c].one)
        BY <2>2, <4>1, <4>2, Zenon DEF Logged
      <4>4. txn[c].two # {} => Saves(dslot'[a.page][b.off], txn[c].two)
        BY <2>2, <4>1, <4>2, Zenon DEF Logged
      <4> HIDE DEF a
      <4>5. Saves(dslot[a.page][a.off], txn[c].one)' <=>
                Saves(dslot'[a.page][a.off], txn[c].one)
        BY <2>1, <3>1, Zenon DEF Saves, a
      <4>6. Saves(dslot[a.page][b.off], txn[c].two)' <=>
                Saves(dslot'[a.page][b.off], txn[c].two)
        BY <2>1, <3>1, Zenon DEF Saves, a
      <4> QED BY <2>1, <3>1, <4>3, <4>4, <4>5, <4>6, Zenon DEF Logged, a
    <3> QED BY <2>1, <3>1, <3>2, <3>3, Zenon DEF EntriesByPhase
  <2>4. \A c \in Cpu : ValuesByPhase(c)' /\ Words(c)' = Words(c)
    BY <1>0, <2>1, Zenon DEF ValuesByPhase, Words
  <2>5. \A v \in Word : Settled(v)' = Settled(v)
    BY <2>1, Zenon DEF Settled
  <2> QED BY <2>3, <2>4, <2>5, Zenon DEF MountedImage
<1> QED BY <1>1, <1>2, <1>3, Zenon

-----------------------------------------------------------------------------
(* The pages of the journals *)

\* A step that takes no new page keeps the pages apart.
LEMMA PagesShrink ==
    ASSUME PagesApart, free' \subseteq free, file' = file,
           \A c \in Cpu : Pages(c)' \subseteq Pages(c),
           \A c \in Cpu : txn'[c].pc \in Migrating =>
                              txn'[c] = txn[c] /\ pair'[c] = pair[c]
    PROVE  PagesApart'
<1>1. \A c, d \in Cpu : c # d => Pages(c)' \cap Pages(d)' = {}
  BY Zenon DEF PagesApart
<1>2. \A c \in Cpu : Pages(c)' \cap (free' \cup file') = {}
  BY Zenon DEF PagesApart
<1>3. free' \cap file' = {}
  BY Zenon DEF PagesApart
<1>4. \A c \in Cpu : txn'[c].pc \in Migrating => txn'[c].page # pair'[c].head.page
  BY Zenon DEF PagesApart
<1>5. \A c \in Cpu : txn'[c].pc = "moved" => txn'[c].page = pair'[c].tail.page
  BY Zenon DEF PagesApart, Migrating
<1> QED BY <1>1, <1>2, <1>3, <1>4, <1>5, Zenon DEF PagesApart

\* A transaction stays on its page.
LEMMA PagesTransaction ==
    ASSUME TypeOK, Shape, PagesApart, NEW c \in Cpu,
           \/ \E one, two \in SUBSET Word : Begin(c, one, two)
           \/ SetTail(c) \/ FenceTail(c) \/ Barrier(c) \/ SetHead(c) \/ FenceHead(c)
           \/ \E w \in Word : Store(c, w)
           \/ SkipMigration(c)
    PROVE  PagesApart'
<1>0. /\ txn \in [Cpu -> Txn] /\ pair \in [Cpu -> Pair]
      /\ pair[c] \in Pair /\ txn[c] \in Txn /\ pair[c].head \in Addr
  BY Zenon DEF TypeOK, Pair
<1>1. free' = free /\ file' = file /\ \A d \in Cpu : d # c => txn'[d] = txn[d]
  BY <1>0, Zenon DEF Begin, SetTail, FenceTail, Barrier, SetHead, FenceHead, Store,
              SkipMigration
<1>2. txn'[c].pc \notin Migrating
  <2>1. CASE \E one, two \in SUBSET Word : Begin(c, one, two)
    <3>1. PICK r : r.pc = "entries" /\ txn' = [txn EXCEPT ![c] = r]
      BY <2>1, Zenon DEF Begin
    <3>2. txn'[c] = r
      BY <1>0, <3>1, Zenon
    <3> QED BY <3>1, <3>2, Zenon DEF Migrating
  <2>2. CASE SetTail(c) \/ FenceTail(c) \/ Barrier(c) \/ SetHead(c)
    <3>1. PICK step \in {"tail", "store", "commit", "head"} :
                 txn' = [txn EXCEPT ![c].pc = step]
      BY <2>2, Zenon DEF SetTail, FenceTail, Barrier, SetHead
    <3>2. txn'[c].pc = step
      BY <3>1, PhaseOnly, Zenon
    <3> QED BY <3>2, Zenon DEF Migrating
  <2>3. CASE FenceHead(c) \/ SkipMigration(c)
    <3>1. txn'[c].pc \in {"committed", "idle"}
      BY <1>0, <2>3 DEF FenceHead, SkipMigration, NoTxn
    <3> QED BY <3>1, Zenon DEF Migrating
  <2>4. CASE \E w \in Word : Store(c, w)
    BY <1>0, <2>4 DEF Store, Running, Txn, Migrating
  <2> QED BY <2>1, <2>2, <2>3, <2>4, ZenonT(30)
<1>3. /\ {pair'[c].head.page, pair'[c].tail.page} \subseteq
             {pair[c].head.page, pair[c].tail.page}
      /\ \A d \in Cpu : d # c => pair'[d] = pair[d]
  <2>1. CASE SetTail(c)
    <3>1. /\ NextLiteJournal(EntryOne(c)).page = pair[c].head.page
          /\ NextLiteJournal(EntryTwo(c)).page = pair[c].head.page
      BY <1>0, NextSlot, Zenon DEF EntryOne, EntryTwo
    <3>2. /\ pair'[c].head = pair[c].head
          /\ pair'[c].tail.page = pair[c].head.page
          /\ \A d \in Cpu : d # c => pair'[d] = pair[d]
      BY <1>0, <2>1, <3>1, Zenon DEF SetTail, Pair
    <3> QED BY <3>2, Zenon
  <2>2. CASE SetHead(c)
    <3>1. /\ pair'[c].head = pair[c].tail /\ pair'[c].tail = pair[c].tail
          /\ \A d \in Cpu : d # c => pair'[d] = pair[d]
      BY <1>0, <2>2, Zenon DEF SetHead, Pair
    <3> QED BY <3>1, Zenon
  <2>3. CASE pair' = pair
    BY <2>3, Zenon
  <2> QED BY <2>1, <2>2, <2>3, Zenon DEF Begin, FenceTail, Barrier, FenceHead, Store,
                                  SkipMigration, nvmVars
<1>4. \A d \in Cpu : Pages(d)' \subseteq Pages(d)
  BY <1>1, <1>2, <1>3, Zenon DEF Pages
<1> QED BY <1>1, <1>2, <1>3, <1>4, PagesShrink, Zenon

\* A migration takes a free page and gives back the old one.
LEMMA PagesMigration ==
    ASSUME TypeOK, Shape, PagesApart, NEW c \in Cpu,
           \/ MigrateHead(c) \/ MigrateTail(c) \/ MigrateFree(c)
           \/ \E q \in Page : MigrateCopy(c, q)
    PROVE  PagesApart'
<1>0. /\ txn \in [Cpu -> Txn] /\ pair \in [Cpu -> Pair]
      /\ pair[c] \in Pair /\ txn[c] \in Txn /\ pair[c].head \in Addr
      /\ pair[c].tail \in Addr
  BY Zenon DEF TypeOK, Pair
<1>a. status = "mounted" => PairByPhase(c)
  BY Zenon DEF Shape
<1>1. ASSUME NEW q \in Page, MigrateCopy(c, q) PROVE PagesApart'
  <2>1. /\ txn'[c].pc = "copied" /\ txn'[c].page = q /\ pair' = pair
        /\ q \in free /\ free' = free \ {q} /\ file' = file
        /\ \A d \in Cpu : d # c => txn'[d] = txn[d]
    BY <1>0, <1>1, Zenon DEF MigrateCopy, Txn
  <2>2. Pages(c)' \subseteq Pages(c) \cup {q}
    BY <2>1, Zenon DEF Pages
  <2>3. \A d \in Cpu : d # c => Pages(d)' = Pages(d)
    BY <2>1, Zenon DEF Pages
  <2>4. pair[c].head.page # q
    BY <2>1, Zenon DEF PagesApart, Pages
  <2> QED BY <2>1, <2>2, <2>3, <2>4 DEF PagesApart
<1>2. CASE MigrateHead(c)
  <2>1. /\ txn'[c].pc = "moved" /\ txn'[c].page = pair[c].head.page
        /\ txn[c].pc = "copied" /\ status = "mounted"
        /\ free' = free /\ file' = file
        /\ \A d \in Cpu : d # c => txn'[d] = txn[d]
    BY <1>0, <1>2, Zenon DEF MigrateHead, Running, Txn
  <2>2. /\ pair'[c].head.page = txn[c].page /\ pair'[c].tail = pair[c].tail
        /\ \A d \in Cpu : d # c => pair'[d] = pair[d]
    BY <1>0, <1>2, Zenon DEF MigrateHead, Pair, Addr
  <2>3. pair[c].tail = pair[c].head
    BY <1>a, <2>1, Zenon DEF PairByPhase
  <2>4. \A d \in Cpu : Pages(d)' = Pages(d)
    BY <2>1, <2>2, <2>3 DEF Pages, Migrating
  <2>5. txn[c].page # pair[c].head.page
    BY <2>1, Zenon DEF PagesApart, Migrating
  <2> QED BY <2>1, <2>2, <2>3, <2>4, <2>5, ZenonT(40) DEF PagesApart
<1>3. CASE MigrateTail(c)
  <2>1. /\ txn'[c].pc = "release" /\ txn'[c].page = txn[c].page
        /\ txn[c].pc = "moved" /\ free' = free /\ file' = file
        /\ \A d \in Cpu : d # c => txn'[d] = txn[d]
    BY <1>3, PhaseOnly, Zenon DEF MigrateTail, Running
  <2>2. /\ pair'[c].head = pair[c].head /\ pair'[c].tail.page = pair[c].head.page
        /\ \A d \in Cpu : d # c => pair'[d] = pair[d]
    BY <1>0, <1>3, Zenon DEF MigrateTail, Pair, Addr
  <2>3. \A d \in Cpu : Pages(d)' \subseteq Pages(d)
    BY <2>1, <2>2, Zenon DEF Pages, Migrating
  <2>4. txn[c].page # pair[c].head.page
    BY <2>1, Zenon DEF PagesApart, Migrating
  <2> QED BY <2>1, <2>2, <2>3, <2>4, ZenonT(40) DEF PagesApart
<1>4. CASE MigrateFree(c)
  <2>1. /\ txn'[c].pc = "idle" /\ txn[c].pc = "release" /\ status = "mounted"
        /\ pair' = pair /\ free' = free \cup {txn[c].page} /\ file' = file
        /\ \A d \in Cpu : d # c => txn'[d] = txn[d]
    BY <1>0, <1>4, NoWords, Zenon DEF MigrateFree, Running, nvmVars
  <2>2. txn[c].page \in Pages(c) /\ txn[c].page # pair[c].head.page
        /\ pair[c].tail = pair[c].head
    BY <1>a, <2>1, Zenon DEF PagesApart, Pages, Migrating, PairByPhase
  <2>3. \A d \in Cpu : Pages(d)' \subseteq Pages(d)
    BY <2>1, Zenon DEF Pages, Migrating
  <2>4. txn[c].page \notin Pages(c)'
    BY <2>1, <2>2, Zenon DEF Pages, Migrating
  <2> QED BY <2>1, <2>2, <2>3, <2>4 DEF PagesApart, Migrating
<1> QED BY <1>1, <1>2, <1>3, <1>4, Zenon

\* A crash that undoes no migration, and a recovery, leave the journals where
\* they are; nova_failure_recovery then frees only what no journal uses.
LEMMA PagesRecovery ==
    ASSUME TypeOK, Shape, PagesApart, ~stale',
           \/ Crash \/ MountDone \/ UNCHANGED vars
           \/ \E c \in Cpu : \/ RecoverClean(c) \/ RecoverEntries(c)
                             \/ RecoverFails(c) \/ WriteBackPair(c)
           \/ \E p \in Page : FileTakes(p)
           \/ \E w \in Word : WriteBackWord(w)
           \/ \E p \in Page, i \in 0 .. Slots - 1 : WriteBackSlot(p, i)
    PROVE  PagesApart'
<1>1. CASE Crash
  <2>1. /\ pair' = dpair /\ free' = {} /\ file' = file
        /\ \A c \in Cpu : txn'[c] = NoTxn
        /\ \A c \in Cpu : SamePages(dpair[c], pair[c])
    BY <1>1, Zenon DEF Crash
  <2>2. NoTxn.pc \notin Migrating
    BY NoWords, Zenon DEF Migrating
  <2>3. \A c \in Cpu : Pages(c)' \subseteq Pages(c)
    BY <2>1, <2>2, Zenon DEF Pages, SamePages
  <2> QED BY <2>1, <2>2, <2>3, PagesShrink, Zenon
<1>2. CASE MountDone
  <2>1. /\ status = "down" /\ next_cpu = CPUS /\ pair' = pair /\ txn' = txn
        /\ file' = file
        /\ free' = Page \ (file \cup {pair[c].head.page : c \in Cpu})
    BY <1>2, Zenon DEF MountDone, nvmVars
  <2>2. \A c \in Cpu : c < CPUS
    BY JournalAssumption DEF Cpu
  <2>3. \A c \in Cpu : txn[c].pc \notin Migrating /\ pair[c].tail = pair[c].head
    BY <2>1, <2>2, NoWords, Zenon DEF Shape, DownShape, Migrating
  <2>4. \A c \in Cpu : Pages(c)' = {pair[c].head.page} /\ Pages(c) = {pair[c].head.page}
    BY <2>1, <2>3, Zenon DEF Pages
  <2>5. \A c \in Cpu : pair[c].head.page \notin free' \cup file'
    BY <2>1, <2>4, Zenon DEF PagesApart
  <2>6. \A c \in Cpu : txn'[c].pc # "moved"
    BY <2>1, <2>3, Zenon DEF Migrating
  <2> QED BY <2>1, <2>3, <2>4, <2>5, <2>6, ZenonT(40) DEF PagesApart
<1>3. ASSUME NEW c \in Cpu, RecoverEntries(c) PROVE PagesApart'
  <2>1. /\ pair \in [Cpu -> Pair] /\ pair[c] \in Pair /\ txn' = txn /\ free' = free
        /\ file' = file /\ status = "down"
    BY <1>3, Zenon DEF RecoverEntries, Recovering, TypeOK
  <2>2. /\ {pair'[c].head.page, pair'[c].tail.page} \subseteq
               {pair[c].head.page, pair[c].tail.page}
        /\ \A d \in Cpu : d # c => pair'[d] = pair[d]
    <3>1. CASE pair' = pair
      BY <3>1, Zenon
    <3>2. CASE pair' = [pair EXCEPT ![c].tail = pair[c].head]
      BY <2>1, <3>2, Zenon DEF Pair
    <3> QED BY <1>3, <3>1, <3>2, Zenon DEF RecoverEntries, nvmVars
  <2>3. \A d \in Cpu : Pages(d)' \subseteq Pages(d)
    BY <2>1, <2>2, Zenon DEF Pages
  <2>4. \A d \in Cpu : txn'[d].pc \notin Migrating
    BY <2>1, NoWords, Zenon DEF Shape, DownShape, Migrating
  <2> QED BY <2>1, <2>3, <2>4, PagesShrink, Zenon
<1>4. ASSUME NEW p \in Page, FileTakes(p) PROVE PagesApart'
  <2>1. /\ pair' = pair /\ txn' = txn /\ p \in free
        /\ free' = free \ {p} /\ file' = file \cup {p}
    BY <1>4, Zenon DEF FileTakes, nvmVars
  <2>2. \A c \in Cpu : Pages(c)' = Pages(c)
    BY <2>1, Zenon DEF Pages
  <2>3. free' \cup file' = free \cup file
    BY <2>1, Zenon
  <2>4. free' \cap file' = {}
    BY <2>1, Zenon DEF PagesApart
  <2> QED BY <2>1, <2>2, <2>3, <2>4, Zenon DEF PagesApart
<1>5. CASE pair' = pair /\ txn' = txn /\ free' = free /\ file' = file
  BY <1>5, ZenonT(40) DEF PagesApart, Pages
<1> QED BY <1>1, <1>2, <1>3, <1>4, <1>5, Zenon DEF RecoverClean, RecoverFails,
           WriteBackPair, WriteBackWord, WriteBackSlot, nvmVars, vars

\* Every step keeps the pages apart, unless it is a crash that undoes a
\* migration.
LEMMA PagesStep ==
    ASSUME TypeOK, Shape, ~stale => PagesApart, [Next]_vars, ~stale'
    PROVE  PagesApart'
<1>1. ~stale
  <2>1. CASE Crash
    BY <2>1, Zenon DEF Crash
  <2>2. CASE ~Crash
    <3>1. stale' = stale
      BY <2>2, ZenonT(40) DEF Next, Begin, SetTail, FenceTail, Store, Barrier, SetHead,
         FenceHead, SkipMigration, MigrateCopy, MigrateHead, MigrateTail,
         MigrateFree, FileTakes, WriteBackWord, WriteBackSlot, WriteBackPair,
         RecoverClean, RecoverEntries, RecoverFails, MountDone, vars
    <3> QED BY <3>1, Zenon
  <2> QED BY <2>1, <2>2, Zenon
<1>2. PagesApart
  BY <1>1, Zenon
<1> QED BY <1>2, PagesTransaction, PagesMigration, PagesRecovery, Zenon DEF Next

-----------------------------------------------------------------------------
(* Crash, recovery and mount *)

\* The invariant gives the image that UndoableOnceFenced promises.
LEMMA InvUndoable == IInv => UndoableOnceFenced
<1> SUFFICES ASSUME IInv, ~torn, ~stale, \A c \in Cpu : txn[c].pc # "tail"
             PROVE  UndoableImage
  BY Zenon DEF UndoableOnceFenced
<1>1. CASE status = "mounted"
  BY <1>1, CrashIsAtomic, Zenon DEF IInv, Image, UndoableImage
<1>2. CASE status # "mounted"
  <2>1. \A c \in Cpu : Words(c) = {}
    BY <1>2, NoWords, Zenon DEF IInv, Shape, DownShape, Words
  <2>2. \A w \in Word : Surviving(w) = {goal[w]}
    BY <1>2, Zenon DEF IInv, Image, DownImage
  <2> QED BY <2>1, <2>2, Zenon DEF UndoableImage, AllOld
<1> QED BY <1>1, <1>2, Zenon

\* A power failure outside the window of a create leaves an image that the
\* undo restores; the transactions whose head is durable have taken effect.
LEMMA ImageCrash ==
    ASSUME TypeOK, WordsByPhase, Shape, Image, Crash, ~torn', ~stale'
    PROVE  DownImage'
<1>1. /\ ~torn /\ ~stale /\ \A c \in Cpu : txn[c].pc # "tail"
      /\ slot' = dslot /\ pair' = dpair
      /\ dword' = dword /\ dslot' = dslot /\ dpair' = dpair
  BY Zenon DEF Crash
<1>2. \A w \in Word : Surviving(w)' = Surviving(w)
  BY <1>1 DEF Surviving
<1>3. \A w \in Word : goal'[w] =
          IF \E c \in Cpu : w \in Words(c) /\ TookEffect(c)
          THEN txn[CHOOSE c \in Cpu : w \in Words(c)].id ELSE goal[w]
  BY Zenon DEF Crash
<1>4. CASE status = "mounted"
  <2>0. MountedImage
    BY <1>1, <1>4, Zenon DEF Image
  <2>1. ASSUME NEW w \in Word, NEW c \in Cpu, w \in Words(c), TookEffect(c)
        PROVE  Surviving(w) = {goal'[w]}
    <3>1. (CHOOSE d \in Cpu : w \in Words(d)) = c
      BY <2>1, Zenon DEF WordsByPhase
    <3>2. goal'[w] = txn[c].id
      BY <1>3, <2>1, <3>1, Zenon
    <3>3. AllNew(c)
      BY <1>1, <1>4, <2>0, <2>1, CrashIsAtomic, Zenon
    <3> QED BY <2>1, <3>2, <3>3, Zenon DEF AllNew
  <2>2. ASSUME NEW w \in Word, ~ \E c \in Cpu : w \in Words(c) /\ TookEffect(c)
        PROVE  Surviving(w) = {goal'[w]}
    <3>1. goal'[w] = goal[w]
      BY <1>3, <2>2, Zenon
    <3>2. \A c \in Cpu : w \in Words(c) => AllOld(c)
      BY <1>1, <1>4, <2>0, <2>2, CrashIsAtomic, Zenon
    <3>3. (\A c \in Cpu : w \notin Words(c)) => Surviving(w) = {goal[w]}
      BY <1>1, <1>4, <2>0, CrashIsAtomic, Zenon
    <3> QED BY <3>1, <3>2, <3>3, Zenon DEF AllOld
  <2>3. \A c \in Cpu : \A a \in Uncommitted(dpair[c]) : DOMAIN dslot[a.page][a.off] # {}
    BY <1>1, <1>4, <2>0, PendingEntries, ZenonT(40) DEF Saves
  <2> QED BY <1>1, <1>2, <2>1, <2>2, <2>3, Zenon DEF DownImage
<1>5. CASE status # "mounted"
  <2>1. DownImage /\ pair = dpair /\ slot = dslot
    BY <1>1, <1>5, Zenon DEF Image, Shape, DownShape
  <2>2. \A c \in Cpu : Words(c) = {}
    BY <1>5, NoWords, Zenon DEF Shape, DownShape, Words
  <2>3. \A w \in Word : goal'[w] = goal[w]
    BY <1>3, <2>2, Zenon
  <2> QED BY <1>1, <1>2, <2>1, <2>3, Zenon DEF DownImage
<1> QED BY <1>4, <1>5, Zenon

\* Recovery gives up on the first entry it has to undo, so a mount completes
\* only on an image that needed no undo.
LEMMA ImageRecovery ==
    ASSUME TypeOK, Shape, status # "mounted", DownImage,
           \E c \in Cpu : RecoverClean(c) \/ RecoverEntries(c) \/ RecoverFails(c)
    PROVE  DownImage' /\ status' # "mounted"
<1>1. ASSUME NEW c \in Cpu, RecoverEntries(c)
      PROVE  status' = "oops" /\ UNCHANGED nvmVars /\ goal' = goal
  <2>1. pair[c] \in Pair /\ pair[c].head # pair[c].tail /\ WellFormed(pair[c])
    BY <1>1, Zenon DEF RecoverEntries, TypeOK
  <2>2. Uncommitted(pair[c]) # {}
    BY <2>1, EntriesCovered, Zenon DEF WellFormed
  <2>3. PICK a \in Uncommitted(pair[c]) : DOMAIN slot[a.page][a.off] # {}
    BY <2>2, Zenon DEF DownImage
  <2>4. slot[a.page][a.off] \in Entries(c)
    BY <2>3, Zenon DEF Entries
  <2>5. UndoFaults(slot[a.page][a.off])
    BY <2>3 DEF UndoFaults, TypeByte, InsideDevice
  <2> QED BY <1>1, <2>4, <2>5, Zenon DEF RecoverEntries
<1>2. UNCHANGED nvmVars /\ goal' = goal /\ status' # "mounted"
  BY <1>1, Zenon DEF RecoverClean, RecoverFails, Recovering
<1>3. \A w \in Word : Surviving(w)' = Surviving(w)
  BY <1>2 DEF Surviving, nvmVars
<1> QED BY <1>2, <1>3, Zenon DEF DownImage, nvmVars

\* Mounting with every journal recovered starts from the values of the last
\* transactions, with no transaction open.
LEMMA ImageMount ==
    ASSUME TypeOK, Shape, DownImage, MountDone
    PROVE  MountedImage'
<1>1. /\ status = "down" /\ next_cpu = CPUS /\ UNCHANGED <<nvmVars, txn, goal>>
  BY Zenon DEF MountDone
<1>2. \A c \in Cpu : c < CPUS
  BY JournalAssumption DEF Cpu
<1>3. /\ word = dword /\ \A c \in Cpu : txn[c].pc = "idle"
      /\ \A c \in Cpu : NoEntries(dpair[c]) /\ dpair[c] \in Pair
  BY <1>1, <1>2, NoWords, ZenonT(40) DEF Shape, DownShape, NoEntries, TypeOK
<1>4. \A c \in Cpu : Uncommitted(dpair[c]) = {}
  BY <1>3, NoEntriesNothing, Zenon
<1>5. UNION {Uncommitted(dpair[c]) : c \in Cpu} = {}
  BY <1>4, Zenon
<1>6. ASSUME NEW w \in Word PROVE dword[w] = goal[w]
  <2>1. Surviving(w) = {dword[w]}
    BY <1>5, Zenon DEF Surviving
  <2> QED BY <2>1, Zenon DEF DownImage
<1>7. \A c \in Cpu : EntriesByPhase(c)' /\ ValuesByPhase(c)'
  BY <1>1, <1>3, Zenon DEF EntriesByPhase, ValuesByPhase, Pending
<1> QED BY <1>1, <1>3, <1>6, <1>7, Zenon DEF MountedImage, Settled, nvmVars

-----------------------------------------------------------------------------
(* The invariant and its theorems *)

\* Every step keeps what the invariant says of the entries and the words.
LEMMA ImageStep ==
    ASSUME IInv, [Next]_vars
    PROVE  Image'
<1> SUFFICES ASSUME ~torn', ~stale'
             PROVE  IF status' = "mounted" THEN MountedImage' ELSE DownImage'
  BY Zenon DEF Image
<1> USE DEF IInv
<1>1. CASE Crash
  BY <1>1, ImageCrash, Zenon DEF Crash
<1>2. CASE ~Crash
  <2>1. torn' = torn /\ stale' = stale
    BY <1>2, ZenonT(40) DEF Next, Begin, SetTail, FenceTail, Store, Barrier, SetHead,
       FenceHead, SkipMigration, MigrateCopy, MigrateHead, MigrateTail,
       MigrateFree, FileTakes, WriteBackWord, WriteBackSlot, WriteBackPair,
       RecoverClean, RecoverEntries, RecoverFails, MountDone, vars
  <2>2. PagesApart /\ (IF status = "mounted" THEN MountedImage ELSE DownImage)
    BY <2>1, Zenon DEF Image
  <2>3. ASSUME NEW c \in Cpu,
               \/ \E one, two \in SUBSET Word : Begin(c, one, two)
               \/ SetTail(c) \/ FenceTail(c) \/ Barrier(c) \/ SetHead(c)
               \/ FenceHead(c) \/ (\E w \in Word : Store(c, w))
               \/ SkipMigration(c) \/ MigrateHead(c) \/ MigrateTail(c)
               \/ MigrateFree(c) \/ (\E q \in Page : MigrateCopy(c, q))
        PROVE  MountedImage' /\ status' = "mounted"
    <3>1. status = "mounted" /\ status' = "mounted"
      BY <2>3, Zenon DEF Running, Begin, SetTail, FenceTail, Store, Barrier, SetHead,
         FenceHead, SkipMigration, MigrateCopy, MigrateHead, MigrateTail, MigrateFree
    <3> QED BY <2>2, <2>3, <3>1, ImageBegin, ImageTail, ImageStores, ImageCommit,
               ImageMigration, Zenon
  <2>4. ASSUME \/ \E c \in Cpu : WriteBackPair(c)
               \/ \E w \in Word : WriteBackWord(w)
               \/ \E p \in Page, i \in 0 .. Slots - 1 : WriteBackSlot(p, i)
        PROVE  MountedImage' /\ status' = "mounted"
    <3>1. status = "mounted" /\ status' = "mounted"
      BY <2>4, Zenon DEF WriteBackPair, WriteBackWord, WriteBackSlot, Shape, DownShape
    <3> QED BY <2>2, <2>4, <3>1, ImageWriteBack, Zenon
  <2>5. ASSUME \E c \in Cpu : RecoverClean(c) \/ RecoverEntries(c) \/ RecoverFails(c)
        PROVE  DownImage' /\ status' # "mounted"
    <3>1. status # "mounted"
      BY <2>5, Zenon DEF RecoverClean, RecoverEntries, RecoverFails, Recovering
    <3> QED BY <2>2, <2>5, <3>1, ImageRecovery, Zenon
  <2>6. CASE MountDone
    BY <2>2, <2>6, ImageMount, Zenon DEF MountDone
  <2>7. CASE (\E p \in Page : FileTakes(p)) \/ UNCHANGED vars
    <3>1. UNCHANGED <<nvmVars, txn, goal, status>>
      BY <2>7, ZenonT(40) DEF FileTakes, vars
    <3>2. MountedImage' = MountedImage
      <4>1. /\ pair' = pair /\ slot' = slot /\ word' = word /\ dpair' = dpair
            /\ dslot' = dslot /\ dword' = dword /\ txn' = txn /\ goal' = goal
        BY <3>1, ZenonT(40) DEF nvmVars
      <4>2. \A c : Pending(c)' = Pending(c) /\ LogAt(c)' = LogAt(c) /\ Words(c)' = Words(c)
        BY <4>1, ZenonT(40) DEF Pending, LogAt, Words
      <4>3. \A e, W : Saves(e, W)' = Saves(e, W)
        BY <4>1, ZenonT(40) DEF Saves
      <4>4. \A c : EntriesByPhase(c)' = EntriesByPhase(c)
        BY <4>1, <4>2, <4>3, ZenonT(40) DEF EntriesByPhase, Logged, Saves
      <4>5. \A c : ValuesByPhase(c)' = ValuesByPhase(c)
        BY <4>1, <4>2, ZenonT(40) DEF ValuesByPhase
      <4>6. \A w : Settled(w)' = Settled(w)
        BY <4>1, ZenonT(40) DEF Settled
      <4> QED BY <4>2, <4>4, <4>5, <4>6, ZenonT(40) DEF MountedImage
    <3>3. DownImage' = DownImage
      BY <3>1 DEF DownImage, Surviving, nvmVars
    <3> QED BY <2>2, <3>1, <3>2, <3>3, Zenon
  <2> QED BY <1>2, <2>3, <2>4, <2>5, <2>6, <2>7, ZenonT(40) DEF Next
<1> QED BY <1>1, <1>2, Zenon

\* nova_lite_journal_hard_init establishes the invariant.
LEMMA InvInit == Init => IInv
<1> SUFFICES ASSUME Init PROVE IInv
  BY Zenon
<1>1. TypeOK
  BY TypeInit, Zenon
<1>2. PICK page \in [Cpu -> Page] :
          /\ \A c, d \in Cpu : c # d => page[c] # page[d]
          /\ pair = [c \in Cpu |-> [head |-> [page |-> page[c], off |-> 0],
                                    tail |-> [page |-> page[c], off |-> 0]]]
          /\ free = Page \ {page[c] : c \in Cpu}
  BY Zenon DEF Init
<1>3. \A c \in Cpu : /\ pair[c].head = pair[c].tail /\ dpair[c] = pair[c]
                     /\ pair[c].head.page = page[c] /\ pair[c].tail.page = page[c]
  BY <1>2, Zenon DEF Init
<1>4. /\ status = "mounted" /\ file = {} /\ word = goal /\ dword = goal
      /\ \A c \in Cpu : txn[c] = NoTxn
  BY Zenon DEF Init
<1>5. \A c \in Cpu : txn[c].pc = "idle" /\ Words(c) = {} /\ txn[c].left = {}
  BY <1>4, NoWords, Zenon DEF Words
<1>6. WordsByPhase
  BY <1>5, Zenon DEF WordsByPhase, Active
<1>7. Shape
  BY <1>3, <1>4, <1>5, Zenon DEF Shape, PairByPhase, DurableByPhase, NoEntries
<1>8. PagesApart
  <2>1. \A c \in Cpu : Pages(c) = {page[c]} /\ txn[c].pc \notin Migrating
    BY <1>3, <1>5, Zenon DEF Pages, Migrating
  <2> QED BY <1>2, <1>4, <1>5, <2>1 DEF PagesApart
<1>9. MountedImage
  BY <1>4, <1>5, Zenon DEF MountedImage, EntriesByPhase, ValuesByPhase, Settled, Pending
<1> QED BY <1>1, <1>4, <1>6, <1>7, <1>8, <1>9, Zenon DEF IInv, Image

\* The invariant is inductive.
LEMMA InvStep == IInv /\ [Next]_vars => IInv'
<1> SUFFICES ASSUME IInv, [Next]_vars PROVE IInv'
  BY Zenon
<1>1. TypeOK /\ WordsByPhase /\ Shape /\ (~stale => PagesApart)
  BY Zenon DEF IInv
<1>2. TypeOK' /\ WordsByPhase' /\ Shape'
  BY <1>1, TypeStep, WordsStep, ShapeStep, Zenon
<1>3. ~stale' => PagesApart'
  BY <1>1, PagesStep, Zenon
<1>4. Image'
  BY ImageStep, Zenon
<1> QED BY <1>2, <1>3, <1>4, Zenon DEF IInv

\* The lite journal, its migrations, every crash and every recovery keep the
\* invariant.
THEOREM JournalInvariance == Spec => []IInv
<1>1. Init => IInv
  BY InvInit, Zenon
<1>2. IInv /\ [Next]_vars => IInv'
  BY InvStep, Zenon
<1> QED BY <1>1, <1>2, PTL DEF Spec

\* Crash atomicity of the transactions of namei.c: undoing the durable journal
\* leaves every transaction all old or all new, for any number of CPUs, words,
\* pages, crashes and migrations.
THEOREM TransactionsAreAtomic == Spec => []UndoableOnceFenced
BY JournalInvariance, InvUndoable, PTL

\* nova_lite_journal_soft_init never meets a pair of more than two entries,
\* other than one that a migration has split over two pages.
THEOREM PairsStayWellFormed == Spec => []PairWellFormed
<1>1. IInv => PairWellFormed
  <2> SUFFICES ASSUME IInv, NEW c \in Cpu,
                      dpair[c].head.page = dpair[c].tail.page
               PROVE  WellFormed(dpair[c])
    BY Zenon DEF PairWellFormed
  <2>1. NoEntries(dpair[c]) \/ WellFormed(dpair[c])
    BY DurablePairs, Zenon DEF IInv
  <2>2. dpair[c].head \in Addr /\ dpair[c].tail \in Addr
    BY Zenon DEF IInv, TypeOK, Pair
  <2>3. NoEntries(dpair[c]) => dpair[c].tail = dpair[c].head
    BY <2>2 DEF NoEntries, Addr
  <2> QED BY <2>1, <2>3, Zenon DEF WellFormed
<1> QED BY <1>1, JournalInvariance, PTL

\* nova_create_lite_transaction always finds its journal empty.
THEOREM IdleJournalsAreEmpty == Spec => []QuietJournalEmpty
<1>1. IInv => QuietJournalEmpty
  BY Zenon DEF IInv, Shape, PairByPhase, QuietJournalEmpty, Running
<1> QED BY <1>1, JournalInvariance, PTL

\* The page of an idle journal belongs to no other journal, to no file and to
\* no free list, unless a crash has undone a migration.
THEOREM JournalsOwnTheirPages == Spec => []OwnsPageUnlessStale
<1>1. IInv => OwnsPageUnlessStale
  <2>1. \A c \in Cpu : pair[c].head.page \in Pages(c)
    BY Zenon DEF Pages
  <2> QED BY <2>1 DEF IInv, PagesApart, OwnsPageUnlessStale, JournalOwnsPage
<1> QED BY <1>1, JournalInvariance, PTL
=============================================================================

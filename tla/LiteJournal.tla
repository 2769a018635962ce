---------------------------- MODULE LiteJournal ----------------------------
(***************************************************************************)
(* The lite undo journal of journal.c, the transactions namei.c runs on it,*)
(* the migration of a worn journal page (wearleveling.c), a crash at any   *)
(* moment and the recovery of the journal at mount.                        *)
(*                                                                         *)
(* Each piece of NVM state exists twice: as the CPUs see it (word, slot,   *)
(* pair) and as it would survive a crash (dword, dslot, dpair).  A store   *)
(* changes only the first.  A cache line may be written back at any time   *)
(* (the WriteBack actions), and a flush followed by a fence forces it.     *)
(* Between two fences the order in which lines become durable is free:     *)
(* clwb and the non-temporal stores of memcpy_to_pmem_nocache are weakly   *)
(* ordered.  journal_head and journal_tail of a CPU share one line.        *)
(*                                                                         *)
(* A word is a metadata field a transaction updates in place: a log_tail,  *)
(* a valid byte or the ino of a ".." entry.  Its value is the number of    *)
(* the transaction that last wrote it.  The inode locks of the VFS keep    *)
(* the words of concurrent transactions disjoint.                          *)
(***************************************************************************)
EXTENDS Integers, FiniteSets

CONSTANTS
    CPUS,           \* sbi->cpus
    Word,           \* the metadata words
    Page,           \* the NVM pages that journals and files draw from
    Slots,          \* entries in a journal page (64 in the code)
    MaxTxn,         \* bound on the transactions begun
    MaxMigrations,  \* bound on the journal page migrations
    MaxCrashes      \* bound on the crashes

ASSUME JournalAssumption ==
    /\ CPUS \in Nat \ {0} /\ Slots \in Nat /\ Slots >= 3
    /\ MaxTxn \in Nat /\ MaxMigrations \in Nat /\ MaxCrashes \in Nat
    /\ IsFiniteSet(Page) /\ Cardinality(Page) >= CPUS

Cpu == 0 .. CPUS - 1
Addr == [page : Page, off : 0 .. Slots - 1]
Value == 0 .. MaxTxn

VARIABLES
    word, dword,  \* the metadata words
    slot, dslot,  \* page -> offset -> journal entry (word -> old value)
    pair, dpair,  \* cpu -> journal_head and journal_tail
    txn,          \* cpu -> the transaction holding journal_locks[cpu]
    free, file,   \* pages in the free lists, pages used by files
    status,       \* "mounted", "down", "failed" (-EINVAL) or "oops"
    next_cpu,     \* loop variable of nova_lite_journal_soft_init
    goal,         \* the words as of the transactions that took effect
    torn,         \* a crash hit between the stores and the fence of a create
    stale,        \* a crash hit before a migrated pair was durable
    txns, migrations, crashes

nvmVars == <<word, dword, slot, dslot, pair, dpair>>
vars == <<nvmVars, txn, free, file, status, next_cpu, goal, torn, stale,
          txns, migrations, crashes>>

NoEntry == [w \in {} |-> 0]
NoPage == "none"
NoTxn == [pc |-> "idle", one |-> {}, two |-> {}, left |-> {}, id |-> 0,
          page |-> NoPage]

Words(c) == txn[c].one \cup txn[c].two
Running(c, pc) == status = "mounted" /\ txn[c].pc = pc

\* next_lite_journal: the following slot, wrapping within the page.
NextLiteJournal(a) == [a EXCEPT !.off = (@ + 1) % Slots]

-----------------------------------------------------------------------------
(* Initial states: nova_lite_journal_hard_init gives each CPU a zeroed page *)

Init ==
    /\ word = [w \in Word |-> 0] /\ dword = word
    /\ slot = [p \in Page |-> [i \in 0 .. Slots - 1 |-> NoEntry]]
    /\ dslot = slot
    /\ \E page \in [Cpu -> Page] :
          /\ \A c, d \in Cpu : c # d => page[c] # page[d]
          /\ pair = [c \in Cpu |-> [head |-> [page |-> page[c], off |-> 0],
                                    tail |-> [page |-> page[c], off |-> 0]]]
          /\ free = Page \ {page[c] : c \in Cpu}
    /\ dpair = pair
    /\ txn = [c \in Cpu |-> NoTxn]
    /\ file = {} /\ status = "mounted" /\ next_cpu = CPUS /\ goal = word
    /\ torn = FALSE /\ stale = FALSE /\ txns = 0 /\ migrations = 0 /\ crashes = 0

-----------------------------------------------------------------------------
(* A transaction, under journal_locks[c] *)

\* The undo entry of a set of words: their addresses and present values.
EntryFor(W) == [w \in W |-> word[w]]

\* Where the entries of c's transaction go: at head, and in the next slot.
EntryOne(c) == pair[c].head
EntryTwo(c) == NextLiteJournal(pair[c].head)

\* nova_create_lite_transaction writes one or two entries at journal_head:
\* one for the words of a create, link or unlink, two for a rename over an
\* existing target.
Begin(c, one, two) ==
    /\ Running(c, "idle") /\ txns < MaxTxn
    /\ pair[c].head = pair[c].tail
    /\ one \cap two = {}
    /\ \A d \in Cpu : (one \cup two) \cap Words(d) = {}
    /\ slot' = [slot EXCEPT
          ![pair[c].head.page] = [i \in 0 .. Slots - 1 |->
              IF i = EntryOne(c).off THEN EntryFor(one)
              ELSE IF i = EntryTwo(c).off /\ two # {} THEN EntryFor(two)
              ELSE @[i]]]
    /\ txn' = [txn EXCEPT ![c] = [pc |-> "entries", one |-> one, two |-> two,
                                  left |-> one \cup two, id |-> txns + 1,
                                  page |-> NoPage]]
    /\ txns' = txns + 1
    /\ UNCHANGED <<word, dword, dslot, pair, dpair, free, file, status,
                   next_cpu, goal, torn, stale, migrations, crashes>>

\* Mutant: the tail is advanced twice past the second entry.
SetTailPastEnd(c) ==
    /\ Running(c, "entries")
    /\ pair' = [pair EXCEPT ![c].tail =
          IF txn[c].two = {} THEN NextLiteJournal(EntryOne(c))
          ELSE NextLiteJournal(NextLiteJournal(EntryTwo(c)))]
    /\ txn' = [txn EXCEPT ![c].pc = "tail"]
    /\ UNCHANGED <<word, dword, slot, dslot, dpair, free, file, status,
                   next_cpu, goal, torn, stale, txns, migrations, crashes>>

\* journal_tail = the slot after the last entry.
SetTail(c) ==
    /\ Running(c, "entries")
    /\ pair' = [pair EXCEPT ![c].tail =
          NextLiteJournal(IF txn[c].two = {} THEN EntryOne(c) ELSE EntryTwo(c))]
    /\ txn' = [txn EXCEPT ![c].pc = "tail"]
    /\ UNCHANGED <<word, dword, slot, dslot, dpair, free, file, status,
                   next_cpu, goal, torn, stale, txns, migrations, crashes>>

\* The flush and fence that end nova_create_lite_transaction: they also drain
\* the non-temporal stores of the entries.
FenceTail(c) ==
    LET p == pair[c].head.page
        written == {EntryOne(c).off} \cup
                   (IF txn[c].two = {} THEN {} ELSE {EntryTwo(c).off})
    IN  /\ Running(c, "tail")
        /\ dpair' = [dpair EXCEPT ![c] = pair[c]]
        /\ dslot' = [dslot EXCEPT ![p] = [i \in 0 .. Slots - 1 |->
              IF i \in written THEN slot[p][i] ELSE @[i]]]
        /\ txn' = [txn EXCEPT ![c].pc = "store"]
        /\ UNCHANGED <<word, dword, slot, pair, free, file, status,
                       next_cpu, goal, torn, stale, txns, migrations, crashes>>

\* One in-place store with its unfenced flush.
Store(c, w) ==
    /\ Running(c, "store") /\ w \in txn[c].left
    /\ word' = [word EXCEPT ![w] = txn[c].id]
    /\ txn' = [txn EXCEPT ![c].left = @ \ {w}]
    /\ UNCHANGED <<dword, slot, dslot, pair, dpair, free, file, status,
                   next_cpu, goal, torn, stale, txns, migrations, crashes>>

\* Mutant: the barrier before the commit is forgotten.
BarrierForgotten(c) ==
    /\ Running(c, "store") /\ txn[c].left = {}
    /\ txn' = [txn EXCEPT ![c].pc = "commit"]
    /\ UNCHANGED <<nvmVars, free, file, status, next_cpu, goal, torn, stale, txns,
                   migrations, crashes>>

\* PERSISTENT_BARRIER after the last in-place store.
Barrier(c) ==
    /\ Running(c, "store") /\ txn[c].left = {}
    /\ dword' = [w \in Word |-> IF w \in Words(c) THEN word[w] ELSE dword[w]]
    /\ txn' = [txn EXCEPT ![c].pc = "commit"]
    /\ UNCHANGED <<word, slot, dslot, pair, dpair, free, file, status,
                   next_cpu, goal, torn, stale, txns, migrations, crashes>>

\* Mutant: the commit consumes one entry even when there are two.
SetHeadByOne(c) ==
    /\ Running(c, "commit")
    /\ pair' = [pair EXCEPT ![c].head = NextLiteJournal(@)]
    /\ txn' = [txn EXCEPT ![c].pc = "head"]
    /\ UNCHANGED <<word, dword, slot, dslot, dpair, free, file, status,
                   next_cpu, goal, torn, stale, txns, migrations, crashes>>

\* nova_commit_lite_transaction: journal_head = tail, flush and fence.
SetHead(c) ==
    /\ Running(c, "commit")
    /\ pair' = [pair EXCEPT ![c].head = pair[c].tail]
    /\ txn' = [txn EXCEPT ![c].pc = "head"]
    /\ UNCHANGED <<word, dword, slot, dslot, dpair, free, file, status,
                   next_cpu, goal, torn, stale, txns, migrations, crashes>>

\* The transaction has taken effect; the page may now be migrated.
FenceHead(c) ==
    /\ Running(c, "head")
    /\ dpair' = [dpair EXCEPT ![c] = pair[c]]
    /\ goal' = [w \in Word |-> IF w \in Words(c) THEN txn[c].id ELSE goal[w]]
    /\ txn' = [txn EXCEPT ![c] = [NoTxn EXCEPT !.pc = "committed"]]
    /\ UNCHANGED <<word, dword, slot, dslot, pair, free, file, status,
                   next_cpu, torn, stale, txns, migrations, crashes>>

-----------------------------------------------------------------------------
(* active_migrate_journal_page, called at the end of every commit *)

\* should_migrate says no, or no page can be allocated.
SkipMigration(c) ==
    /\ Running(c, "committed")
    /\ txn' = [txn EXCEPT ![c] = NoTxn]
    /\ UNCHANGED <<nvmVars, free, file, status, next_cpu, goal, torn, stale,
                   txns, migrations, crashes>>

\* A new page is allocated and the old one copied to it, without a flush.
\* The write counters that make should_migrate true are left open: any commit
\* may be the one that reaches max_deviation.
MigrateCopy(c, q) ==
    /\ Running(c, "committed") /\ migrations < MaxMigrations
    /\ q \in free
    /\ slot' = [slot EXCEPT ![q] = slot[pair[c].head.page]]
    /\ free' = free \ {q}
    /\ txn' = [txn EXCEPT ![c].pc = "copied", ![c].page = q]
    /\ migrations' = migrations + 1
    /\ UNCHANGED <<word, dword, dslot, pair, dpair, file, status, next_cpu,
                   goal, torn, stale, txns, crashes>>

\* Two plain stores redirect the pair; neither is flushed.
MigrateHead(c) ==
    /\ Running(c, "copied")
    /\ pair' = [pair EXCEPT ![c].head.page = txn[c].page]
    /\ txn' = [txn EXCEPT ![c].pc = "moved", ![c].page = pair[c].head.page]
    /\ UNCHANGED <<word, dword, slot, dslot, dpair, free, file, status,
                   next_cpu, goal, torn, stale, txns, migrations, crashes>>

\* Mutant: only journal_head is redirected.
MigrateTailForgotten(c) ==
    /\ Running(c, "moved")
    /\ txn' = [txn EXCEPT ![c].pc = "release"]
    /\ UNCHANGED <<nvmVars, free, file, status, next_cpu, goal, torn, stale, txns,
                   migrations, crashes>>

MigrateTail(c) ==
    /\ Running(c, "moved")
    /\ pair' = [pair EXCEPT ![c].tail.page = pair[c].head.page]
    /\ txn' = [txn EXCEPT ![c].pc = "release"]
    /\ UNCHANGED <<word, dword, slot, dslot, dpair, free, file, status,
                   next_cpu, goal, torn, stale, txns, migrations, crashes>>

\* Mutant: the page freed is the one just moved to.
MigrateFreeNew(c) ==
    /\ Running(c, "release")
    /\ free' = free \cup {pair[c].head.page}
    /\ txn' = [txn EXCEPT ![c] = NoTxn]
    /\ UNCHANGED <<nvmVars, file, status, next_cpu, goal, torn, stale,
                   txns, migrations, crashes>>

\* nova_free_log_blocks returns the old page to the free lists.
MigrateFree(c) ==
    /\ Running(c, "release")
    /\ free' = free \cup {txn[c].page}
    /\ txn' = [txn EXCEPT ![c] = NoTxn]
    /\ UNCHANGED <<nvmVars, file, status, next_cpu, goal, torn, stale,
                   txns, migrations, crashes>>

\* A file allocates a free page and commits data to it.
FileTakes(p) ==
    /\ status = "mounted" /\ p \in free
    /\ free' = free \ {p}
    /\ file' = file \cup {p}
    /\ UNCHANGED <<nvmVars, txn, status, next_cpu, goal, torn, stale,
                   txns, migrations, crashes>>

-----------------------------------------------------------------------------
(* Cache lines reach the NVM at any time; a crash keeps what has reached it *)

WriteBackWord(w) ==
    /\ dword[w] # word[w]
    /\ dword' = [dword EXCEPT ![w] = word[w]]
    /\ UNCHANGED <<word, slot, dslot, pair, dpair, txn, free, file, status,
                   next_cpu, goal, torn, stale, txns, migrations, crashes>>

WriteBackSlot(p, i) ==
    /\ dslot[p][i] # slot[p][i]
    /\ dslot' = [dslot EXCEPT ![p][i] = slot[p][i]]
    /\ UNCHANGED <<word, dword, slot, pair, dpair, txn, free, file, status,
                   next_cpu, goal, torn, stale, txns, migrations, crashes>>

WriteBackPair(c) ==
    /\ dpair[c] # pair[c]
    /\ dpair' = [dpair EXCEPT ![c] = pair[c]]
    /\ UNCHANGED <<word, dword, slot, dslot, pair, txn, free, file, status,
                   next_cpu, goal, torn, stale, txns, migrations, crashes>>

\* The slots from head up to tail, if recovery can make sense of the pair.
Uncommitted(pr) ==
    CASE pr.tail = pr.head -> {}
      [] pr.tail = NextLiteJournal(pr.head) -> {pr.head}
      [] pr.tail = NextLiteJournal(NextLiteJournal(pr.head)) ->
            {pr.head, NextLiteJournal(pr.head)}
      [] OTHER -> {}

WellFormed(pr) ==
    pr.tail \in {pr.head, NextLiteJournal(pr.head),
                 NextLiteJournal(NextLiteJournal(pr.head))}

\* A transaction whose last fence had not returned has taken effect if its
\* head reached the NVM.
TookEffect(c) == txn[c].pc = "head" /\ dpair[c] = pair[c]

\* Two values of a pair lie on the same pages.
SamePages(pr, qr) ==
    pr.head.page = qr.head.page /\ pr.tail.page = qr.tail.page

Crash ==
    /\ crashes < MaxCrashes
    /\ word' = dword /\ slot' = dslot /\ pair' = dpair
    /\ goal' = [w \in Word |->
          IF \E c \in Cpu : w \in Words(c) /\ TookEffect(c)
          THEN txn[CHOOSE c \in Cpu : w \in Words(c)].id ELSE goal[w]]
    /\ torn' = (torn \/ \E c \in Cpu : txn[c].pc = "tail")
    /\ stale' = (stale \/ \E c \in Cpu : ~SamePages(dpair[c], pair[c]))
    /\ txn' = [c \in Cpu |-> NoTxn]
    /\ free' = {}
    /\ status' = "down" /\ next_cpu' = 0
    /\ crashes' = crashes + 1
    /\ UNCHANGED <<dword, dslot, dpair, file, txns, migrations>>
-----------------------------------------------------------------------------
(* nova_lite_journal_soft_init, and the page map rebuilt after it *)

Recovering(c) == status = "down" /\ next_cpu = c

\* The top byte of every journaled address holds the size of the field.
TypeByte == 8

\* nova_get_block adds the address to the base of the device: an address with
\* a non-zero top byte is outside any device.
InsideDevice(type) == type = 0

\* nova_undo_lite_journal_entry skips unused fields, whose type is 0, and
\* passes the others on with the type still in the address.
UndoFaults(e) ==
    \E w \in DOMAIN e : TypeByte # 0 /\ ~InsideDevice(TypeByte)

Entries(c) == {slot[a.page][a.off] : a \in Uncommitted(pair[c])}

RecoverClean(c) ==
    /\ Recovering(c) /\ pair[c].head = pair[c].tail
    /\ next_cpu' = c + 1
    /\ UNCHANGED <<nvmVars, txn, free, file, status, goal, torn, stale,
                   txns, migrations, crashes>>

\* nova_recover_lite_journal: undo, then journal_tail = journal_head, fenced.
\* The undo completes only if no field of the entries is in use.
RecoverEntries(c) ==
    /\ Recovering(c) /\ pair[c].head # pair[c].tail /\ WellFormed(pair[c])
    /\ IF \E e \in Entries(c) : UndoFaults(e)
       THEN /\ status' = "oops"
            /\ UNCHANGED <<nvmVars, next_cpu>>
       ELSE /\ pair' = [pair EXCEPT ![c].tail = pair[c].head]
            /\ dpair' = [dpair EXCEPT ![c] = pair'[c]]
            /\ next_cpu' = c + 1
            /\ UNCHANGED <<word, dword, slot, dslot, status>>
    /\ UNCHANGED <<txn, free, file, goal, torn, stale, txns, migrations, crashes>>

\* "We are in trouble if we get here": -EINVAL, and the mount fails.
RecoverFails(c) ==
    /\ Recovering(c) /\ ~WellFormed(pair[c])
    /\ status' = "failed"
    /\ UNCHANGED <<nvmVars, txn, free, file, next_cpu, goal, torn, stale,
                   txns, migrations, crashes>>

\* nova_failure_recovery: a page is in use if a file has it or it holds a
\* journal_head; all others are free.
MountDone ==
    /\ status = "down" /\ next_cpu = CPUS
    /\ status' = "mounted"
    /\ free' = Page \ (file \cup {pair[c].head.page : c \in Cpu})
    /\ UNCHANGED <<nvmVars, txn, file, next_cpu, goal, torn, stale,
                   txns, migrations, crashes>>

-----------------------------------------------------------------------------
Next ==
    \/ \E c \in Cpu, one, two \in SUBSET Word :
          /\ Cardinality(one) \in 2 .. 4 /\ Cardinality(two) \in 0 .. 2
          /\ Begin(c, one, two)
    \/ \E c \in Cpu :
          \/ SetTail(c) \/ FenceTail(c) \/ Barrier(c)
          \/ SetHead(c) \/ FenceHead(c)
          \/ \E w \in Word : Store(c, w)
          \/ SkipMigration(c) \/ MigrateHead(c) \/ MigrateTail(c)
          \/ MigrateFree(c)
          \/ \E q \in Page : MigrateCopy(c, q)
          \/ WriteBackPair(c)
          \/ RecoverClean(c) \/ RecoverEntries(c) \/ RecoverFails(c)
    \/ \E p \in Page : FileTakes(p)
    \/ \E w \in Word : WriteBackWord(w)
    \/ \E p \in Page, i \in 0 .. Slots - 1 : WriteBackSlot(p, i)
    \/ Crash \/ MountDone

Spec == Init /\ [][Next]_vars

-----------------------------------------------------------------------------
(* Properties *)

Entry == UNION {[W -> Value] : W \in SUBSET Word}
Pair == [head : Addr, tail : Addr]
Txn == [pc : {"idle", "entries", "tail", "store", "commit", "head",
              "committed", "copied", "moved", "release"},
        one : SUBSET Word, two : SUBSET Word, left : SUBSET Word,
        id : Value, page : Page \cup {NoPage}]

\* Between the allocation of the new page and the free of the old one.
Migrating == {"copied", "moved", "release"}

\* Every variable keeps its type: in particular head and tail stay on slots
\* of the page as they wrap.
TypeOK ==
    /\ word \in [Word -> Value] /\ dword \in [Word -> Value]
    /\ slot \in [Page -> [0 .. Slots - 1 -> Entry]]
    /\ dslot \in [Page -> [0 .. Slots - 1 -> Entry]]
    /\ pair \in [Cpu -> Pair] /\ dpair \in [Cpu -> Pair]
    /\ txn \in [Cpu -> Txn]
    /\ \A c \in Cpu : txn[c].pc \in Migrating => txn[c].page \in Page
    /\ free \subseteq Page /\ file \subseteq Page
    /\ status \in {"mounted", "down", "failed", "oops"}
    /\ next_cpu \in 0 .. CPUS
    /\ goal \in [Word -> Value] /\ torn \in BOOLEAN /\ stale \in BOOLEAN
    /\ txns \in 0 .. MaxTxn /\ migrations \in 0 .. MaxMigrations
    /\ crashes \in 0 .. MaxCrashes

\* The values a crash now would leave in w once the durable journals are
\* undone: an entry's if one names w, otherwise the durable word.
Surviving(w) ==
    LET undo == {e \in {dslot[a.page][a.off] :
                        a \in UNION {Uncommitted(dpair[c]) : c \in Cpu}} :
                    w \in DOMAIN e}
    IN  IF undo = {} THEN {dword[w]} ELSE {e[w] : e \in undo}

AllOld(c) == \A w \in Words(c) : Surviving(w) = {goal[w]}
AllNew(c) == \A w \in Words(c) : Surviving(w) = {txn[c].id}

\* Whenever the power fails, undoing the durable journal leaves every running
\* transaction's words all old or all new, and every other word as the last
\* transaction that took effect left it.  "journaling code to guarantee the
\* atomicity of directory operations" (journal.c).
UndoableImage ==
    /\ \A c \in Cpu : AllOld(c) \/ AllNew(c)
    /\ \A w \in Word \ UNION {Words(c) : c \in Cpu} : Surviving(w) = {goal[w]}

\* The same for every power failure outside the window between the store of
\* journal_tail and the fence that ends nova_create_lite_transaction, as long
\* as no earlier failure fell into that window, or undid a migration and so
\* put two journals on one page.
UndoableOnceFenced ==
    ~torn /\ ~stale /\ (\A c \in Cpu : txn[c].pc # "tail") => UndoableImage

\* The durable pair spans zero, one or two entries, whatever lines are lost,
\* unless a migration has split it over two pages: "We only allow up to two
\* uncommited entries" (nova_lite_journal_soft_init).
PairWellFormed ==
    \A c \in Cpu : dpair[c].head.page = dpair[c].tail.page => WellFormed(dpair[c])

\* BUG() in nova_create_lite_transaction is never reached: the journal of a
\* CPU that holds no lock is empty, after commits, migrations and recoveries.
QuietJournalEmpty ==
    \A c \in Cpu : Running(c, "idle") => pair[c].head = pair[c].tail

\* A mounted file system's journals own their pages: no other journal, no file
\* and no free list has the page an idle CPU's journal_head points to.
JournalOwnsPage ==
    \A c \in Cpu : Running(c, "idle") =>
        /\ pair[c].head.page \notin free \cup file
        /\ \A d \in Cpu \ {c} : pair[d].head.page # pair[c].head.page

\* The same through every power failure that does not undo a migration: one
\* that does brings back a pair whose page active_migrate_journal_page has
\* already freed.
OwnsPageUnlessStale == ~stale => JournalOwnsPage

\* The undo of an interrupted transaction can be carried out.
RecoveryNeverFaults == status # "oops"

\* No crash leaves a pair that nova_lite_journal_soft_init rejects.
MountAccepts == status # "failed"
=============================================================================

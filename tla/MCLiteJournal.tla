--------------------------- MODULE MCLiteJournal ---------------------------
(* Model-checking instances of the lite journal. *)
EXTENDS LiteJournal, TLC

\* Words and pages have no order.
Interchangeable == Permutations(Word) \cup Permutations(Page)

\* CPU 0 has committed one transaction, of the words W, since the format: its
\* journal is empty behind the first slot, which holds the committed entry.
UsedInit ==
    \E W \in SUBSET Word, page \in [Cpu -> Page] :
        /\ Cardinality(W) = 2
        /\ \A c, d \in Cpu : c # d => page[c] # page[d]
        /\ word = [w \in Word |-> IF w \in W THEN 1 ELSE 0]
        /\ dword = word /\ goal = word
        /\ slot = [p \in Page |-> [i \in 0 .. Slots - 1 |->
                      IF p = page[0] /\ i = 0 THEN [w \in W |-> 0] ELSE NoEntry]]
        /\ dslot = slot
        /\ LET at(c) == [page |-> page[c], off |-> IF c = 0 THEN 1 ELSE 0]
           IN  pair = [c \in Cpu |-> [head |-> at(c), tail |-> at(c)]]
        /\ dpair = pair
        /\ free = Page \ {page[c] : c \in Cpu}
        /\ txn = [c \in Cpu |-> NoTxn]
        /\ file = {} /\ status = "mounted" /\ next_cpu = CPUS
        /\ torn = FALSE /\ stale = FALSE /\ txns = 1 /\ migrations = 0 /\ crashes = 0

\* A bound: two migrations, a migration and a crash, or two crashes.
FewFaults == migrations + crashes <= 2

UsedSpec == UsedInit /\ [][Next]_vars
=============================================================================

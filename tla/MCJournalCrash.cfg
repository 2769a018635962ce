\* Two journals that wrap, transactions of one and two entries, migrations, files
\* that take freed pages, and crashes.
CONSTANTS
    CPUS = 2
    Word = {wa, wb, wc}
    Page = {pg1, pg2, pg3}
    Slots = 4
    MaxTxn = 3
    MaxMigrations = 2
    MaxCrashes = 2
SPECIFICATION UsedSpec
SYMMETRY Interchangeable
CONSTRAINT FewFaults
INVARIANTS
    UndoableOnceFenced
    PairWellFormed
    QuietJournalEmpty
    OwnsPageUnlessStale
CHECK_DEADLOCK FALSE

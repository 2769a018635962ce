\* A crash inside a transaction, then a mount.
CONSTANTS
    CPUS = 1
    Word = {wa, wb}
    Page = {pg1}
    Slots = 3
    MaxTxn = 1
    MaxMigrations = 0
    MaxCrashes = 1
SPECIFICATION Spec
INVARIANT RecoveryNeverFaults
CHECK_DEADLOCK FALSE

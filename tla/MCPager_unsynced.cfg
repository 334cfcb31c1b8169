\* One connection, an empty database, and a process killed while it rolls back.
SPECIFICATION PagerSpec
CONSTANTS
    Conn = {c1, c2}
    N = 1
    MaxTx = 1
    MaxFaults = 1
    ExtraSync = FALSE
    DurableTruncate = FALSE
INVARIANT SyncedBeforeDeletion
CHECK_DEADLOCK FALSE

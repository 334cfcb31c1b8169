\* Two connections, two pages, two write transactions, one killed process, one
\* power loss, one I/O error.
SPECIFICATION PagerSpec
CONSTANTS
    Conn = {c1, c2}
    N = 2
    MaxTx = 2
    MaxFaults = 3
    ExtraSync = FALSE
    DurableTruncate = TRUE
SYMMETRY Symmetry
INVARIANTS
    PagerTypeOK
    AssertedStates
    JournalIsKept
    SyncedBeforeDeletion
    PagerInv
PROPERTIES
    ImplementsDurableDb
CHECK_DEADLOCK FALSE

SPECIFICATION FairSpec
CONSTANTS
    c1 = c1
    c2 = c2
    c3 = c3
    p1 = p1
    p2 = p2
    Conn <- MCConn
    Proc <- MCProc
    ProcOf <- MCProcOf
    Crashes = TRUE
INVARIANT TypeInv
INVARIANT RecordMatchesSystem
INVARIANT WritersAreSeen
INVARIANT DowngradeIsGranted
INVARIANT UnixInv
PROPERTY ImplementsFileLock
PROPERTY PendingGetsInAtGaps

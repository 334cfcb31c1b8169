SPECIFICATION UnixSpec
CONSTANTS
    c1 = c1
    c2 = c2
    c3 = c3
    p1 = p1
    p2 = p2
    Conn <- MCConn
    Proc <- MCProc
    ProcOf <- MCProcOf
    Crashes = FALSE
INVARIANT ExclusiveAlone

----------------------------- MODULE MCUnixLock -----------------------------
(* Two connections in one process and one in another.                      *)
EXTENDS UnixLock, TLC

CONSTANTS c1, c2, c3, p1, p2

MCConn == {c1, c2, c3}
MCProc == {p1, p2}
MCProcOf == c1 :> p1 @@ c2 :> p1 @@ c3 :> p2
=============================================================================

--------------------------- MODULE DurableDbProofs ---------------------------
(***************************************************************************)
(* Read transactions of DurableDb are serialised with its commits, for any *)
(* connections and any contents of the database.                           *)
(***************************************************************************)
EXTENDS DurableDb, TLAPS

DbTypeOK ==
  /\ committed \in Images
  /\ previous \in Images \cup {None}
  /\ view \in [Conn -> Images \cup {None}]
  /\ \A c \in Conn : writer = c => view[c] # None

\* While a connection that does not write sees the database, what it sees is
\* what is committed (the EXCLUSIVE lock of pager.c:6448 keeps readers out of a
\* commit).
THEOREM ReadersAlwaysCurrent ==
  ASSUME None \notin Images \cup Conn
  PROVE  Spec => [](DbTypeOK /\ ReadersAreCurrent)
  <1>1. Init => DbTypeOK /\ ReadersAreCurrent
    BY DEF Init, DbTypeOK, ReadersAreCurrent
  <1>2. ASSUME DbTypeOK, ReadersAreCurrent, [Next]_vars
        PROVE  DbTypeOK' /\ ReadersAreCurrent'
    <2>1. ASSUME NEW c \in Conn, Begin(c) \/ End(c) \/ BeginWrite(c)
          PROVE  DbTypeOK' /\ ReadersAreCurrent'
      BY <1>2, <2>1 DEF DbTypeOK, ReadersAreCurrent, Begin, End, BeginWrite
    <2>2. ASSUME NEW c \in Conn, Write(c)
          PROVE  DbTypeOK' /\ ReadersAreCurrent'
      BY <1>2, <2>2 DEF DbTypeOK, ReadersAreCurrent, Write
    <2>3. ASSUME NEW c \in Conn, Commit(c)
          PROVE  DbTypeOK' /\ ReadersAreCurrent'
      BY <1>2, <2>3 DEF DbTypeOK, ReadersAreCurrent, Commit
    <2>4. ASSUME NEW c \in Conn, Rollback(c)
          PROVE  DbTypeOK' /\ ReadersAreCurrent'
      BY <1>2, <2>4 DEF DbTypeOK, ReadersAreCurrent, Rollback
    <2>5. ASSUME NEW S \in SUBSET Conn, Crash(S)
          PROVE  DbTypeOK' /\ ReadersAreCurrent'
      BY <1>2, <2>5 DEF DbTypeOK, ReadersAreCurrent, Crash
    <2>6. CASE PowerLoss \/ Harden \/ UNCHANGED vars
      BY <1>2, <2>6 DEF DbTypeOK, ReadersAreCurrent, PowerLoss, Harden, vars
    <2>7. QED
      BY <1>2, <2>1, <2>2, <2>3, <2>4, <2>5, <2>6 DEF Next
  <1>3. QED
    BY <1>1, <1>2, PTL DEF Spec
=============================================================================

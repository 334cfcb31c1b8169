----------------------------- MODULE DurableDb -----------------------------
(***************************************************************************)
(* What SQLite promises the users of a rollback-journal database: one      *)
(* committed image, changed in one step by one writer at a time; readers   *)
(* that keep the image they began with; and after a crash or a power loss  *)
(* the committed image, or the one before it while the deletion of the      *)
(* journal is not yet on the disk.                                         *)
(***************************************************************************)

CONSTANTS Conn,      \* connections
          Images,    \* the contents a database can have
          None       \* no image, no connection

VARIABLES committed, \* the committed image
          previous,  \* the image a power loss may bring back, or None
          view,      \* view[c]: what connection c sees, None outside a transaction
          writer     \* the connection with a write transaction, or None

vars == <<committed, previous, view, writer>>

Init ==
  /\ committed \in Images /\ previous = None
  /\ view = [c \in Conn |-> None] /\ writer = None

Begin(c) ==
  /\ view[c] = None
  /\ view' = [view EXCEPT ![c] = committed]
  /\ UNCHANGED <<committed, previous, writer>>

End(c) ==
  /\ view[c] # None /\ writer # c
  /\ view' = [view EXCEPT ![c] = None]
  /\ UNCHANGED <<committed, previous, writer>>

\* A read transaction is upgraded only while what it has read is current.
BeginWrite(c) ==
  /\ writer = None /\ view[c] = committed
  /\ writer' = c
  /\ UNCHANGED <<committed, previous, view>>

Write(c) ==
  /\ writer = c
  /\ view'[c] \in Images
  /\ view' = [view EXCEPT ![c] = view'[c]]
  /\ UNCHANGED <<committed, previous, writer>>

Commit(c) ==
  /\ writer = c
  /\ \A d \in Conn \ {c} : view[d] = None
  /\ committed' = view[c]
  /\ previous' \in {committed, None}
  /\ writer' = None
  /\ UNCHANGED view

Rollback(c) ==
  /\ writer = c
  /\ writer' = None
  /\ view' = [view EXCEPT ![c] = committed]
  /\ UNCHANGED <<committed, previous>>

Harden ==
  /\ previous' = None
  /\ UNCHANGED <<committed, view, writer>>

\* Connections end in the middle of whatever they do.
Crash(S) ==
  /\ view' = [c \in Conn |-> IF c \in S THEN None ELSE view[c]]
  /\ writer' = IF writer \in S THEN None ELSE writer
  /\ UNCHANGED <<committed, previous>>

PowerLoss ==
  /\ committed' \in {committed} \cup ({previous} \ {None})
  /\ previous' = None
  /\ view' = [c \in Conn |-> None] /\ writer' = None

Next ==
  \/ Harden
  \/ \E c \in Conn : Begin(c) \/ End(c) \/ BeginWrite(c) \/ Write(c) \/ Commit(c) \/ Rollback(c)
  \/ \E S \in SUBSET Conn : Crash(S)
  \/ PowerLoss

Spec == Init /\ [][Next]_vars

-----------------------------------------------------------------------------

(* Read transactions are serialised with the commits: nothing is committed *)
(* under a reader (the EXCLUSIVE lock of pager.c:6448).                    *)
ReadersAreCurrent ==
  \A c \in Conn : view[c] # None /\ writer # c => view[c] = committed
=============================================================================

------------------------------ MODULE FileLock ------------------------------
(***************************************************************************)
(* What SQLite's pager is promised by the lock on a database file: five     *)
(* levels, granted at one instant to one connection at a time.  UnixLock    *)
(* implements it with POSIX byte-range locks; Pager relies on it.           *)
(***************************************************************************)
EXTENDS Naturals

CONSTANT Conn           \* the connections that have the database open

VARIABLE lock           \* lock[c]: the level connection c holds

NO_LOCK        == 0
SHARED_LOCK    == 1
RESERVED_LOCK  == 2
PENDING_LOCK   == 3
EXCLUSIVE_LOCK == 4

Levels == NO_LOCK .. EXCLUSIVE_LOCK

(* Each connection has one of the five levels of os.h.                     *)
TypeOK == lock \in [Conn -> Levels]

Init == lock = [c \in Conn |-> NO_LOCK]

Others(c) == Conn \ {c}

\* PENDING asks new readers to wait but promises nothing: a process that has
\* a reader already lets its other connections in.
MayShare(c)   == lock[c] = NO_LOCK /\ \A d \in Others(c) : lock[d] < EXCLUSIVE_LOCK
MayReserve(c) == lock[c] = SHARED_LOCK /\ \A d \in Others(c) : lock[d] < RESERVED_LOCK
MayExclude(c) == /\ lock[c] \in SHARED_LOCK .. PENDING_LOCK
                 /\ \A d \in Others(c) : lock[d] = NO_LOCK

Share(c)   == MayShare(c)   /\ lock' = [lock EXCEPT ![c] = SHARED_LOCK]
Reserve(c) == MayReserve(c) /\ lock' = [lock EXCEPT ![c] = RESERVED_LOCK]
Exclude(c) == MayExclude(c) /\ lock' = [lock EXCEPT ![c] = EXCLUSIVE_LOCK]

\* An attempt at EXCLUSIVE from RESERVED that finds readers stops here.
Pend(c) == lock[c] = RESERVED_LOCK /\ lock' = [lock EXCEPT ![c] = PENDING_LOCK]

Lower(c, l) == l < lock[c] /\ lock' = [lock EXCEPT ![c] = l]

\* A process ends and the operating system takes back its locks.
DropAll(S) == lock' = [c \in Conn |-> IF c \in S THEN NO_LOCK ELSE lock[c]]

Next ==
  \/ \E c \in Conn :
       \/ Share(c) \/ Reserve(c) \/ Pend(c) \/ Exclude(c)
       \/ \E l \in {NO_LOCK, SHARED_LOCK} : Lower(c, l)
  \/ \E S \in SUBSET Conn : DropAll(S)

Spec == Init /\ [][Next]_lock

-----------------------------------------------------------------------------

(* A connection that may write the file shares it with no reader, and at   *)
(* most one connection prepares to write (os_unix.c:1740-1752).            *)
ExclusiveIsAlone ==
  \A c \in Conn : lock[c] = EXCLUSIVE_LOCK => \A d \in Others(c) : lock[d] = NO_LOCK

OneWriter ==
  \A c \in Conn : lock[c] >= RESERVED_LOCK =>
    \A d \in Others(c) : lock[d] < RESERVED_LOCK
=============================================================================

------------------------------ MODULE UnixLock ------------------------------
(***************************************************************************)
(* The locking half of SQLite's unix VFS (os_unix.c): unixLock,            *)
(* unixUnlock, unixCheckReservedLock, unixClose and the inode record that   *)
(* the connections of one process share.  Every fcntl() is a step of its    *)
(* own; what happens between two of them under pLockMutex is part of the    *)
(* earlier or the later step.                                               *)
(***************************************************************************)
EXTENDS FileLock, FiniteSets

CONSTANTS
  Proc,          \* processes
  ProcOf,        \* ProcOf[c]: the process of connection c
  Crashes        \* TRUE: a process may be killed at any step

ASSUME ProcOfType == ProcOf \in [Conn -> Proc]
ASSUME FreeIsNoConnection == "free" \notin Conn
ASSUME CrashesIsBoolean == Crashes \in BOOLEAN

VARIABLES
  posix,         \* posix[b][p]: the lock process p holds on bytes b of the file
  nShared,       \* unixInodeInfo, one per process: connections with a lock,
  nLock,         \*   outstanding locks,
  eFileLock,     \*   the highest level any of its connections holds,
  unused,        \*   descriptors waiting in pUnused to be closed
  mutex,         \* pLockMutex: the connection inside, or Free
  pc,            \* where connection c is
  want,          \* the level its call was made with
  raced          \* history: the processes in which a lock call began while
                 \*   unixClose was between its check and close()

inodeVars == <<nShared, nLock, eFileLock, unused, raced>>
vars == <<lock, posix, inodeVars, mutex, pc, want>>

\* lock[c] is the eFileLock field of the unixFile.

Free  == "free"
CLOSE == EXCLUSIVE_LOCK + 1                    \* unlocking on the way to unixClose
Bytes == {"PENDING", "RESERVED", "SHARED"}     \* SHARED: the range of 510 bytes
Peers(c) == {d \in Conn : ProcOf[d] = ProcOf[c]}

Unlocked == {"closed", "idle", "check", "closing"}
InLock   == {"pending", "range", "drop", "dropBusy", "reserve", "exclude"}
InUnlock == {"downgrade", "unreserve", "leave"}

(* Types of the locks, of the inode records and of the calls: no count of   *)
(* locks ever goes below zero (the asserts of posixUnlock).                 *)
TypeInv ==
  /\ TypeOK
  /\ posix \in [Bytes -> [Proc -> {"no", "rd", "wr"}]]
  /\ nShared \in [Proc -> Nat] /\ nLock \in [Proc -> Nat]
  /\ eFileLock \in [Proc -> Levels]
  /\ unused \in [Proc -> BOOLEAN]
  /\ mutex \in [Proc -> Conn \cup {Free}]
  /\ pc \in [Conn -> Unlocked \cup InLock \cup InUnlock]
  /\ want \in [Conn -> Levels \cup {CLOSE}]
  /\ raced \subseteq Proc

UnixInit ==
  /\ Init
  /\ posix = [b \in Bytes |-> [p \in Proc |-> "no"]]
  /\ nShared = [p \in Proc |-> 0] /\ nLock = [p \in Proc |-> 0]
  /\ eFileLock = [p \in Proc |-> NO_LOCK]
  /\ unused = [p \in Proc |-> FALSE]
  /\ mutex = [p \in Proc |-> Free]
  /\ pc = [c \in Conn |-> "closed"]
  /\ want = [c \in Conn |-> NO_LOCK]
  /\ raced = {}

-----------------------------------------------------------------------------
(* fcntl(F_SETLK): a read lock excludes other processes' write locks, a    *)
(* write lock excludes every lock of other processes.                      *)

MayRead(p, b)  == \A q \in Proc \ {p} : posix[b][q] # "wr"
MayWrite(p, b) == \A q \in Proc \ {p} : posix[b][q] = "no"

Set(p, bs, l) == [b \in Bytes |-> IF b \in bs THEN [posix[b] EXCEPT ![p] = l] ELSE posix[b]]

Goto(c, l) == pc' = [pc EXCEPT ![c] = l]

\* Leave the call and the mutex; the file stays at the level it has.
Return(c) ==
  /\ mutex' = [mutex EXCEPT ![ProcOf[c]] = Free]
  /\ Goto(c, "idle")
  /\ want' = [want EXCEPT ![c] = NO_LOCK]

Granted(c, l) ==
  /\ lock' = [lock EXCEPT ![c] = l]
  /\ eFileLock' = [eFileLock EXCEPT ![ProcOf[c]] = l]

\* A thread may start a call that takes pLockMutex.
MayEnter(c) == mutex[ProcOf[c]] = Free

\* A descriptor of the process is about to be closed.
Closing(p) == \E d \in Conn : ProcOf[d] = p /\ pc[d] = "closing"

-----------------------------------------------------------------------------
(* unixLock                                                                *)

\* Another connection of the process has a lock that precludes the request.
PrecludedHere(c, l) ==
  LET here == eFileLock[ProcOf[c]] IN
  lock[c] # here /\ (here >= PENDING_LOCK \/ l > SHARED_LOCK)

\* The asserted order of requests, and the early return.
Legal(c, l) ==
  /\ lock[c] < l
  /\ l \in {SHARED_LOCK, RESERVED_LOCK, EXCLUSIVE_LOCK}
  /\ lock[c] = NO_LOCK => l = SHARED_LOCK
  /\ l = RESERVED_LOCK => lock[c] = SHARED_LOCK

\* Mutant of LockJoin: the connection is not counted.
LockJoinUncounted(c) ==
  /\ pc[c] = "idle" /\ MayEnter(c)
  /\ Legal(c, SHARED_LOCK) /\ ~PrecludedHere(c, SHARED_LOCK)
  /\ eFileLock[ProcOf[c]] \in {SHARED_LOCK, RESERVED_LOCK}
  /\ lock' = [lock EXCEPT ![c] = SHARED_LOCK]
  /\ nLock' = [nLock EXCEPT ![ProcOf[c]] = @ + 1]
  /\ UNCHANGED <<posix, nShared, eFileLock, unused, mutex, pc, want, raced>>

\* A SHARED lock the process already has is counted, without a system call.
LockJoin(c) ==
  LET p == ProcOf[c] IN
  /\ pc[c] = "idle" /\ MayEnter(c)
  /\ Legal(c, SHARED_LOCK) /\ ~PrecludedHere(c, SHARED_LOCK)
  /\ eFileLock[p] \in {SHARED_LOCK, RESERVED_LOCK}
  /\ lock' = [lock EXCEPT ![c] = SHARED_LOCK]
  /\ nShared' = [nShared EXCEPT ![p] = @ + 1]
  /\ nLock' = [nLock EXCEPT ![p] = @ + 1]
  /\ UNCHANGED <<posix, eFileLock, unused, mutex, pc, want, raced>>

\* Otherwise the first system call to make depends on the request.  A close
\* that is under way may take the lock away again; a process with no lock and
\* no such close starts afresh.
LockBegin(c, l) ==
  LET p == ProcOf[c] IN
  /\ pc[c] = "idle" /\ MayEnter(c)
  /\ Legal(c, l) /\ ~PrecludedHere(c, l)
  /\ ~(l = SHARED_LOCK /\ eFileLock[p] \in {SHARED_LOCK, RESERVED_LOCK})
  /\ mutex' = [mutex EXCEPT ![p] = c]
  /\ want' = [want EXCEPT ![c] = l]
  /\ Goto(c, CASE l = SHARED_LOCK -> "pending"
               [] l = RESERVED_LOCK -> "reserve"
               [] l = EXCLUSIVE_LOCK -> IF lock[c] = RESERVED_LOCK THEN "pending" ELSE "exclude")
  /\ raced' = IF Closing(p) THEN raced \cup {p}
              ELSE IF eFileLock[p] = NO_LOCK THEN raced \ {p} ELSE raced
  /\ UNCHANGED <<lock, posix, nShared, nLock, eFileLock, unused>>

Busy(c) ==
  /\ Return(c)
  /\ UNCHANGED <<lock, posix, inodeVars>>

\* Mutant of SharePending: another process's write lock is overlooked.
SharePendingAnyway(c) ==
  /\ pc[c] = "pending" /\ want[c] = SHARED_LOCK
  /\ posix' = IF posix["PENDING"][ProcOf[c]] = "no" THEN Set(ProcOf[c], {"PENDING"}, "rd") ELSE posix
  /\ Goto(c, "range")
  /\ UNCHANGED <<lock, inodeVars, mutex, want>>

\* UNLOCKED -> SHARED: read-lock the pending byte, then the shared range,
\* and let go of the pending byte whether the range was free or not.
SharePending(c) ==
  /\ pc[c] = "pending" /\ want[c] = SHARED_LOCK
  /\ IF MayRead(ProcOf[c], "PENDING")
     THEN /\ posix' = Set(ProcOf[c], {"PENDING"}, "rd")
          /\ Goto(c, "range")
          /\ UNCHANGED <<lock, inodeVars, mutex, want>>
     ELSE Busy(c)

ShareRange(c) ==
  /\ pc[c] = "range"
  /\ IF MayRead(ProcOf[c], "SHARED")
     THEN posix' = Set(ProcOf[c], {"SHARED"}, "rd") /\ Goto(c, "drop")
     ELSE Goto(c, "dropBusy") /\ UNCHANGED posix
  /\ UNCHANGED <<lock, inodeVars, mutex, want>>

DropPending(c) ==
  LET p == ProcOf[c] IN
  /\ pc[c] \in {"drop", "dropBusy"}
  /\ posix' = Set(p, {"PENDING"}, "no")
  /\ Return(c)
  /\ IF pc[c] = "drop"
     THEN /\ Granted(c, SHARED_LOCK)
          /\ nLock' = [nLock EXCEPT ![p] = @ + 1]
          /\ nShared' = [nShared EXCEPT ![p] = 1]
     ELSE UNCHANGED <<lock, eFileLock, nLock, nShared>>
  /\ UNCHANGED <<unused, raced>>

\* SHARED -> RESERVED
ReserveByte(c) ==
  /\ pc[c] = "reserve"
  /\ IF MayWrite(ProcOf[c], "RESERVED")
     THEN /\ posix' = Set(ProcOf[c], {"RESERVED"}, "wr")
          /\ Granted(c, RESERVED_LOCK)
          /\ Return(c)
          /\ UNCHANGED <<nShared, nLock, unused, raced>>
     ELSE Busy(c)

\* RESERVED -> (PENDING) -> EXCLUSIVE, SHARED -> EXCLUSIVE
ExcludePending(c) ==
  /\ pc[c] = "pending" /\ want[c] = EXCLUSIVE_LOCK
  /\ IF MayWrite(ProcOf[c], "PENDING")
     THEN /\ posix' = Set(ProcOf[c], {"PENDING"}, "wr")
          /\ Granted(c, PENDING_LOCK)
          /\ Goto(c, "exclude")
          /\ UNCHANGED <<nShared, nLock, unused, raced, mutex, want>>
     ELSE Busy(c)

\* Mutant of ExcludeRange: the process's other readers are overlooked.
ExcludeRangeBesideReaders(c) ==
  /\ pc[c] = "exclude"
  /\ IF MayWrite(ProcOf[c], "SHARED")
     THEN /\ posix' = Set(ProcOf[c], {"SHARED"}, "wr")
          /\ Granted(c, EXCLUSIVE_LOCK)
          /\ Return(c)
          /\ UNCHANGED <<nShared, nLock, unused, raced>>
     ELSE Busy(c)

ExcludeRange(c) ==
  /\ pc[c] = "exclude"
  /\ IF nShared[ProcOf[c]] <= 1 /\ MayWrite(ProcOf[c], "SHARED")
     THEN /\ posix' = Set(ProcOf[c], {"SHARED"}, "wr")
          /\ Granted(c, EXCLUSIVE_LOCK)
          /\ Return(c)
          /\ UNCHANGED <<nShared, nLock, unused, raced>>
     ELSE Busy(c)

\* Mutant of ReservedSeen: the threads of the own process are not asked for.
ReservedSeenElsewhere(c) ==
  \E q \in Proc \ {ProcOf[c]} : posix["RESERVED"][q] # "no"

\* unixCheckReservedLock: the answer hasHotJournal gets.
ReservedSeen(c) ==
  \/ eFileLock[ProcOf[c]] > SHARED_LOCK
  \/ \E q \in Proc \ {ProcOf[c]} : posix["RESERVED"][q] # "no"

-----------------------------------------------------------------------------
(* posixUnlock                                                             *)

UnlockTo(c, l, why) ==
  /\ l < lock[c]
  /\ mutex' = [mutex EXCEPT ![ProcOf[c]] = c]
  /\ want' = [want EXCEPT ![c] = why]
  /\ Goto(c, IF lock[c] = SHARED_LOCK THEN "leave"
             ELSE IF l = SHARED_LOCK THEN "downgrade" ELSE "unreserve")
  /\ UNCHANGED <<lock, posix, inodeVars>>

UnlockBegin(c, l) == pc[c] = "idle" /\ MayEnter(c) /\ UnlockTo(c, l, l)

\* A refused read lock ends the call with SQLITE_IOERR_RDLOCK.
Downgrade(c) ==
  /\ pc[c] = "downgrade"
  /\ IF MayRead(ProcOf[c], "SHARED")
     THEN /\ posix' = Set(ProcOf[c], {"SHARED"}, "rd")
          /\ Goto(c, "unreserve")
          /\ UNCHANGED <<lock, inodeVars, mutex, want>>
     ELSE Busy(c)

Unreserve(c) ==
  /\ pc[c] = "unreserve"
  /\ posix' = Set(ProcOf[c], {"PENDING", "RESERVED"}, "no")
  /\ eFileLock' = [eFileLock EXCEPT ![ProcOf[c]] = SHARED_LOCK]
  /\ IF want[c] = SHARED_LOCK
     THEN lock' = [lock EXCEPT ![c] = SHARED_LOCK] /\ Return(c)
     ELSE Goto(c, "leave") /\ UNCHANGED <<lock, mutex, want>>
  /\ UNCHANGED <<nShared, nLock, unused, raced>>

\* The last connection of the process unlocks the whole file, and when no
\* lock is outstanding the descriptors in pUnused are closed.
Leave(c) ==
  LET p == ProcOf[c]
      last == nShared[p] = 1
  IN
  /\ pc[c] = "leave"
  /\ nShared' = [nShared EXCEPT ![p] = @ - 1]
  /\ nLock' = [nLock EXCEPT ![p] = @ - 1]
  /\ eFileLock' = [eFileLock EXCEPT ![p] = IF last THEN NO_LOCK ELSE @]
  /\ posix' = IF last \/ (nLock[p] = 1 /\ unused[p]) THEN Set(p, Bytes, "no") ELSE posix
  /\ unused' = [unused EXCEPT ![p] = @ /\ nLock[p] # 1]
  /\ lock' = [lock EXCEPT ![c] = NO_LOCK]
  /\ mutex' = [mutex EXCEPT ![p] = Free]
  /\ Goto(c, IF want[c] = CLOSE THEN "check" ELSE "idle")
  /\ want' = [want EXCEPT ![c] = NO_LOCK]
  /\ UNCHANGED raced

-----------------------------------------------------------------------------
(* findInodeInfo and unixClose, one at a time in a process: unixBigLock    *)

BigLockFree(c) == ~Closing(ProcOf[c])

Open(c) ==
  /\ pc[c] = "closed" /\ BigLockFree(c)
  /\ Goto(c, "idle")
  /\ UNCHANGED <<lock, posix, inodeVars, mutex, want>>

CloseBegin(c) ==
  /\ pc[c] = "idle" /\ MayEnter(c)
  /\ IF lock[c] = NO_LOCK
     THEN Goto(c, "check") /\ UNCHANGED <<lock, posix, inodeVars, mutex, want>>
     ELSE UnlockTo(c, NO_LOCK, CLOSE)

\* Mutant of CloseCheck: outstanding locks are overlooked.
CloseCheckAnyway(c) ==
  /\ pc[c] = "check" /\ BigLockFree(c) /\ mutex[ProcOf[c]] = Free
  /\ Goto(c, "closing")
  /\ UNCHANGED <<lock, posix, inodeVars, mutex, want>>

\* Under both mutexes: with locks outstanding the descriptor is kept.
CloseCheck(c) ==
  LET p == ProcOf[c] IN
  /\ pc[c] = "check" /\ BigLockFree(c) /\ mutex[p] = Free
  /\ IF nLock[p] > 0
     THEN unused' = [unused EXCEPT ![p] = TRUE] /\ Goto(c, "closed")
     ELSE Goto(c, "closing") /\ UNCHANGED unused
  /\ UNCHANGED <<lock, posix, nShared, nLock, eFileLock, mutex, want, raced>>

\* pLockMutex was left before: closing any descriptor of the file releases
\* every lock the process has on it.
CloseFd(c) ==
  LET p == ProcOf[c] IN
  /\ pc[c] = "closing"
  /\ posix' = Set(p, Bytes, "no")
  /\ Goto(c, "closed")
  /\ UNCHANGED <<lock, inodeVars, mutex, want>>

\* The process is killed: its connections and its locks are gone.
Crash(p) ==
  LET cs == {c \in Conn : ProcOf[c] = p} IN
  /\ Crashes
  /\ \E c \in cs : pc[c] # "closed"
  /\ DropAll(cs)
  /\ posix' = Set(p, Bytes, "no")
  /\ nShared' = [nShared EXCEPT ![p] = 0] /\ nLock' = [nLock EXCEPT ![p] = 0]
  /\ eFileLock' = [eFileLock EXCEPT ![p] = NO_LOCK]
  /\ unused' = [unused EXCEPT ![p] = FALSE]
  /\ mutex' = [mutex EXCEPT ![p] = Free]
  /\ pc' = [c \in Conn |-> IF c \in cs THEN "closed" ELSE pc[c]]
  /\ want' = [c \in Conn |-> IF c \in cs THEN NO_LOCK ELSE want[c]]
  /\ raced' = raced \ {p}

-----------------------------------------------------------------------------

LockStep(c) ==
  \/ SharePending(c) \/ ShareRange(c) \/ DropPending(c)
  \/ ReserveByte(c) \/ ExcludePending(c) \/ ExcludeRange(c)

UnlockStep(c) == Downgrade(c) \/ Unreserve(c) \/ Leave(c)

CloseStep(c) == CloseCheck(c) \/ CloseFd(c)

UnixNext ==
  \/ \E c \in Conn :
       \/ Open(c) \/ CloseBegin(c) \/ CloseStep(c)
       \/ LockJoin(c) \/ \E l \in Levels : LockBegin(c, l)
       \/ LockStep(c)
       \/ \E l \in {NO_LOCK, SHARED_LOCK} : UnlockBegin(c, l)
       \/ UnlockStep(c)
  \/ \E p \in Proc : Crash(p)

UnixSpec == UnixInit /\ [][UnixNext]_vars

\* Calls return; whoever holds a SHARED lock ends its read or starts to write;
\* and the busy handler of a writer that reached PENDING keeps retrying, at
\* moments that are not for ever the wrong ones.
Retry(c)   == lock[c] = PENDING_LOCK /\ LockBegin(c, EXCLUSIVE_LOCK)
EndRead(c) == lock[c] = SHARED_LOCK /\ UnlockBegin(c, NO_LOCK)
Obtain(c)  == ExcludeRange(c) /\ lock'[c] = EXCLUSIVE_LOCK

FairSpec ==
  /\ UnixSpec
  /\ \A c \in Conn :
       /\ WF_vars(LockStep(c) \/ UnlockStep(c) \/ CloseStep(c))
       /\ SF_vars(Retry(c) \/ EndRead(c)) /\ SF_vars(Obtain(c))

-----------------------------------------------------------------------------

(* The level a connection has as far as it knows: SHARED from the moment   *)
(* the range is read-locked, the lower level from the moment posixUnlock   *)
(* starts.                                                                 *)
Believed(c) ==
  CASE pc[c] = "drop" -> SHARED_LOCK
    [] pc[c] \in InUnlock -> IF want[c] = CLOSE THEN NO_LOCK ELSE want[c]
    [] OTHER -> lock[c]

(* The level it has in the abstract lock: a lock call that began under the *)
(* eyes of a close() gives nothing, and neither does any later one of the  *)
(* process until it has given back all its locks.                          *)
Held(c) == IF ProcOf[c] \in raced THEN NO_LOCK ELSE Believed(c)

Abstract == INSTANCE FileLock WITH lock <- [c \in Conn |-> Held(c)]

(* The byte-range protocol, with closes and kills at any moment, implements *)
(* the five-level lock between the connections of the processes in which    *)
(* no call overlaps a close(); the others may lose their locks, but take    *)
(* none that those have.                                                   *)
ImplementsFileLock == Abstract!Spec

(* What the inode record of a process says, when no thread is inside the   *)
(* lock functions, is what the operating system has granted the process:   *)
(* otherwise another process is let in (the rule behind setPendingFd).  In *)
(* a process that an overlapping close() may have robbed, the system has   *)
(* granted at most what the record says, so that no lock is left behind.   *)
RecordMatchesSystem ==
  \A p \in Proc : mutex[p] = Free =>
    /\ eFileLock[p] = NO_LOCK => \A b \in Bytes : posix[b][p] = "no"
    /\ posix["SHARED"][p] = "wr" => eFileLock[p] = EXCLUSIVE_LOCK
    /\ posix["RESERVED"][p] = "wr" => eFileLock[p] >= RESERVED_LOCK
    /\ posix["PENDING"][p] = "wr" => eFileLock[p] >= PENDING_LOCK
    /\ p \notin raced =>
         /\ eFileLock[p] # NO_LOCK => posix["SHARED"][p] # "no"
         /\ eFileLock[p] = EXCLUSIVE_LOCK => posix["SHARED"][p] = "wr"
         /\ eFileLock[p] \in {RESERVED_LOCK, PENDING_LOCK} => posix["RESERVED"][p] = "wr"
         /\ eFileLock[p] = PENDING_LOCK => posix["PENDING"][p] = "wr"

(* The answer hasHotJournal relies on: a reader that asks, with no thread of *)
(* its process inside the lock functions, sees every writer there is and     *)
(* none that has gone (os_unix.c:1559; the writer may be of its own process, *)
(* whose locks fcntl() does not report).  A writer or a reader that a        *)
(* close() may have robbed is Held at NO_LOCK.                               *)
WritersAreSeen ==
  \A c \in Conn : Held(c) = SHARED_LOCK /\ mutex[ProcOf[c]] = Free =>
    /\ (\E d \in Conn : Held(d) >= RESERVED_LOCK) => ReservedSeen(c)
    /\ ReservedSeen(c) => \E d \in Conn \ {c} : lock[d] >= RESERVED_LOCK

(* "In theory, the call to unixFileLock() cannot fail because another      *)
(* process is holding an incompatible lock" (os_unix.c:2059): a writer that *)
(* goes back to SHARED is granted the read lock it asks for, or the pager   *)
(* would be left with a level it does not have, unless a close() in its    *)
(* own process may have taken its write lock.                              *)
DowngradeIsGranted ==
  \A c \in Conn : pc[c] = "downgrade" /\ ProcOf[c] \notin raced =>
    MayRead(ProcOf[c], "SHARED")

(* Never a connection with EXCLUSIVE beside one with any lock: "this       *)
(* ensures that no other locks are held on the database" (os_unix.c:1747). *)
ExclusiveAlone ==
  \A c \in Conn : Believed(c) = EXCLUSIVE_LOCK =>
    \A d \in Conn \ {c} : Believed(d) = NO_LOCK

Gap(p) ==
  nShared[p] = 0 \/ \E c \in Conn : ProcOf[c] = p /\ lock[c] = PENDING_LOCK

(* "A PENDING lock ... ensures that no new SHARED locks can be obtained, but *)
(* existing SHARED locks are allowed to persist" (os_unix.c:1750): a writer *)
(* that waits for the readers to leave is not overtaken for ever, when every *)
(* process is at times without a reader.  Without that it is not so:        *)
(* LockJoin does not look at the pending byte.                             *)
PendingGetsInAtGaps ==
  (\A p \in Proc : []<>Gap(p)) =>
    \A c \in Conn : Held(c) = PENDING_LOCK ~> Held(c) # PENDING_LOCK
-----------------------------------------------------------------------------
(* The inductive invariant: what every place in the code knows.            *)

Holders(p) == {c \in Conn : ProcOf[c] = p /\ lock[c] # NO_LOCK}

\* nShared counts the connections of the process that have a lock.
Counted ==
  \A p \in Proc :
    /\ IsFiniteSet(Holders(p)) /\ nShared[p] = Cardinality(Holders(p))
    /\ nLock[p] = nShared[p]

\* A call between two system calls has the mutex.
Guarded ==
  /\ \A c \in Conn : pc[c] \in InLock \cup InUnlock <=> mutex[ProcOf[c]] = c
  /\ \A p \in Proc : mutex[p] = Free \/ ProcOf[mutex[p]] = p

\* The level l and the request w of a connection at a place of the code (the
\* asserts of unixLock and posixUnlock).
LevelAt(at, w, l) ==
  /\ at \in Unlocked => w = NO_LOCK /\ (at # "idle" => l = NO_LOCK)
  /\ at = "pending" => \/ w = SHARED_LOCK /\ l = NO_LOCK
                       \/ w = EXCLUSIVE_LOCK /\ l = RESERVED_LOCK
  /\ at \in {"range", "drop", "dropBusy"} => w = SHARED_LOCK /\ l = NO_LOCK
  /\ at = "reserve" => w = RESERVED_LOCK /\ l = SHARED_LOCK
  /\ at = "exclude" => w = EXCLUSIVE_LOCK /\ l \in {SHARED_LOCK, PENDING_LOCK}
  /\ at = "downgrade" => w = SHARED_LOCK /\ l >= RESERVED_LOCK
  /\ at = "unreserve" => w \in {NO_LOCK, SHARED_LOCK, CLOSE} /\ l >= RESERVED_LOCK
  /\ at = "leave" => w \in {NO_LOCK, CLOSE} /\ l >= SHARED_LOCK

\* The record of the process then: a call that raises the level began with
\* the record at that level.
RecordAt(at, l, here) ==
  /\ l # NO_LOCK => here # NO_LOCK
  /\ at \in InLock => here = l
  /\ l > SHARED_LOCK => here = IF at = "leave" THEN SHARED_LOCK ELSE l

\* Levels two connections of a process may have.
Beside(l, k) == (l > SHARED_LOCK => k <= SHARED_LOCK) /\ (l = EXCLUSIVE_LOCK => k = NO_LOCK)

Recorded ==
  /\ \A c \in Conn : /\ LevelAt(pc[c], want[c], lock[c])
                     /\ RecordAt(pc[c], lock[c], eFileLock[ProcOf[c]])
                     /\ \A d \in Peers(c) \ {c} : Beside(lock[c], lock[d])
  /\ \A p \in Proc : eFileLock[p] # NO_LOCK =>
       \E c \in Holders(p) : eFileLock[p] \in {SHARED_LOCK, lock[c]}

CallInv == TypeInv /\ Counted /\ Guarded /\ Recorded

\* fcntl() never grants two processes locks that exclude each other.
Compatible ==
  \A b \in Bytes : \A p, q \in Proc : p # q /\ posix[b][p] = "wr" => posix[b][q] = "no"

\* A descriptor is being closed only while the process has no lock at all,
\* except for calls that began after the check.
ClosedUnlocked ==
  \A c \in Conn : pc[c] = "closing" /\ ProcOf[c] \notin raced =>
    \A d \in Peers(c) : lock[d] = NO_LOCK /\ pc[d] \in Unlocked

\* The locks s, r and n that the system has granted on the three ranges to a
\* process whose record says "here", whose thread in the lock functions is at
\* "at" with request w; x: one of its connections has EXCLUSIVE.  The system
\* never grants more than the record accounts for;
NoMoreThan(s, r, n, here, at, w, x) ==
  /\ here = NO_LOCK /\ at # "drop" => s = "no"
  /\ s = "wr" => x /\ ~(at = "unreserve" /\ w = SHARED_LOCK)
  /\ r # "no" => r = "wr" /\ here > SHARED_LOCK
  /\ n = "wr" => here >= PENDING_LOCK
  /\ n = "rd" => at \in {"range", "drop", "dropBusy"}

\* and no less, unless a close() may have come between.
NoLessThan(s, r, n, here, at) ==
  /\ s = "no" => here = NO_LOCK /\ at # "drop"
  /\ here = EXCLUSIVE_LOCK => s = "wr" \/ at = "unreserve"
  /\ here \in {RESERVED_LOCK, PENDING_LOCK} => r = "wr"
  /\ here = PENDING_LOCK => n = "wr"

GrantedAs(s, r, n, here, at, w, x, whole) ==
  /\ NoMoreThan(s, r, n, here, at, w, x)
  /\ whole => NoLessThan(s, r, n, here, at)

GrantedTo(p) ==
  LET inside == mutex[p]
  IN
  GrantedAs(posix["SHARED"][p], posix["RESERVED"][p], posix["PENDING"][p], eFileLock[p],
            IF inside = Free THEN "idle" ELSE pc[inside],
            IF inside = Free THEN NO_LOCK ELSE want[inside],
            \E c \in Conn : ProcOf[c] = p /\ lock[c] = EXCLUSIVE_LOCK,
            p \notin raced)

(* Between any two system calls: what a connection thinks it has, what the  *)
(* process's record says of it, and what the operating system has granted,  *)
(* agree as far as the place in the code requires, a close() that overlaps  *)
(* a lock call taking away at most the locks of its own process.           *)
UnixInv == CallInv /\ Compatible /\ ClosedUnlocked /\ \A p \in Proc : GrantedTo(p)
=============================================================================

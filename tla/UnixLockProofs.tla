--------------------------- MODULE UnixLockProofs ---------------------------
(***************************************************************************)
(* UnixLock implements FileLock, for any processes and connections, with    *)
(* files closed and processes killed at any moment: under the refinement    *)
(* mapping Held, in which a connection has no level while its process is in *)
(* "raced", because a close() that overlapped a lock call may have dropped   *)
(* the locks.  No other assumption is made on when files are closed.       *)
(***************************************************************************)
EXTENDS UnixLock, FiniteSetTheorems, TLAPS

USE DEF NO_LOCK, SHARED_LOCK, RESERVED_LOCK, PENDING_LOCK, EXCLUSIVE_LOCK, CLOSE, Levels

-----------------------------------------------------------------------------
(* How many connections of a process have a lock                           *)

\* A connection that changes its level enters or leaves the holders of its
\* own process.
LEMMA HoldersAfter ==
  ASSUME TypeInv, NEW c \in Conn, NEW l \in Levels,
         lock' = [lock EXCEPT ![c] = l], NEW p \in Proc
  PROVE  Holders(p)' = IF ProcOf[c] # p THEN Holders(p)
                       ELSE IF l # NO_LOCK THEN Holders(p) \cup {c} ELSE Holders(p) \ {c}
  BY DEF TypeInv, TypeOK, Holders

\* A holder is among those counted, and alone when one is counted.
LEMMA CountedHolder ==
  ASSUME Counted, NEW c \in Conn, ProcOf[c] \in Proc, lock[c] # NO_LOCK
  PROVE  /\ nShared[ProcOf[c]] \in Nat \ {0}
         /\ nShared[ProcOf[c]] <= 1 => \A d \in Peers(c) \ {c} : lock[d] = NO_LOCK
         /\ nShared[ProcOf[c]] # 1 => \E d \in Peers(c) \ {c} : lock[d] # NO_LOCK
  <1> DEFINE p == ProcOf[c]
  <1>1. c \in Holders(p)
    BY DEF Holders
  <1>2. IsFiniteSet(Holders(p)) /\ nShared[p] = Cardinality(Holders(p))
    BY DEF Counted
  <1>3. nShared[p] \in Nat \ {0}
    BY <1>1, <1>2, FS_CardinalityType, FS_EmptySet
  <1>4. ASSUME nShared[p] <= 1, NEW d \in Peers(c) \ {c} PROVE lock[d] = NO_LOCK
    <2>1. Cardinality(Holders(p)) = 1
      BY <1>2, <1>3, <1>4
    <2>2. PICK x : Holders(p) = {x}
      BY <1>2, <2>1, FS_Singleton
    <2> QED
      BY <1>1, <1>4, <2>2 DEF Holders, Peers
  <1>5. ASSUME \A d \in Peers(c) \ {c} : lock[d] = NO_LOCK PROVE nShared[p] = 1
    <2>1. Holders(p) = {c}
      BY <1>1, <1>5 DEF Holders, Peers
    <2> QED
      BY <1>2, <2>1, FS_Singleton
  <1> QED
    BY <1>3, <1>4, <1>5

\* Nobody holds a lock in a process whose record says so.
LEMMA CountedNone ==
  ASSUME Counted, NEW p \in Proc, \A c \in Conn : ProcOf[c] = p => lock[c] = NO_LOCK
  PROVE  Holders(p) = {} /\ nShared[p] = 0 /\ nLock[p] = 0
  BY FS_EmptySet DEF Counted, Holders

-----------------------------------------------------------------------------
(* CallInv is kept by every step                                           *)

\* Changes of level, for Counted.
LEMMA CountedAfter ==
  ASSUME TypeInv, Counted, NEW c \in Conn, NEW l \in Levels, lock' = [lock EXCEPT ![c] = l],
         LET p == ProcOf[c]
             n == IF lock[c] = NO_LOCK /\ l # NO_LOCK THEN nShared[p] + 1
                  ELSE IF lock[c] # NO_LOCK /\ l = NO_LOCK THEN nShared[p] - 1
                  ELSE nShared[p]
         IN  nShared' = [nShared EXCEPT ![p] = n] /\ nLock' = [nLock EXCEPT ![p] = n]
  PROVE  Counted'
  <1> SUFFICES ASSUME NEW p \in Proc
               PROVE  /\ IsFiniteSet(Holders(p)') /\ nShared'[p] = Cardinality(Holders(p)')
                      /\ nLock'[p] = nShared'[p]
    BY DEF Counted
  <1> USE ProcOfType DEF TypeInv, TypeOK
  <1>1. /\ IsFiniteSet(Holders(p)) /\ nShared[p] = Cardinality(Holders(p))
        /\ nLock[p] = nShared[p]
    BY DEF Counted
  <1>2. c \in Holders(p) <=> ProcOf[c] = p /\ lock[c] # NO_LOCK
    BY DEF Holders
  <1>3. CASE ProcOf[c] # p
    <2>1. Holders(p)' = Holders(p)
      BY <1>3, HoldersAfter
    <2> QED BY <1>1, <1>3, <2>1
  <1>4. CASE ProcOf[c] = p /\ l # NO_LOCK
    <2>1. Holders(p)' = Holders(p) \cup {c}
      BY <1>4, HoldersAfter
    <2>2. /\ IsFiniteSet(Holders(p) \cup {c})
          /\ Cardinality(Holders(p) \cup {c}) =
               IF c \in Holders(p) THEN Cardinality(Holders(p)) ELSE Cardinality(Holders(p)) + 1
      BY <1>1, FS_AddElement
    <2> QED BY <1>1, <1>2, <1>4, <2>1, <2>2
  <1>5. CASE ProcOf[c] = p /\ l = NO_LOCK
    <2>1. Holders(p)' = Holders(p) \ {c}
      BY <1>5, HoldersAfter
    <2>2. /\ IsFiniteSet(Holders(p) \ {c})
          /\ Cardinality(Holders(p) \ {c}) =
               IF c \in Holders(p) THEN Cardinality(Holders(p)) - 1 ELSE Cardinality(Holders(p))
      BY <1>1, FS_RemoveElement
    <2> QED BY <1>1, <1>2, <1>5, <2>1, <2>2
  <1> QED
    BY <1>3, <1>4, <1>5

Places == Unlocked \cup InLock \cup InUnlock

\* A step of connection c that leaves it at place "at" with request w and level
\* l, and the mutex and the record of its process at m and e.
StepTo(c, at, w, l, m, e) ==
  /\ pc' = [pc EXCEPT ![c] = at] /\ at \in Places
  /\ want' = [want EXCEPT ![c] = w] /\ w \in Levels \cup {CLOSE}
  /\ lock' = [lock EXCEPT ![c] = l] /\ l \in Levels
  /\ mutex' = [mutex EXCEPT ![ProcOf[c]] = m] /\ m \in Conn \cup {Free}
  /\ eFileLock' = [eFileLock EXCEPT ![ProcOf[c]] = e] /\ e \in Levels
  /\ raced' \subseteq Proc /\ \A q \in Proc \ {ProcOf[c]} : q \in raced' <=> q \in raced

Moves(c) == StepTo(c, pc'[c], want'[c], lock'[c], mutex'[ProcOf[c]], eFileLock'[ProcOf[c]])

\* What an action says of a step besides where it goes: types of what it
\* writes, and the count of the holders.
Count(c, l) ==
  LET n == nShared[ProcOf[c]] IN
  IF lock[c] = NO_LOCK /\ l # NO_LOCK THEN n + 1
  ELSE IF lock[c] # NO_LOCK /\ l = NO_LOCK THEN n - 1 ELSE n

Rest(c, l) ==
  /\ posix' \in [Bytes -> [Proc -> {"no", "rd", "wr"}]] /\ unused' \in [Proc -> BOOLEAN]
  /\ nShared' = [nShared EXCEPT ![ProcOf[c]] = Count(c, l)]
  /\ nLock' = [nLock EXCEPT ![ProcOf[c]] = Count(c, l)]

LEMMA RestIsCounted ==
  ASSUME CallInv, NEW c \in Conn, NEW l \in Levels, lock' = [lock EXCEPT ![c] = l], Rest(c, l)
  PROVE  /\ Counted' /\ nShared' \in [Proc -> Nat] /\ nLock' \in [Proc -> Nat]
         /\ posix' \in [Bytes -> [Proc -> {"no", "rd", "wr"}]] /\ unused' \in [Proc -> BOOLEAN]
  <1>1. Counted'
    BY CountedAfter DEF CallInv, Rest, Count
  <1>2. lock[c] # NO_LOCK => nShared[ProcOf[c]] \in Nat \ {0}
    BY CountedHolder, ProcOfType DEF CallInv
  <1>3. nShared[ProcOf[c]] \in Nat
    BY ProcOfType DEF CallInv, TypeInv
  <1>4. Count(c, l) \in Nat
    BY <1>2, <1>3 DEF Count
  <1>5. nShared' \in [Proc -> Nat] /\ nLock' \in [Proc -> Nat]
    BY <1>4 DEF CallInv, TypeInv, Rest
  <1> QED
    BY <1>1, <1>5 DEF Rest

\* What makes such a step right: the mutex is held or taken, the record agrees
\* with the level, and the other connections of the process can bear both.
Allowed(c, at, w, l, m, e) ==
  LET here == eFileLock[ProcOf[c]]
      held == mutex[ProcOf[c]]
  IN
  /\ LevelAt(at, w, l) /\ RecordAt(at, l, e)
  /\ at \in InLock \cup InUnlock <=> m = c
  /\ (m \in {Free, c} /\ held \in {Free, c}) \/ m = held
  /\ e = here \/ held \in {Free, c}

Borne(c, l, e) ==
  /\ \A d \in Peers(c) \ {c} :
       /\ Beside(l, lock[d]) /\ Beside(lock[d], l)
       /\ e # eFileLock[ProcOf[c]] =>
            lock[d] <= SHARED_LOCK /\ (lock[d] # NO_LOCK => e # NO_LOCK)
  /\ e # NO_LOCK => \/ l # NO_LOCK /\ e \in {SHARED_LOCK, l}
                    \/ \E d \in Peers(c) \ {c} : lock[d] # NO_LOCK /\ e \in {SHARED_LOCK, lock[d]}

LEMMA CallStep ==
  ASSUME CallInv, NEW c \in Conn, NEW at, NEW w, NEW l, NEW m, NEW e,
         StepTo(c, at, w, l, m, e), Rest(c, l), Allowed(c, at, w, l, m, e), Borne(c, l, e)
  PROVE  CallInv' /\ Moves(c)
  <1> DEFINE p == ProcOf[c]
  <1> USE ProcOfType, FreeIsNoConnection DEF StepTo, Places, Allowed, Borne
  <1>0. /\ Counted' /\ nShared' \in [Proc -> Nat] /\ nLock' \in [Proc -> Nat]
        /\ posix' \in [Bytes -> [Proc -> {"no", "rd", "wr"}]] /\ unused' \in [Proc -> BOOLEAN]
    BY RestIsCounted
  <1>1. TypeInv' /\ TypeInv
    BY <1>0 DEF CallInv, TypeInv, TypeOK
  <1>2. Guarded'
    <2>1. /\ pc'[c] = at /\ mutex'[p] = m
          /\ \A d \in Conn \ {c} : pc'[d] = pc[d]
          /\ \A q \in Proc \ {p} : mutex'[q] = mutex[q]
      BY <1>1 DEF TypeInv
    <2>2. ASSUME NEW d \in Conn
          PROVE  pc'[d] \in InLock \cup InUnlock <=> mutex'[ProcOf[d]] = d
      BY <2>1 DEF CallInv, Guarded, Free
    <2>3. ASSUME NEW q \in Proc PROVE mutex'[q] = Free \/ ProcOf[mutex'[q]] = q
      BY <2>1 DEF CallInv, Guarded
    <2> QED
      BY <2>2, <2>3 DEF Guarded
  <1>3. ASSUME NEW d \in Conn
        PROVE  /\ LevelAt(pc[d], want[d], lock[d])'
               /\ RecordAt(pc[d], lock[d], eFileLock[ProcOf[d]])'
               /\ \A x \in Peers(d) \ {d} : Beside(lock'[d], lock'[x])
    <2>1. CASE d = c
      BY <1>1, <2>1 DEF TypeInv, TypeOK, Peers
    <2>2. CASE d # c /\ ProcOf[d] # p
      <3>1. /\ pc'[d] = pc[d] /\ want'[d] = want[d] /\ lock'[d] = lock[d]
            /\ eFileLock'[ProcOf[d]] = eFileLock[ProcOf[d]]
            /\ \A x \in Peers(d) : lock'[x] = lock[x]
        BY <1>1, <2>2 DEF TypeInv, TypeOK, Peers
      <3> QED
        BY <3>1 DEF CallInv, Recorded
    <2>3. CASE d # c /\ ProcOf[d] = p
      <3>1. /\ pc'[d] = pc[d] /\ want'[d] = want[d] /\ lock'[d] = lock[d]
            /\ eFileLock'[ProcOf[d]] = e /\ d \in Peers(c) \ {c}
            /\ \A x \in Peers(d) \ {c} : lock'[x] = lock[x]
            /\ lock'[c] = l
        BY <1>1, <2>3 DEF TypeInv, TypeOK, Peers
      <3>2. LevelAt(pc[d], want[d], lock[d])'
        BY <3>1 DEF CallInv, Recorded
      <3>3. \A x \in Peers(d) \ {d} : Beside(lock'[d], lock'[x])
        BY <3>1 DEF CallInv, Recorded
      <3>4. CASE e = eFileLock[p]
        BY <2>3, <3>1, <3>2, <3>3, <3>4 DEF CallInv, Recorded
      <3>5. CASE e # eFileLock[p]
        <4>1. mutex[ProcOf[d]] # d
          BY <2>3, <3>5 DEF Free
        <4>2. pc[d] \notin InLock \cup InUnlock
          BY <4>1 DEF CallInv, Guarded
        <4> QED
          <5>1. lock[d] <= SHARED_LOCK /\ (lock[d] # NO_LOCK => e # NO_LOCK)
            BY <3>1, <3>5
          <5>2. RecordAt(pc[d], lock[d], e)
            <6>1. lock[d] \in Levels
              BY <1>1 DEF TypeInv, TypeOK
            <6> HIDE DEF StepTo, Places, Allowed, Borne
            <6> QED
              BY <4>2, <5>1, <6>1 DEF RecordAt
          <5> QED
            BY <3>1, <3>2, <3>3, <5>2
      <3> QED
        BY <3>4, <3>5
    <2> QED
      BY <2>1, <2>2, <2>3
  <1>4. ASSUME NEW q \in Proc, eFileLock'[q] # NO_LOCK
        PROVE  \E d \in Holders(q)' : eFileLock'[q] \in {SHARED_LOCK, lock'[d]}
    <2>1. CASE q = p
      <3>1. eFileLock'[q] = e
        BY <1>1, <2>1 DEF TypeInv
      <3>2. CASE l # NO_LOCK /\ e \in {SHARED_LOCK, l}
        BY <1>1, <2>1, <3>1, <3>2 DEF Holders, TypeInv, TypeOK
      <3>3. ASSUME NEW d \in Peers(c) \ {c}, lock[d] # NO_LOCK, e \in {SHARED_LOCK, lock[d]}
            PROVE  \E x \in Holders(q)' : eFileLock'[q] \in {SHARED_LOCK, lock'[x]}
        <4>1. lock'[d] = lock[d]
          BY <1>1, <3>3 DEF TypeInv, TypeOK, Peers
        <4> QED
          BY <1>1, <2>1, <3>1, <3>3, <4>1 DEF Holders, Peers
      <3> QED
        BY <1>4, <3>1, <3>2, <3>3
    <2>2. CASE q # p
      <3>0. Holders(q)' = Holders(q)
        BY <1>1, <2>2, HoldersAfter
      <3>1. eFileLock'[q] = eFileLock[q] /\ Holders(q)' = Holders(q)
        BY <1>1, <2>2, <3>0 DEF TypeInv
      <3>2. PICK d \in Holders(q) : eFileLock[q] \in {SHARED_LOCK, lock[d]}
        BY <1>4, <3>1 DEF CallInv, Recorded
      <3>3. lock'[d] = lock[d]
        BY <1>1, <2>2 DEF Holders, TypeInv, TypeOK
      <3> QED
        BY <3>1, <3>2, <3>3
    <2> QED
      BY <2>1, <2>2
  <1>5. Moves(c)
    <2>1. /\ pc'[c] = at /\ want'[c] = w /\ lock'[c] = l
          /\ mutex'[p] = m /\ eFileLock'[p] = e
      BY <1>1 DEF TypeInv, TypeOK
    <2> HIDE DEF StepTo
    <2> QED
      BY <2>1 DEF Moves
  <1> QED
    BY <1>0, <1>1, <1>2, <1>3, <1>4, <1>5 DEF CallInv, Recorded

\* What a connection may read off CallInv: about itself, and about the others
\* of its process.
Facts(c) ==
  LET p == ProcOf[c]
      e == eFileLock[p]
  IN
  /\ p \in Proc /\ lock[c] \in Levels /\ e \in Levels /\ c # Free
  /\ pc[c] \in Places /\ want[c] \in Levels \cup {CLOSE} /\ mutex[p] \in Conn \cup {Free}
  /\ nLock[p] = nShared[p] /\ nShared[p] \in Nat
  /\ pc[c] \in InLock \cup InUnlock <=> mutex[p] = c
  /\ LevelAt(pc[c], want[c], lock[c]) /\ RecordAt(pc[c], lock[c], e)
  /\ e = NO_LOCK => nShared[p] = 0

PeerFacts(c) ==
  LET e == eFileLock[ProcOf[c]] IN
  /\ \A d \in Peers(c) \ {c} :
       /\ d \in Conn /\ d # Free /\ ProcOf[d] = ProcOf[c] /\ lock[d] \in Levels
       /\ Beside(lock[c], lock[d]) /\ Beside(lock[d], lock[c])
       /\ lock[d] # NO_LOCK => e # NO_LOCK
       /\ lock[d] > SHARED_LOCK => \/ e = lock[d]
                                   \/ e = SHARED_LOCK /\ mutex[ProcOf[c]] = d
  /\ e # NO_LOCK => \E d \in Peers(c) : lock[d] # NO_LOCK /\ e \in {SHARED_LOCK, lock[d]}

LEMMA CallFacts ==
  ASSUME CallInv, NEW c \in Conn
  PROVE  TypeInv /\ Facts(c) /\ PeerFacts(c)
  <1> USE ProcOfType DEF CallInv
  <1>1. /\ TypeInv /\ ProcOf[c] \in Proc /\ eFileLock[ProcOf[c]] \in Levels
        /\ pc[c] \in Places /\ want[c] \in Levels \cup {CLOSE} /\ c # Free
        /\ mutex[ProcOf[c]] \in Conn \cup {Free}
        /\ lock[c] \in Levels /\ nShared[ProcOf[c]] \in Nat
    BY FreeIsNoConnection DEF TypeInv, TypeOK, Places, Free
  <1>2. eFileLock[ProcOf[c]] = NO_LOCK => nShared[ProcOf[c]] = 0
    <2> SUFFICES ASSUME eFileLock[ProcOf[c]] = NO_LOCK PROVE nShared[ProcOf[c]] = 0
      OBVIOUS
    <2>1. ASSUME NEW d \in Conn, ProcOf[d] = ProcOf[c] PROVE lock[d] = NO_LOCK
      BY <2>1 DEF Recorded, RecordAt
    <2> QED
      BY <1>1, <2>1, CountedNone
  <1>3. ASSUME NEW d \in Peers(c) \ {c}
        PROVE  /\ d \in Conn /\ d # Free /\ ProcOf[d] = ProcOf[c] /\ lock[d] \in Levels
               /\ Beside(lock[c], lock[d]) /\ Beside(lock[d], lock[c])
               /\ lock[d] # NO_LOCK => eFileLock[ProcOf[c]] # NO_LOCK
               /\ lock[d] > SHARED_LOCK =>
                    \/ eFileLock[ProcOf[c]] = lock[d]
                    \/ eFileLock[ProcOf[c]] = SHARED_LOCK /\ mutex[ProcOf[c]] = d
    <2>1. /\ d \in Conn /\ d # Free /\ ProcOf[d] = ProcOf[c] /\ lock[d] \in Levels
          /\ c \in Peers(d) \ {d}
      BY FreeIsNoConnection DEF Peers, TypeInv, TypeOK, Free
    <2>2. /\ RecordAt(pc[d], lock[d], eFileLock[ProcOf[c]])
          /\ Beside(lock[c], lock[d]) /\ Beside(lock[d], lock[c])
      BY <2>1 DEF Recorded
    <2>3. pc[d] = "leave" => mutex[ProcOf[c]] = d
      BY <2>1 DEF Guarded, InUnlock
    <2> QED
      BY <2>1, <2>2, <2>3 DEF RecordAt
  <1>4. eFileLock[ProcOf[c]] # NO_LOCK =>
          \E d \in Peers(c) : lock[d] # NO_LOCK /\ eFileLock[ProcOf[c]] \in {SHARED_LOCK, lock[d]}
    BY <1>1 DEF Recorded, Holders, Peers
  <1>5. PeerFacts(c)
    BY <1>3, <1>4 DEF PeerFacts
  <1>6. Facts(c)
    BY <1>1, <1>2 DEF Facts, Recorded, Guarded, Counted
  <1> QED
    BY <1>1, <1>5, <1>6

\* Byte-range locks set by one process.
LEMMA SetTyped ==
  ASSUME TypeInv, NEW p \in Proc, NEW bs, NEW l \in {"no", "rd", "wr"}
  PROVE  Set(p, bs, l) \in [Bytes -> [Proc -> {"no", "rd", "wr"}]]
  BY DEF Set, TypeInv

LEMMA OpenKept ==
  ASSUME CallInv, NEW c \in Conn, Open(c)
  PROVE  CallInv' /\ Moves(c)
  <1>0. TypeInv /\ Facts(c) /\ PeerFacts(c)
    BY CallFacts
  <1> USE DEF Open, inodeVars
  <1>a. lock[c] = NO_LOCK
    BY <1>0 DEF TypeInv, Goto, Unlocked, InLock, InUnlock, LevelAt, RecordAt, Places, Free, Facts
  <1>1. StepTo(c, "idle", NO_LOCK, NO_LOCK, mutex[ProcOf[c]], eFileLock[ProcOf[c]])
    BY <1>0, <1>a DEF StepTo, TypeInv, TypeOK, Goto, Unlocked, InLock, InUnlock, LevelAt, RecordAt, Places, Free, Facts
  <1>2. Rest(c, NO_LOCK)
    BY <1>0, <1>a, SetTyped DEF Rest, Count, TypeInv, Facts
  <1>3. Allowed(c, "idle", NO_LOCK, NO_LOCK, mutex[ProcOf[c]], eFileLock[ProcOf[c]])
    BY <1>0, <1>a DEF Allowed, Goto, Unlocked, InLock, InUnlock, LevelAt, RecordAt, Places, Free, Facts
  <1>4. Borne(c, NO_LOCK, eFileLock[ProcOf[c]])
    BY <1>0, <1>a DEF Borne, PeerFacts, Beside, Facts
  <1> HIDE DEF Open
  <1> QED
    BY <1>1, <1>2, <1>3, <1>4, CallStep

LEMMA LockJoinKept ==
  ASSUME CallInv, NEW c \in Conn, LockJoin(c)
  PROVE  CallInv' /\ Moves(c)
  <1>0. TypeInv /\ Facts(c) /\ PeerFacts(c)
    BY CallFacts
  <1> USE DEF LockJoin, MayEnter, Legal, PrecludedHere, inodeVars
  <1>a. lock[c] = NO_LOCK /\ eFileLock[ProcOf[c]] \in {SHARED_LOCK, RESERVED_LOCK}
    BY <1>0 DEF TypeInv, Goto, Unlocked, InLock, InUnlock, LevelAt, RecordAt, Places, Free, Facts
  <1>1. StepTo(c, "idle", NO_LOCK, SHARED_LOCK, mutex[ProcOf[c]], eFileLock[ProcOf[c]])
    BY <1>0, <1>a DEF StepTo, TypeInv, TypeOK, Goto, Unlocked, InLock, InUnlock, LevelAt, RecordAt, Places, Free, Facts
  <1>2. Rest(c, SHARED_LOCK)
    BY <1>0, <1>a, SetTyped DEF Rest, Count, TypeInv, Facts
  <1>3. Allowed(c, "idle", NO_LOCK, SHARED_LOCK, mutex[ProcOf[c]], eFileLock[ProcOf[c]])
    BY <1>0, <1>a DEF Allowed, Goto, Unlocked, InLock, InUnlock, LevelAt, RecordAt, Places, Free, Facts
  <1>4. Borne(c, SHARED_LOCK, eFileLock[ProcOf[c]])
    BY <1>0, <1>a DEF Borne, PeerFacts, Beside, Facts
  <1> HIDE DEF LockJoin, MayEnter, Legal, PrecludedHere
  <1> QED
    BY <1>1, <1>2, <1>3, <1>4, CallStep

LEMMA LockBeginKept ==
  ASSUME CallInv, NEW c \in Conn, NEW l \in Levels, LockBegin(c, l)
  PROVE  CallInv' /\ Moves(c)
  <1>0. TypeInv /\ Facts(c) /\ PeerFacts(c)
    BY CallFacts
  <1> USE DEF LockBegin, MayEnter, Legal, PrecludedHere, inodeVars
  <1>a. /\ pc'[c] \in {"pending", "reserve", "exclude"} /\ mutex[ProcOf[c]] = Free /\ eFileLock[ProcOf[c]] = lock[c]
        /\ pc'[c] = "pending" => (l = SHARED_LOCK /\ lock[c] = NO_LOCK) \/ (l = EXCLUSIVE_LOCK /\ lock[c] = RESERVED_LOCK)
        /\ pc'[c] = "reserve" => l = RESERVED_LOCK /\ lock[c] = SHARED_LOCK
        /\ pc'[c] = "exclude" => l = EXCLUSIVE_LOCK /\ lock[c] \in {SHARED_LOCK, PENDING_LOCK}
    <2>1. /\ mutex[ProcOf[c]] = Free /\ pc[c] = "idle"
          /\ l \in {SHARED_LOCK, RESERVED_LOCK, EXCLUSIVE_LOCK}
          /\ eFileLock[ProcOf[c]] = lock[c]
          /\ l = SHARED_LOCK => lock[c] = NO_LOCK
          /\ l = RESERVED_LOCK => lock[c] = SHARED_LOCK
          /\ l = EXCLUSIVE_LOCK => lock[c] \in SHARED_LOCK .. PENDING_LOCK
      BY <1>0 DEF Facts
    <2>2. /\ l = SHARED_LOCK => pc'[c] = "pending"
          /\ l = RESERVED_LOCK => pc'[c] = "reserve"
          /\ l = EXCLUSIVE_LOCK => pc'[c] = IF lock[c] = RESERVED_LOCK THEN "pending" ELSE "exclude"
      BY <1>0 DEF TypeInv, Goto
    <2> HIDE DEF LockBegin
    <2> QED
      BY <2>1, <2>2
  <1>1. StepTo(c, pc'[c], l, lock[c], c, eFileLock[ProcOf[c]])
    BY <1>0, <1>a DEF StepTo, TypeInv, TypeOK, Goto, Unlocked, InLock, InUnlock, LevelAt, RecordAt, Places, Free, Facts
  <1>2. Rest(c, lock[c])
    BY <1>0, <1>a, SetTyped DEF Rest, Count, TypeInv, Facts
  <1>3. Allowed(c, pc'[c], l, lock[c], c, eFileLock[ProcOf[c]])
    BY <1>0, <1>a DEF Allowed, Goto, Unlocked, InLock, InUnlock, LevelAt, RecordAt, Places, Free, Facts
  <1>4. Borne(c, lock[c], eFileLock[ProcOf[c]])
    BY <1>0, <1>a DEF Borne, PeerFacts, Beside, Facts
  <1> HIDE DEF LockBegin, MayEnter, Legal, PrecludedHere
  <1> QED
    BY <1>1, <1>2, <1>3, <1>4, CallStep

LEMMA BusyKept ==
  ASSUME CallInv, NEW c \in Conn, pc[c] \in InLock \cup {"downgrade"}, Busy(c)
  PROVE  CallInv' /\ Moves(c)
  <1>0. TypeInv /\ Facts(c) /\ PeerFacts(c)
    BY CallFacts
  <1> USE DEF Busy, Return, inodeVars
  <1>a. mutex[ProcOf[c]] = c /\ eFileLock[ProcOf[c]] = lock[c]
    BY <1>0 DEF TypeInv, Goto, Unlocked, InLock, InUnlock, LevelAt, RecordAt, Places, Free, Facts
  <1>1. StepTo(c, "idle", NO_LOCK, lock[c], Free, eFileLock[ProcOf[c]])
    BY <1>0, <1>a DEF StepTo, TypeInv, TypeOK, Goto, Unlocked, InLock, InUnlock, LevelAt, RecordAt, Places, Free, Facts
  <1>2. Rest(c, lock[c])
    BY <1>0, <1>a, SetTyped DEF Rest, Count, TypeInv, Facts
  <1>3. Allowed(c, "idle", NO_LOCK, lock[c], Free, eFileLock[ProcOf[c]])
    BY <1>0, <1>a DEF Allowed, Goto, Unlocked, InLock, InUnlock, LevelAt, RecordAt, Places, Free, Facts
  <1>4. Borne(c, lock[c], eFileLock[ProcOf[c]])
    BY <1>0, <1>a DEF Borne, PeerFacts, Beside, Facts
  <1> HIDE DEF Busy, Return
  <1> QED
    BY <1>1, <1>2, <1>3, <1>4, CallStep

LEMMA SharePendingKept ==
  ASSUME CallInv, NEW c \in Conn, SharePending(c)
  PROVE  CallInv' /\ Moves(c)
  <1>0. TypeInv /\ Facts(c) /\ PeerFacts(c)
    BY CallFacts
  <1> USE DEF SharePending, inodeVars
  <1>1. CASE MayRead(ProcOf[c], "PENDING")
    <2>a. mutex[ProcOf[c]] = c /\ lock[c] = NO_LOCK /\ eFileLock[ProcOf[c]] = NO_LOCK
      BY <1>0, <1>1 DEF TypeInv, Goto, Unlocked, InLock, InUnlock, LevelAt, RecordAt, Places, Free, Facts
    <2>1. StepTo(c, "range", SHARED_LOCK, NO_LOCK, c, eFileLock[ProcOf[c]])
      BY <1>0, <1>1, <2>a DEF StepTo, TypeInv, TypeOK, Goto, Unlocked, InLock, InUnlock, LevelAt, RecordAt, Places, Free, Facts
    <2>2. Rest(c, NO_LOCK)
      BY <1>0, <1>1, <2>a, SetTyped DEF Rest, Count, TypeInv, Facts
    <2>3. Allowed(c, "range", SHARED_LOCK, NO_LOCK, c, eFileLock[ProcOf[c]])
      BY <1>0, <1>1, <2>a DEF Allowed, Goto, Unlocked, InLock, InUnlock, LevelAt, RecordAt, Places, Free, Facts
    <2>4. Borne(c, NO_LOCK, eFileLock[ProcOf[c]])
      BY <1>0, <1>1, <2>a DEF Borne, PeerFacts, Beside, Facts
    <2> HIDE DEF SharePending
    <2> QED
      BY <2>1, <2>2, <2>3, <2>4, CallStep
  <1>2. CASE ~MayRead(ProcOf[c], "PENDING")
      BY <1>0, <1>2, BusyKept DEF Goto, Unlocked, InLock, InUnlock, LevelAt, RecordAt, Places, Free, Facts
  <1> QED
    BY <1>1, <1>2

LEMMA ShareRangeKept ==
  ASSUME CallInv, NEW c \in Conn, ShareRange(c)
  PROVE  CallInv' /\ Moves(c)
  <1>0. TypeInv /\ Facts(c) /\ PeerFacts(c)
    BY CallFacts
  <1> USE DEF ShareRange, inodeVars
  <1>a. mutex[ProcOf[c]] = c /\ lock[c] = NO_LOCK /\ eFileLock[ProcOf[c]] = NO_LOCK /\ want[c] = SHARED_LOCK /\ pc'[c] \in {"drop", "dropBusy"}
    BY <1>0 DEF TypeInv, Goto, Unlocked, InLock, InUnlock, LevelAt, RecordAt, Places, Free, Facts
  <1>1. StepTo(c, pc'[c], SHARED_LOCK, NO_LOCK, c, eFileLock[ProcOf[c]])
    BY <1>0, <1>a DEF StepTo, TypeInv, TypeOK, Goto, Unlocked, InLock, InUnlock, LevelAt, RecordAt, Places, Free, Facts
  <1>2. Rest(c, NO_LOCK)
    BY <1>0, <1>a, SetTyped DEF Rest, Count, TypeInv, Facts
  <1>3. Allowed(c, pc'[c], SHARED_LOCK, NO_LOCK, c, eFileLock[ProcOf[c]])
    BY <1>0, <1>a DEF Allowed, Goto, Unlocked, InLock, InUnlock, LevelAt, RecordAt, Places, Free, Facts
  <1>4. Borne(c, NO_LOCK, eFileLock[ProcOf[c]])
    BY <1>0, <1>a DEF Borne, PeerFacts, Beside, Facts
  <1> HIDE DEF ShareRange
  <1> QED
    BY <1>1, <1>2, <1>3, <1>4, CallStep

LEMMA DropPendingKept ==
  ASSUME CallInv, NEW c \in Conn, DropPending(c)
  PROVE  CallInv' /\ Moves(c)
  <1>0. TypeInv /\ Facts(c) /\ PeerFacts(c)
    BY CallFacts
  <1> USE DEF DropPending, Return, Granted, inodeVars
  <1>1. CASE pc[c] = "drop"
    <2>a. mutex[ProcOf[c]] = c /\ lock[c] = NO_LOCK /\ eFileLock[ProcOf[c]] = NO_LOCK /\ nShared[ProcOf[c]] = 0
      BY <1>0, <1>1 DEF TypeInv, Goto, Unlocked, InLock, InUnlock, LevelAt, RecordAt, Places, Free, Facts
    <2>1. StepTo(c, "idle", NO_LOCK, SHARED_LOCK, Free, SHARED_LOCK)
      BY <1>0, <1>1, <2>a DEF StepTo, TypeInv, TypeOK, Goto, Unlocked, InLock, InUnlock, LevelAt, RecordAt, Places, Free, Facts
    <2>2. Rest(c, SHARED_LOCK)
      BY <1>0, <1>1, <2>a, SetTyped DEF Rest, Count, TypeInv, Facts
    <2>3. Allowed(c, "idle", NO_LOCK, SHARED_LOCK, Free, SHARED_LOCK)
      BY <1>0, <1>1, <2>a DEF Allowed, Goto, Unlocked, InLock, InUnlock, LevelAt, RecordAt, Places, Free, Facts
    <2>4. Borne(c, SHARED_LOCK, SHARED_LOCK)
      BY <1>0, <1>1, <2>a DEF Borne, PeerFacts, Beside, Facts
    <2> HIDE DEF DropPending, Return, Granted
    <2> QED
      BY <2>1, <2>2, <2>3, <2>4, CallStep
  <1>2. CASE pc[c] = "dropBusy"
    <2>a. mutex[ProcOf[c]] = c /\ lock[c] = NO_LOCK /\ eFileLock[ProcOf[c]] = NO_LOCK /\ nShared[ProcOf[c]] = 0
      BY <1>0, <1>2 DEF TypeInv, Goto, Unlocked, InLock, InUnlock, LevelAt, RecordAt, Places, Free, Facts
    <2>1. StepTo(c, "idle", NO_LOCK, NO_LOCK, Free, eFileLock[ProcOf[c]])
      BY <1>0, <1>2, <2>a DEF StepTo, TypeInv, TypeOK, Goto, Unlocked, InLock, InUnlock, LevelAt, RecordAt, Places, Free, Facts
    <2>2. Rest(c, NO_LOCK)
      BY <1>0, <1>2, <2>a, SetTyped DEF Rest, Count, TypeInv, Facts
    <2>3. Allowed(c, "idle", NO_LOCK, NO_LOCK, Free, eFileLock[ProcOf[c]])
      BY <1>0, <1>2, <2>a DEF Allowed, Goto, Unlocked, InLock, InUnlock, LevelAt, RecordAt, Places, Free, Facts
    <2>4. Borne(c, NO_LOCK, eFileLock[ProcOf[c]])
      BY <1>0, <1>2, <2>a DEF Borne, PeerFacts, Beside, Facts
    <2> HIDE DEF DropPending, Return, Granted
    <2> QED
      BY <2>1, <2>2, <2>3, <2>4, CallStep
  <1> QED
    BY <1>1, <1>2, <1>0 DEF Facts

LEMMA ReserveByteKept ==
  ASSUME CallInv, NEW c \in Conn, ReserveByte(c)
  PROVE  CallInv' /\ Moves(c)
  <1>0. TypeInv /\ Facts(c) /\ PeerFacts(c)
    BY CallFacts
  <1> USE DEF ReserveByte, Return, Granted, inodeVars
  <1>1. CASE MayWrite(ProcOf[c], "RESERVED")
    <2>a. mutex[ProcOf[c]] = c /\ lock[c] = SHARED_LOCK /\ eFileLock[ProcOf[c]] = SHARED_LOCK
      BY <1>0, <1>1 DEF TypeInv, Goto, Unlocked, InLock, InUnlock, LevelAt, RecordAt, Places, Free, Facts
    <2>1. StepTo(c, "idle", NO_LOCK, RESERVED_LOCK, Free, RESERVED_LOCK)
      BY <1>0, <1>1, <2>a DEF StepTo, TypeInv, TypeOK, Goto, Unlocked, InLock, InUnlock, LevelAt, RecordAt, Places, Free, Facts
    <2>2. Rest(c, RESERVED_LOCK)
      BY <1>0, <1>1, <2>a, SetTyped DEF Rest, Count, TypeInv, Facts
    <2>3. Allowed(c, "idle", NO_LOCK, RESERVED_LOCK, Free, RESERVED_LOCK)
      BY <1>0, <1>1, <2>a DEF Allowed, Goto, Unlocked, InLock, InUnlock, LevelAt, RecordAt, Places, Free, Facts
    <2>4. Borne(c, RESERVED_LOCK, RESERVED_LOCK)
      BY <1>0, <1>1, <2>a DEF Borne, PeerFacts, Beside, Facts
    <2> HIDE DEF ReserveByte, Return, Granted
    <2> QED
      BY <2>1, <2>2, <2>3, <2>4, CallStep
  <1>2. CASE ~MayWrite(ProcOf[c], "RESERVED")
      BY <1>0, <1>2, BusyKept DEF Goto, Unlocked, InLock, InUnlock, LevelAt, RecordAt, Places, Free, Facts
  <1> QED
    BY <1>1, <1>2

LEMMA ExcludePendingKept ==
  ASSUME CallInv, NEW c \in Conn, ExcludePending(c)
  PROVE  CallInv' /\ Moves(c)
  <1>0. TypeInv /\ Facts(c) /\ PeerFacts(c)
    BY CallFacts
  <1> USE DEF ExcludePending, Granted, inodeVars
  <1>1. CASE MayWrite(ProcOf[c], "PENDING")
    <2>a. mutex[ProcOf[c]] = c /\ lock[c] = RESERVED_LOCK /\ eFileLock[ProcOf[c]] = RESERVED_LOCK
      BY <1>0, <1>1 DEF TypeInv, Goto, Unlocked, InLock, InUnlock, LevelAt, RecordAt, Places, Free, Facts
    <2>1. StepTo(c, "exclude", EXCLUSIVE_LOCK, PENDING_LOCK, c, PENDING_LOCK)
      BY <1>0, <1>1, <2>a DEF StepTo, TypeInv, TypeOK, Goto, Unlocked, InLock, InUnlock, LevelAt, RecordAt, Places, Free, Facts
    <2>2. Rest(c, PENDING_LOCK)
      BY <1>0, <1>1, <2>a, SetTyped DEF Rest, Count, TypeInv, Facts
    <2>3. Allowed(c, "exclude", EXCLUSIVE_LOCK, PENDING_LOCK, c, PENDING_LOCK)
      BY <1>0, <1>1, <2>a DEF Allowed, Goto, Unlocked, InLock, InUnlock, LevelAt, RecordAt, Places, Free, Facts
    <2>4. Borne(c, PENDING_LOCK, PENDING_LOCK)
      BY <1>0, <1>1, <2>a DEF Borne, PeerFacts, Beside, Facts
    <2> HIDE DEF ExcludePending, Granted
    <2> QED
      BY <2>1, <2>2, <2>3, <2>4, CallStep
  <1>2. CASE ~MayWrite(ProcOf[c], "PENDING")
      BY <1>0, <1>2, BusyKept DEF Goto, Unlocked, InLock, InUnlock, LevelAt, RecordAt, Places, Free, Facts
  <1> QED
    BY <1>1, <1>2

LEMMA ExcludeRangeKept ==
  ASSUME CallInv, NEW c \in Conn, ExcludeRange(c)
  PROVE  CallInv' /\ Moves(c)
  <1>0. TypeInv /\ Facts(c) /\ PeerFacts(c)
    BY CallFacts
  <1> USE DEF ExcludeRange, Return, Granted, inodeVars
  <1>1. CASE nShared[ProcOf[c]] <= 1 /\ MayWrite(ProcOf[c], "SHARED")
    <2>a. mutex[ProcOf[c]] = c /\ lock[c] \in {SHARED_LOCK, PENDING_LOCK} /\ eFileLock[ProcOf[c]] = lock[c]
      BY <1>0, <1>1 DEF TypeInv, Goto, Unlocked, InLock, InUnlock, LevelAt, RecordAt, Places, Free, Facts
    <2>b. /\ nShared[ProcOf[c]] \in Nat \ {0}
          /\ nShared[ProcOf[c]] <= 1 => \A d \in Peers(c) \ {c} : lock[d] = NO_LOCK
          /\ nShared[ProcOf[c]] # 1 => \E d \in Peers(c) \ {c} : lock[d] # NO_LOCK
      BY CountedHolder, <1>0, <2>a DEF CallInv, Facts
    <2>1. StepTo(c, "idle", NO_LOCK, EXCLUSIVE_LOCK, Free, EXCLUSIVE_LOCK)
      BY <1>0, <1>1, <2>a DEF StepTo, TypeInv, TypeOK, Goto, Unlocked, InLock, InUnlock, LevelAt, RecordAt, Places, Free, Facts
    <2>2. Rest(c, EXCLUSIVE_LOCK)
      BY <1>0, <1>1, <2>a, <2>b, SetTyped DEF Rest, Count, TypeInv, Facts
    <2>3. Allowed(c, "idle", NO_LOCK, EXCLUSIVE_LOCK, Free, EXCLUSIVE_LOCK)
      BY <1>0, <1>1, <2>a DEF Allowed, Goto, Unlocked, InLock, InUnlock, LevelAt, RecordAt, Places, Free, Facts
    <2>4. Borne(c, EXCLUSIVE_LOCK, EXCLUSIVE_LOCK)
      BY <1>0, <1>1, <2>a, <2>b DEF Borne, PeerFacts, Beside, Facts
    <2> HIDE DEF ExcludeRange, Return, Granted
    <2> QED
      BY <2>1, <2>2, <2>3, <2>4, CallStep
  <1>2. CASE ~(nShared[ProcOf[c]] <= 1 /\ MayWrite(ProcOf[c], "SHARED"))
      BY <1>0, <1>2, BusyKept DEF Goto, Unlocked, InLock, InUnlock, LevelAt, RecordAt, Places, Free, Facts
  <1> QED
    BY <1>1, <1>2

LEMMA UnlockToKept ==
  ASSUME CallInv, NEW c \in Conn, NEW l \in {NO_LOCK, SHARED_LOCK}, NEW why, why = l \/ (why = CLOSE /\ l = NO_LOCK),
         pc[c] = "idle", MayEnter(c), UnlockTo(c, l, why)
  PROVE  CallInv' /\ Moves(c)
  <1>0. TypeInv /\ Facts(c) /\ PeerFacts(c)
    BY CallFacts
  <1> USE DEF UnlockTo, MayEnter, inodeVars
  <1>a. /\ mutex[ProcOf[c]] = Free /\ lock[c] # NO_LOCK
        /\ lock[c] = SHARED_LOCK => pc'[c] = "leave" /\ l = NO_LOCK
        /\ lock[c] > SHARED_LOCK => pc'[c] = IF l = SHARED_LOCK THEN "downgrade" ELSE "unreserve"
        /\ pc' = [pc EXCEPT ![c] = pc'[c]]
    BY <1>0 DEF TypeInv, Goto, Unlocked, InLock, InUnlock, LevelAt, RecordAt, Places, Free, Facts
  <1>1. StepTo(c, pc'[c], why, lock[c], c, eFileLock[ProcOf[c]])
    BY <1>0, <1>a DEF StepTo, TypeInv, TypeOK, Goto, Unlocked, InLock, InUnlock, LevelAt, RecordAt, Places, Free, Facts
  <1>2. Rest(c, lock[c])
    BY <1>0, <1>a, SetTyped DEF Rest, Count, TypeInv, Facts
  <1>3. Allowed(c, pc'[c], why, lock[c], c, eFileLock[ProcOf[c]])
    BY <1>0, <1>a DEF Allowed, Goto, Unlocked, InLock, InUnlock, LevelAt, RecordAt, Places, Free, Facts
  <1>4. Borne(c, lock[c], eFileLock[ProcOf[c]])
    BY <1>0, <1>a DEF Borne, PeerFacts, Beside, Facts
  <1> HIDE DEF UnlockTo, MayEnter
  <1> QED
    BY <1>1, <1>2, <1>3, <1>4, CallStep

LEMMA UnlockBeginKept ==
  ASSUME CallInv, NEW c \in Conn, NEW l \in {NO_LOCK, SHARED_LOCK}, UnlockBegin(c, l)
  PROVE  CallInv' /\ Moves(c)
  <1> USE DEF UnlockBegin, inodeVars
  <1> QED
    BY UnlockToKept DEF MayEnter

LEMMA DowngradeKept ==
  ASSUME CallInv, NEW c \in Conn, Downgrade(c)
  PROVE  CallInv' /\ Moves(c)
  <1>0. TypeInv /\ Facts(c) /\ PeerFacts(c)
    BY CallFacts
  <1> USE DEF Downgrade, inodeVars
  <1>1. CASE MayRead(ProcOf[c], "SHARED")
    <2>a. mutex[ProcOf[c]] = c /\ lock[c] >= RESERVED_LOCK /\ eFileLock[ProcOf[c]] = lock[c] /\ want[c] = SHARED_LOCK
      BY <1>0, <1>1 DEF TypeInv, Goto, Unlocked, InLock, InUnlock, LevelAt, RecordAt, Places, Free, Facts
    <2>1. StepTo(c, "unreserve", SHARED_LOCK, lock[c], c, eFileLock[ProcOf[c]])
      BY <1>0, <1>1, <2>a DEF StepTo, TypeInv, TypeOK, Goto, Unlocked, InLock, InUnlock, LevelAt, RecordAt, Places, Free, Facts
    <2>2. Rest(c, lock[c])
      BY <1>0, <1>1, <2>a, SetTyped DEF Rest, Count, TypeInv, Facts
    <2>3. Allowed(c, "unreserve", SHARED_LOCK, lock[c], c, eFileLock[ProcOf[c]])
      BY <1>0, <1>1, <2>a DEF Allowed, Goto, Unlocked, InLock, InUnlock, LevelAt, RecordAt, Places, Free, Facts
    <2>4. Borne(c, lock[c], eFileLock[ProcOf[c]])
      BY <1>0, <1>1, <2>a DEF Borne, PeerFacts, Beside, Facts
    <2> HIDE DEF Downgrade
    <2> QED
      BY <2>1, <2>2, <2>3, <2>4, CallStep
  <1>2. CASE ~MayRead(ProcOf[c], "SHARED")
    BY <1>2, BusyKept
  <1> QED
    BY <1>1, <1>2

LEMMA UnreserveKept ==
  ASSUME CallInv, NEW c \in Conn, Unreserve(c)
  PROVE  CallInv' /\ Moves(c)
  <1>0. TypeInv /\ Facts(c) /\ PeerFacts(c)
    BY CallFacts
  <1> USE DEF Unreserve, Return, inodeVars
  <1>1. CASE want[c] = SHARED_LOCK
    <2>a. mutex[ProcOf[c]] = c /\ lock[c] >= RESERVED_LOCK /\ eFileLock[ProcOf[c]] = lock[c]
      BY <1>0, <1>1 DEF TypeInv, Goto, Unlocked, InLock, InUnlock, LevelAt, RecordAt, Places, Free, Facts
    <2>1. StepTo(c, "idle", NO_LOCK, SHARED_LOCK, Free, SHARED_LOCK)
      BY <1>0, <1>1, <2>a DEF StepTo, TypeInv, TypeOK, Goto, Unlocked, InLock, InUnlock, LevelAt, RecordAt, Places, Free, Facts
    <2>2. Rest(c, SHARED_LOCK)
      BY <1>0, <1>1, <2>a, SetTyped DEF Rest, Count, TypeInv, Facts
    <2>3. Allowed(c, "idle", NO_LOCK, SHARED_LOCK, Free, SHARED_LOCK)
      BY <1>0, <1>1, <2>a DEF Allowed, Goto, Unlocked, InLock, InUnlock, LevelAt, RecordAt, Places, Free, Facts
    <2>4. Borne(c, SHARED_LOCK, SHARED_LOCK)
      BY <1>0, <1>1, <2>a DEF Borne, PeerFacts, Beside, Facts
    <2> HIDE DEF Unreserve, Return
    <2> QED
      BY <2>1, <2>2, <2>3, <2>4, CallStep
  <1>2. CASE want[c] # SHARED_LOCK
    <2>a. mutex[ProcOf[c]] = c /\ lock[c] >= RESERVED_LOCK /\ eFileLock[ProcOf[c]] = lock[c]
      BY <1>0, <1>2 DEF TypeInv, Goto, Unlocked, InLock, InUnlock, LevelAt, RecordAt, Places, Free, Facts
    <2>1. StepTo(c, "leave", want[c], lock[c], c, SHARED_LOCK)
      BY <1>0, <1>2, <2>a DEF StepTo, TypeInv, TypeOK, Goto, Unlocked, InLock, InUnlock, LevelAt, RecordAt, Places, Free, Facts
    <2>2. Rest(c, lock[c])
      BY <1>0, <1>2, <2>a, SetTyped DEF Rest, Count, TypeInv, Facts
    <2>3. Allowed(c, "leave", want[c], lock[c], c, SHARED_LOCK)
      BY <1>0, <1>2, <2>a DEF Allowed, Goto, Unlocked, InLock, InUnlock, LevelAt, RecordAt, Places, Free, Facts
    <2>4. Borne(c, lock[c], SHARED_LOCK)
      BY <1>0, <1>2, <2>a DEF Borne, PeerFacts, Beside, Facts
    <2> HIDE DEF Unreserve, Return
    <2> QED
      BY <2>1, <2>2, <2>3, <2>4, CallStep
  <1> QED
    BY <1>1, <1>2

LEMMA LeaveKept ==
  ASSUME CallInv, NEW c \in Conn, Leave(c)
  PROVE  CallInv' /\ Moves(c)
  <1>0. TypeInv /\ Facts(c) /\ PeerFacts(c)
    BY CallFacts
  <1> USE DEF Leave, inodeVars
  <1>a. /\ mutex[ProcOf[c]] = c /\ lock[c] # NO_LOCK /\ pc'[c] \in {"check", "idle"}
        /\ lock[c] > SHARED_LOCK => eFileLock[ProcOf[c]] = SHARED_LOCK
        /\ eFileLock'[ProcOf[c]] = IF nShared[ProcOf[c]] = 1 THEN NO_LOCK ELSE eFileLock[ProcOf[c]]
        /\ pc' = [pc EXCEPT ![c] = pc'[c]]
        /\ eFileLock' = [eFileLock EXCEPT ![ProcOf[c]] = eFileLock'[ProcOf[c]]]
        /\ eFileLock'[ProcOf[c]] \in Levels
    <2>1. mutex[ProcOf[c]] = c /\ lock[c] # NO_LOCK /\ (lock[c] > SHARED_LOCK => eFileLock[ProcOf[c]] = SHARED_LOCK)
      BY <1>0 DEF Facts, LevelAt, RecordAt, InUnlock
    <2>2. pc'[c] \in {"check", "idle"} /\ pc' = [pc EXCEPT ![c] = pc'[c]]
      BY <1>0 DEF TypeInv, Goto
    <2>3. /\ eFileLock'[ProcOf[c]] = IF nShared[ProcOf[c]] = 1 THEN NO_LOCK ELSE eFileLock[ProcOf[c]]
          /\ eFileLock' = [eFileLock EXCEPT ![ProcOf[c]] = eFileLock'[ProcOf[c]]]
          /\ eFileLock'[ProcOf[c]] \in Levels
      <3> DEFINE e == IF nShared[ProcOf[c]] = 1 THEN NO_LOCK ELSE eFileLock[ProcOf[c]]
      <3>1. eFileLock' = [eFileLock EXCEPT ![ProcOf[c]] = e]
        OBVIOUS
      <3>2. e \in Levels /\ eFileLock \in [Proc -> Levels] /\ ProcOf[c] \in Proc
        BY <1>0 DEF TypeInv, Facts
      <3> HIDE DEF e, Leave
      <3>3. eFileLock'[ProcOf[c]] = e
        BY <3>1, <3>2
      <3> QED
        BY <3>1, <3>2, <3>3 DEF e
    <2> QED
      BY <2>1, <2>2, <2>3
  <1>b. /\ nShared[ProcOf[c]] \in Nat \ {0}
        /\ nShared[ProcOf[c]] <= 1 => \A d \in Peers(c) \ {c} : lock[d] = NO_LOCK
        /\ nShared[ProcOf[c]] # 1 => \E d \in Peers(c) \ {c} : lock[d] # NO_LOCK
    BY CountedHolder, <1>0, <1>a DEF CallInv, Facts
  <1>1. StepTo(c, pc'[c], NO_LOCK, NO_LOCK, Free, eFileLock'[ProcOf[c]])
    BY <1>0, <1>a DEF StepTo, TypeInv, TypeOK, Goto, Unlocked, InLock, InUnlock, LevelAt, RecordAt, Places, Free, Facts
  <1>2. Rest(c, NO_LOCK)
    BY <1>0, <1>a, <1>b, SetTyped DEF Rest, Count, TypeInv, Facts
  <1>3. Allowed(c, pc'[c], NO_LOCK, NO_LOCK, Free, eFileLock'[ProcOf[c]])
    BY <1>0, <1>a DEF Allowed, Goto, Unlocked, InLock, InUnlock, LevelAt, RecordAt, Places, Free, Facts
  <1>4. Borne(c, NO_LOCK, eFileLock'[ProcOf[c]])
    BY <1>0, <1>a, <1>b DEF Borne, PeerFacts, Beside, Facts
  <1> HIDE DEF Leave
  <1> QED
    BY <1>1, <1>2, <1>3, <1>4, CallStep

LEMMA CloseBeginKept ==
  ASSUME CallInv, NEW c \in Conn, CloseBegin(c)
  PROVE  CallInv' /\ Moves(c)
  <1>0. TypeInv /\ Facts(c) /\ PeerFacts(c)
    BY CallFacts
  <1> USE DEF CloseBegin, MayEnter, inodeVars
  <1>1. CASE lock[c] = NO_LOCK
    <2>a. mutex[ProcOf[c]] = Free
      BY <1>0, <1>1 DEF TypeInv, Goto, Unlocked, InLock, InUnlock, LevelAt, RecordAt, Places, Free, Facts
    <2>1. StepTo(c, "check", NO_LOCK, NO_LOCK, mutex[ProcOf[c]], eFileLock[ProcOf[c]])
      BY <1>0, <1>1, <2>a DEF StepTo, TypeInv, TypeOK, Goto, Unlocked, InLock, InUnlock, LevelAt, RecordAt, Places, Free, Facts
    <2>2. Rest(c, NO_LOCK)
      BY <1>0, <1>1, <2>a, SetTyped DEF Rest, Count, TypeInv, Facts
    <2>3. Allowed(c, "check", NO_LOCK, NO_LOCK, mutex[ProcOf[c]], eFileLock[ProcOf[c]])
      BY <1>0, <1>1, <2>a DEF Allowed, Goto, Unlocked, InLock, InUnlock, LevelAt, RecordAt, Places, Free, Facts
    <2>4. Borne(c, NO_LOCK, eFileLock[ProcOf[c]])
      BY <1>0, <1>1, <2>a DEF Borne, PeerFacts, Beside, Facts
    <2> HIDE DEF CloseBegin, MayEnter
    <2> QED
      BY <2>1, <2>2, <2>3, <2>4, CallStep
  <1>2. CASE lock[c] # NO_LOCK
      BY <1>0, <1>2, UnlockToKept
  <1> QED
    BY <1>1, <1>2

LEMMA CloseCheckKept ==
  ASSUME CallInv, NEW c \in Conn, CloseCheck(c)
  PROVE  CallInv' /\ Moves(c)
  <1>0. TypeInv /\ Facts(c) /\ PeerFacts(c)
    BY CallFacts
  <1> USE DEF CloseCheck, inodeVars
  <1>a. mutex[ProcOf[c]] = Free /\ lock[c] = NO_LOCK /\ want[c] = NO_LOCK /\ pc'[c] \in {"closed", "closing"}
    BY <1>0 DEF TypeInv, Goto, Unlocked, InLock, InUnlock, LevelAt, RecordAt, Places, Free, Facts
  <1>1. StepTo(c, pc'[c], NO_LOCK, NO_LOCK, mutex[ProcOf[c]], eFileLock[ProcOf[c]])
    BY <1>0, <1>a DEF StepTo, TypeInv, TypeOK, Goto, Unlocked, InLock, InUnlock, LevelAt, RecordAt, Places, Free, Facts
  <1>2. Rest(c, NO_LOCK)
    BY <1>0, <1>a, SetTyped DEF Rest, Count, TypeInv, Facts
  <1>3. Allowed(c, pc'[c], NO_LOCK, NO_LOCK, mutex[ProcOf[c]], eFileLock[ProcOf[c]])
    BY <1>0, <1>a DEF Allowed, Goto, Unlocked, InLock, InUnlock, LevelAt, RecordAt, Places, Free, Facts
  <1>4. Borne(c, NO_LOCK, eFileLock[ProcOf[c]])
    BY <1>0, <1>a DEF Borne, PeerFacts, Beside, Facts
  <1> HIDE DEF CloseCheck
  <1> QED
    BY <1>1, <1>2, <1>3, <1>4, CallStep

LEMMA CloseFdKept ==
  ASSUME CallInv, NEW c \in Conn, CloseFd(c)
  PROVE  CallInv' /\ Moves(c)
  <1>0. TypeInv /\ Facts(c) /\ PeerFacts(c)
    BY CallFacts
  <1> USE DEF CloseFd, inodeVars
  <1>a. mutex[ProcOf[c]] # c /\ lock[c] = NO_LOCK /\ want[c] = NO_LOCK
    BY <1>0 DEF TypeInv, Goto, Unlocked, InLock, InUnlock, LevelAt, RecordAt, Places, Free, Facts
  <1>1. StepTo(c, "closed", NO_LOCK, NO_LOCK, mutex[ProcOf[c]], eFileLock[ProcOf[c]])
    BY <1>0, <1>a DEF StepTo, TypeInv, TypeOK, Goto, Unlocked, InLock, InUnlock, LevelAt, RecordAt, Places, Free, Facts
  <1>2. Rest(c, NO_LOCK)
    BY <1>0, <1>a, SetTyped DEF Rest, Count, TypeInv, Facts
  <1>3. Allowed(c, "closed", NO_LOCK, NO_LOCK, mutex[ProcOf[c]], eFileLock[ProcOf[c]])
    BY <1>0, <1>a DEF Allowed, Goto, Unlocked, InLock, InUnlock, LevelAt, RecordAt, Places, Free, Facts
  <1>4. Borne(c, NO_LOCK, eFileLock[ProcOf[c]])
    BY <1>0, <1>a DEF Borne, PeerFacts, Beside, Facts
  <1> HIDE DEF CloseFd
  <1> QED
    BY <1>1, <1>2, <1>3, <1>4, CallStep

LEMMA CrashKept ==
  ASSUME CallInv, NEW x \in Proc, Crash(x)
  PROVE  CallInv'
  <1> USE ProcOfType, FreeIsNoConnection
  <1>0. TypeInv /\ Counted /\ Guarded /\ Recorded
    BY DEF CallInv
  <1>1. \A c \in Conn : ProcOf[c] = x =>
          pc'[c] = "closed" /\ lock'[c] = NO_LOCK /\ want'[c] = NO_LOCK
    BY DEF Crash, DropAll
  <1>2. \A c \in Conn : ProcOf[c] # x =>
          pc'[c] = pc[c] /\ lock'[c] = lock[c] /\ want'[c] = want[c]
    BY DEF Crash, DropAll
  <1>3. /\ nShared'[x] = 0 /\ nLock'[x] = 0 /\ eFileLock'[x] = NO_LOCK /\ mutex'[x] = Free
        /\ \A q \in Proc \ {x} : /\ nShared'[q] = nShared[q] /\ nLock'[q] = nLock[q]
                                 /\ eFileLock'[q] = eFileLock[q] /\ mutex'[q] = mutex[q]
    BY <1>0 DEF Crash, TypeInv
  <1>4. TypeInv'
    <2>1. TypeOK'
      BY <1>0 DEF Crash, DropAll, TypeInv, TypeOK
    <2>2. posix' \in [Bytes -> [Proc -> {"no", "rd", "wr"}]]
      BY <1>0, SetTyped DEF Crash
    <2>3. /\ nShared' \in [Proc -> Nat] /\ nLock' \in [Proc -> Nat]
          /\ eFileLock' \in [Proc -> Levels] /\ unused' \in [Proc -> BOOLEAN]
          /\ mutex' \in [Proc -> Conn \cup {Free}]
      BY <1>0 DEF Crash, TypeInv
    <2>4. /\ pc' \in [Conn -> Unlocked \cup InLock \cup InUnlock]
          /\ want' \in [Conn -> Levels \cup {CLOSE}] /\ raced' \subseteq Proc
      BY <1>0 DEF Crash, TypeInv, Unlocked
    <2> QED
      BY <2>1, <2>2, <2>3, <2>4 DEF TypeInv
  <1>5. Counted'
    <2> SUFFICES ASSUME NEW q \in Proc
                 PROVE  /\ IsFiniteSet(Holders(q)') /\ nShared'[q] = Cardinality(Holders(q)')
                        /\ nLock'[q] = nShared'[q]
      BY DEF Counted
    <2>1. CASE q = x
      <3>1. Holders(q)' = {}
        BY <1>1, <2>1 DEF Holders
      <3> QED
        BY <1>3, <2>1, <3>1, FS_EmptySet
    <2>2. CASE q # x
      <3>1. Holders(q)' = Holders(q)
        BY <1>2, <2>2 DEF Holders
      <3> QED
        BY <1>0, <1>3, <2>2, <3>1 DEF Counted
    <2> QED
      BY <2>1, <2>2
  <1>6. Guarded'
    BY <1>0, <1>1, <1>2, <1>3 DEF Guarded, Free, InLock, InUnlock
  <1>7. ASSUME NEW c \in Conn
        PROVE  /\ LevelAt(pc[c], want[c], lock[c])'
               /\ RecordAt(pc[c], lock[c], eFileLock[ProcOf[c]])'
               /\ \A d \in Peers(c) \ {c} : Beside(lock'[c], lock'[d])
    <2>1. CASE ProcOf[c] = x
      <3>1. LevelAt("closed", NO_LOCK, NO_LOCK) /\ RecordAt("closed", NO_LOCK, NO_LOCK)
        BY DEF LevelAt, RecordAt, Unlocked, InLock
      <3> QED
        BY <1>1, <1>3, <2>1, <3>1 DEF Peers, Beside
    <2>2. CASE ProcOf[c] # x
      BY <1>0, <1>2, <1>3, <2>2 DEF Recorded, Peers
    <2> QED
      BY <2>1, <2>2
  <1>8. ASSUME NEW q \in Proc, eFileLock'[q] # NO_LOCK
        PROVE  \E c \in Holders(q)' : eFileLock'[q] \in {SHARED_LOCK, lock'[c]}
    <2>1. q # x /\ eFileLock'[q] = eFileLock[q]
      BY <1>3, <1>8
    <2>2. PICK c \in Holders(q) : eFileLock[q] \in {SHARED_LOCK, lock[c]}
      BY <1>0, <1>8, <2>1 DEF Recorded
    <2> QED
      BY <1>2, <2>1, <2>2 DEF Holders
  <1> QED
    BY <1>4, <1>5, <1>6, <1>7, <1>8 DEF CallInv, Recorded

LEMMA CallInvInitial == UnixInit => CallInv
  <1> SUFFICES ASSUME UnixInit PROVE CallInv
    OBVIOUS
  <1> USE ProcOfType, FreeIsNoConnection DEF UnixInit, Init
  <1>1. TypeInv
    BY DEF TypeInv, TypeOK, Unlocked
  <1>2. Counted
    <2>1. \A p \in Proc : Holders(p) = {}
      BY DEF Holders
    <2> QED
      BY <2>1, FS_EmptySet DEF Counted
  <1>3. Guarded
    BY DEF Guarded, Free, InLock, InUnlock
  <1>4. Recorded
    BY DEF Recorded, LevelAt, RecordAt, Beside, Unlocked, InLock, Peers
  <1> QED
    BY <1>1, <1>2, <1>3, <1>4 DEF CallInv

LEMMA CallInvKept == CallInv /\ [UnixNext]_vars => CallInv'
  <1> SUFFICES ASSUME CallInv, [UnixNext]_vars PROVE CallInv'
    OBVIOUS
  <1>1. CASE UNCHANGED vars
    <2>1. /\ lock' = lock /\ posix' = posix /\ nShared' = nShared /\ nLock' = nLock
          /\ eFileLock' = eFileLock /\ unused' = unused /\ mutex' = mutex /\ pc' = pc /\ want' = want
          /\ raced' = raced
      BY <1>1 DEF vars, inodeVars
    <2>2. TypeInv' /\ Guarded'
      BY <2>1 DEF CallInv, TypeInv, TypeOK, Guarded
    <2>3. \A p : Holders(p)' = Holders(p)
      BY <2>1 DEF Holders
    <2>4. Counted'
      BY <2>1, <2>3 DEF CallInv, Counted
    <2>5. Recorded'
      BY <2>1, <2>3 DEF CallInv, Recorded
    <2> QED
      BY <2>2, <2>4, <2>5 DEF CallInv
  <1>2. ASSUME NEW c \in Conn, LockStep(c) PROVE CallInv'
    BY <1>2, SharePendingKept, ShareRangeKept, DropPendingKept, ReserveByteKept,
       ExcludePendingKept, ExcludeRangeKept DEF LockStep
  <1>3. ASSUME NEW c \in Conn, UnlockStep(c) PROVE CallInv'
    BY <1>3, DowngradeKept, UnreserveKept, LeaveKept DEF UnlockStep
  <1>4. ASSUME NEW c \in Conn, CloseStep(c) PROVE CallInv'
    BY <1>4, CloseCheckKept, CloseFdKept DEF CloseStep
  <1> QED
    BY <1>1, <1>2, <1>3, <1>4, OpenKept, CloseBeginKept, LockJoinKept, LockBeginKept,
       UnlockBeginKept, CrashKept DEF UnixNext

(* What the calls of a process know of one another holds whatever the      *)
(* closing of files does: levels, the record and its counts, the mutex.    *)
THEOREM CallsAgree == UnixSpec => []CallInv
  <1>1. UnixInit => CallInv
    BY CallInvInitial
  <1>2. CallInv /\ [UnixNext]_vars => CallInv'
    BY CallInvKept
  <1> QED
    BY <1>1, <1>2, PTL DEF UnixSpec

(* No count of locks goes below zero, no level is one the code does not    *)
(* have (the asserts of posixUnlock, os_unix.c:2108).                      *)
THEOREM UnixTypes == UnixSpec => []TypeInv
  <1>1. CallInv => TypeInv
    BY DEF CallInv
  <1> QED
    BY <1>1, CallsAgree, PTL

-----------------------------------------------------------------------------
(* UnixInv is kept by every step                                           *)

\* Another connection of the process of c has EXCLUSIVE.
OtherExclusive(c) == \E d \in Peers(c) \ {c} : lock[d] = EXCLUSIVE_LOCK

\* What process p is granted, its thread being at "at" with request w.
Grants(p, here, at, w, x) ==
  GrantedAs(posix["SHARED"][p], posix["RESERVED"][p], posix["PENDING"][p], here, at, w, x,
            p \notin raced)

LEMMA SetAt ==
  ASSUME TypeInv, NEW p \in Proc, NEW bs, NEW l, NEW b \in Bytes, NEW q \in Proc
  PROVE  Set(p, bs, l)[b][q] = IF b \in bs /\ q = p THEN l ELSE posix[b][q]
  BY DEF Set, TypeInv

\* With the mutex free, or its own, a connection stands for its process.
LEMMA GrantedNow ==
  ASSUME UnixInv, NEW c \in Conn, mutex[ProcOf[c]] \in {Free, c}
  PROVE  Grants(ProcOf[c], eFileLock[ProcOf[c]], pc[c], want[c],
                lock[c] = EXCLUSIVE_LOCK \/ OtherExclusive(c))
  <1> DEFINE p == ProcOf[c]
             x == \E d \in Conn : ProcOf[d] = p /\ lock[d] = EXCLUSIVE_LOCK
  <1>1. p \in Proc /\ GrantedTo(p) /\ c # Free
    BY ProcOfType, FreeIsNoConnection DEF UnixInv, Free
  <1>2. x <=> lock[c] = EXCLUSIVE_LOCK \/ OtherExclusive(c)
    BY DEF OtherExclusive, Peers
  <1>3. pc[c] \in InLock \cup InUnlock <=> mutex[p] = c
    BY DEF UnixInv, CallInv, Guarded
  <1>4. CASE mutex[p] = Free
    <2>1. Grants(p, eFileLock[p], "idle", NO_LOCK, x)
      BY <1>1, <1>4 DEF GrantedTo, Grants
    <2>2. pc[c] \notin InLock \cup InUnlock
      BY <1>1, <1>3, <1>4
    <2> HIDE DEF x
    <2> QED
      BY <1>2, <2>1, <2>2 DEF Grants, GrantedAs, NoMoreThan, NoLessThan, InLock, InUnlock
  <1>5. CASE mutex[p] = c
    <2>1. Grants(p, eFileLock[p], pc[c], want[c], x)
      BY <1>1, <1>5 DEF GrantedTo, Grants
    <2> HIDE DEF x
    <2> QED
      BY <1>2, <2>1 DEF Grants, GrantedAs, NoMoreThan, NoLessThan
  <1> QED
    BY <1>4, <1>5

\* A step of one connection touches the locks of its own process only.
Touches(p) == \A b \in Bytes, q \in Proc \ {p} : posix'[b][q] = posix[b][q]

\* Such a step leaves alone what other processes are granted.
LEMMA GrantedElsewhere ==
  ASSUME UnixInv, NEW c \in Conn, Moves(c), Touches(ProcOf[c]), NEW q \in Proc, q # ProcOf[c]
  PROVE  GrantedTo(q)'
  <1>1. TypeInv /\ GrantedTo(q)
    BY DEF UnixInv, CallInv
  <1>2. /\ mutex'[q] = mutex[q] /\ eFileLock'[q] = eFileLock[q] /\ (q \in raced' <=> q \in raced)
        /\ \A d \in Conn : ProcOf[d] = q => pc'[d] = pc[d] /\ want'[d] = want[d] /\ lock'[d] = lock[d]
    BY <1>1, ProcOfType DEF Moves, StepTo, TypeInv, TypeOK
  <1>3. \A b \in Bytes : posix'[b][q] = posix[b][q]
    BY DEF Touches
  <1>4. mutex[q] # Free => mutex[q] \in Conn /\ ProcOf[mutex[q]] = q
    BY <1>1 DEF UnixInv, CallInv, Guarded, TypeInv
  <1>5. (\E d \in Conn : ProcOf[d] = q /\ lock'[d] = EXCLUSIVE_LOCK)
          <=> \E d \in Conn : ProcOf[d] = q /\ lock[d] = EXCLUSIVE_LOCK
    BY <1>2
  <1>6. CASE mutex[q] = Free
    BY <1>1, <1>2, <1>3, <1>5, <1>6 DEF GrantedTo, GrantedAs, NoMoreThan, NoLessThan, Bytes
  <1>7. CASE mutex[q] # Free
    <2>1. pc'[mutex'[q]] = pc[mutex[q]] /\ want'[mutex'[q]] = want[mutex[q]] /\ mutex'[q] # Free
      BY <1>2, <1>4, <1>7
    <2> QED
      BY <1>1, <1>2, <1>3, <1>5, <1>7, <2>1 DEF GrantedTo, GrantedAs, NoMoreThan, NoLessThan, Bytes
  <1> QED
    BY <1>6, <1>7

LEMMA GrantedStep ==
  ASSUME UnixInv, CallInv', NEW c \in Conn, Moves(c), Touches(ProcOf[c]),
         mutex'[ProcOf[c]] \in {Free, c},
         Grants(ProcOf[c], eFileLock[ProcOf[c]], pc[c], want[c],
                lock[c] = EXCLUSIVE_LOCK \/ OtherExclusive(c))'
  PROVE  \A q \in Proc : GrantedTo(q)'
  <1> DEFINE p == ProcOf[c]
             x == \E d \in Conn : ProcOf[d] = p /\ lock'[d] = EXCLUSIVE_LOCK
  <1>1. p \in Proc /\ c # Free
    BY ProcOfType, FreeIsNoConnection DEF Free
  <1>2. x <=> (lock'[c] = EXCLUSIVE_LOCK \/ OtherExclusive(c)')
    BY DEF OtherExclusive, Peers
  <1>3. pc'[c] \in InLock \cup InUnlock <=> mutex'[p] = c
    BY DEF CallInv, Guarded
  <1>4. ASSUME mutex'[p] = Free PROVE GrantedTo(p)'
    <2>1. pc'[c] \notin InLock \cup InUnlock
      BY <1>1, <1>3, <1>4
    <2>2. GrantedAs(posix'["SHARED"][p], posix'["RESERVED"][p], posix'["PENDING"][p],
                    eFileLock'[p], "idle", NO_LOCK, x, p \notin raced')
      <3> HIDE DEF x
      <3> QED
        BY <1>2, <2>1 DEF Grants, GrantedAs, NoMoreThan, NoLessThan, InLock, InUnlock
    <2> QED
      BY <1>4, <2>2 DEF GrantedTo
  <1>5. ASSUME mutex'[p] = c PROVE GrantedTo(p)'
    <2>2. GrantedAs(posix'["SHARED"][p], posix'["RESERVED"][p], posix'["PENDING"][p],
                    eFileLock'[p], pc'[c], want'[c], x, p \notin raced')
      <3> HIDE DEF x
      <3> QED
        BY <1>2 DEF Grants, GrantedAs, NoMoreThan, NoLessThan
    <2> QED
      BY <1>1, <1>5, <2>2 DEF GrantedTo
  <1>6. GrantedTo(p)'
    BY <1>4, <1>5
  <1> QED
    BY <1>6, GrantedElsewhere

\* A step between places outside the lock functions, whoever is inside.
LEMMA GrantedAside ==
  ASSUME UnixInv, NEW c \in Conn, Moves(c), posix' = posix, lock' = lock, want' = want,
         eFileLock' = eFileLock, mutex' = mutex, raced' = raced, mutex[ProcOf[c]] # c
  PROVE  \A q \in Proc : GrantedTo(q)'
  <1> SUFFICES ASSUME NEW q \in Proc PROVE GrantedTo(q)'
    OBVIOUS
  <1>1. TypeInv /\ GrantedTo(q)
    BY DEF UnixInv, CallInv
  <1>2. mutex[q] # Free => mutex[q] \in Conn /\ mutex[q] # c
    BY <1>1 DEF UnixInv, CallInv, Guarded, TypeInv
  <1>3. mutex[q] # Free => pc'[mutex[q]] = pc[mutex[q]]
    BY <1>1, <1>2 DEF Moves, StepTo, TypeInv
  <1> QED
    BY <1>1, <1>3 DEF GrantedTo, GrantedAs, NoMoreThan, NoLessThan

\* fcntl() lets process p have l on the ranges bs.
Allows(p, bs, l) ==
  \/ l = "no"
  \/ l = "rd" /\ \A b \in bs : MayRead(p, b)
  \/ l = "wr" /\ \A b \in bs : MayWrite(p, b)

LEMMA CompatibleAfter ==
  ASSUME TypeInv, Compatible, NEW p \in Proc, NEW bs \in SUBSET Bytes, NEW l \in {"no", "rd", "wr"},
         Allows(p, bs, l), posix' = Set(p, bs, l)
  PROVE  Compatible' /\ Touches(p)
  <1>1. \A b \in Bytes, q \in Proc : posix'[b][q] = IF b \in bs /\ q = p THEN l ELSE posix[b][q]
    BY SetAt
  <1>2. Touches(p)
    BY <1>1 DEF Touches
  <1>3. ASSUME NEW b \in Bytes, NEW q \in Proc, NEW r \in Proc, q # r, posix'[b][q] = "wr"
        PROVE  posix'[b][r] = "no"
    <2>1. CASE b \notin bs \/ (q # p /\ r # p)
      BY <1>1, <1>3, <2>1 DEF Compatible
    <2>2. CASE b \in bs /\ q = p
      BY <1>1, <1>3, <2>2 DEF Allows, MayWrite
    <2>3. CASE b \in bs /\ r = p
      BY <1>1, <1>3, <2>3 DEF Allows, MayRead, MayWrite
    <2> QED
      BY <2>1, <2>2, <2>3
  <1> QED
    BY <1>2, <1>3 DEF Compatible

LEMMA CompatibleSame ==
  ASSUME Compatible, posix' = posix, NEW p
  PROVE  Compatible' /\ Touches(p)
  BY DEF Compatible, Touches

\* While a connection has a lock, or is between two system calls, no file of
\* the process is being closed, unless the two overlapped.
LEMMA NoneClosing ==
  ASSUME UnixInv, NEW c \in Conn, ProcOf[c] \notin raced,
         lock[c] # NO_LOCK \/ pc[c] \in InLock \cup InUnlock
  PROVE  \A d \in Peers(c) : pc[d] # "closing"
  BY DEF UnixInv, ClosedUnlocked, Peers, Unlocked, InLock, InUnlock

LEMMA ClosedAfter ==
  ASSUME UnixInv, NEW c \in Conn, Moves(c),
         \/ ProcOf[c] \in raced'
         \/ pc'[c] # "closing" /\ \A d \in Peers(c) : pc[d] # "closing"
         \/ /\ pc'[c] \in Unlocked /\ lock'[c] = NO_LOCK
            /\ \A d \in Peers(c) \ {c} : lock[d] = NO_LOCK /\ pc[d] \in Unlocked
  PROVE  ClosedUnlocked'
  <1>1. \A d \in Conn \ {c} : pc'[d] = pc[d] /\ lock'[d] = lock[d]
    BY DEF Moves, StepTo, UnixInv, CallInv, TypeInv, TypeOK
  <1>r. \A q \in Proc \ {ProcOf[c]} : q \in raced' <=> q \in raced
    BY DEF Moves, StepTo
  <1> SUFFICES ASSUME NEW a \in Conn, pc'[a] = "closing", ProcOf[a] \notin raced', NEW d \in Peers(a)
               PROVE  lock'[d] = NO_LOCK /\ pc'[d] \in Unlocked
    BY DEF ClosedUnlocked, Peers
  <1>2. CASE ProcOf[a] # ProcOf[c]
    BY <1>1, <1>2, <1>r, ProcOfType DEF UnixInv, ClosedUnlocked, Peers
  <1>3. CASE ProcOf[a] = ProcOf[c]
    BY <1>1, <1>3 DEF Peers
  <1> QED
    BY <1>2, <1>3

LEMMA OthersSame ==
  ASSUME TypeInv, NEW c \in Conn, Moves(c)
  PROVE  OtherExclusive(c)' <=> OtherExclusive(c)
  BY DEF OtherExclusive, Peers, Moves, StepTo, TypeInv, TypeOK

LEMMA SoundStep ==
  ASSUME UnixInv, CallInv', NEW c \in Conn, Moves(c), Compatible', Touches(ProcOf[c]), ClosedUnlocked',
         mutex'[ProcOf[c]] \in {Free, c},
         Grants(ProcOf[c], eFileLock[ProcOf[c]], pc[c], want[c],
                lock[c] = EXCLUSIVE_LOCK \/ OtherExclusive(c))'
  PROVE  UnixInv'
  BY GrantedStep DEF UnixInv

LEMMA LockJoinSound ==
  ASSUME UnixInv, NEW c \in Conn, LockJoin(c)
  PROVE  UnixInv'
  <1>0. TypeInv /\ CallInv /\ Facts(c) /\ PeerFacts(c)
    BY CallFacts DEF UnixInv
  <1>1. CallInv' /\ Moves(c)
    BY LockJoinKept DEF UnixInv
  <1> USE DEF LockJoin, MayEnter, Legal, inodeVars
  <1>2. /\ raced' = raced /\ mutex[ProcOf[c]] = Free /\ mutex'[ProcOf[c]] = Free /\ eFileLock' = eFileLock /\ lock'[c] = SHARED_LOCK /\ lock[c] = NO_LOCK
        /\ pc[c] = "idle" /\ pc'[c] = "idle" /\ want'[c] = want[c]
    BY <1>0 DEF TypeInv, TypeOK, Goto, Unlocked, InLock, InUnlock, LevelAt, RecordAt, Free, Facts
  <1>3. Compatible' /\ Touches(ProcOf[c]) /\ posix' = posix
    BY <1>0, CompatibleSame DEF UnixInv
  <1>4. ClosedUnlocked'
    <2>1. PICK d \in Peers(c) : d \in Conn /\ lock[d] # NO_LOCK
      BY <1>0 DEF PrecludedHere, PeerFacts, Peers
    <2>2. ProcOf[c] \in raced \/ \A x \in Peers(c) : pc[x] # "closing"
      BY <2>1, NoneClosing DEF Peers
    <2> QED
      BY <1>1, <1>2, <2>2, ClosedAfter
  <1> HIDE DEF LockJoin, MayEnter, Legal
  <1>5. Grants(ProcOf[c], eFileLock[ProcOf[c]], pc[c], want[c], lock[c] = EXCLUSIVE_LOCK \/ OtherExclusive(c))
    BY <1>2, GrantedNow
  <1>6. /\ posix'["SHARED"][ProcOf[c]] = posix["SHARED"][ProcOf[c]] /\ posix'["RESERVED"][ProcOf[c]] = posix["RESERVED"][ProcOf[c]] /\ posix'["PENDING"][ProcOf[c]] = posix["PENDING"][ProcOf[c]]
    BY <1>3
  <1>7. Grants(ProcOf[c], eFileLock[ProcOf[c]], pc[c], want[c], lock[c] = EXCLUSIVE_LOCK \/ OtherExclusive(c))'
    BY <1>0, <1>1, <1>2, <1>5, <1>6, OthersSame DEF Grants, GrantedAs, NoMoreThan, NoLessThan
  <1> QED
    BY <1>1, <1>2, <1>3, <1>4, <1>7, SoundStep

LEMMA LockBeginSound ==
  ASSUME UnixInv, NEW c \in Conn, NEW l \in Levels, LockBegin(c, l)
  PROVE  UnixInv'
  <1>0. TypeInv /\ CallInv /\ Facts(c) /\ PeerFacts(c)
    BY CallFacts DEF UnixInv
  <1>1. CallInv' /\ Moves(c)
    BY LockBeginKept DEF UnixInv
  <1> USE DEF LockBegin, MayEnter, Legal, inodeVars
  <1>2. /\ mutex[ProcOf[c]] = Free /\ mutex'[ProcOf[c]] = c /\ eFileLock' = eFileLock /\ lock' = lock
        /\ pc[c] = "idle" /\ pc'[c] \in {"pending", "reserve", "exclude"}
        /\ ProcOf[c] \in raced' \/ ProcOf[c] \notin raced \/ eFileLock[ProcOf[c]] = NO_LOCK
        /\ ProcOf[c] \in raced' \/ \A d \in Peers(c) : pc[d] # "closing"
    BY <1>0 DEF TypeInv, TypeOK, Goto, Unlocked, InLock, InUnlock, LevelAt, RecordAt, Free, Facts, Closing, Peers
  <1>3. Compatible' /\ Touches(ProcOf[c]) /\ posix' = posix
    BY <1>0, CompatibleSame DEF UnixInv
  <1>4. ClosedUnlocked'
    BY <1>1, <1>2, ClosedAfter DEF MayEnter
  <1> HIDE DEF LockBegin, MayEnter, Legal
  <1>5. Grants(ProcOf[c], eFileLock[ProcOf[c]], pc[c], want[c], lock[c] = EXCLUSIVE_LOCK \/ OtherExclusive(c))
    BY <1>2, GrantedNow
  <1>6. /\ posix'["SHARED"][ProcOf[c]] = posix["SHARED"][ProcOf[c]] /\ posix'["RESERVED"][ProcOf[c]] = posix["RESERVED"][ProcOf[c]] /\ posix'["PENDING"][ProcOf[c]] = posix["PENDING"][ProcOf[c]]
    BY <1>3
  <1>7. Grants(ProcOf[c], eFileLock[ProcOf[c]], pc[c], want[c], lock[c] = EXCLUSIVE_LOCK \/ OtherExclusive(c))'
    BY <1>0, <1>1, <1>2, <1>5, <1>6, OthersSame DEF Grants, GrantedAs, NoMoreThan, NoLessThan
  <1> QED
    BY <1>1, <1>2, <1>3, <1>4, <1>7, SoundStep

LEMMA BusySound ==
  ASSUME UnixInv, NEW c \in Conn, pc[c] \in {"pending", "reserve", "exclude", "downgrade"}, Busy(c)
  PROVE  UnixInv'
  <1>0. TypeInv /\ CallInv /\ Facts(c) /\ PeerFacts(c)
    BY CallFacts DEF UnixInv
  <1>1. CallInv' /\ Moves(c)
    BY BusyKept DEF UnixInv, InLock
  <1> USE DEF Busy, Return, inodeVars
  <1>2. /\ raced' = raced /\ mutex[ProcOf[c]] = c /\ mutex'[ProcOf[c]] = Free /\ eFileLock' = eFileLock /\ lock' = lock /\ pc'[c] = "idle"
    BY <1>0 DEF TypeInv, TypeOK, Goto, Unlocked, InLock, InUnlock, LevelAt, RecordAt, Free, Facts
  <1>3. Compatible' /\ Touches(ProcOf[c]) /\ posix' = posix
    BY <1>0, CompatibleSame DEF UnixInv
  <1>4. ClosedUnlocked'
    BY <1>1, <1>2, NoneClosing, ClosedAfter DEF InLock, InUnlock
  <1> HIDE DEF Busy, Return
  <1>5. Grants(ProcOf[c], eFileLock[ProcOf[c]], pc[c], want[c], lock[c] = EXCLUSIVE_LOCK \/ OtherExclusive(c))
    BY <1>2, GrantedNow
  <1>6. /\ posix'["SHARED"][ProcOf[c]] = posix["SHARED"][ProcOf[c]] /\ posix'["RESERVED"][ProcOf[c]] = posix["RESERVED"][ProcOf[c]] /\ posix'["PENDING"][ProcOf[c]] = posix["PENDING"][ProcOf[c]]
    BY <1>3
  <1>7. Grants(ProcOf[c], eFileLock[ProcOf[c]], pc[c], want[c], lock[c] = EXCLUSIVE_LOCK \/ OtherExclusive(c))'
    BY <1>0, <1>1, <1>2, <1>5, <1>6, OthersSame DEF Grants, GrantedAs, NoMoreThan, NoLessThan, Facts
  <1> QED
    BY <1>1, <1>2, <1>3, <1>4, <1>7, SoundStep

LEMMA SharePendingSound ==
  ASSUME UnixInv, NEW c \in Conn, SharePending(c)
  PROVE  UnixInv'
  <1>0. TypeInv /\ CallInv /\ Facts(c) /\ PeerFacts(c)
    BY CallFacts DEF UnixInv
  <1>1. CallInv' /\ Moves(c)
    BY SharePendingKept DEF UnixInv
  <1> USE DEF SharePending, inodeVars
  <1>c1. CASE MayRead(ProcOf[c], "PENDING")
    <2>2. /\ raced' = raced /\ mutex[ProcOf[c]] = c /\ mutex' = mutex /\ eFileLock' = eFileLock /\ lock' = lock /\ lock[c] = NO_LOCK /\ eFileLock[ProcOf[c]] = NO_LOCK
          /\ pc[c] = "pending" /\ pc'[c] = "range"
      BY <1>0, <1>c1 DEF TypeInv, TypeOK, Goto, Unlocked, InLock, InUnlock, LevelAt, RecordAt, Free, Facts
    <2>3. Compatible' /\ Touches(ProcOf[c]) /\ posix' = Set(ProcOf[c], {"PENDING"}, "rd")
      <3>1. Allows(ProcOf[c], {"PENDING"}, "rd")
        BY <1>0, <1>c1 DEF Allows
      <3> QED
        BY <1>0, <1>c1, <3>1, CompatibleAfter DEF Bytes, Facts, UnixInv
    <2>4. ClosedUnlocked'
      BY <1>1, <2>2, <1>c1, NoneClosing, ClosedAfter DEF InLock, InUnlock
    <2> HIDE DEF SharePending
    <2>5. Grants(ProcOf[c], eFileLock[ProcOf[c]], pc[c], want[c], lock[c] = EXCLUSIVE_LOCK \/ OtherExclusive(c))
      BY <2>2, GrantedNow
    <2>6. /\ posix'["SHARED"][ProcOf[c]] = posix["SHARED"][ProcOf[c]] /\ posix'["RESERVED"][ProcOf[c]] = posix["RESERVED"][ProcOf[c]] /\ posix'["PENDING"][ProcOf[c]] = "rd"
      BY <1>0, <2>3, SetAt DEF Bytes, Facts
    <2>7. Grants(ProcOf[c], eFileLock[ProcOf[c]], pc[c], want[c], lock[c] = EXCLUSIVE_LOCK \/ OtherExclusive(c))'
      BY <1>0, <1>1, <1>c1, <2>2, <2>5, <2>6, OthersSame DEF Grants, GrantedAs, NoMoreThan, NoLessThan
    <2> QED
      BY <1>1, <2>2, <2>3, <2>4, <2>7, SoundStep
  <1>c2. CASE ~MayRead(ProcOf[c], "PENDING")
      BY <1>0, <1>c2, BusySound
  <1> QED
    BY <1>c1, <1>c2

LEMMA ShareRangeSound ==
  ASSUME UnixInv, NEW c \in Conn, ShareRange(c)
  PROVE  UnixInv'
  <1>0. TypeInv /\ CallInv /\ Facts(c) /\ PeerFacts(c)
    BY CallFacts DEF UnixInv
  <1>1. CallInv' /\ Moves(c)
    BY ShareRangeKept DEF UnixInv
  <1> USE DEF ShareRange, inodeVars
  <1>c1. CASE MayRead(ProcOf[c], "SHARED")
    <2>2. /\ raced' = raced /\ mutex[ProcOf[c]] = c /\ mutex' = mutex /\ eFileLock' = eFileLock /\ lock' = lock /\ lock[c] = NO_LOCK /\ eFileLock[ProcOf[c]] = NO_LOCK
          /\ pc[c] = "range" /\ pc'[c] = "drop"
      BY <1>0, <1>c1 DEF TypeInv, TypeOK, Goto, Unlocked, InLock, InUnlock, LevelAt, RecordAt, Free, Facts
    <2>3. Compatible' /\ Touches(ProcOf[c]) /\ posix' = Set(ProcOf[c], {"SHARED"}, "rd")
      <3>1. Allows(ProcOf[c], {"SHARED"}, "rd")
        BY <1>0, <1>c1 DEF Allows
      <3> QED
        BY <1>0, <1>c1, <3>1, CompatibleAfter DEF Bytes, Facts, UnixInv
    <2>4. ClosedUnlocked'
      BY <1>1, <2>2, <1>c1, NoneClosing, ClosedAfter DEF InLock, InUnlock
    <2> HIDE DEF ShareRange
    <2>5. Grants(ProcOf[c], eFileLock[ProcOf[c]], pc[c], want[c], lock[c] = EXCLUSIVE_LOCK \/ OtherExclusive(c))
      BY <2>2, GrantedNow
    <2>6. /\ posix'["SHARED"][ProcOf[c]] = "rd" /\ posix'["RESERVED"][ProcOf[c]] = posix["RESERVED"][ProcOf[c]] /\ posix'["PENDING"][ProcOf[c]] = posix["PENDING"][ProcOf[c]]
      BY <1>0, <2>3, SetAt DEF Bytes, Facts
    <2>7. Grants(ProcOf[c], eFileLock[ProcOf[c]], pc[c], want[c], lock[c] = EXCLUSIVE_LOCK \/ OtherExclusive(c))'
      BY <1>0, <1>1, <1>c1, <2>2, <2>5, <2>6, OthersSame DEF Grants, GrantedAs, NoMoreThan, NoLessThan
    <2> QED
      BY <1>1, <2>2, <2>3, <2>4, <2>7, SoundStep
  <1>c2. CASE ~MayRead(ProcOf[c], "SHARED")
    <2>2. /\ raced' = raced /\ mutex[ProcOf[c]] = c /\ mutex' = mutex /\ eFileLock' = eFileLock /\ lock' = lock /\ pc[c] = "range" /\ pc'[c] = "dropBusy"
      BY <1>0, <1>c2 DEF TypeInv, TypeOK, Goto, Unlocked, InLock, InUnlock, LevelAt, RecordAt, Free, Facts
    <2>3. Compatible' /\ Touches(ProcOf[c]) /\ posix' = posix
      BY <1>0, <1>c2, CompatibleSame DEF UnixInv
    <2>4. ClosedUnlocked'
      BY <1>1, <2>2, <1>c2, NoneClosing, ClosedAfter DEF InLock, InUnlock
    <2> HIDE DEF ShareRange
    <2>5. Grants(ProcOf[c], eFileLock[ProcOf[c]], pc[c], want[c], lock[c] = EXCLUSIVE_LOCK \/ OtherExclusive(c))
      BY <2>2, GrantedNow
    <2>6. /\ posix'["SHARED"][ProcOf[c]] = posix["SHARED"][ProcOf[c]] /\ posix'["RESERVED"][ProcOf[c]] = posix["RESERVED"][ProcOf[c]] /\ posix'["PENDING"][ProcOf[c]] = posix["PENDING"][ProcOf[c]]
      BY <2>3
    <2>7. Grants(ProcOf[c], eFileLock[ProcOf[c]], pc[c], want[c], lock[c] = EXCLUSIVE_LOCK \/ OtherExclusive(c))'
      BY <1>0, <1>1, <1>c2, <2>2, <2>5, <2>6, OthersSame DEF Grants, GrantedAs, NoMoreThan, NoLessThan
    <2> QED
      BY <1>1, <2>2, <2>3, <2>4, <2>7, SoundStep
  <1> QED
    BY <1>c1, <1>c2

LEMMA DropPendingSound ==
  ASSUME UnixInv, NEW c \in Conn, DropPending(c)
  PROVE  UnixInv'
  <1>0. TypeInv /\ CallInv /\ Facts(c) /\ PeerFacts(c)
    BY CallFacts DEF UnixInv
  <1>1. CallInv' /\ Moves(c)
    BY DropPendingKept DEF UnixInv
  <1> USE DEF DropPending, Return, Granted, inodeVars
  <1>c1. CASE pc[c] = "drop"
    <2>2. /\ raced' = raced /\ mutex[ProcOf[c]] = c /\ mutex'[ProcOf[c]] = Free /\ eFileLock'[ProcOf[c]] = SHARED_LOCK /\ lock'[c] = SHARED_LOCK /\ lock[c] = NO_LOCK
          /\ eFileLock[ProcOf[c]] = NO_LOCK /\ pc'[c] = "idle"
      BY <1>0, <1>c1 DEF TypeInv, TypeOK, Goto, Unlocked, InLock, InUnlock, LevelAt, RecordAt, Free, Facts
    <2>3. Compatible' /\ Touches(ProcOf[c]) /\ posix' = Set(ProcOf[c], {"PENDING"}, "no")
      <3>1. Allows(ProcOf[c], {"PENDING"}, "no")
        BY <1>0, <1>c1 DEF Allows
      <3> QED
        BY <1>0, <1>c1, <3>1, CompatibleAfter DEF Bytes, Facts, UnixInv
    <2>4. ClosedUnlocked'
      BY <1>1, <2>2, <1>c1, NoneClosing, ClosedAfter DEF InLock, InUnlock
    <2> HIDE DEF DropPending, Return, Granted
    <2>5. Grants(ProcOf[c], eFileLock[ProcOf[c]], pc[c], want[c], lock[c] = EXCLUSIVE_LOCK \/ OtherExclusive(c))
      BY <2>2, GrantedNow
    <2>6. /\ posix'["SHARED"][ProcOf[c]] = posix["SHARED"][ProcOf[c]] /\ posix'["RESERVED"][ProcOf[c]] = posix["RESERVED"][ProcOf[c]] /\ posix'["PENDING"][ProcOf[c]] = "no"
      BY <1>0, <2>3, SetAt DEF Bytes, Facts
    <2>7. Grants(ProcOf[c], eFileLock[ProcOf[c]], pc[c], want[c], lock[c] = EXCLUSIVE_LOCK \/ OtherExclusive(c))'
      BY <1>0, <1>1, <1>c1, <2>2, <2>5, <2>6, OthersSame DEF Grants, GrantedAs, NoMoreThan, NoLessThan
    <2> QED
      BY <1>1, <2>2, <2>3, <2>4, <2>7, SoundStep
  <1>c2. CASE pc[c] = "dropBusy"
    <2>2. /\ raced' = raced /\ mutex[ProcOf[c]] = c /\ mutex'[ProcOf[c]] = Free /\ eFileLock' = eFileLock /\ lock' = lock /\ eFileLock[ProcOf[c]] = NO_LOCK /\ pc'[c] = "idle"
      BY <1>0, <1>c2 DEF TypeInv, TypeOK, Goto, Unlocked, InLock, InUnlock, LevelAt, RecordAt, Free, Facts
    <2>3. Compatible' /\ Touches(ProcOf[c]) /\ posix' = Set(ProcOf[c], {"PENDING"}, "no")
      <3>1. Allows(ProcOf[c], {"PENDING"}, "no")
        BY <1>0, <1>c2 DEF Allows
      <3> QED
        BY <1>0, <1>c2, <3>1, CompatibleAfter DEF Bytes, Facts, UnixInv
    <2>4. ClosedUnlocked'
      BY <1>1, <2>2, <1>c2, NoneClosing, ClosedAfter DEF InLock, InUnlock
    <2> HIDE DEF DropPending, Return, Granted
    <2>5. Grants(ProcOf[c], eFileLock[ProcOf[c]], pc[c], want[c], lock[c] = EXCLUSIVE_LOCK \/ OtherExclusive(c))
      BY <2>2, GrantedNow
    <2>6. /\ posix'["SHARED"][ProcOf[c]] = posix["SHARED"][ProcOf[c]] /\ posix'["RESERVED"][ProcOf[c]] = posix["RESERVED"][ProcOf[c]] /\ posix'["PENDING"][ProcOf[c]] = "no"
      BY <1>0, <2>3, SetAt DEF Bytes, Facts
    <2>7. Grants(ProcOf[c], eFileLock[ProcOf[c]], pc[c], want[c], lock[c] = EXCLUSIVE_LOCK \/ OtherExclusive(c))'
      BY <1>0, <1>1, <1>c2, <2>2, <2>5, <2>6, OthersSame DEF Grants, GrantedAs, NoMoreThan, NoLessThan
    <2> QED
      BY <1>1, <2>2, <2>3, <2>4, <2>7, SoundStep
  <1> QED
    BY <1>c1, <1>c2

LEMMA ReserveByteSound ==
  ASSUME UnixInv, NEW c \in Conn, ReserveByte(c)
  PROVE  UnixInv'
  <1>0. TypeInv /\ CallInv /\ Facts(c) /\ PeerFacts(c)
    BY CallFacts DEF UnixInv
  <1>1. CallInv' /\ Moves(c)
    BY ReserveByteKept DEF UnixInv
  <1> USE DEF ReserveByte, Return, Granted, inodeVars
  <1>c1. CASE MayWrite(ProcOf[c], "RESERVED")
    <2>2. /\ raced' = raced /\ mutex[ProcOf[c]] = c /\ mutex'[ProcOf[c]] = Free /\ eFileLock'[ProcOf[c]] = RESERVED_LOCK /\ lock'[c] = RESERVED_LOCK /\ lock[c] = SHARED_LOCK
          /\ eFileLock[ProcOf[c]] = SHARED_LOCK /\ pc[c] = "reserve" /\ pc'[c] = "idle"
      BY <1>0, <1>c1 DEF TypeInv, TypeOK, Goto, Unlocked, InLock, InUnlock, LevelAt, RecordAt, Free, Facts
    <2>3. Compatible' /\ Touches(ProcOf[c]) /\ posix' = Set(ProcOf[c], {"RESERVED"}, "wr")
      <3>1. Allows(ProcOf[c], {"RESERVED"}, "wr")
        BY <1>0, <1>c1 DEF Allows
      <3> QED
        BY <1>0, <1>c1, <3>1, CompatibleAfter DEF Bytes, Facts, UnixInv
    <2>4. ClosedUnlocked'
      BY <1>1, <2>2, <1>c1, NoneClosing, ClosedAfter DEF InLock, InUnlock
    <2> HIDE DEF ReserveByte, Return, Granted
    <2>5. Grants(ProcOf[c], eFileLock[ProcOf[c]], pc[c], want[c], lock[c] = EXCLUSIVE_LOCK \/ OtherExclusive(c))
      BY <2>2, GrantedNow
    <2>6. /\ posix'["SHARED"][ProcOf[c]] = posix["SHARED"][ProcOf[c]] /\ posix'["RESERVED"][ProcOf[c]] = "wr" /\ posix'["PENDING"][ProcOf[c]] = posix["PENDING"][ProcOf[c]]
      BY <1>0, <2>3, SetAt DEF Bytes, Facts
    <2>7. Grants(ProcOf[c], eFileLock[ProcOf[c]], pc[c], want[c], lock[c] = EXCLUSIVE_LOCK \/ OtherExclusive(c))'
      BY <1>0, <1>1, <1>c1, <2>2, <2>5, <2>6, OthersSame DEF Grants, GrantedAs, NoMoreThan, NoLessThan
    <2> QED
      BY <1>1, <2>2, <2>3, <2>4, <2>7, SoundStep
  <1>c2. CASE ~MayWrite(ProcOf[c], "RESERVED")
      BY <1>0, <1>c2, BusySound
  <1> QED
    BY <1>c1, <1>c2

LEMMA ExcludePendingSound ==
  ASSUME UnixInv, NEW c \in Conn, ExcludePending(c)
  PROVE  UnixInv'
  <1>0. TypeInv /\ CallInv /\ Facts(c) /\ PeerFacts(c)
    BY CallFacts DEF UnixInv
  <1>1. CallInv' /\ Moves(c)
    BY ExcludePendingKept DEF UnixInv
  <1> USE DEF ExcludePending, Granted, inodeVars
  <1>c1. CASE MayWrite(ProcOf[c], "PENDING")
    <2>2. /\ raced' = raced /\ mutex[ProcOf[c]] = c /\ mutex' = mutex /\ eFileLock'[ProcOf[c]] = PENDING_LOCK /\ lock'[c] = PENDING_LOCK /\ lock[c] = RESERVED_LOCK
          /\ eFileLock[ProcOf[c]] = RESERVED_LOCK /\ pc[c] = "pending" /\ pc'[c] = "exclude"
      BY <1>0, <1>c1 DEF TypeInv, TypeOK, Goto, Unlocked, InLock, InUnlock, LevelAt, RecordAt, Free, Facts
    <2>3. Compatible' /\ Touches(ProcOf[c]) /\ posix' = Set(ProcOf[c], {"PENDING"}, "wr")
      <3>1. Allows(ProcOf[c], {"PENDING"}, "wr")
        BY <1>0, <1>c1 DEF Allows
      <3> QED
        BY <1>0, <1>c1, <3>1, CompatibleAfter DEF Bytes, Facts, UnixInv
    <2>4. ClosedUnlocked'
      BY <1>1, <2>2, <1>c1, NoneClosing, ClosedAfter DEF InLock, InUnlock
    <2> HIDE DEF ExcludePending, Granted
    <2>5. Grants(ProcOf[c], eFileLock[ProcOf[c]], pc[c], want[c], lock[c] = EXCLUSIVE_LOCK \/ OtherExclusive(c))
      BY <2>2, GrantedNow
    <2>6. /\ posix'["SHARED"][ProcOf[c]] = posix["SHARED"][ProcOf[c]] /\ posix'["RESERVED"][ProcOf[c]] = posix["RESERVED"][ProcOf[c]] /\ posix'["PENDING"][ProcOf[c]] = "wr"
      BY <1>0, <2>3, SetAt DEF Bytes, Facts
    <2>7. Grants(ProcOf[c], eFileLock[ProcOf[c]], pc[c], want[c], lock[c] = EXCLUSIVE_LOCK \/ OtherExclusive(c))'
      BY <1>0, <1>1, <1>c1, <2>2, <2>5, <2>6, OthersSame DEF Grants, GrantedAs, NoMoreThan, NoLessThan
    <2> QED
      BY <1>1, <2>2, <2>3, <2>4, <2>7, SoundStep
  <1>c2. CASE ~MayWrite(ProcOf[c], "PENDING")
      BY <1>0, <1>c2, BusySound
  <1> QED
    BY <1>c1, <1>c2

LEMMA ExcludeRangeSound ==
  ASSUME UnixInv, NEW c \in Conn, ExcludeRange(c)
  PROVE  UnixInv'
  <1>0. TypeInv /\ CallInv /\ Facts(c) /\ PeerFacts(c)
    BY CallFacts DEF UnixInv
  <1>1. CallInv' /\ Moves(c)
    BY ExcludeRangeKept DEF UnixInv
  <1> USE DEF ExcludeRange, Return, Granted, inodeVars
  <1>c1. CASE nShared[ProcOf[c]] <= 1 /\ MayWrite(ProcOf[c], "SHARED")
    <2>2. /\ raced' = raced /\ mutex[ProcOf[c]] = c /\ mutex'[ProcOf[c]] = Free /\ eFileLock'[ProcOf[c]] = EXCLUSIVE_LOCK /\ lock'[c] = EXCLUSIVE_LOCK
          /\ eFileLock[ProcOf[c]] \in {SHARED_LOCK, PENDING_LOCK} /\ pc[c] = "exclude" /\ pc'[c] = "idle"
      BY <1>0, <1>c1 DEF TypeInv, TypeOK, Goto, Unlocked, InLock, InUnlock, LevelAt, RecordAt, Free, Facts
    <2>3. Compatible' /\ Touches(ProcOf[c]) /\ posix' = Set(ProcOf[c], {"SHARED"}, "wr")
      <3>1. Allows(ProcOf[c], {"SHARED"}, "wr")
        BY <1>0, <1>c1 DEF Allows
      <3> QED
        BY <1>0, <1>c1, <3>1, CompatibleAfter DEF Bytes, Facts, UnixInv
    <2>4. ClosedUnlocked'
      BY <1>1, <2>2, <1>c1, NoneClosing, ClosedAfter DEF InLock, InUnlock
    <2> HIDE DEF ExcludeRange, Return, Granted
    <2>5. Grants(ProcOf[c], eFileLock[ProcOf[c]], pc[c], want[c], lock[c] = EXCLUSIVE_LOCK \/ OtherExclusive(c))
      BY <2>2, GrantedNow
    <2>6. /\ posix'["SHARED"][ProcOf[c]] = "wr" /\ posix'["RESERVED"][ProcOf[c]] = posix["RESERVED"][ProcOf[c]] /\ posix'["PENDING"][ProcOf[c]] = posix["PENDING"][ProcOf[c]]
      BY <1>0, <2>3, SetAt DEF Bytes, Facts
    <2>7. Grants(ProcOf[c], eFileLock[ProcOf[c]], pc[c], want[c], lock[c] = EXCLUSIVE_LOCK \/ OtherExclusive(c))'
      BY <1>0, <1>1, <1>c1, <2>2, <2>5, <2>6, OthersSame DEF Grants, GrantedAs, NoMoreThan, NoLessThan
    <2> QED
      BY <1>1, <2>2, <2>3, <2>4, <2>7, SoundStep
  <1>c2. CASE ~(nShared[ProcOf[c]] <= 1 /\ MayWrite(ProcOf[c], "SHARED"))
      BY <1>0, <1>c2, BusySound
  <1> QED
    BY <1>c1, <1>c2

LEMMA UnlockToSound ==
  ASSUME UnixInv, NEW c \in Conn, NEW l \in {NO_LOCK, SHARED_LOCK}, NEW why, why = l \/ (why = CLOSE /\ l = NO_LOCK),
         pc[c] = "idle", MayEnter(c), UnlockTo(c, l, why)
  PROVE  UnixInv'
  <1>0. TypeInv /\ CallInv /\ Facts(c) /\ PeerFacts(c)
    BY CallFacts DEF UnixInv
  <1>1. CallInv' /\ Moves(c)
    BY UnlockToKept DEF UnixInv
  <1> USE DEF UnlockTo, MayEnter, inodeVars
  <1>2. /\ raced' = raced /\ mutex[ProcOf[c]] = Free /\ mutex'[ProcOf[c]] = c /\ eFileLock' = eFileLock /\ lock' = lock
        /\ pc'[c] \in {"leave", "downgrade", "unreserve"} /\ want'[c] = why
        /\ pc'[c] = "unreserve" => l # SHARED_LOCK
    BY <1>0 DEF TypeInv, TypeOK, Goto, Unlocked, InLock, InUnlock, LevelAt, RecordAt, Free, Facts
  <1>3. Compatible' /\ Touches(ProcOf[c]) /\ posix' = posix
    BY <1>0, CompatibleSame DEF UnixInv
  <1>4. ClosedUnlocked'
    <2>1. ProcOf[c] \in raced \/ \A d \in Peers(c) : pc[d] # "closing"
      BY <1>0, NoneClosing DEF Facts
    <2> QED
      BY <1>1, <1>2, <2>1, ClosedAfter
  <1> HIDE DEF UnlockTo, MayEnter
  <1>5. Grants(ProcOf[c], eFileLock[ProcOf[c]], pc[c], want[c], lock[c] = EXCLUSIVE_LOCK \/ OtherExclusive(c))
    BY <1>2, GrantedNow
  <1>6. /\ posix'["SHARED"][ProcOf[c]] = posix["SHARED"][ProcOf[c]] /\ posix'["RESERVED"][ProcOf[c]] = posix["RESERVED"][ProcOf[c]] /\ posix'["PENDING"][ProcOf[c]] = posix["PENDING"][ProcOf[c]]
    BY <1>3
  <1>7. Grants(ProcOf[c], eFileLock[ProcOf[c]], pc[c], want[c], lock[c] = EXCLUSIVE_LOCK \/ OtherExclusive(c))'
    BY <1>0, <1>1, <1>2, <1>5, <1>6, OthersSame DEF Grants, GrantedAs, NoMoreThan, NoLessThan
  <1> QED
    BY <1>1, <1>2, <1>3, <1>4, <1>7, SoundStep

LEMMA UnlockBeginSound ==
  ASSUME UnixInv, NEW c \in Conn, NEW l \in {NO_LOCK, SHARED_LOCK}, UnlockBegin(c, l)
  PROVE  UnixInv'
  BY UnlockToSound DEF UnlockBegin

LEMMA DowngradeSound ==
  ASSUME UnixInv, NEW c \in Conn, Downgrade(c)
  PROVE  UnixInv'
  <1>0. TypeInv /\ CallInv /\ Facts(c) /\ PeerFacts(c)
    BY CallFacts DEF UnixInv
  <1>1. CallInv' /\ Moves(c)
    BY DowngradeKept DEF UnixInv
  <1> USE DEF Downgrade, inodeVars
  <1>c1. CASE MayRead(ProcOf[c], "SHARED")
    <2>2. /\ raced' = raced /\ mutex[ProcOf[c]] = c /\ mutex' = mutex /\ eFileLock' = eFileLock /\ lock' = lock
          /\ lock[c] >= RESERVED_LOCK /\ eFileLock[ProcOf[c]] = lock[c]
          /\ pc[c] = "downgrade" /\ pc'[c] = "unreserve"
      BY <1>0, <1>c1 DEF TypeInv, TypeOK, Goto, Unlocked, InLock, InUnlock, LevelAt, RecordAt, Free, Facts
    <2>3. Compatible' /\ Touches(ProcOf[c]) /\ posix' = Set(ProcOf[c], {"SHARED"}, "rd")
      <3>1. Allows(ProcOf[c], {"SHARED"}, "rd")
        BY <1>0, <1>c1 DEF Allows
      <3> QED
        BY <1>0, <1>c1, <3>1, CompatibleAfter DEF Bytes, Facts, UnixInv
    <2>4. ClosedUnlocked'
      BY <1>1, <2>2, <1>c1, NoneClosing, ClosedAfter DEF InLock, InUnlock
    <2> HIDE DEF Downgrade
    <2>5. Grants(ProcOf[c], eFileLock[ProcOf[c]], pc[c], want[c], lock[c] = EXCLUSIVE_LOCK \/ OtherExclusive(c))
      BY <2>2, GrantedNow
    <2>6. /\ posix'["SHARED"][ProcOf[c]] = "rd" /\ posix'["RESERVED"][ProcOf[c]] = posix["RESERVED"][ProcOf[c]] /\ posix'["PENDING"][ProcOf[c]] = posix["PENDING"][ProcOf[c]]
      BY <1>0, <2>3, SetAt DEF Bytes, Facts
    <2>7. Grants(ProcOf[c], eFileLock[ProcOf[c]], pc[c], want[c], lock[c] = EXCLUSIVE_LOCK \/ OtherExclusive(c))'
      BY <1>0, <1>1, <1>c1, <2>2, <2>5, <2>6, OthersSame DEF Grants, GrantedAs, NoMoreThan, NoLessThan
    <2> QED
      BY <1>1, <2>2, <2>3, <2>4, <2>7, SoundStep
  <1>c2. CASE ~MayRead(ProcOf[c], "SHARED")
    BY <1>c2, BusySound
  <1> QED
    BY <1>c1, <1>c2

LEMMA UnreserveSound ==
  ASSUME UnixInv, NEW c \in Conn, Unreserve(c)
  PROVE  UnixInv'
  <1>0. TypeInv /\ CallInv /\ Facts(c) /\ PeerFacts(c)
    BY CallFacts DEF UnixInv
  <1>1. CallInv' /\ Moves(c)
    BY UnreserveKept DEF UnixInv
  <1> USE DEF Unreserve, Return, inodeVars
  <1>c1. CASE want[c] = SHARED_LOCK
    <2>2. /\ raced' = raced /\ mutex[ProcOf[c]] = c /\ mutex'[ProcOf[c]] = Free /\ eFileLock'[ProcOf[c]] = SHARED_LOCK /\ lock'[c] = SHARED_LOCK /\ lock[c] >= RESERVED_LOCK /\ eFileLock[ProcOf[c]] = lock[c]
          /\ pc[c] = "unreserve" /\ pc'[c] = "idle"
      BY <1>0, <1>c1 DEF TypeInv, TypeOK, Goto, Unlocked, InLock, InUnlock, LevelAt, RecordAt, Free, Facts
    <2>3. Compatible' /\ Touches(ProcOf[c]) /\ posix' = Set(ProcOf[c], {"PENDING", "RESERVED"}, "no")
      <3>1. Allows(ProcOf[c], {"PENDING", "RESERVED"}, "no")
        BY <1>0, <1>c1 DEF Allows
      <3> QED
        BY <1>0, <1>c1, <3>1, CompatibleAfter DEF Bytes, Facts, UnixInv
    <2>4. ClosedUnlocked'
      BY <1>1, <2>2, <1>c1, NoneClosing, ClosedAfter DEF InLock, InUnlock
    <2> HIDE DEF Unreserve, Return
    <2>5. Grants(ProcOf[c], eFileLock[ProcOf[c]], pc[c], want[c], lock[c] = EXCLUSIVE_LOCK \/ OtherExclusive(c))
      BY <2>2, GrantedNow
    <2>6. /\ posix'["SHARED"][ProcOf[c]] = posix["SHARED"][ProcOf[c]] /\ posix'["RESERVED"][ProcOf[c]] = "no" /\ posix'["PENDING"][ProcOf[c]] = "no"
      BY <1>0, <2>3, SetAt DEF Bytes, Facts
    <2>7. Grants(ProcOf[c], eFileLock[ProcOf[c]], pc[c], want[c], lock[c] = EXCLUSIVE_LOCK \/ OtherExclusive(c))'
      BY <1>0, <1>1, <1>c1, <2>2, <2>5, <2>6, OthersSame DEF Grants, GrantedAs, NoMoreThan, NoLessThan
    <2> QED
      BY <1>1, <2>2, <2>3, <2>4, <2>7, SoundStep
  <1>c2. CASE want[c] # SHARED_LOCK
    <2>2. /\ raced' = raced /\ mutex[ProcOf[c]] = c /\ mutex' = mutex /\ eFileLock'[ProcOf[c]] = SHARED_LOCK /\ lock' = lock /\ lock[c] >= RESERVED_LOCK /\ eFileLock[ProcOf[c]] = lock[c]
          /\ pc[c] = "unreserve" /\ pc'[c] = "leave"
      BY <1>0, <1>c2 DEF TypeInv, TypeOK, Goto, Unlocked, InLock, InUnlock, LevelAt, RecordAt, Free, Facts
    <2>3. Compatible' /\ Touches(ProcOf[c]) /\ posix' = Set(ProcOf[c], {"PENDING", "RESERVED"}, "no")
      <3>1. Allows(ProcOf[c], {"PENDING", "RESERVED"}, "no")
        BY <1>0, <1>c2 DEF Allows
      <3> QED
        BY <1>0, <1>c2, <3>1, CompatibleAfter DEF Bytes, Facts, UnixInv
    <2>4. ClosedUnlocked'
      BY <1>1, <2>2, <1>c2, NoneClosing, ClosedAfter DEF InLock, InUnlock
    <2> HIDE DEF Unreserve, Return
    <2>5. Grants(ProcOf[c], eFileLock[ProcOf[c]], pc[c], want[c], lock[c] = EXCLUSIVE_LOCK \/ OtherExclusive(c))
      BY <2>2, GrantedNow
    <2>6. /\ posix'["SHARED"][ProcOf[c]] = posix["SHARED"][ProcOf[c]] /\ posix'["RESERVED"][ProcOf[c]] = "no" /\ posix'["PENDING"][ProcOf[c]] = "no"
      BY <1>0, <2>3, SetAt DEF Bytes, Facts
    <2>7. Grants(ProcOf[c], eFileLock[ProcOf[c]], pc[c], want[c], lock[c] = EXCLUSIVE_LOCK \/ OtherExclusive(c))'
      BY <1>0, <1>1, <1>c2, <2>2, <2>5, <2>6, OthersSame DEF Grants, GrantedAs, NoMoreThan, NoLessThan
    <2> QED
      BY <1>1, <2>2, <2>3, <2>4, <2>7, SoundStep
  <1> QED
    BY <1>c1, <1>c2

LEMMA LeaveSound ==
  ASSUME UnixInv, NEW c \in Conn, Leave(c)
  PROVE  UnixInv'
  <1>0. TypeInv /\ CallInv /\ Facts(c) /\ PeerFacts(c)
    BY CallFacts DEF UnixInv
  <1>1. CallInv' /\ Moves(c)
    BY LeaveKept DEF UnixInv
  <1> USE DEF Leave, inodeVars
  <1>c1. CASE nShared[ProcOf[c]] = 1
    <2>2. /\ raced' = raced /\ mutex[ProcOf[c]] = c /\ mutex'[ProcOf[c]] = Free /\ eFileLock'[ProcOf[c]] = NO_LOCK /\ lock'[c] = NO_LOCK
          /\ pc[c] = "leave" /\ pc'[c] \in {"check", "idle"}
      BY <1>0, <1>c1 DEF TypeInv, TypeOK, Goto, Unlocked, InLock, InUnlock, LevelAt, RecordAt, Free, Facts
    <2>3. Compatible' /\ Touches(ProcOf[c]) /\ posix' = Set(ProcOf[c], Bytes, "no")
      <3>1. Allows(ProcOf[c], Bytes, "no")
        BY <1>0, <1>c1 DEF Allows
      <3> QED
        BY <1>0, <1>c1, <3>1, CompatibleAfter DEF Bytes, Facts, UnixInv
    <2>4. ClosedUnlocked'
      BY <1>1, <2>2, <1>c1, NoneClosing, ClosedAfter DEF InLock, InUnlock
    <2> HIDE DEF Leave
    <2>5. Grants(ProcOf[c], eFileLock[ProcOf[c]], pc[c], want[c], lock[c] = EXCLUSIVE_LOCK \/ OtherExclusive(c))
      BY <2>2, GrantedNow
    <2>6. /\ posix'["SHARED"][ProcOf[c]] = "no" /\ posix'["RESERVED"][ProcOf[c]] = "no" /\ posix'["PENDING"][ProcOf[c]] = "no"
      BY <1>0, <2>3, SetAt DEF Bytes, Facts
    <2>7. Grants(ProcOf[c], eFileLock[ProcOf[c]], pc[c], want[c], lock[c] = EXCLUSIVE_LOCK \/ OtherExclusive(c))'
      BY <1>0, <1>1, <1>c1, <2>2, <2>5, <2>6, OthersSame DEF Grants, GrantedAs, NoMoreThan, NoLessThan, Facts
    <2> QED
      BY <1>1, <2>2, <2>3, <2>4, <2>7, SoundStep
  <1>c2. CASE nShared[ProcOf[c]] # 1
    <2>1. lock[c] # EXCLUSIVE_LOCK /\ nLock[ProcOf[c]] # 1
      <3>1. lock[c] # NO_LOCK /\ lock[c] \in Levels
        BY <1>0 DEF Facts, LevelAt
      <3>2. PICK d \in Peers(c) \ {c} : lock[d] # NO_LOCK
        BY <1>0, <1>c2, <3>1, CountedHolder DEF CallInv, Facts
      <3> QED
        BY <1>0, <1>c2, <3>2 DEF PeerFacts, Beside, Facts
    <2>2. /\ raced' = raced /\ mutex[ProcOf[c]] = c /\ mutex'[ProcOf[c]] = Free /\ eFileLock'[ProcOf[c]] = eFileLock[ProcOf[c]] /\ lock'[c] = NO_LOCK /\ lock[c] # EXCLUSIVE_LOCK
          /\ pc[c] = "leave" /\ pc'[c] \in {"check", "idle"}
      BY <1>0, <1>c2, <2>1 DEF TypeInv, TypeOK, Goto, Unlocked, InLock, InUnlock, LevelAt, RecordAt, Free, Facts
    <2>3. Compatible' /\ Touches(ProcOf[c]) /\ posix' = posix
      BY <1>0, <1>c2, <2>1, CompatibleSame DEF UnixInv
    <2>4. ClosedUnlocked'
      BY <1>1, <2>2, <1>c2, NoneClosing, ClosedAfter DEF InLock, InUnlock
    <2> HIDE DEF Leave
    <2>5. Grants(ProcOf[c], eFileLock[ProcOf[c]], pc[c], want[c], lock[c] = EXCLUSIVE_LOCK \/ OtherExclusive(c))
      BY <2>2, GrantedNow
    <2>6. /\ posix'["SHARED"][ProcOf[c]] = posix["SHARED"][ProcOf[c]] /\ posix'["RESERVED"][ProcOf[c]] = posix["RESERVED"][ProcOf[c]] /\ posix'["PENDING"][ProcOf[c]] = posix["PENDING"][ProcOf[c]]
      BY <2>3
    <2>7. Grants(ProcOf[c], eFileLock[ProcOf[c]], pc[c], want[c], lock[c] = EXCLUSIVE_LOCK \/ OtherExclusive(c))'
      BY <1>0, <1>1, <1>c2, <2>2, <2>5, <2>6, OthersSame DEF Grants, GrantedAs, NoMoreThan, NoLessThan, Facts
    <2> QED
      BY <1>1, <2>2, <2>3, <2>4, <2>7, SoundStep
  <1> QED
    BY <1>c1, <1>c2

LEMMA OpenSound ==
  ASSUME UnixInv, NEW c \in Conn, Open(c)
  PROVE  UnixInv'
  <1>0. TypeInv /\ Facts(c) /\ Compatible /\ c # Free
    BY CallFacts, FreeIsNoConnection DEF UnixInv, Free
  <1>1. CallInv' /\ Moves(c)
    BY OpenKept DEF UnixInv
  <1>2. Compatible' /\ \A q \in Proc : GrantedTo(q)'
    BY <1>0, <1>1, GrantedAside, CompatibleSame DEF Open, inodeVars, Facts, InLock, InUnlock
  <1>3. ClosedUnlocked'
    BY <1>0, <1>1, ClosedAfter DEF Open, BigLockFree, Closing, Peers, TypeInv, Goto
  <1> QED
    BY <1>1, <1>2, <1>3 DEF UnixInv

LEMMA CloseBeginSound ==
  ASSUME UnixInv, NEW c \in Conn, CloseBegin(c)
  PROVE  UnixInv'
  <1>0. TypeInv /\ Facts(c) /\ Compatible /\ c # Free
    BY CallFacts, FreeIsNoConnection DEF UnixInv, Free
  <1>1. CallInv' /\ Moves(c)
    BY CloseBeginKept DEF UnixInv
  <1>2. CASE lock[c] = NO_LOCK
    <2>1. Compatible' /\ \A q \in Proc : GrantedTo(q)'
      BY <1>0, <1>1, <1>2, GrantedAside, CompatibleSame
      DEF CloseBegin, inodeVars, Facts, InLock, InUnlock
    <2>2. ClosedUnlocked'
      <3>1. pc'[c] = "check" /\ lock'[c] = NO_LOCK /\ raced' = raced
        BY <1>0, <1>2 DEF CloseBegin, TypeInv, Goto, inodeVars
      <3>2. \/ ProcOf[c] \in raced
            \/ \A d \in Peers(c) : pc[d] # "closing"
            \/ \A d \in Peers(c) : lock[d] = NO_LOCK /\ pc[d] \in Unlocked
        BY DEF UnixInv, ClosedUnlocked, Peers
      <3> QED
        BY <1>1, <3>1, <3>2, ClosedAfter DEF Unlocked
    <2> QED
      BY <1>1, <2>1, <2>2 DEF UnixInv
  <1>3. CASE lock[c] # NO_LOCK
    BY <1>0, <1>3, UnlockToSound DEF CloseBegin
  <1> QED
    BY <1>2, <1>3

LEMMA CloseCheckSound ==
  ASSUME UnixInv, NEW c \in Conn, CloseCheck(c)
  PROVE  UnixInv'
  <1>0. TypeInv /\ CallInv /\ Facts(c) /\ PeerFacts(c) /\ c # Free
    BY CallFacts, FreeIsNoConnection DEF UnixInv, Free
  <1>1. CallInv' /\ Moves(c)
    BY CloseCheckKept DEF UnixInv
  <1>2. /\ posix' = posix /\ lock' = lock /\ want' = want /\ eFileLock' = eFileLock /\ mutex' = mutex
        /\ raced' = raced /\ mutex[ProcOf[c]] = Free /\ mutex[ProcOf[c]] # c /\ pc[c] = "check"
    BY <1>0 DEF CloseCheck, Free
  <1>3. Compatible' /\ \A q \in Proc : GrantedTo(q)'
    BY <1>0, <1>1, <1>2, GrantedAside, CompatibleSame DEF UnixInv
  <1>4. CASE nLock[ProcOf[c]] > 0
    <2>1. pc'[c] = "closed" /\ \A d \in Peers(c) : pc[d] # "closing"
      BY <1>0, <1>2, <1>4 DEF CloseCheck, BigLockFree, Closing, Peers, Goto, TypeInv
    <2>2. ClosedUnlocked'
      BY <1>1, <2>1, ClosedAfter
    <2> QED
      BY <1>1, <1>3, <2>2 DEF UnixInv
  <1>5. CASE ~(nLock[ProcOf[c]] > 0)
    <2>1. pc'[c] = "closing" /\ lock'[c] = NO_LOCK
      BY <1>0, <1>2, <1>5 DEF CloseCheck, Goto, TypeInv, Facts, LevelAt, Unlocked
    <2>2. \A d \in Peers(c) \ {c} : pc[d] \in Unlocked
      BY <1>0, <1>2, FreeIsNoConnection DEF CallInv, Guarded, TypeInv, Peers, Free
    <2>3. ASSUME NEW d \in Peers(c) PROVE lock[d] = NO_LOCK
      <3>1. d \in Conn /\ ProcOf[d] = ProcOf[c]
        BY DEF Peers
      <3>2. nShared[ProcOf[d]] = 0
        BY <1>0, <1>5, <3>1 DEF Facts
      <3> QED
        BY <1>0, <3>1, <3>2, CountedHolder DEF CallInv, Facts
    <2>4. ClosedUnlocked'
      BY <1>1, <2>1, <2>2, <2>3, ClosedAfter DEF Unlocked
    <2> QED
      BY <1>1, <1>3, <2>4 DEF UnixInv
  <1> QED
    BY <1>4, <1>5

\* The record of a process none of whose connections has a lock.
LEMMA NoneHeld ==
  ASSUME CallInv, NEW p \in Proc, \A c \in Conn : ProcOf[c] = p => lock[c] = NO_LOCK
  PROVE  eFileLock[p] = NO_LOCK
  BY DEF CallInv, Recorded, Holders

LEMMA CloseFdSound ==
  ASSUME UnixInv, NEW c \in Conn, CloseFd(c)
  PROVE  UnixInv'
  <1> DEFINE p == ProcOf[c]
  <1>0. TypeInv /\ CallInv /\ Facts(c) /\ Compatible
    BY CallFacts DEF UnixInv
  <1>1. CallInv' /\ Moves(c)
    BY CloseFdKept DEF UnixInv
  <1>2. /\ mutex' = mutex /\ eFileLock' = eFileLock /\ lock' = lock /\ pc'[c] = "closed"
        /\ posix' = Set(p, Bytes, "no") /\ lock[c] = NO_LOCK /\ raced' = raced /\ pc[c] = "closing"
    BY <1>0 DEF CloseFd, Goto, TypeInv, inodeVars, Facts, LevelAt, Unlocked
  <1>3. Compatible' /\ Touches(p)
    BY <1>0, <1>2, CompatibleAfter DEF Allows, Facts
  <1>4. posix'["SHARED"][p] = "no" /\ posix'["RESERVED"][p] = "no" /\ posix'["PENDING"][p] = "no"
    BY <1>0, <1>2, SetAt DEF Bytes, Facts
  <1>5. ClosedUnlocked'
    <2>1. ProcOf[c] \in raced \/ \A d \in Peers(c) : lock[d] = NO_LOCK /\ pc[d] \in Unlocked
      BY <1>2 DEF UnixInv, ClosedUnlocked
    <2>2. \/ ProcOf[c] \in raced'
          \/ /\ pc'[c] \in Unlocked /\ lock'[c] = NO_LOCK
             /\ \A d \in Peers(c) \ {c} : lock[d] = NO_LOCK /\ pc[d] \in Unlocked
      BY <1>2, <2>1 DEF Unlocked
    <2> QED
      BY <1>1, <2>2, ClosedAfter
  <1>6. ASSUME p \notin raced PROVE eFileLock[p] = NO_LOCK /\ mutex[p] = Free
    <2>1. \A d \in Peers(c) : d \in Conn /\ lock[d] = NO_LOCK /\ pc[d] \in Unlocked
      BY <1>2, <1>6 DEF UnixInv, ClosedUnlocked, Peers
    <2>2. mutex[p] \notin Peers(c)
      BY <2>1 DEF UnixInv, CallInv, Guarded, Peers, Unlocked, InLock, InUnlock
    <2> QED
      BY <1>0, <2>1, <2>2, NoneHeld DEF CallInv, Guarded, Facts, Peers
  <1>7. GrantedTo(p)'
    BY <1>2, <1>4, <1>6 DEF GrantedTo, GrantedAs, NoMoreThan, NoLessThan
  <1> QED
    BY <1>1, <1>3, <1>5, <1>7, GrantedElsewhere DEF UnixInv

LEMMA CrashSound ==
  ASSUME UnixInv, NEW x \in Proc, Crash(x)
  PROVE  UnixInv'
  <1>0. TypeInv /\ CallInv /\ Compatible
    BY DEF UnixInv, CallInv
  <1>1. CallInv'
    BY <1>0, CrashKept
  <1>2. \A c \in Conn : ProcOf[c] = x => pc'[c] = "closed" /\ lock'[c] = NO_LOCK
    BY DEF Crash, DropAll
  <1>3. \A c \in Conn : ProcOf[c] # x =>
          pc'[c] = pc[c] /\ lock'[c] = lock[c] /\ want'[c] = want[c]
    BY DEF Crash, DropAll
  <1>4. /\ eFileLock'[x] = NO_LOCK /\ mutex'[x] = Free
        /\ \A q \in Proc \ {x} : /\ eFileLock'[q] = eFileLock[q] /\ mutex'[q] = mutex[q]
                                 /\ q \in raced' <=> q \in raced
    BY <1>0 DEF Crash, TypeInv
  <1>5. Compatible' /\ Touches(x)
    <2>1. Allows(x, Bytes, "no")
      BY DEF Allows
    <2> QED
      BY <1>0, <2>1, CompatibleAfter DEF Crash
  <1>6. ClosedUnlocked'
    <2> SUFFICES ASSUME NEW c \in Conn, pc'[c] = "closing", ProcOf[c] \notin raced', NEW d \in Peers(c)
                 PROVE  lock'[d] = NO_LOCK /\ pc'[d] \in Unlocked
      BY DEF ClosedUnlocked, Peers
    <2>1. ProcOf[c] \in Proc \ {x}
      BY <1>2, ProcOfType
    <2> QED
      BY <1>3, <1>4, <2>1 DEF UnixInv, ClosedUnlocked, Peers
  <1>7. ASSUME NEW q \in Proc PROVE GrantedTo(q)'
    <2>1. CASE q = x
      <3>1. posix'["SHARED"][x] = "no" /\ posix'["RESERVED"][x] = "no" /\ posix'["PENDING"][x] = "no"
        BY <1>0, SetAt DEF Bytes, Crash
      <3> QED
        BY <1>4, <2>1, <3>1 DEF GrantedTo, GrantedAs, NoMoreThan, NoLessThan
    <2>2. CASE q # x
      <3>1. \A b \in Bytes : posix'[b][q] = posix[b][q]
        BY <1>5, <2>2 DEF Touches
      <3>2. mutex[q] # Free => mutex[q] \in Conn /\ ProcOf[mutex[q]] = q
        BY <1>0 DEF CallInv, Guarded, TypeInv
      <3>3. mutex[q] # Free => pc'[mutex[q]] = pc[mutex[q]] /\ want'[mutex[q]] = want[mutex[q]]
        BY <1>3, <2>2, <3>2
      <3>4. (\E d \in Conn : ProcOf[d] = q /\ lock'[d] = EXCLUSIVE_LOCK)
              <=> \E d \in Conn : ProcOf[d] = q /\ lock[d] = EXCLUSIVE_LOCK
        BY <1>3, <2>2
      <3>5. eFileLock'[q] = eFileLock[q] /\ mutex'[q] = mutex[q] /\ GrantedTo(q) /\ (q \in raced' <=> q \in raced)
        BY <1>4, <2>2 DEF UnixInv
      <3> QED
        BY <3>1, <3>3, <3>4, <3>5 DEF GrantedTo, GrantedAs, NoMoreThan, NoLessThan, Bytes
    <2> QED
      BY <2>1, <2>2
  <1> QED
    BY <1>1, <1>5, <1>6, <1>7 DEF UnixInv

LEMMA UnixInvInitial == UnixInit => UnixInv
  <1> SUFFICES ASSUME UnixInit PROVE UnixInv
    OBVIOUS
  <1>1. CallInv
    BY CallInvInitial
  <1>2. \A b \in Bytes, p \in Proc : posix[b][p] = "no"
    BY DEF UnixInit
  <1>3. Compatible
    BY <1>2 DEF Compatible
  <1>4. ClosedUnlocked
    BY DEF ClosedUnlocked, UnixInit
  <1>5. \A p \in Proc : GrantedTo(p)
    BY <1>2 DEF GrantedTo, GrantedAs, NoMoreThan, NoLessThan, UnixInit, Bytes
  <1> QED
    BY <1>1, <1>3, <1>4, <1>5 DEF UnixInv

LEMMA UnixInvKept == UnixInv /\ [UnixNext]_vars => UnixInv'
  <1> SUFFICES ASSUME UnixInv, [UnixNext]_vars PROVE UnixInv'
    OBVIOUS
  <1>1. CASE UNCHANGED vars
    <2>1. CallInv'
      BY <1>1, CallInvKept DEF UnixInv
    <2>2. lock' = lock /\ posix' = posix /\ eFileLock' = eFileLock /\ mutex' = mutex /\ pc' = pc /\ want' = want
          /\ raced' = raced
      BY <1>1 DEF vars, inodeVars
    <2>3. Compatible' /\ ClosedUnlocked'
      BY <2>2 DEF UnixInv, Compatible, ClosedUnlocked
    <2>4. \A p \in Proc : GrantedTo(p)'
      BY <2>2 DEF UnixInv, GrantedTo, GrantedAs, NoMoreThan, NoLessThan
    <2> QED
      BY <2>1, <2>3, <2>4 DEF UnixInv
  <1>2. ASSUME NEW c \in Conn, LockStep(c) PROVE UnixInv'
    BY <1>2, SharePendingSound, ShareRangeSound, DropPendingSound, ReserveByteSound,
       ExcludePendingSound, ExcludeRangeSound DEF LockStep
  <1>3. ASSUME NEW c \in Conn, UnlockStep(c) PROVE UnixInv'
    BY <1>3, DowngradeSound, UnreserveSound, LeaveSound DEF UnlockStep
  <1>4. ASSUME NEW c \in Conn, CloseStep(c) PROVE UnixInv'
    BY <1>4, CloseCheckSound, CloseFdSound DEF CloseStep
  <1> QED
    BY <1>1, <1>2, <1>3, <1>4, OpenSound, CloseBeginSound, LockJoinSound, LockBeginSound,
       UnlockBeginSound, CrashSound DEF UnixNext

(* Connections, inode records and the operating system agree between any   *)
(* two system calls (the protocol of os_unix.c:1726-1790): fully in a       *)
(* process none of whose lock calls overlapped a close(), and in the others *)
(* as far as that the system has granted nothing the record does not know. *)
THEOREM SystemAgrees == UnixSpec => []UnixInv
  <1>1. UnixInit => UnixInv
    BY UnixInvInitial
  <1>2. UnixInv /\ [UnixNext]_vars => UnixInv'
    BY UnixInvKept
  <1> QED
    BY <1>1, <1>2, PTL DEF UnixSpec

-----------------------------------------------------------------------------
(* What other processes see of the level of a connection                   *)

LEMMA HeldIs ==
  ASSUME NEW c \in Conn, ProcOf[c] \notin raced
  PROVE  /\ pc[c] = "drop" => Held(c) = SHARED_LOCK
         /\ pc[c] \in InUnlock => Held(c) = IF want[c] = CLOSE THEN NO_LOCK ELSE want[c]
         /\ pc[c] # "drop" /\ pc[c] \notin InUnlock => Held(c) = lock[c]
  BY DEF Held, Believed, InUnlock

LEMMA NoneHeldIn ==
  ASSUME NEW c \in Conn, Held(c) # NO_LOCK
  PROVE  ProcOf[c] \notin raced
  BY DEF Held

\* Above SHARED, the level is the one the record has, and bytes of the file are
\* write-locked for it.
LEMMA WriterHeld ==
  ASSUME UnixInv, NEW c \in Conn, Held(c) > SHARED_LOCK
  PROVE  /\ ProcOf[c] \notin raced /\ Held(c) = lock[c] /\ eFileLock[ProcOf[c]] = lock[c]
         /\ Held(c) \in {RESERVED_LOCK, PENDING_LOCK} => posix["RESERVED"][ProcOf[c]] = "wr"
         /\ Held(c) = EXCLUSIVE_LOCK => posix["SHARED"][ProcOf[c]] = "wr"
         /\ Held(c) \in {RESERVED_LOCK, PENDING_LOCK, EXCLUSIVE_LOCK}
  <1>0. TypeInv /\ CallInv /\ Facts(c) /\ PeerFacts(c)
    BY CallFacts DEF UnixInv
  <1>r. ProcOf[c] \notin raced
    BY NoneHeldIn
  <1>1. Held(c) = lock[c] /\ pc[c] \notin InUnlock
    BY <1>0, <1>r, HeldIs DEF Facts, LevelAt, InUnlock
  <1>2. eFileLock[ProcOf[c]] = lock[c] /\ lock[c] \in {RESERVED_LOCK, PENDING_LOCK, EXCLUSIVE_LOCK}
    BY <1>0, <1>1 DEF Facts, RecordAt, InUnlock
  <1>3. GrantedTo(ProcOf[c])
    BY <1>0 DEF UnixInv, Facts
  <1>4. lock[c] \in {RESERVED_LOCK, PENDING_LOCK} => posix["RESERVED"][ProcOf[c]] = "wr"
    BY <1>2, <1>3, <1>r DEF GrantedTo, GrantedAs, NoMoreThan, NoLessThan
  <1>5. ASSUME lock[c] = EXCLUSIVE_LOCK PROVE posix["SHARED"][ProcOf[c]] = "wr"
    <2>1. mutex[ProcOf[c]] # Free => pc[mutex[ProcOf[c]]] # "unreserve"
      <3> SUFFICES ASSUME mutex[ProcOf[c]] # Free, pc[mutex[ProcOf[c]]] = "unreserve" PROVE FALSE
        OBVIOUS
      <3> DEFINE d == mutex[ProcOf[c]]
      <3>1. d \in Conn /\ ProcOf[d] = ProcOf[c]
        BY <1>0 DEF CallInv, Guarded, Facts
      <3>2. d # c /\ d \in Peers(c)
        BY <1>1, <3>1 DEF Peers, InUnlock
      <3>3. lock[d] >= RESERVED_LOCK
        BY <1>0, <3>1 DEF CallInv, Recorded, LevelAt
      <3> QED
        BY <1>0, <1>5, <3>2, <3>3 DEF PeerFacts, Beside
    <2> QED
      BY <1>2, <1>3, <1>5, <1>r, <2>1 DEF GrantedTo, GrantedAs, NoMoreThan, NoLessThan
  <1> QED
    BY <1>1, <1>2, <1>4, <1>5, <1>r

\* A process any of whose connections reads or writes has the shared range.
LEMMA ReaderHeld ==
  ASSUME UnixInv, NEW c \in Conn, Held(c) # NO_LOCK
  PROVE  posix["SHARED"][ProcOf[c]] # "no"
  <1>0. TypeInv /\ CallInv /\ Facts(c) /\ GrantedTo(ProcOf[c]) /\ ProcOf[c] \notin raced
    BY CallFacts, NoneHeldIn DEF UnixInv, Facts
  <1>1. CASE pc[c] = "drop"
    <2>1. mutex[ProcOf[c]] = c /\ c # Free
      BY <1>0, <1>1 DEF Facts, InLock
    <2> QED
      BY <1>0, <1>1, <2>1 DEF GrantedTo, GrantedAs, NoMoreThan, NoLessThan
  <1>2. CASE pc[c] # "drop"
    <2>1. lock[c] # NO_LOCK
      BY <1>0, <1>2, HeldIs DEF Facts, LevelAt, InUnlock
    <2>2. eFileLock[ProcOf[c]] # NO_LOCK
      BY <1>0, <2>1 DEF Facts, RecordAt
    <2> QED
      BY <1>0, <2>2 DEF GrantedTo, GrantedAs, NoMoreThan, NoLessThan
  <1> QED
    BY <1>1, <1>2

\* A connection with EXCLUSIVE is alone, in its process and beside others.
LEMMA ExclusiveHeld ==
  ASSUME UnixInv, NEW c \in Conn, Held(c) = EXCLUSIVE_LOCK, NEW d \in Conn \ {c}
  PROVE  Held(d) = NO_LOCK
  <1>0. TypeInv /\ CallInv /\ Facts(c) /\ Facts(d) /\ PeerFacts(c) /\ Compatible
    BY CallFacts DEF UnixInv
  <1>1. lock[c] = EXCLUSIVE_LOCK /\ eFileLock[ProcOf[c]] = EXCLUSIVE_LOCK /\ ProcOf[c] \notin raced
    BY WriterHeld
  <1>2. CASE ProcOf[d] = ProcOf[c]
    <2>1. lock[d] = NO_LOCK
      BY <1>0, <1>1, <1>2 DEF PeerFacts, Beside, Peers
    <2>2. pc[d] \notin InLock \cup InUnlock
      BY <1>0, <1>1, <1>2, <2>1 DEF Facts, RecordAt, LevelAt, InUnlock
    <2> QED
      BY <1>1, <1>2, <2>1, <2>2, HeldIs DEF InLock
  <1>3. CASE ProcOf[d] # ProcOf[c]
    <2>1. posix["SHARED"][ProcOf[c]] = "wr"
      BY WriterHeld
    <2>2. posix["SHARED"][ProcOf[d]] = "no"
      BY <1>0, <1>3, <2>1 DEF Compatible, Facts, Bytes
    <2> QED
      BY <2>2, ReaderHeld
  <1> QED
    BY <1>2, <1>3

(* Nobody reads the file while somebody may write it (os_unix.c:1747), as  *)
(* long as no lock call of their processes overlaps a close().             *)
THEOREM ExclusiveIsAloneHere == UnixSpec => []Abstract!ExclusiveIsAlone
  <1>1. UnixInv => Abstract!ExclusiveIsAlone
    <2> SUFFICES ASSUME UnixInv PROVE Abstract!ExclusiveIsAlone
      OBVIOUS
    <2>1. \A c \in Conn : Held(c) = EXCLUSIVE_LOCK => \A d \in Conn \ {c} : Held(d) = NO_LOCK
      BY ExclusiveHeld
    <2> QED
      BY <2>1 DEF Abstract!ExclusiveIsAlone, Abstract!Others, Abstract!NO_LOCK,
                  Abstract!EXCLUSIVE_LOCK
  <1> QED
    BY <1>1, SystemAgrees, PTL

(* Only a call that overlaps a close() can put somebody beside an EXCLUSIVE *)
(* lock, as in the behaviour that breaks ExclusiveAlone.                   *)
THEOREM OnlyRacesIntrude == UnixSpec => [](raced = {} => ExclusiveAlone)
  <1>1. UnixInv => (raced = {} => ExclusiveAlone)
    <2> SUFFICES ASSUME UnixInv, raced = {} PROVE ExclusiveAlone
      OBVIOUS
    <2>1. \A c \in Conn : Believed(c) = Held(c)
      BY DEF Held
    <2> QED
      BY <2>1, ExclusiveHeld DEF ExclusiveAlone
  <1> QED
    BY <1>1, SystemAgrees, PTL

(* With no thread inside the lock functions the operating system has        *)
(* granted a process nothing its record does not say, and everything it     *)
(* says unless a lock call overlapped a close() (os_unix.c:2199-2211).      *)
THEOREM RecordIsSystem == UnixSpec => []RecordMatchesSystem
  <1>1. UnixInv => RecordMatchesSystem
    <2> SUFFICES ASSUME UnixInv, NEW p \in Proc, mutex[p] = Free
                 PROVE  /\ eFileLock[p] = NO_LOCK => \A b \in Bytes : posix[b][p] = "no"
                        /\ posix["SHARED"][p] = "wr" => eFileLock[p] = EXCLUSIVE_LOCK
                        /\ posix["RESERVED"][p] = "wr" => eFileLock[p] >= RESERVED_LOCK
                        /\ posix["PENDING"][p] = "wr" => eFileLock[p] >= PENDING_LOCK
                        /\ p \notin raced =>
                             /\ eFileLock[p] # NO_LOCK => posix["SHARED"][p] # "no"
                             /\ eFileLock[p] = EXCLUSIVE_LOCK => posix["SHARED"][p] = "wr"
                             /\ eFileLock[p] \in {RESERVED_LOCK, PENDING_LOCK} => posix["RESERVED"][p] = "wr"
                             /\ eFileLock[p] = PENDING_LOCK => posix["PENDING"][p] = "wr"
      BY DEF RecordMatchesSystem
    <2>0. TypeInv /\ CallInv /\ GrantedTo(p)
      BY DEF UnixInv, CallInv
    <2>1. /\ eFileLock[p] \in Levels
          /\ \A b \in Bytes : posix[b][p] \in {"no", "rd", "wr"}
      BY <2>0 DEF TypeInv
    <2>2. posix["SHARED"][p] = "wr" => eFileLock[p] = EXCLUSIVE_LOCK
      <3> SUFFICES ASSUME posix["SHARED"][p] = "wr" PROVE eFileLock[p] = EXCLUSIVE_LOCK
        OBVIOUS
      <3>1. PICK c \in Conn : ProcOf[c] = p /\ lock[c] = EXCLUSIVE_LOCK
        BY <2>0 DEF GrantedTo, GrantedAs, NoMoreThan
      <3>2. pc[c] \notin InUnlock
        BY <2>0, <3>1, FreeIsNoConnection DEF CallInv, Guarded, Free
      <3> QED
        BY <2>0, <3>1, <3>2 DEF CallInv, Recorded, RecordAt, InUnlock
    <2>3. /\ eFileLock[p] = NO_LOCK => posix["SHARED"][p] = "no"
          /\ posix["RESERVED"][p] # "no" => eFileLock[p] > SHARED_LOCK
          /\ posix["PENDING"][p] = "wr" => eFileLock[p] >= PENDING_LOCK
          /\ posix["PENDING"][p] # "rd"
      BY <2>0 DEF GrantedTo, GrantedAs, NoMoreThan
    <2>4. p \notin raced =>
            /\ eFileLock[p] # NO_LOCK => posix["SHARED"][p] # "no"
            /\ eFileLock[p] = EXCLUSIVE_LOCK => posix["SHARED"][p] = "wr"
            /\ eFileLock[p] \in {RESERVED_LOCK, PENDING_LOCK} => posix["RESERVED"][p] = "wr"
            /\ eFileLock[p] = PENDING_LOCK => posix["PENDING"][p] = "wr"
      BY <2>0 DEF GrantedTo, GrantedAs, NoLessThan
    <2>5. eFileLock[p] = NO_LOCK => \A b \in Bytes : posix[b][p] = "no"
      BY <2>1, <2>3 DEF Bytes
    <2> QED
      BY <2>1, <2>2, <2>3, <2>4, <2>5
  <1> QED
    BY <1>1, SystemAgrees, PTL

(* A reader of the journal's state sees every writer, and no writer that is *)
(* gone (hasHotJournal relies on it), where neither of them is in a process *)
(* that a close() overlapping a lock call may have robbed.                 *)
THEOREM WritersSeen == UnixSpec => []WritersAreSeen
  <1>1. UnixInv => WritersAreSeen
    <2> SUFFICES ASSUME UnixInv, NEW c \in Conn, Held(c) = SHARED_LOCK, mutex[ProcOf[c]] = Free
                 PROVE  /\ (\E d \in Conn : Held(d) >= RESERVED_LOCK) => ReservedSeen(c)
                        /\ ReservedSeen(c) => \E d \in Conn \ {c} : lock[d] >= RESERVED_LOCK
      BY DEF WritersAreSeen
    <2> DEFINE p == ProcOf[c]
    <2>0. TypeInv /\ CallInv /\ Facts(c) /\ Compatible /\ ProcOf[c] \notin raced
      BY CallFacts, NoneHeldIn DEF UnixInv
    <2>1. ASSUME NEW d \in Conn, Held(d) >= RESERVED_LOCK PROVE ReservedSeen(c)
      <3>1. /\ Held(d) \in {RESERVED_LOCK, PENDING_LOCK, EXCLUSIVE_LOCK} /\ d # c
            /\ eFileLock[ProcOf[d]] = Held(d)
            /\ Held(d) # EXCLUSIVE_LOCK => posix["RESERVED"][ProcOf[d]] = "wr"
        <4>1. Held(d) > SHARED_LOCK
          <5>1. Held(d) \in {NO_LOCK, SHARED_LOCK, RESERVED_LOCK, PENDING_LOCK, EXCLUSIVE_LOCK}
            <6>1. CASE ProcOf[d] \in raced
              BY <6>1 DEF Held
            <6>2. CASE ProcOf[d] \notin raced
              <7>1. Facts(d)
                BY <2>0, CallFacts
              <7> QED
                BY <6>2, <7>1, HeldIs DEF Facts, LevelAt, InUnlock
            <6> QED
              BY <6>1, <6>2
          <5> QED
            BY <2>1, <5>1
        <4> QED
          BY <4>1, WriterHeld
      <3>2. Held(d) # EXCLUSIVE_LOCK
        BY <3>1, ExclusiveHeld
      <3>3. CASE ProcOf[d] = p
        BY <3>1, <3>3 DEF ReservedSeen
      <3>4. CASE ProcOf[d] # p
        BY <3>1, <3>2, <3>4, ProcOfType DEF ReservedSeen
      <3> QED
        BY <3>3, <3>4
    <2>2. ASSUME NEW q \in Proc, eFileLock[q] > SHARED_LOCK
          PROVE  \E d \in Conn : ProcOf[d] = q /\ lock[d] = eFileLock[q]
      <3>1. eFileLock[q] \in Levels /\ eFileLock[q] # NO_LOCK
        BY <2>0, <2>2 DEF TypeInv
      <3>2. PICK d \in Holders(q) : eFileLock[q] \in {SHARED_LOCK, lock[d]}
        BY <2>0, <3>1 DEF CallInv, Recorded
      <3> QED
        BY <2>2, <3>2 DEF Holders
    <2>3. lock[c] = SHARED_LOCK
      BY <2>0, HeldIs DEF Facts, InLock, InUnlock
    <2>4. ASSUME ReservedSeen(c) PROVE \E d \in Conn \ {c} : lock[d] >= RESERVED_LOCK
      <3>1. CASE eFileLock[p] > SHARED_LOCK
        BY <2>0, <2>2, <2>3, <3>1 DEF Facts
      <3>2. ASSUME NEW q \in Proc \ {p}, posix["RESERVED"][q] # "no"
            PROVE  \E d \in Conn \ {c} : lock[d] >= RESERVED_LOCK
        <4>1. eFileLock[q] > SHARED_LOCK
          BY <3>2 DEF UnixInv, GrantedTo, GrantedAs, NoMoreThan, NoLessThan
        <4>2. PICK d \in Conn : ProcOf[d] = q /\ lock[d] = eFileLock[q]
          BY <2>2, <4>1
        <4> QED
          BY <3>2, <4>1, <4>2, <2>0 DEF TypeInv
      <3> QED
        BY <2>4, <3>1, <3>2 DEF ReservedSeen
    <2> QED
      BY <2>1, <2>4
  <1> QED
    BY <1>1, SystemAgrees, PTL

(* The read lock of a downgrade is refused to no process, except where a    *)
(* close() overlapping a lock call may have dropped the write lock before.  *)
THEOREM DowngradeGranted == UnixSpec => []DowngradeIsGranted
  <1>1. UnixInv => DowngradeIsGranted
    <2> SUFFICES ASSUME UnixInv, NEW c \in Conn, pc[c] = "downgrade", ProcOf[c] \notin raced,
                             NEW q \in Proc \ {ProcOf[c]}
                 PROVE  posix["SHARED"][q] # "wr"
      BY DEF DowngradeIsGranted, MayRead
    <2>1. Facts(c) /\ Compatible
      BY CallFacts DEF UnixInv
    <2>2. mutex[ProcOf[c]] = c /\ eFileLock[ProcOf[c]] # NO_LOCK
      BY <2>1 DEF Facts, LevelAt, RecordAt, InUnlock
    <2>3. posix["SHARED"][ProcOf[c]] # "no"
      BY <2>1, <2>2, GrantedNow DEF Grants, GrantedAs, NoMoreThan, NoLessThan
    <2> QED
      BY <2>1, <2>3 DEF Compatible, Facts, Bytes
  <1> QED
    BY <1>1, SystemAgrees, PTL

-----------------------------------------------------------------------------
(* The refinement: every step is one of FileLock's, or none                *)

HeldBy == [c \in Conn |-> Held(c)]

LEMMA HeldAfter ==
  ASSUME TypeInv, NEW c \in Conn, Moves(c), raced' = raced
  PROVE  HeldBy' = [HeldBy EXCEPT ![c] = Held(c)']
  <1>1. \A d \in Conn \ {c} : pc'[d] = pc[d] /\ want'[d] = want[d] /\ lock'[d] = lock[d]
    BY DEF Moves, StepTo, TypeInv, TypeOK
  <1>2. \A d \in Conn \ {c} : Held(d)' = Held(d)
    BY <1>1 DEF Held, Believed
  <1> QED
    BY <1>2 DEF HeldBy

\* Steps that leave the level of their connection alone.
LEMMA HeldStill ==
  ASSUME TypeInv, NEW c \in Conn, Moves(c), raced' = raced, Held(c)' = Held(c)
  PROVE  HeldBy' = HeldBy
  BY HeldAfter DEF HeldBy

\* What a process does that a close() may have robbed leaves the levels alone.
LEMMA RacedStill ==
  ASSUME TypeInv, NEW c \in Conn, Moves(c), raced' = raced, ProcOf[c] \in raced
  PROVE  HeldBy' = HeldBy
  <1>1. Held(c)' = Held(c)
    BY DEF Held
  <1> QED
    BY <1>1, HeldStill

LEMMA HeldIsAfter ==
  ASSUME NEW c \in Conn, ProcOf[c] \notin raced'
  PROVE  /\ pc'[c] = "drop" => Held(c)' = SHARED_LOCK
         /\ pc'[c] \in InUnlock => Held(c)' = IF want'[c] = CLOSE THEN NO_LOCK ELSE want'[c]
         /\ pc'[c] # "drop" /\ pc'[c] \notin InUnlock => Held(c)' = lock'[c]
  BY DEF Held, Believed, InUnlock

USE DEF Abstract!NO_LOCK, Abstract!SHARED_LOCK, Abstract!RESERVED_LOCK, Abstract!PENDING_LOCK,
        Abstract!EXCLUSIVE_LOCK

LEMMA LevelOf ==
  ASSUME UnixInv, NEW c \in Conn
  PROVE  Held(c) \in Levels
  <1>1. CASE ProcOf[c] \in raced
    BY <1>1 DEF Held
  <1>2. CASE ProcOf[c] \notin raced
    BY <1>2, CallFacts, HeldIs DEF UnixInv, Facts, LevelAt, InUnlock
  <1> QED
    BY <1>1, <1>2

\* The abstract actions.
LEMMA ShareHeld ==
  ASSUME UnixInv, NEW c \in Conn, Moves(c), raced' = raced, Held(c) = NO_LOCK, Held(c)' = SHARED_LOCK,
         \A d \in Conn \ {c} : Held(d) # EXCLUSIVE_LOCK
  PROVE  Abstract!Next
  <1>1. HeldBy' = [HeldBy EXCEPT ![c] = SHARED_LOCK]
    BY HeldAfter DEF UnixInv, CallInv
  <1>2. Abstract!Share(c)
    BY <1>1, LevelOf DEF HeldBy, Abstract!Share, Abstract!MayShare, Abstract!Others
  <1> QED
    BY <1>2 DEF Abstract!Next

LEMMA ReserveHeld ==
  ASSUME UnixInv, NEW c \in Conn, Moves(c), raced' = raced, Held(c) = SHARED_LOCK, Held(c)' = RESERVED_LOCK,
         \A d \in Conn \ {c} : Held(d) <= SHARED_LOCK
  PROVE  Abstract!Next
  <1>1. HeldBy' = [HeldBy EXCEPT ![c] = RESERVED_LOCK]
    BY HeldAfter DEF UnixInv, CallInv
  <1>2. Abstract!Reserve(c)
    BY <1>1, LevelOf DEF HeldBy, Abstract!Reserve, Abstract!MayReserve, Abstract!Others
  <1> QED
    BY <1>2 DEF Abstract!Next

LEMMA PendHeld ==
  ASSUME UnixInv, NEW c \in Conn, Moves(c), raced' = raced, Held(c) = RESERVED_LOCK, Held(c)' = PENDING_LOCK
  PROVE  Abstract!Next
  <1>1. HeldBy' = [HeldBy EXCEPT ![c] = PENDING_LOCK]
    BY HeldAfter DEF UnixInv, CallInv
  <1>2. Abstract!Pend(c)
    BY <1>1 DEF HeldBy, Abstract!Pend
  <1> QED
    BY <1>2 DEF Abstract!Next

LEMMA ExcludeHeld ==
  ASSUME UnixInv, NEW c \in Conn, Moves(c), raced' = raced, Held(c) \in SHARED_LOCK .. PENDING_LOCK,
         Held(c)' = EXCLUSIVE_LOCK, \A d \in Conn \ {c} : Held(d) = NO_LOCK
  PROVE  Abstract!Next
  <1>1. HeldBy' = [HeldBy EXCEPT ![c] = EXCLUSIVE_LOCK]
    BY HeldAfter DEF UnixInv, CallInv
  <1>2. Abstract!Exclude(c)
    BY <1>1 DEF HeldBy, Abstract!Exclude, Abstract!MayExclude, Abstract!Others
  <1> QED
    BY <1>2 DEF Abstract!Next

LEMMA LowerHeld ==
  ASSUME UnixInv, NEW c \in Conn, Moves(c), raced' = raced, NEW l \in {NO_LOCK, SHARED_LOCK}, l < Held(c), Held(c)' = l
  PROVE  Abstract!Next
  <1>1. HeldBy' = [HeldBy EXCEPT ![c] = l]
    BY HeldAfter DEF UnixInv, CallInv
  <1>2. Abstract!Lower(c, l)
    BY <1>1 DEF HeldBy, Abstract!Lower
  <1> QED
    BY <1>2 DEF Abstract!Next

\* Which level each step gives.
LEMMA LockStepRefines ==
  ASSUME UnixInv, NEW c \in Conn, LockStep(c), ProcOf[c] \notin raced
  PROVE  Abstract!Next \/ HeldBy' = HeldBy
  <1> DEFINE p == ProcOf[c]
  <1>0. TypeInv /\ TypeOK /\ CallInv /\ Facts(c) /\ Compatible
    BY CallFacts DEF UnixInv, TypeInv
  <1>1. Moves(c)
    BY <1>0, SharePendingKept, ShareRangeKept, DropPendingKept, ReserveByteKept, ExcludePendingKept,
       ExcludeRangeKept DEF LockStep
  <1>r. raced' = raced /\ p \notin raced'
    BY DEF LockStep, SharePending, ShareRange, DropPending, ReserveByte, ExcludePending, ExcludeRange,
           Busy, inodeVars
  <1>2. ASSUME Busy(c), pc[c] \in {"pending", "reserve", "exclude"} PROVE HeldBy' = HeldBy
    <2>1. pc'[c] = "idle" /\ lock' = lock
      BY <1>0, <1>2 DEF Busy, Return, Goto, TypeInv
    <2>2. Held(c)' = Held(c)
      BY <1>2, <2>1, <1>r, HeldIs, HeldIsAfter DEF InUnlock
    <2> QED
      BY <1>0, <1>1, <2>2, <1>r, HeldStill
  <1>3. CASE SharePending(c)
    <2>1. CASE MayRead(p, "PENDING")
      <3>1. pc[c] = "pending" /\ pc'[c] = "range" /\ lock' = lock
        BY <1>0, <1>3, <2>1 DEF SharePending, Goto, TypeInv
      <3>2. Held(c)' = Held(c)
        BY <3>1, <1>r, HeldIs, HeldIsAfter DEF InUnlock
      <3> QED
        BY <1>0, <1>1, <3>2, <1>r, HeldStill
    <2>2. CASE ~MayRead(p, "PENDING")
      BY <1>2, <1>3, <2>2 DEF SharePending
    <2> QED
      BY <2>1, <2>2
  <1>4. CASE ShareRange(c)
    <2>0. pc[c] = "range" /\ lock' = lock /\ lock[c] = NO_LOCK /\ eFileLock[p] = NO_LOCK
      BY <1>0, <1>4 DEF ShareRange, Facts, LevelAt, RecordAt, InLock
    <2>1. CASE MayRead(p, "SHARED")
      <3>1. pc'[c] = "drop"
        BY <1>0, <1>4, <2>1 DEF ShareRange, Goto, TypeInv
      <3>2. Held(c) = NO_LOCK /\ Held(c)' = SHARED_LOCK
        BY <2>0, <3>1, <1>r, HeldIs, HeldIsAfter DEF InUnlock
      <3>3. ASSUME NEW d \in Conn \ {c}, Held(d) = EXCLUSIVE_LOCK PROVE FALSE
        <4>1. eFileLock[ProcOf[d]] = EXCLUSIVE_LOCK /\ posix["SHARED"][ProcOf[d]] = "wr"
          BY <3>3, WriterHeld
        <4>2. ProcOf[d] \in Proc \ {p}
          BY <2>0, <4>1, ProcOfType
        <4> QED
          BY <2>1, <4>1, <4>2 DEF MayRead
      <3> QED
        BY <1>1, <3>2, <3>3, <1>r, ShareHeld
    <2>2. CASE ~MayRead(p, "SHARED")
      <3>1. pc'[c] = "dropBusy"
        BY <1>0, <1>4, <2>2 DEF ShareRange, Goto, TypeInv
      <3>2. Held(c)' = Held(c)
        BY <2>0, <3>1, <1>r, HeldIs, HeldIsAfter DEF InUnlock
      <3> QED
        BY <1>0, <1>1, <3>2, <1>r, HeldStill
    <2> QED
      BY <2>1, <2>2
  <1>5. CASE DropPending(c)
    <2>1. pc[c] \in {"drop", "dropBusy"} /\ pc'[c] = "idle"
      BY <1>0, <1>5 DEF DropPending, Return, Goto, TypeInv
    <2>2. lock'[c] = IF pc[c] = "drop" THEN SHARED_LOCK ELSE lock[c]
      BY <1>0, <1>5 DEF DropPending, Granted, TypeOK
    <2>3. Held(c)' = Held(c)
      BY <2>1, <2>2, <1>r, HeldIs, HeldIsAfter DEF InUnlock
    <2> QED
      BY <1>0, <1>1, <2>3, <1>r, HeldStill
  <1>6. CASE ReserveByte(c)
    <2>0. pc[c] = "reserve" /\ lock[c] = SHARED_LOCK /\ eFileLock[p] = SHARED_LOCK
      BY <1>0, <1>6 DEF ReserveByte, Facts, LevelAt, RecordAt, InLock
    <2>1. CASE MayWrite(p, "RESERVED")
      <3>1. pc'[c] = "idle" /\ lock'[c] = RESERVED_LOCK
        BY <1>0, <1>6, <2>1 DEF ReserveByte, Return, Granted, Goto, TypeInv, TypeOK
      <3>2. Held(c) = SHARED_LOCK /\ Held(c)' = RESERVED_LOCK
        BY <2>0, <3>1, <1>r, HeldIs, HeldIsAfter DEF InUnlock
      <3>3. ASSUME NEW d \in Conn \ {c}, Held(d) > SHARED_LOCK PROVE FALSE
        <4>1. /\ eFileLock[ProcOf[d]] = Held(d)
              /\ Held(d) # EXCLUSIVE_LOCK => posix["RESERVED"][ProcOf[d]] = "wr"
          BY <3>3, WriterHeld
        <4>2. Held(d) # EXCLUSIVE_LOCK
          BY <3>2, ExclusiveHeld
        <4>3. ProcOf[d] \in Proc \ {p}
          BY <2>0, <3>3, <4>1, ProcOfType
        <4> QED
          BY <2>1, <4>1, <4>2, <4>3 DEF MayWrite
      <3>4. ASSUME NEW d \in Conn \ {c} PROVE Held(d) <= SHARED_LOCK
        <4>1. Held(d) \in Levels
          BY LevelOf
        <4> QED
          BY <3>3, <4>1
      <3> QED
        BY <1>1, <3>2, <3>4, <1>r, ReserveHeld
    <2>2. CASE ~MayWrite(p, "RESERVED")
      BY <1>2, <1>6, <2>2 DEF ReserveByte
    <2> QED
      BY <2>1, <2>2
  <1>7. CASE ExcludePending(c)
    <2>0. pc[c] = "pending" /\ lock[c] = RESERVED_LOCK
      BY <1>0, <1>7 DEF ExcludePending, Facts, LevelAt
    <2>1. CASE MayWrite(p, "PENDING")
      <3>1. pc'[c] = "exclude" /\ lock'[c] = PENDING_LOCK
        BY <1>0, <1>7, <2>1 DEF ExcludePending, Granted, Goto, TypeInv, TypeOK
      <3>2. Held(c) = RESERVED_LOCK /\ Held(c)' = PENDING_LOCK
        BY <2>0, <3>1, <1>r, HeldIs, HeldIsAfter DEF InUnlock
      <3> QED
        BY <1>1, <3>2, <1>r, PendHeld
    <2>2. CASE ~MayWrite(p, "PENDING")
      BY <1>2, <1>7, <2>2 DEF ExcludePending
    <2> QED
      BY <2>1, <2>2
  <1>8. CASE ExcludeRange(c)
    <2>0. pc[c] = "exclude" /\ lock[c] \in {SHARED_LOCK, PENDING_LOCK} /\ mutex[p] = c /\ c # Free
      BY <1>0, <1>8 DEF ExcludeRange, Facts, LevelAt, InLock
    <2>1. CASE nShared[p] <= 1 /\ MayWrite(p, "SHARED")
      <3>1. pc'[c] = "idle" /\ lock'[c] = EXCLUSIVE_LOCK
        BY <1>0, <1>8, <2>1 DEF ExcludeRange, Return, Granted, Goto, TypeInv, TypeOK
      <3>2. Held(c) \in SHARED_LOCK .. PENDING_LOCK /\ Held(c)' = EXCLUSIVE_LOCK
        BY <2>0, <3>1, <1>r, HeldIs, HeldIsAfter DEF InUnlock
      <3>3. ASSUME NEW d \in Conn \ {c} PROVE Held(d) = NO_LOCK
        <4>1. CASE ProcOf[d] = p
          <5>1. lock[d] = NO_LOCK
            BY <1>0, <2>0, <2>1, <4>1, CountedHolder DEF CallInv, Facts, Peers
          <5>2. pc[d] \notin InLock \cup InUnlock
            BY <1>0, <2>0, <4>1 DEF CallInv, Guarded
          <5> QED
            BY <4>1, <5>1, <5>2, HeldIs DEF InLock
        <4>2. CASE ProcOf[d] # p
          <5>1. posix["SHARED"][ProcOf[d]] = "no"
            BY <2>1, <4>2, ProcOfType DEF MayWrite
          <5> QED
            BY <5>1, ReaderHeld
        <4> QED
          BY <4>1, <4>2
      <3> QED
        BY <1>1, <3>2, <3>3, <1>r, ExcludeHeld
    <2>2. CASE ~(nShared[p] <= 1 /\ MayWrite(p, "SHARED"))
      BY <1>2, <1>8, <2>2 DEF ExcludeRange
    <2> QED
      BY <2>1, <2>2
  <1> QED
    BY <1>3, <1>4, <1>5, <1>6, <1>7, <1>8 DEF LockStep

LEMMA LockJoinRefines ==
  ASSUME UnixInv, NEW c \in Conn, LockJoin(c), ProcOf[c] \notin raced
  PROVE  Abstract!Next
  <1>0. TypeInv /\ TypeOK /\ CallInv /\ Facts(c) /\ Compatible /\ c # Free /\ GrantedTo(ProcOf[c])
    BY CallFacts, FreeIsNoConnection DEF UnixInv, TypeInv, Free, Facts
  <1>1. Moves(c)
    BY <1>0, LockJoinKept
  <1>2. /\ pc[c] = "idle" /\ pc'[c] = "idle" /\ lock[c] = NO_LOCK /\ lock'[c] = SHARED_LOCK
        /\ eFileLock[ProcOf[c]] \in {SHARED_LOCK, RESERVED_LOCK} /\ raced' = raced
    BY <1>0 DEF LockJoin, Legal, TypeOK, Facts
  <1>3. Held(c) = NO_LOCK /\ Held(c)' = SHARED_LOCK
    BY <1>2, HeldIs, HeldIsAfter DEF InUnlock
  <1>4. ASSUME NEW d \in Conn \ {c}, Held(d) = EXCLUSIVE_LOCK PROVE FALSE
    <2>1. eFileLock[ProcOf[d]] = EXCLUSIVE_LOCK /\ posix["SHARED"][ProcOf[d]] = "wr"
      BY <1>4, WriterHeld
    <2>2. ProcOf[d] # ProcOf[c]
      BY <1>2, <2>1
    <2>3. posix["SHARED"][ProcOf[c]] = "no"
      BY <1>0, <2>1, <2>2, ProcOfType DEF Compatible, Bytes
    <2> QED
      BY <1>0, <1>2, <2>3 DEF GrantedTo, GrantedAs, NoMoreThan, NoLessThan
  <1> QED
    BY <1>1, <1>2, <1>3, <1>4, ShareHeld

LEMMA UnlockToRefines ==
  ASSUME UnixInv, NEW c \in Conn, Moves(c), ProcOf[c] \notin raced, pc[c] = "idle", NEW l \in {NO_LOCK, SHARED_LOCK}, NEW why,
         why = l \/ (why = CLOSE /\ l = NO_LOCK), UnlockTo(c, l, why)
  PROVE  Abstract!Next
  <1>0. TypeInv
    BY DEF UnixInv, CallInv
  <1>1. l < lock[c] /\ pc'[c] \in InUnlock /\ want'[c] = why /\ raced' = raced
    BY <1>0 DEF UnlockTo, inodeVars, Goto, TypeInv, InUnlock
  <1>2. Held(c) = lock[c]
    BY HeldIs DEF InUnlock
  <1>3. Held(c)' = l
    BY <1>1, HeldIsAfter
  <1> QED
    BY <1>1, <1>2, <1>3, LowerHeld

LEMMA UnlockStepRefines ==
  ASSUME UnixInv, NEW c \in Conn, UnlockStep(c), ProcOf[c] \notin raced
  PROVE  HeldBy' = HeldBy
  <1>0. TypeInv /\ TypeOK /\ CallInv /\ Facts(c)
    BY CallFacts DEF UnixInv, TypeInv
  <1>1. Moves(c)
    BY <1>0, DowngradeKept, UnreserveKept, LeaveKept DEF UnlockStep
  <1>r. raced' = raced /\ ProcOf[c] \notin raced'
    BY DEF UnlockStep, Downgrade, Unreserve, Leave, Busy, inodeVars
  <1>2. CASE Downgrade(c)
    <2>0. MayRead(ProcOf[c], "SHARED")
      <3>1. /\ mutex[ProcOf[c]] = c /\ pc[c] = "downgrade" /\ lock[c] # NO_LOCK
            /\ eFileLock[ProcOf[c]] # NO_LOCK /\ Compatible
        BY <1>0, <1>2 DEF Downgrade, Facts, LevelAt, RecordAt, InUnlock, UnixInv
      <3>2. posix["SHARED"][ProcOf[c]] # "no"
        BY <3>1, GrantedNow DEF Grants, GrantedAs, NoLessThan
      <3> QED
        BY <1>0, <3>1, <3>2 DEF MayRead, Compatible, Facts, Bytes
    <2>1. pc[c] \in InUnlock /\ pc'[c] \in InUnlock /\ want' = want
      BY <1>0, <1>2, <2>0 DEF Downgrade, Goto, TypeInv, InUnlock
    <2> QED
      BY <1>0, <1>1, <2>1, <1>r, HeldIs, HeldIsAfter, HeldStill
  <1>3. CASE Unreserve(c)
    <2>1. CASE want[c] = SHARED_LOCK
      <3>1. pc[c] \in InUnlock /\ pc'[c] = "idle" /\ lock'[c] = SHARED_LOCK
        BY <1>0, <1>3, <2>1 DEF Unreserve, Return, Goto, TypeInv, TypeOK, InUnlock
      <3>2. Held(c)' = Held(c)
        BY <2>1, <3>1, <1>r, HeldIs, HeldIsAfter DEF InUnlock
      <3> QED
        BY <1>0, <1>1, <1>r, <3>2, HeldStill
    <2>2. CASE want[c] # SHARED_LOCK
      <3>1. pc[c] \in InUnlock /\ pc'[c] \in InUnlock /\ want' = want
        BY <1>0, <1>3, <2>2 DEF Unreserve, Goto, TypeInv, InUnlock
      <3> QED
        BY <1>0, <1>1, <3>1, <1>r, HeldIs, HeldIsAfter, HeldStill
    <2> QED
      BY <2>1, <2>2
  <1>4. CASE Leave(c)
    <2>1. /\ pc[c] \in InUnlock /\ pc'[c] \in {"check", "idle"} /\ lock'[c] = NO_LOCK
          /\ want[c] \in {NO_LOCK, CLOSE}
      BY <1>0, <1>4 DEF Leave, Goto, TypeInv, TypeOK, InUnlock, Facts, LevelAt
    <2>2. Held(c)' = Held(c)
      BY <2>1, <1>r, HeldIs, HeldIsAfter DEF InUnlock
    <2> QED
      BY <1>0, <1>1, <1>r, <2>2, HeldStill
  <1> QED
    BY <1>2, <1>3, <1>4 DEF UnlockStep

\* Steps that keep the level and go to a place outside the unlocking.
LEMMA IdleRefines ==
  ASSUME UnixInv, NEW c \in Conn, Moves(c), lock' = lock, raced' = raced, pc[c] \notin InUnlock \cup {"drop"},
         pc'[c] \notin InUnlock \cup {"drop"}
  PROVE  HeldBy' = HeldBy
  <1>1. Held(c)' = Held(c)
    <2>1. CASE ProcOf[c] \in raced
      BY <2>1 DEF Held
    <2>2. CASE ProcOf[c] \notin raced
      BY <2>2, HeldIs, HeldIsAfter
    <2> QED
      BY <2>1, <2>2
  <1> QED
    BY <1>1, HeldStill DEF UnixInv, CallInv

\* A lock call raises no level when it begins.  Where it enters or leaves the
\* overlapping of a close(), no connection of the process has any level.
LEMMA LockBeginRefines ==
  ASSUME UnixInv, NEW c \in Conn, NEW l \in Levels, LockBegin(c, l)
  PROVE  HeldBy' = HeldBy
  <1> DEFINE p == ProcOf[c]
  <1>0. TypeInv /\ CallInv /\ Moves(c) /\ c # Free
    BY LockBeginKept, FreeIsNoConnection DEF UnixInv, CallInv, Free
  <1>1. /\ lock' = lock /\ pc[c] = "idle" /\ pc'[c] \in {"pending", "reserve", "exclude"}
        /\ mutex[p] = Free
    BY <1>0 DEF LockBegin, MayEnter, Goto, TypeInv, Legal
  <1>2. \A d \in Conn \ {c} : pc'[d] = pc[d] /\ want'[d] = want[d] /\ lock'[d] = lock[d]
    BY <1>0 DEF Moves, StepTo, TypeInv, TypeOK
  <1>3. \A d \in Conn : Believed(d)' = Believed(d)
    <2>1. Believed(c)' = Believed(c)
      BY <1>1 DEF Believed, InUnlock
    <2> QED
      BY <1>2, <2>1 DEF Believed
  <1>4. \A q \in Proc \ {p} : q \in raced' <=> q \in raced
    BY <1>0 DEF Moves, StepTo
  <1>5. CASE p \in raced' <=> p \in raced
    BY <1>3, <1>4, <1>5, ProcOfType DEF HeldBy, Held
  <1>6. CASE ~(p \in raced' <=> p \in raced)
    <2>1. \A d \in Peers(c) : lock[d] = NO_LOCK /\ pc[d] \in Unlocked
      <3>1. CASE Closing(p) /\ p \notin raced
        BY <3>1 DEF Closing, UnixInv, ClosedUnlocked, Peers
      <3>2. CASE eFileLock[p] = NO_LOCK
        <4>1. ASSUME NEW d \in Peers(c) PROVE lock[d] = NO_LOCK /\ pc[d] \in Unlocked
          <5>1. d \in Conn /\ ProcOf[d] = p /\ d # Free
            BY FreeIsNoConnection DEF Peers, Free
          <5> QED
            BY <1>0, <1>1, <3>2, <5>1 DEF CallInv, Recorded, RecordAt, Guarded, TypeInv
        <4> QED
          BY <4>1
      <3> QED
        BY <1>6, <3>1, <3>2 DEF LockBegin
    <2>2. \A d \in Peers(c) : Believed(d) = NO_LOCK
      BY <2>1 DEF Believed, Unlocked, InUnlock
    <2> QED
      BY <1>3, <1>4, <2>2, ProcOfType DEF HeldBy, Held, Peers
  <1> QED
    BY <1>5, <1>6

LEMMA CrashRefines ==
  ASSUME UnixInv, NEW x \in Proc, Crash(x)
  PROVE  Abstract!Next
  <1> DEFINE cs == {c \in Conn : ProcOf[c] = x}
  <1>1. \A c \in cs : Held(c)' = NO_LOCK
    <2>1. \A c \in cs : pc'[c] = "closed" /\ lock'[c] = NO_LOCK
      BY DEF Crash, DropAll
    <2> QED
      BY <2>1 DEF Held, Believed, InUnlock
  <1>2. \A c \in Conn \ cs : Held(c)' = Held(c)
    <2>1. \A c \in Conn \ cs : pc'[c] = pc[c] /\ lock'[c] = lock[c] /\ want'[c] = want[c]
      BY DEF Crash, DropAll
    <2>2. \A c \in Conn \ cs : ProcOf[c] \in raced' <=> ProcOf[c] \in raced
      BY DEF Crash
    <2> QED
      BY <2>1, <2>2 DEF Held, Believed
  <1>3. Abstract!DropAll(cs)
    BY <1>1, <1>2 DEF Abstract!DropAll
  <1> QED
    BY <1>3 DEF Abstract!Next

LEMMA StepRefines ==
  ASSUME UnixInv, [UnixNext]_vars
  PROVE  Abstract!Next \/ HeldBy' = HeldBy
  <1>0. TypeInv /\ CallInv
    BY DEF UnixInv, CallInv
  <1>1. CASE UNCHANGED vars
    BY <1>1 DEF vars, inodeVars, HeldBy, Held, Believed
  <1>2. ASSUME NEW c \in Conn, Open(c) \/ CloseStep(c) PROVE HeldBy' = HeldBy
    <2>1. Moves(c)
      BY <1>0, <1>2, OpenKept, CloseCheckKept, CloseFdKept DEF CloseStep
    <2>2. lock' = lock /\ raced' = raced /\ pc[c] \in Unlocked /\ pc'[c] \in Unlocked
      BY <1>0, <1>2 DEF inodeVars, Open, CloseStep, CloseCheck, CloseFd, Goto, TypeInv, Unlocked
    <2> QED
      BY <2>1, <2>2, IdleRefines DEF Unlocked, InUnlock
  <1>3. ASSUME NEW c \in Conn, CloseBegin(c) PROVE Abstract!Next \/ HeldBy' = HeldBy
    <2>1. Moves(c) /\ pc[c] = "idle"
      BY <1>0, <1>3, CloseBeginKept DEF CloseBegin
    <2>2. CASE lock[c] = NO_LOCK
      <3>1. lock' = lock /\ raced' = raced /\ pc'[c] = "check"
        BY <1>0, <1>3, <2>2 DEF inodeVars, CloseBegin, Goto, TypeInv
      <3> QED
        BY <2>1, <3>1, IdleRefines DEF InUnlock
    <2>3. CASE lock[c] # NO_LOCK
      <3>1. raced' = raced
        BY <1>3, <2>3 DEF CloseBegin, UnlockTo, inodeVars
      <3>2. CASE ProcOf[c] \in raced
        BY <1>0, <2>1, <3>1, <3>2, RacedStill
      <3>3. CASE ProcOf[c] \notin raced
        BY <1>3, <2>1, <2>3, <3>3, UnlockToRefines DEF CloseBegin
      <3> QED
        BY <3>2, <3>3
    <2> QED
      BY <2>2, <2>3
  <1>4. ASSUME NEW c \in Conn, NEW l \in {NO_LOCK, SHARED_LOCK}, UnlockBegin(c, l)
        PROVE  Abstract!Next \/ HeldBy' = HeldBy
    <2>1. Moves(c) /\ raced' = raced
      BY <1>0, <1>4, UnlockBeginKept DEF UnlockBegin, UnlockTo, inodeVars
    <2>2. CASE ProcOf[c] \in raced
      BY <1>0, <2>1, <2>2, RacedStill
    <2>3. CASE ProcOf[c] \notin raced
      BY <1>4, <2>1, <2>3, UnlockToRefines DEF UnlockBegin
    <2> QED
      BY <2>2, <2>3
  <1>5. ASSUME NEW c \in Conn, LockJoin(c) \/ LockStep(c) \/ UnlockStep(c)
        PROVE  Abstract!Next \/ HeldBy' = HeldBy
    <2>1. Moves(c)
      BY <1>0, <1>5, LockJoinKept, SharePendingKept, ShareRangeKept, DropPendingKept, ReserveByteKept,
         ExcludePendingKept, ExcludeRangeKept, DowngradeKept, UnreserveKept, LeaveKept
      DEF LockStep, UnlockStep
    <2>2. raced' = raced
      BY <1>5 DEF LockJoin, LockStep, UnlockStep, SharePending, ShareRange, DropPending, ReserveByte,
         ExcludePending, ExcludeRange, Downgrade, Unreserve, Leave, Busy, inodeVars
    <2>3. CASE ProcOf[c] \in raced
      BY <1>0, <2>1, <2>2, <2>3, RacedStill
    <2>4. CASE ProcOf[c] \notin raced
      BY <1>5, <2>4, LockJoinRefines, LockStepRefines, UnlockStepRefines
    <2> QED
      BY <2>3, <2>4
  <1> QED
    BY <1>1, <1>2, <1>3, <1>4, <1>5, LockBeginRefines, CrashRefines
    DEF UnixNext

(* The byte-range protocol between the threads and processes implements    *)
(* the five-level lock of FileLock, whenever files are closed and whatever  *)
(* process is killed, for the levels Held: what a connection has by its own *)
(* calls, or none while a close() in its process may have dropped its locks.*)
THEOREM Refinement == UnixSpec => ImplementsFileLock
  <1>1. UnixInit => Abstract!Init
    <2> SUFFICES ASSUME UnixInit PROVE Abstract!Init
      OBVIOUS
    <2>1. \A c \in Conn : pc[c] = "closed" /\ lock[c] = NO_LOCK
      BY DEF UnixInit, Init
    <2>2. \A c \in Conn : Held(c) = NO_LOCK
      BY <2>1 DEF Held, Believed, InUnlock
    <2> QED
      BY <2>2 DEF Abstract!Init
  <1>2. UnixInv /\ [UnixNext]_vars => [Abstract!Next]_[c \in Conn |-> Held(c)]
    BY StepRefines DEF HeldBy
  <1> QED
    BY <1>1, <1>2, SystemAgrees, PTL DEF UnixSpec, ImplementsFileLock, Abstract!Spec
=============================================================================

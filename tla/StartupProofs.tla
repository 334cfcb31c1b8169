---------------------------- MODULE StartupProofs ----------------------------
(***************************************************************************)
(* Start-up, for any number of processes, tables and backups.              *)
(***************************************************************************)
EXTENDS Startup, FiniteSetTheorems, WellFoundedInduction, TLAPS

\* The oldest of the listed backups is one of them.
LEMMA LeastElement ==
  ASSUME NEW S \in SUBSET Nat, S # {}
  PROVE  Min(S) \in S /\ \A y \in S : Min(S) <= y
  <1>1. PICK x \in S : \A y \in S : ~(<<y, x>> \in OpToRel(<, Nat))
    BY NatLessThanWellFounded, WFMin
  <1>2. \A y \in S : ~(y < x)
    BY <1>1 DEF OpToRel
  <1>3. \A y \in S : x <= y
    BY <1>2
  <1> QED
    BY <1>3 DEF Min

LEMMA BackupsAreTimes ==
  ASSUME TypeOK
  PROVE  /\ made \in SUBSET Nat /\ Kept \in SUBSET made /\ MaxBackups \in Nat \ {0}
         /\ \A S \in SUBSET made : IsFiniteSet(S)
  <1>1. made \in SUBSET (1 .. now) /\ now \in Nat
    BY NumbersAssumption DEF TypeOK, Seconds
  <1>2. IsFiniteSet(1 .. now)
    BY <1>1, FS_Interval
  <1>3. \A S \in SUBSET made : IsFiniteSet(S)
    BY <1>1, <1>2, FS_Subset
  <1> QED
    BY <1>1, <1>3, NumbersAssumption DEF TypeOK

\* At least as many backups as are to be kept are newer than the one removed.
LEMMA OldestIsOld ==
  ASSUME TypeOK, NEW p \in Proc, Cardinality(proc[p].list) > MaxBackups
  PROVE  LET name == Min(proc[p].list) IN
         /\ name \in proc[p].list /\ name \in made /\ name \in Seconds
         /\ Cardinality({u \in made : u > name}) >= MaxBackups
  <1> DEFINE L == proc[p].list
             name == Min(L)
             N == {u \in made : u > name}
  <1>1. L \in SUBSET made
    BY DEF TypeOK
  <1>2. /\ made \in SUBSET Nat /\ IsFiniteSet(L) /\ IsFiniteSet(N) /\ MaxBackups \in Nat \ {0}
        /\ IsFiniteSet(L \ {name})
    BY <1>1, BackupsAreTimes
  <1>3. Cardinality(L) \in Nat /\ L # {} /\ Cardinality(L) > MaxBackups
    BY <1>2, FS_CardinalityType, FS_EmptySet
  <1>4. name \in L /\ \A y \in L : name <= y
    BY <1>1, <1>2, <1>3, LeastElement
  <1> HIDE DEF name, L
  <1>5. L \ {name} \in SUBSET N
    <2> SUFFICES ASSUME NEW y \in L, y # name PROVE y \in made /\ y > name
      OBVIOUS
    <2>1. y \in Nat /\ name \in Nat /\ name <= y
      BY <1>1, <1>2, <1>4
    <2> QED
      BY <1>1, <2>1
  <1>6. Cardinality(L \ {name}) = Cardinality(L) - 1
    BY <1>2, <1>4, FS_RemoveElement
  <1>7. Cardinality(L \ {name}) <= Cardinality(N) /\ Cardinality(N) \in Nat
    BY <1>2, <1>5, FS_Subset, FS_CardinalityType
  <1>8. Cardinality(N) >= MaxBackups
    BY <1>2, <1>3, <1>6, <1>7
  <1>9. name \in Seconds
    <2>1. made \subseteq 1 .. now /\ now \in 1 .. MaxTime /\ MaxTime \in Nat
      BY NumbersAssumption DEF TypeOK, Seconds
    <2>2. name \in 1 .. now
      BY <1>1, <1>4, <2>1
    <2> QED
      BY <2>1, <2>2 DEF Seconds
  <1> QED
    BY <1>1, <1>4, <1>8, <1>9 DEF name, L

\* A backup that is begun is newer than none of those before it.
LEMMA NewerAfter ==
  ASSUME TypeOK, made' = made \cup {now}, NEW t \in made
  PROVE  Cardinality({u \in made : u > t}) <= Cardinality({u \in made' : u > t})
  <1>1. IsFiniteSet(made \cup {now})
    BY BackupsAreTimes, FS_AddElement
  <1>2. {u \in made' : u > t} \in SUBSET (made \cup {now})
    OBVIOUS
  <1>3. IsFiniteSet({u \in made' : u > t})
    BY <1>1, <1>2, FS_Subset
  <1> QED
    BY <1>3, FS_Subset

-----------------------------------------------------------------------------
(* Every step keeps the invariant                                          *)

Places == {"off", "exists", "connect", "create", "copy", "copying", "list", "cleanup", "serving", "died"}

\* The data, and the processes, as TypeOK has them.
DataOK ==
  /\ file \in BOOLEAN /\ interrupted \in BOOLEAN
  /\ tables \subseteq AllTables /\ (tables # {} => file)
  /\ backups \in [Seconds -> {NoBackup, Partial} \cup (SUBSET AllTables)]
  /\ Kept \subseteq made /\ made \subseteq 1 .. now
  /\ now \in Seconds /\ starts \in 0 .. MaxStarts

ProcType(m) == [pc : Places, next : 1 .. Tables + 1, name : 0 .. MaxTime, list : SUBSET m, raced : BOOLEAN]

ProcOK == proc \in [Proc -> ProcType(made)]

LEMMA TypesSplit == TypeOK <=> DataOK /\ ProcOK
  BY DEF TypeOK, DataOK, ProcOK, ProcType, Places

LEMMA TypesSplitAfter == TypeOK' <=> DataOK' /\ ProcOK'
  BY DEF TypeOK, DataOK, ProcOK, ProcType, Places

Rec(pc, next, name, list, raced) ==
  [pc |-> pc, next |-> next, name |-> name, list |-> list, raced |-> raced]

\* A step of one process.
LEMMA ProcAfter ==
  ASSUME ProcOK, NEW p \in Proc, NEW m \in ProcType(made'), proc' = [proc EXCEPT ![p] = m], made \subseteq made'
  PROVE  ProcOK' /\ proc'[p] = m /\ \A q \in Proc \ {p} : proc'[q] = proc[q]
  <1>1. \A q \in Proc : proc[q] \in ProcType(made')
    BY DEF ProcOK, ProcType
  <1> QED
    BY <1>1 DEF ProcOK

\* What each step makes of the record of its process.
LEMMA OwnRecord ==
  ASSUME ProcOK, NEW p \in Proc
  PROVE  LET r == proc[p] IN
         /\ r = Rec(r.pc, r.next, r.name, r.list, r.raced)
         /\ Start(p) => proc' = [proc EXCEPT ![p] = Rec("exists", 1, 0, {}, FALSE)]
         /\ Exists(p) => proc' = [proc EXCEPT ![p] = Rec(IF file THEN "copy" ELSE "connect", r.next, r.name, r.list, r.raced)]
         /\ Connect(p) => proc' = [proc EXCEPT ![p] = Rec("create", r.next, r.name, r.list, r.raced)]
         /\ CreateTable(p) =>
              proc' = [proc EXCEPT ![p] = Rec(IF r.next = Tables THEN "copy" ELSE "create", r.next + 1, r.name, r.list, r.raced)]
         /\ CopyBegin(p) => proc' = [proc EXCEPT ![p] = Rec("copying", r.next, now, r.list, r.raced)]
         /\ CopyEnd(p) =>
              proc' = [proc EXCEPT ![p] = Rec(IF r.name \in Kept THEN "list" ELSE "died", r.next, r.name, r.list, r.raced)]
         /\ List(p) => proc' = [proc EXCEPT ![p] = Rec("cleanup", r.next, r.name, Kept, FALSE)]
         /\ Serve(p) => proc' = [proc EXCEPT ![p] = Rec("serving", 1, 0, {}, FALSE)]
         /\ Kill(p) => proc' = [proc EXCEPT ![p] = Rec("off", 1, 0, {}, FALSE)]
  <1>1. proc \in [Proc -> ProcType(made)] /\ proc[p] \in ProcType(made)
    BY DEF ProcOK
  <1>2. proc[p] = Rec(proc[p].pc, proc[p].next, proc[p].name, proc[p].list, proc[p].raced)
    BY <1>1 DEF ProcType, Rec
  <1>3. Start(p) => proc' = [proc EXCEPT ![p] = Rec("exists", 1, 0, {}, FALSE)]
    BY <1>1 DEF Start, Off, Rec
  <1>4. Exists(p) => proc' = [proc EXCEPT ![p] = Rec(IF file THEN "copy" ELSE "connect", proc[p].next, proc[p].name, proc[p].list, proc[p].raced)]
    BY <1>1 DEF Exists, Go, Rec, ProcType
  <1>5. Connect(p) => proc' = [proc EXCEPT ![p] = Rec("create", proc[p].next, proc[p].name, proc[p].list, proc[p].raced)]
    BY <1>1 DEF Connect, Go, Rec, ProcType
  <1>6. CreateTable(p) =>
          proc' = [proc EXCEPT ![p] = Rec(IF proc[p].next = Tables THEN "copy" ELSE "create", proc[p].next + 1, proc[p].name, proc[p].list, proc[p].raced)]
    BY <1>1 DEF CreateTable, At, Rec, ProcType
  <1>7. CopyBegin(p) => proc' = [proc EXCEPT ![p] = Rec("copying", proc[p].next, now, proc[p].list, proc[p].raced)]
    BY <1>1 DEF CopyBegin, Rec, ProcType
  <1>8. CopyEnd(p) =>
          proc' = [proc EXCEPT ![p] = Rec(IF proc[p].name \in Kept THEN "list" ELSE "died", proc[p].next, proc[p].name, proc[p].list, proc[p].raced)]
    BY <1>1 DEF CopyEnd, Go, Rec, ProcType
  <1>9. List(p) => proc' = [proc EXCEPT ![p] = Rec("cleanup", proc[p].next, proc[p].name, Kept, FALSE)]
    BY <1>1 DEF List, Rec, ProcType
  <1>10. Serve(p) => proc' = [proc EXCEPT ![p] = Rec("serving", 1, 0, {}, FALSE)]
    BY <1>1 DEF Serve, Off, Rec
  <1>11. Kill(p) => proc' = [proc EXCEPT ![p] = Rec("off", 1, 0, {}, FALSE)]
    BY <1>1 DEF Kill, Off, Rec
  <1> QED
    BY <1>2, <1>3, <1>4, <1>5, <1>6, <1>7, <1>8, <1>9, <1>10, <1>11

\* Nothing that another process relies on is lost.
Grows == (file => file') /\ tables \subseteq tables' /\ made \subseteq made' /\ Kept \subseteq Kept'

LEMMA OthersKeep ==
  ASSUME NEW q \in Proc, proc'[q] = proc[q], Grows, Creating(q), Undisturbed(q)
  PROVE  Creating(q)' /\ Undisturbed(q)'
  BY DEF Grows, Creating, Undisturbed, At

LEMMA NewestKept ==
  ASSUME LastBackupsKept, made' = made, Kept \subseteq Kept'
  PROVE  LastBackupsKept'
  BY DEF LastBackupsKept

\* A process that was not creating tables stays no excuse for missing ones.
LEMMA CreatedStays ==
  ASSUME Created, NEW p \in Proc, ~At(p, "create"), \A q \in Proc \ {p} : proc'[q] = proc[q],
         file' = file, tables' = tables, interrupted => interrupted'
  PROVE  Created'
  BY DEF Created, At

\* The parts put together, for a step of p that removes nothing.
LEMMA Assembled ==
  ASSUME StartupInv, NEW p \in Proc, NEW m \in ProcType(made'), proc' = [proc EXCEPT ![p] = m], Grows, DataOK',
         Creating(p)', Undisturbed(p)', LastBackupsKept', Created'
  PROVE  StartupInv'
  <1>1. DataOK /\ ProcOK
    BY TypesSplit DEF StartupInv
  <1>2. ProcOK' /\ \A q \in Proc \ {p} : proc'[q] = proc[q]
    BY <1>1, ProcAfter DEF Grows
  <1>3. TypeOK'
    BY <1>2, TypesSplitAfter
  <1>4. ASSUME NEW q \in Proc PROVE Creating(q)' /\ Undisturbed(q)'
    <2>1. CASE q = p
      BY <2>1
    <2>2. CASE q # p
      BY <1>2, <2>2, OthersKeep DEF StartupInv
    <2> QED
      BY <2>1, <2>2
  <1> QED
    BY <1>3, <1>4 DEF StartupInv

\* A step that changes nothing but its own record, away from table creation.
LEMMA OnlyTheRecord ==
  ASSUME StartupInv, NEW p \in Proc, NEW m \in ProcType(made), proc' = [proc EXCEPT ![p] = m],
         ~At(p, "create"), starts' \in 0 .. MaxStarts,
         UNCHANGED <<file, tables, backups, now, made, interrupted>>,
         Creating(p)', Undisturbed(p)'
  PROVE  StartupInv'
  <1>1. DataOK /\ ProcOK /\ LastBackupsKept /\ Created
    BY TypesSplit DEF StartupInv
  <1>2. Kept' = Kept
    BY DEF Kept
  <1>3. DataOK' /\ Grows
    BY <1>1, <1>2 DEF DataOK, Grows
  <1>4. LastBackupsKept'
    BY <1>1, <1>2, NewestKept
  <1>5. \A q \in Proc \ {p} : proc'[q] = proc[q]
    BY <1>1 DEF ProcOK
  <1>6. Created'
    BY <1>1, <1>5, CreatedStays
  <1> QED
    BY <1>3, <1>4, <1>6, Assembled

\* The fields of a process's record have their types.
LEMMA Fields ==
  ASSUME TypeOK, NEW p \in Proc
  PROVE  /\ proc[p].pc \in Places /\ proc[p].next \in 1 .. Tables + 1 /\ proc[p].name \in 0 .. MaxTime
         /\ proc[p].list \in SUBSET made /\ proc[p].raced \in BOOLEAN
         /\ 1 \in 1 .. Tables + 1 /\ 0 \in 0 .. MaxTime /\ Tables \in Nat /\ MaxTime \in Nat
         /\ MaxStarts \in Nat /\ ProcOK /\ DataOK
  <1>1. {Tables, MaxTime, MaxStarts} \subseteq Nat \ {0}
    BY NumbersAssumption
  <1>2. ProcOK /\ DataOK
    BY TypesSplit
  <1>3. proc[p] \in ProcType(made)
    BY <1>2 DEF ProcOK
  <1> QED
    BY <1>1, <1>2, <1>3 DEF ProcType

LEMMA StartKeeps ==
  ASSUME StartupInv, NEW p \in Proc, Start(p) PROVE StartupInv'
  <1> DEFINE m == Rec("exists", 1, 0, {}, FALSE)
  <1>1. TypeOK
    BY DEF StartupInv
  <1>2. /\ proc[p].pc \in Places /\ proc[p].next \in 1 .. Tables + 1 /\ proc[p].name \in 0 .. MaxTime
        /\ proc[p].list \in SUBSET made /\ proc[p].raced \in BOOLEAN
        /\ 1 \in 1 .. Tables + 1 /\ 0 \in 0 .. MaxTime /\ ProcOK /\ DataOK
    BY <1>1, Fields
  <1>3. m \in ProcType(made') /\ m.pc = "exists" /\ m.next = 1
    BY <1>1, <1>2 DEF Rec, ProcType, Places, Start
  <1>4. proc' = [proc EXCEPT ![p] = m]
    BY <1>2, OwnRecord
  <1> HIDE DEF m
  <1>5. proc'[p] = m
    BY <1>2, <1>4 DEF ProcOK
  <1>6. Creating(p)' /\ Undisturbed(p)'
    BY <1>3, <1>5 DEF Creating, Undisturbed, At, Start, StartupInv
  <1>7. starts' \in 0 .. MaxStarts
    BY <1>1, Fields DEF Start, DataOK
  <1>8. m \in ProcType(made)
    BY <1>3 DEF Start
  <1> QED
    BY <1>4, <1>6, <1>7, <1>8, OnlyTheRecord DEF Start, At

LEMMA ExistsKeeps ==
  ASSUME StartupInv, NEW p \in Proc, Exists(p) PROVE StartupInv'
  <1> DEFINE m == Rec(IF file THEN "copy" ELSE "connect", proc[p].next, proc[p].name, proc[p].list, proc[p].raced)
  <1>1. TypeOK
    BY DEF StartupInv
  <1>2. /\ proc[p].pc \in Places /\ proc[p].next \in 1 .. Tables + 1 /\ proc[p].name \in 0 .. MaxTime
        /\ proc[p].list \in SUBSET made /\ proc[p].raced \in BOOLEAN
        /\ 1 \in 1 .. Tables + 1 /\ 0 \in 0 .. MaxTime /\ ProcOK /\ DataOK
    BY <1>1, Fields
  <1>3. m \in ProcType(made') /\ m.pc = (IF file THEN "copy" ELSE "connect") /\ m.next = proc[p].next
    BY <1>1, <1>2 DEF Rec, ProcType, Places, Exists
  <1>4. proc' = [proc EXCEPT ![p] = m]
    BY <1>2, OwnRecord
  <1> HIDE DEF m
  <1>5. proc'[p] = m
    BY <1>2, <1>4 DEF ProcOK
  <1>6. Creating(p)' /\ Undisturbed(p)'
    BY <1>3, <1>5 DEF Creating, Undisturbed, At, Exists, StartupInv
  <1>7. starts' \in 0 .. MaxStarts
    BY <1>1, Fields DEF Exists, DataOK
  <1>8. m \in ProcType(made)
    BY <1>3 DEF Exists
  <1> QED
    BY <1>4, <1>6, <1>7, <1>8, OnlyTheRecord DEF Exists, At

LEMMA ListKeeps ==
  ASSUME StartupInv, NEW p \in Proc, List(p) PROVE StartupInv'
  <1> DEFINE m == Rec("cleanup", proc[p].next, proc[p].name, Kept, FALSE)
  <1>1. TypeOK /\ Kept \in SUBSET made
    BY DEF StartupInv, TypeOK
  <1>2. /\ proc[p].pc \in Places /\ proc[p].next \in 1 .. Tables + 1 /\ proc[p].name \in 0 .. MaxTime
        /\ proc[p].list \in SUBSET made /\ proc[p].raced \in BOOLEAN
        /\ 1 \in 1 .. Tables + 1 /\ 0 \in 0 .. MaxTime /\ ProcOK /\ DataOK
    BY <1>1, Fields
  <1>3. m \in ProcType(made') /\ m.pc = "cleanup" /\ m.list = Kept
    BY <1>1, <1>2 DEF Rec, ProcType, Places, List
  <1>4. proc' = [proc EXCEPT ![p] = m]
    BY <1>2, OwnRecord
  <1> HIDE DEF m
  <1>5. proc'[p] = m
    BY <1>2, <1>4 DEF ProcOK
  <1>6. Creating(p)' /\ Undisturbed(p)'
    <2>1. Kept' = Kept /\ file'
      BY DEF Kept, List, StartupInv, Creating, At
    <2> QED
      BY <1>3, <1>5, <2>1 DEF Creating, Undisturbed, At
  <1>7. starts' \in 0 .. MaxStarts
    BY <1>1, Fields DEF List, DataOK
  <1>8. m \in ProcType(made)
    BY <1>3 DEF List
  <1> QED
    BY <1>4, <1>6, <1>7, <1>8, OnlyTheRecord DEF List, At

LEMMA ServeKeeps ==
  ASSUME StartupInv, NEW p \in Proc, Serve(p) PROVE StartupInv'
  <1> DEFINE m == Rec("serving", 1, 0, {}, FALSE)
  <1>1. TypeOK
    BY DEF StartupInv
  <1>2. /\ proc[p].pc \in Places /\ proc[p].next \in 1 .. Tables + 1 /\ proc[p].name \in 0 .. MaxTime
        /\ proc[p].list \in SUBSET made /\ proc[p].raced \in BOOLEAN
        /\ 1 \in 1 .. Tables + 1 /\ 0 \in 0 .. MaxTime /\ ProcOK /\ DataOK
    BY <1>1, Fields
  <1>3. m \in ProcType(made') /\ m.pc = "serving"
    BY <1>1, <1>2 DEF Rec, ProcType, Places, Serve
  <1>4. proc' = [proc EXCEPT ![p] = m]
    BY <1>2, OwnRecord
  <1> HIDE DEF m
  <1>5. proc'[p] = m
    BY <1>2, <1>4 DEF ProcOK
  <1>6. Creating(p)' /\ Undisturbed(p)'
    BY <1>3, <1>5 DEF Creating, Undisturbed, At, Serve, StartupInv
  <1>7. starts' \in 0 .. MaxStarts
    BY <1>1, Fields DEF Serve, DataOK
  <1>8. m \in ProcType(made)
    BY <1>3 DEF Serve
  <1> QED
    BY <1>4, <1>6, <1>7, <1>8, OnlyTheRecord DEF Serve, At

LEMMA ConnectKeeps ==
  ASSUME StartupInv, NEW p \in Proc, Connect(p) PROVE StartupInv'
  <1> DEFINE m == Rec("create", proc[p].next, proc[p].name, proc[p].list, proc[p].raced)
  <1>1. TypeOK
    BY DEF StartupInv
  <1>2. /\ proc[p].pc \in Places /\ proc[p].next \in 1 .. Tables + 1 /\ proc[p].name \in 0 .. MaxTime
        /\ proc[p].list \in SUBSET made /\ proc[p].raced \in BOOLEAN
        /\ 1 \in 1 .. Tables + 1 /\ 0 \in 0 .. MaxTime /\ ProcOK /\ DataOK
    BY <1>1, Fields
  <1>3. m \in ProcType(made') /\ m.pc = "create" /\ m.next = proc[p].next /\ m.raced = proc[p].raced
    BY <1>1, <1>2 DEF Rec, ProcType, Places, Connect
  <1>4. proc' = [proc EXCEPT ![p] = m]
    BY <1>2, OwnRecord
  <1> HIDE DEF m
  <1>5. proc'[p] = m
    BY <1>2, <1>4 DEF ProcOK
  <1>6. Kept' = Kept
    BY DEF Kept, Connect
  <1>7. Grows /\ DataOK'
    BY <1>2, <1>6 DEF Grows, DataOK, Connect
  <1>8. proc[p].next = 1 /\ 1 \in AllTables
    BY NumbersAssumption DEF StartupInv, Creating, Connect, At, AllTables
  <1>9. Creating(p)'
    BY <1>3, <1>5, <1>8 DEF Creating, At, Connect
  <1>10. Undisturbed(p)'
    BY <1>3, <1>5 DEF Undisturbed, At
  <1>11. LastBackupsKept' /\ Created'
    BY <1>3, <1>5, <1>6, NewestKept DEF StartupInv, Connect, Created, At
  <1> QED
    BY <1>3, <1>4, <1>7, <1>9, <1>10, <1>11, Assembled

LEMMA CreateTableKeeps ==
  ASSUME StartupInv, NEW p \in Proc, CreateTable(p) PROVE StartupInv'
  <1> DEFINE m == Rec(IF proc[p].next = Tables THEN "copy" ELSE "create", proc[p].next + 1, proc[p].name, proc[p].list,
                  proc[p].raced)
  <1>1. TypeOK
    BY DEF StartupInv
  <1>2. /\ proc[p].pc \in Places /\ proc[p].next \in 1 .. Tables + 1 /\ proc[p].name \in 0 .. MaxTime
        /\ proc[p].list \in SUBSET made /\ proc[p].raced \in BOOLEAN
        /\ 1 \in 1 .. Tables + 1 /\ 0 \in 0 .. MaxTime /\ ProcOK /\ DataOK
    BY <1>1, Fields
  <1>21. /\ file /\ proc[p].next \in AllTables /\ 1 .. proc[p].next - 1 \subseteq tables
         /\ Tables \in Nat \ {0}
    BY NumbersAssumption DEF StartupInv, Creating, CreateTable, At
  <1>3. m \in ProcType(made') /\ m.pc = (IF proc[p].next = Tables THEN "copy" ELSE "create") /\ m.next = proc[p].next + 1
    BY <1>1, <1>2, <1>21 DEF Rec, ProcType, Places, CreateTable, AllTables
  <1>4. proc' = [proc EXCEPT ![p] = m]
    BY <1>2, OwnRecord
  <1> HIDE DEF m
  <1>5. proc'[p] = m
    BY <1>2, <1>4 DEF ProcOK
  <1>6. Kept' = Kept
    BY DEF Kept, CreateTable
  <1>7. Grows /\ DataOK'
    BY <1>1, <1>2, <1>6, <1>21 DEF Grows, DataOK, CreateTable
  <1>8. Creating(p)'
    <2>1. CASE proc[p].next = Tables
      BY <1>3, <1>5, <1>21, <2>1 DEF Creating, At, CreateTable
    <2>2. CASE proc[p].next # Tables
      <3>1. proc[p].next + 1 \in AllTables
        BY <1>21, <2>2 DEF AllTables
      <3>2. 1 .. (proc[p].next + 1) - 1 \subseteq tables'
        BY <1>21 DEF AllTables, CreateTable
      <3> QED
        BY <1>3, <1>5, <1>21, <2>2, <3>1, <3>2 DEF Creating, At, CreateTable
    <2> QED
      BY <2>1, <2>2
  <1>9. Undisturbed(p)'
    BY <1>3, <1>5 DEF Undisturbed, At
  <1>10. Created'
    <2>1. CASE proc[p].next = Tables
      <3>1. AllTables \subseteq tables'
        BY <1>21, <2>1 DEF AllTables, CreateTable
      <3>2. tables' \subseteq AllTables
        BY <1>7 DEF DataOK, AllTables
      <3> QED
        BY <3>1, <3>2 DEF Created, AllTables
    <2>2. CASE proc[p].next # Tables
      BY <1>3, <1>5, <2>2 DEF Created, At
    <2> QED
      BY <2>1, <2>2
  <1>11. LastBackupsKept'
    BY <1>6, NewestKept DEF StartupInv, CreateTable
  <1> QED
    BY <1>3, <1>4, <1>7, <1>8, <1>9, <1>10, <1>11, Assembled

LEMMA BackupsAfter ==
  LET V == {NoBackup, Partial} \cup (SUBSET AllTables) IN
  /\ [t \in Seconds |-> NoBackup] \in [Seconds -> V]
  /\ \A t : \A b \in [Seconds -> V] : [b EXCEPT ![t] = NoBackup] \in [Seconds -> V] /\ [b EXCEPT ![t] = Partial] \in [Seconds -> V]
  <1> DEFINE V == {NoBackup, Partial} \cup (SUBSET AllTables)
  <1>1. NoBackup \in V /\ Partial \in V
    <2>1. \A A, x, y : x \in {x, y} \cup A /\ y \in {x, y} \cup A
      OBVIOUS
    <2> QED
      BY <2>1
  <1> HIDE DEF V
  <1>2. /\ [t \in Seconds |-> NoBackup] \in [Seconds -> V]
        /\ \A t : \A b \in [Seconds -> V] :
             [b EXCEPT ![t] = NoBackup] \in [Seconds -> V] /\ [b EXCEPT ![t] = Partial] \in [Seconds -> V]
    BY <1>1
  <1> QED
    BY <1>2 DEF V

LEMMA CopyBeginKeeps ==
  ASSUME StartupInv, NEW p \in Proc, CopyBegin(p) PROVE StartupInv'
  <1> DEFINE m == Rec("copying", proc[p].next, now, proc[p].list, proc[p].raced)
  <1>1. TypeOK
    BY DEF StartupInv
  <1>2. /\ proc[p].pc \in Places /\ proc[p].next \in 1 .. Tables + 1 /\ proc[p].name \in 0 .. MaxTime
        /\ proc[p].list \in SUBSET made /\ proc[p].raced \in BOOLEAN
        /\ 1 \in 1 .. Tables + 1 /\ 0 \in 0 .. MaxTime /\ ProcOK /\ DataOK
    BY <1>1, Fields
  <1>21. now \in Seconds /\ now \in 1 .. now /\ now \in 0 .. MaxTime /\ now \in Nat
    BY <1>2, NumbersAssumption DEF DataOK, Seconds
  <1>3. m \in ProcType(made') /\ m.pc = "copying" /\ m.name = now
    BY <1>1, <1>2, <1>21 DEF Rec, ProcType, Places, CopyBegin
  <1>4. proc' = [proc EXCEPT ![p] = m]
    BY <1>2, OwnRecord
  <1> HIDE DEF m
  <1>5. proc'[p] = m
    BY <1>2, <1>4 DEF ProcOK
  <1>6. Kept' = Kept \cup {now}
    BY <1>2, <1>21 DEF Kept, CopyBegin, DataOK, NoBackup, Partial
  <1>7. Grows /\ DataOK'
    <2>1. backups' \in [Seconds -> {NoBackup, Partial} \cup (SUBSET AllTables)]
      BY <1>2, BackupsAfter DEF DataOK, CopyBegin
    <2> QED
      BY <1>2, <1>6, <1>21, <2>1 DEF Grows, DataOK, CopyBegin
  <1>8. Creating(p)'
    BY <1>3, <1>5 DEF Creating, At, CopyBegin, StartupInv
  <1>9. Undisturbed(p)'
    BY <1>3, <1>5, <1>6 DEF Undisturbed, At
  <1>10. Created'
    BY <1>2, <1>4, <1>5, <1>3 DEF Created, StartupInv, At, CopyBegin, ProcOK
  <1>11. LastBackupsKept'
    <2> SUFFICES ASSUME NEW t \in made', Cardinality({u \in made' : u > t}) < MaxBackups PROVE t \in Kept'
      BY DEF LastBackupsKept, CopyBegin
    <2>1. CASE t = now
      BY <1>6, <2>1
    <2>2. CASE t # now
      <3>1. t \in made
        BY <2>2 DEF CopyBegin
      <3> DEFINE Before == Cardinality({u \in made : u > t})
                 After  == Cardinality({u \in made' : u > t})
      <3>2. Before <= After
        BY <1>1, <3>1, NewerAfter DEF CopyBegin
      <3>3. Before \in Nat
        BY <1>1, BackupsAreTimes, FS_CardinalityType
      <3>4. After \in Nat
        <4>1. IsFiniteSet(made \cup {now})
          BY <1>1, BackupsAreTimes, FS_AddElement
        <4>2. {u \in made' : u > t} \in SUBSET (made \cup {now})
          BY DEF CopyBegin
        <4> QED
          BY <4>1, <4>2, FS_Subset, FS_CardinalityType
      <3>5. Before < MaxBackups
        <4>1. After < MaxBackups /\ MaxBackups \in Nat
          BY NumbersAssumption
        <4> HIDE DEF Before, After
        <4> QED
          BY <3>2, <3>3, <3>4, <4>1
      <3>6. t \in Kept
        BY <3>1, <3>5 DEF LastBackupsKept, StartupInv
      <3> QED
        BY <1>6, <3>6
    <2> QED
      BY <2>1, <2>2
  <1> QED
    BY <1>3, <1>4, <1>7, <1>8, <1>9, <1>10, <1>11, Assembled

LEMMA CopyEndKeeps ==
  ASSUME StartupInv, NEW p \in Proc, CopyEnd(p) PROVE StartupInv'
  <1> DEFINE m == Rec(IF proc[p].name \in Kept THEN "list" ELSE "died", proc[p].next, proc[p].name, proc[p].list, proc[p].raced)
  <1>1. TypeOK
    BY DEF StartupInv
  <1>2. /\ proc[p].pc \in Places /\ proc[p].next \in 1 .. Tables + 1 /\ proc[p].name \in 0 .. MaxTime
        /\ proc[p].list \in SUBSET made /\ proc[p].raced \in BOOLEAN
        /\ 1 \in 1 .. Tables + 1 /\ 0 \in 0 .. MaxTime /\ ProcOK /\ DataOK
    BY <1>1, Fields
  <1>3. m \in ProcType(made') /\ m.pc = (IF proc[p].name \in Kept THEN "list" ELSE "died") /\ m.raced = proc[p].raced
    BY <1>1, <1>2 DEF Rec, ProcType, Places, CopyEnd
  <1>4. proc' = [proc EXCEPT ![p] = m]
    BY <1>2, OwnRecord
  <1> HIDE DEF m
  <1>5. proc'[p] = m
    BY <1>2, <1>4 DEF ProcOK
  <1>6. Kept' = Kept
    <2>1. tables # NoBackup
      BY <1>2 DEF DataOK, NoBackup, AllTables
    <2> QED
      BY <1>2, <2>1 DEF DataOK, Kept, CopyEnd
  <1>7. Grows /\ DataOK'
    <2>1. backups' \in [Seconds -> {NoBackup, Partial} \cup (SUBSET AllTables)]
      BY <1>2 DEF DataOK, CopyEnd
    <2> QED
      BY <1>2, <1>6, <2>1 DEF Grows, DataOK, CopyEnd
  <1>8. Creating(p)'
    BY <1>3, <1>5 DEF Creating, At, CopyEnd, StartupInv
  <1>9. Undisturbed(p)'
    BY <1>3, <1>5, <1>6 DEF Undisturbed, At, StartupInv, CopyEnd
  <1>10. Created'
    BY <1>2, <1>3, <1>4, <1>5 DEF Created, StartupInv, At, CopyEnd, ProcOK
  <1>11. LastBackupsKept'
    BY <1>6, NewestKept DEF StartupInv, CopyEnd
  <1> QED
    BY <1>3, <1>4, <1>7, <1>8, <1>9, <1>10, <1>11, Assembled

LEMMA KillKeeps ==
  ASSUME StartupInv, NEW p \in Proc, Kill(p) PROVE StartupInv'
  <1> DEFINE m == Rec("off", 1, 0, {}, FALSE)
  <1>1. TypeOK
    BY DEF StartupInv
  <1>2. /\ proc[p].pc \in Places /\ proc[p].next \in 1 .. Tables + 1 /\ proc[p].name \in 0 .. MaxTime
        /\ proc[p].list \in SUBSET made /\ proc[p].raced \in BOOLEAN
        /\ 1 \in 1 .. Tables + 1 /\ 0 \in 0 .. MaxTime /\ ProcOK /\ DataOK
    BY <1>1, Fields
  <1>3. m \in ProcType(made') /\ m.pc = "off"
    BY <1>1, <1>2 DEF Rec, ProcType, Places, Kill
  <1>4. proc' = [proc EXCEPT ![p] = m]
    BY <1>2, OwnRecord
  <1> HIDE DEF m
  <1>5. proc'[p] = m
    BY <1>2, <1>4 DEF ProcOK
  <1>6. Kept' = Kept
    BY DEF Kept, Kill
  <1>7. Grows /\ DataOK'
    BY <1>2, <1>6 DEF Grows, DataOK, Kill, At
  <1>8. Creating(p)' /\ Undisturbed(p)'
    BY <1>3, <1>5 DEF Creating, Undisturbed, At
  <1>9. Created'
    BY <1>2, <1>3, <1>4, <1>5 DEF Created, StartupInv, At, Kill, ProcOK
  <1>10. LastBackupsKept'
    BY <1>6, NewestKept DEF StartupInv, Kill
  <1> QED
    BY <1>3, <1>4, <1>7, <1>8, <1>9, <1>10, Assembled

\* A clean-up that removes a backup: what it lists is gone for the others.
LEMMA RemovalKeeps ==
  ASSUME StartupInv, NEW p \in Proc, RemoveOldest(p), Min(proc[p].list) \in Kept
  PROVE  StartupInv'
  <1> DEFINE old  == Min(proc[p].list)
             rest == proc[p].list \ {old}
  <1>1. TypeOK
    BY DEF StartupInv
  <1>2. /\ proc[p].pc \in Places /\ proc[p].next \in 1 .. Tables + 1 /\ proc[p].name \in 0 .. MaxTime
        /\ proc[p].list \in SUBSET made /\ proc[p].raced \in BOOLEAN /\ ProcOK /\ DataOK
    BY <1>1, Fields
  <1>3. /\ At(p, "cleanup") /\ backups' = [backups EXCEPT ![old] = NoBackup] /\ proc' = Race(p, rest)
        /\ UNCHANGED <<file, tables, now, starts, made, interrupted>>
    BY DEF RemoveOldest, Remove, Removed
  <1>4. old \in Seconds /\ Cardinality({u \in made : u > old}) >= MaxBackups
    BY <1>1, OldestIsOld DEF RemoveOldest, Remove
  <1> HIDE DEF old, rest
  <1>5. Kept' = Kept \ {old}
    BY <1>2, <1>3, <1>4 DEF Kept, DataOK
  <1>6. DataOK'
    <2>1. backups' \in [Seconds -> {NoBackup, Partial} \cup (SUBSET AllTables)]
      BY <1>2, <1>3, BackupsAfter DEF DataOK
    <2> QED
      BY <1>2, <1>3, <1>5, <2>1 DEF DataOK
  <1>7. proc'[p] = [proc[p] EXCEPT !.list = rest] /\ \A q \in Proc \ {p} : proc'[q] = [proc[q] EXCEPT !.raced = TRUE]
    BY <1>3 DEF Race
  <1>8. rest \in SUBSET made
    BY <1>2 DEF rest
  <1>9. ProcOK'
    <2>1. \A q \in Proc : proc[q] \in ProcType(made)
      BY <1>2 DEF ProcOK
    <2>2. \A q \in Proc : proc'[q] \in ProcType(made)
      <3>1. proc'[p] \in ProcType(made)
        BY <1>7, <1>8, <2>1 DEF ProcType
      <3>2. ASSUME NEW q \in Proc \ {p} PROVE proc'[q] \in ProcType(made)
        <4>1. proc[q] \in ProcType(made) /\ proc'[q] = [proc[q] EXCEPT !.raced = TRUE]
          BY <1>7, <2>1, <3>2
        <4> QED
          BY <4>1 DEF ProcType
      <3> QED
        BY <3>1, <3>2
    <2>3. proc' \in [Proc -> ProcType(made)]
      BY <1>3, <2>2 DEF Race
    <2> QED
      BY <1>3, <2>3 DEF ProcOK
  <1>10. \A q \in Proc : proc'[q].pc = proc[q].pc /\ proc'[q].next = proc[q].next
    <2>1. \A q \in Proc : proc[q] \in ProcType(made)
      BY <1>2 DEF ProcOK
    <2>2. proc'[p].pc = proc[p].pc /\ proc'[p].next = proc[p].next
      BY <1>7, <2>1 DEF ProcType
    <2>3. ASSUME NEW q \in Proc \ {p} PROVE proc'[q].pc = proc[q].pc /\ proc'[q].next = proc[q].next
      <3>1. proc[q] \in ProcType(made) /\ proc'[q] = [proc[q] EXCEPT !.raced = TRUE]
        BY <1>7, <2>1, <2>3
      <3> QED
        BY <3>1 DEF ProcType
    <2> QED
      BY <2>2, <2>3
  <1>11. \A q \in Proc : Creating(q)'
    BY <1>3, <1>10 DEF Creating, At, StartupInv
  <1>12. Created'
    BY <1>3, <1>10 DEF Created, At, StartupInv
  <1>13. \A q \in Proc \ {p} : Undisturbed(q)'
    <2>1. \A q \in Proc : proc[q] \in ProcType(made)
      BY <1>2 DEF ProcOK
    <2>2. \A q \in Proc \ {p} : proc'[q].raced
      BY <1>7, <2>1 DEF ProcType
    <2> QED
      BY <2>2 DEF Undisturbed
  <1>14. Undisturbed(p)'
    <2>1. proc'[p].list = rest /\ proc'[p].raced = proc[p].raced /\ proc'[p].pc = "cleanup"
      <3>1. proc[p] \in ProcType(made)
        BY <1>2 DEF ProcOK
      <3> QED
        BY <1>3, <1>7, <3>1 DEF ProcType, At
    <2>2. ~proc[p].raced => proc[p].list \subseteq Kept
      BY <1>3 DEF StartupInv, Undisturbed
    <2>3. ~proc[p].raced => rest \subseteq Kept'
      BY <1>5, <2>2 DEF rest
    <2> QED
      BY <2>1, <2>3 DEF Undisturbed, At
  <1>15. LastBackupsKept'
    <2> SUFFICES ASSUME NEW t \in made, Cardinality({u \in made : u > t}) < MaxBackups PROVE t \in Kept'
      BY <1>3 DEF LastBackupsKept
    <2>1. t \in Kept
      BY DEF StartupInv, LastBackupsKept
    <2>2. t # old
      <3>1. Cardinality({u \in made : u > t}) \in Nat /\ MaxBackups \in Nat
        BY <1>1, BackupsAreTimes, FS_CardinalityType
      <3>2. SUFFICES ASSUME t = old PROVE FALSE
        OBVIOUS
      <3>3. Cardinality({u \in made : u > t}) >= MaxBackups
        BY <1>4, <3>2
      <3> QED
        BY <3>1, <3>3
    <2> QED
      BY <1>5, <2>1, <2>2
  <1>16. TypeOK'
    BY <1>6, <1>9, TypesSplitAfter
  <1> QED
    BY <1>11, <1>12, <1>13, <1>14, <1>15, <1>16 DEF StartupInv

LEMMA Dies ==
  ASSUME ProcOK, NEW p \in Proc, Go(p, "died")
  PROVE  proc' = [proc EXCEPT ![p] = Rec("died", proc[p].next, proc[p].name, proc[p].list, proc[p].raced)]
  <1>1. proc \in [Proc -> ProcType(made)] /\ proc[p] \in ProcType(made)
    BY DEF ProcOK
  <1>2. [proc[p] EXCEPT !.pc = "died"] = Rec("died", proc[p].next, proc[p].name, proc[p].list, proc[p].raced)
    BY <1>1 DEF Rec, ProcType
  <1>3. proc' = [proc EXCEPT ![p] = [proc[p] EXCEPT !.pc = "died"]]
    BY <1>1 DEF Go, ProcType
  <1> QED
    BY <1>2, <1>3

\* A clean-up that finds its oldest backup gone fails, and had been raced.
LEMMA GoneKeeps ==
  ASSUME StartupInv, NEW p \in Proc, RemoveOldest(p), Min(proc[p].list) \notin Kept
  PROVE  StartupInv'
  <1> DEFINE m == Rec("died", proc[p].next, proc[p].name, proc[p].list, proc[p].raced)
  <1>1. TypeOK
    BY DEF StartupInv
  <1>2. /\ proc[p].pc \in Places /\ proc[p].next \in 1 .. Tables + 1 /\ proc[p].name \in 0 .. MaxTime
        /\ proc[p].list \in SUBSET made /\ proc[p].raced \in BOOLEAN /\ ProcOK /\ DataOK
    BY <1>1, Fields
  <1>3. /\ At(p, "cleanup") /\ Go(p, "died") /\ Cardinality(proc[p].list) > MaxBackups
        /\ UNCHANGED <<file, tables, backups, now, starts, made, interrupted>>
    BY DEF RemoveOldest, Remove
  <1>4. m \in ProcType(made) /\ m.pc = "died" /\ m.raced = proc[p].raced
    BY <1>2 DEF Rec, ProcType, Places
  <1>5. proc' = [proc EXCEPT ![p] = m]
    BY <1>2, <1>3, Dies
  <1> HIDE DEF m
  <1>6. proc'[p] = m
    BY <1>2, <1>5 DEF ProcOK
  <1>7. Min(proc[p].list) \in proc[p].list
    BY <1>1, <1>3, OldestIsOld
  <1>8. proc[p].raced
    BY <1>3, <1>7 DEF StartupInv, Undisturbed
  <1>9. Creating(p)' /\ Undisturbed(p)'
    BY <1>4, <1>6, <1>8 DEF Creating, Undisturbed, At
  <1>10. starts' \in 0 .. MaxStarts /\ ~At(p, "create")
    BY <1>2, <1>3 DEF DataOK, At
  <1> QED
    BY <1>3, <1>4, <1>5, <1>9, <1>10, OnlyTheRecord

LEMMA TickKeeps ==
  ASSUME StartupInv, Tick \/ UNCHANGED vars PROVE StartupInv'
  <1>1. UNCHANGED <<file, tables, backups, proc, starts, made, interrupted>> /\ DataOK /\ ProcOK
    BY TypesSplit DEF StartupInv, Tick, vars
  <1>2. now' \in Seconds /\ now' \in Nat /\ now \in Nat /\ now <= now'
    BY <1>1, NumbersAssumption DEF Tick, vars, DataOK, Seconds
  <1>3. Kept' = Kept
    BY <1>1 DEF Kept
  <1>4. made' \subseteq 1 .. now'
    BY <1>1, <1>2 DEF DataOK
  <1>5. DataOK'
    BY <1>1, <1>2, <1>3, <1>4 DEF DataOK
  <1>6. TypeOK'
    BY <1>1, <1>5, TypesSplitAfter DEF ProcOK
  <1> QED
    BY <1>1, <1>3, <1>6 DEF StartupInv, LastBackupsKept, Created, Creating, Undisturbed, At

LEMMA StartupInvInit == Init => StartupInv
  <1> SUFFICES ASSUME Init PROVE StartupInv
    OBVIOUS
  <1>1. {Tables, MaxTime, MaxStarts} \subseteq Nat \ {0}
    BY NumbersAssumption
  <1>2. 1 \in Seconds /\ 1 \in 1 .. Tables + 1 /\ 0 \in 0 .. MaxTime /\ 0 \in 0 .. MaxStarts
    BY <1>1 DEF Seconds
  <1>3. Off \in ProcType(made)
    BY <1>2 DEF Off, ProcType, Places
  <1>4. \A p \in Proc : proc[p] = Off
    BY DEF Init
  <1>5. Kept = {} /\ made = {} /\ file = FALSE
    BY DEF Init, Kept
  <1>6. DataOK
    BY <1>2, <1>5, BackupsAfter DEF Init, DataOK
  <1>7. ProcOK
    BY <1>3 DEF Init, ProcOK
  <1>8. \A p \in Proc : Creating(p) /\ Undisturbed(p)
    BY <1>4 DEF Off, Creating, Undisturbed, At
  <1> QED
    BY <1>5, <1>6, <1>7, <1>8, TypesSplit DEF StartupInv, LastBackupsKept, Created

LEMMA StartupInvStep == StartupInv /\ [Next]_vars => StartupInv'
  <1> SUFFICES ASSUME StartupInv, [Next]_vars PROVE StartupInv'
    OBVIOUS
  <1>1. ASSUME NEW p \in Proc, Start(p) \/ Step(p) \/ Kill(p) PROVE StartupInv'
    <2>1. ASSUME RemoveOldest(p) PROVE StartupInv'
      BY <2>1, RemovalKeeps, GoneKeeps
    <2> QED
      BY <1>1, <2>1, StartKeeps, ExistsKeeps, ConnectKeeps, CreateTableKeeps, CopyBeginKeeps, CopyEndKeeps,
         ListKeeps, ServeKeeps, KillKeeps DEF Step
  <1> QED
    BY <1>1, TickKeeps DEF Next

-----------------------------------------------------------------------------

(* However the starts of any number of processes interleave, are killed and *)
(* come again, the invariant of start-up holds (app.py:101 to 130, 276).    *)
THEOREM StartupSound == Spec => []StartupInv
  BY StartupInvInit, StartupInvStep, PTL DEF Spec

(* Types, no tables without a file, no backup nobody began.                 *)
THEOREM StartupTypes == Spec => []TypeOK
  <1>1. StartupInv => TypeOK
    BY DEF StartupInv
  <1> QED
    BY <1>1, StartupSound, PTL

(* The clean-ups of any number of processes, with whatever lists of the     *)
(* directory they hold, leave the newest MaxBackups backups (app.py:114).   *)
THEOREM NewestBackupsStay == Spec => []LastBackupsKept
  <1>1. StartupInv => LastBackupsKept
    BY DEF StartupInv
  <1> QED
    BY <1>1, StartupSound, PTL

(* os.remove and shutil.copy2 raise (app.py:108, 126) only in a process that *)
(* another one's clean-up has overtaken.                                   *)
THEOREM AloneNeverFails == Spec => []FailsOnlyByRace
  <1>1. StartupInv => FailsOnlyByRace
    BY DEF StartupInv, FailsOnlyByRace, Undisturbed
  <1> QED
    BY <1>1, StartupSound, PTL

(* A process that finds the file (app.py:278) serves with tables missing    *)
(* only while their creator is at it, or after it was killed.               *)
THEOREM MissingOnlyDuringInit == Spec => []TablesMissingOnlyDuringInit
  <1>1. StartupInv => TablesMissingOnlyDuringInit
    BY DEF StartupInv, TablesMissingOnlyDuringInit, Created, Creating, At
  <1> QED
    BY <1>1, StartupSound, PTL
=============================================================================

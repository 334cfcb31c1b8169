---------------------------- MODULE PagerProofs ----------------------------
(***************************************************************************)
(* Pager keeps the database whole, for any connections, pages, write       *)
(* transactions and faults: PagerInv is an invariant, and with it          *)
(* everything that the runs of MCPager check of its states.                *)
(*                                                                         *)
(* The proof has three layers: the fields of a Pager object after each     *)
(* step; the protocol of the locks, which needs nothing else; and, step by *)
(* step, the committed image that recovery makes of the files.             *)
(***************************************************************************)
EXTENDS PagerInvariant, FiniteSetTheorems, SequenceTheorems, WellFoundedInduction, TLAPS

-----------------------------------------------------------------------------
(* Pager objects                                                           *)

IsObject(o) ==
  o = Object(o.eState, o.pc, o.cache, o.dirty, o.needSync, o.size, o.vers, o.job, o.todo)

Fields(o, s, l, ca, di, ns, sz, v, jb, td) ==
  /\ o.eState = s /\ o.pc = l /\ o.cache = ca /\ o.dirty = di /\ o.needSync = ns
  /\ o.size = sz /\ o.vers = v /\ o.job = jb /\ o.todo = td

\* A Pager object is the record of its fields.
LEMMA Shaped ==
  ASSUME Objects, NEW c \in Conn
  PROVE  IsObject(pager[c])
  BY DEF Objects, IsObject, Object

\* Setting one field leaves a Pager object with its other fields.
LEMMA SetState ==
  ASSUME NEW o, IsObject(o), NEW x
  PROVE  LET n == [o EXCEPT !.eState = x] IN
         IsObject(n) /\ Fields(n, x, o.pc, o.cache, o.dirty, o.needSync, o.size, o.vers, o.job,
                            o.todo)
  BY DEF Object, IsObject, Fields

LEMMA SetPc ==
  ASSUME NEW o, IsObject(o), NEW x
  PROVE  LET n == [o EXCEPT !.pc = x] IN
         IsObject(n) /\ Fields(n, o.eState, x, o.cache, o.dirty, o.needSync, o.size, o.vers,
                            o.job, o.todo)
  BY DEF Object, IsObject, Fields

LEMMA SetCache ==
  ASSUME NEW o, IsObject(o), NEW x
  PROVE  LET n == [o EXCEPT !.cache = x] IN
         IsObject(n) /\ Fields(n, o.eState, o.pc, x, o.dirty, o.needSync, o.size, o.vers, o.job,
                            o.todo)
  BY DEF Object, IsObject, Fields

LEMMA SetDirty ==
  ASSUME NEW o, IsObject(o), NEW x
  PROVE  LET n == [o EXCEPT !.dirty = x] IN
         IsObject(n) /\ Fields(n, o.eState, o.pc, o.cache, x, o.needSync, o.size, o.vers, o.job,
                            o.todo)
  BY DEF Object, IsObject, Fields

LEMMA SetNeedSync ==
  ASSUME NEW o, IsObject(o), NEW x
  PROVE  LET n == [o EXCEPT !.needSync = x] IN
         IsObject(n) /\ Fields(n, o.eState, o.pc, o.cache, o.dirty, x, o.size, o.vers, o.job,
                            o.todo)
  BY DEF Object, IsObject, Fields

LEMMA SetSize ==
  ASSUME NEW o, IsObject(o), NEW x
  PROVE  LET n == [o EXCEPT !.size = x] IN
         IsObject(n) /\ Fields(n, o.eState, o.pc, o.cache, o.dirty, o.needSync, x, o.vers, o.job,
                            o.todo)
  BY DEF Object, IsObject, Fields

LEMMA SetVers ==
  ASSUME NEW o, IsObject(o), NEW x
  PROVE  LET n == [o EXCEPT !.vers = x] IN
         IsObject(n) /\ Fields(n, o.eState, o.pc, o.cache, o.dirty, o.needSync, o.size, x, o.job,
                            o.todo)
  BY DEF Object, IsObject, Fields

LEMMA SetJob ==
  ASSUME NEW o, IsObject(o), NEW x
  PROVE  LET n == [o EXCEPT !.job = x] IN
         IsObject(n) /\ Fields(n, o.eState, o.pc, o.cache, o.dirty, o.needSync, o.size, o.vers,
                            x, o.todo)
  BY DEF Object, IsObject, Fields

LEMMA SetTodo ==
  ASSUME NEW o, IsObject(o), NEW x
  PROVE  LET n == [o EXCEPT !.todo = x] IN
         IsObject(n) /\ Fields(n, o.eState, o.pc, o.cache, o.dirty, o.needSync, o.size, o.vers,
                            o.job, x)
  BY DEF Object, IsObject, Fields

\* After a step of c its Pager object has these fields, and nobody else's changes.
Turned(c, s, l, ca, di, ns, sz, v, jb, td) ==
  /\ Objects'
  /\ \A d \in Conn \ {c} : pager'[d] = pager[d]
  /\ Fields(pager'[c], s, l, ca, di, ns, sz, v, jb, td)

\* One Pager object is replaced.
LEMMA Becomes ==
  ASSUME Objects, NEW c \in Conn, NEW o, IsObject(o), pager' = [pager EXCEPT ![c] = o]
  PROVE  Objects' /\ pager'[c] = o /\ \A d \in Conn \ {c} : pager'[d] = pager[d]
  <1>1. /\ pager = [d \in Conn |-> pager[d]]
        /\ \A d \in Conn : IsObject(pager[d])
    BY DEF Objects, IsObject, Object
  <1>2. pager' = [d \in Conn |-> IF d = c THEN o ELSE pager[d]]
    BY <1>1
  <1>3. \A d \in Conn : IsObject(pager'[d])
    BY <1>1, <1>2
  <1>4. Objects'
    BY <1>2, <1>3 DEF Objects, IsObject
  <1> QED
    BY <1>2, <1>4

\* The fields of c after each action, as the action sets them.
LEMMA AfterPc ==
  ASSUME Objects, NEW c \in Conn, NEW l, pager' = [pager EXCEPT ![c].pc = l]
  PROVE  LET me == pager[c] IN
         Turned(c, me.eState, l, me.cache, me.dirty, me.needSync, me.size, me.vers, me.job, me.todo)
  <1> DEFINE me == pager[c]
             o == [me EXCEPT !.pc = l]
  <1>1. pager' = [pager EXCEPT ![c] = o]
    OBVIOUS
  <1> HIDE DEF o
  <1>2. IsObject(o) /\ Fields(o, me.eState, l, me.cache, me.dirty, me.needSync, me.size, me.vers,
                           me.job, me.todo)
    BY Shaped, SetPc DEF Fields, o
  <1> QED
    BY <1>1, <1>2, Becomes DEF Turned

LEMMA AfterSyncHeader ==
  ASSUME Objects, NEW c \in Conn, SyncHeader(c)
  PROVE  LET me == pager[c]
         IN
         Turned(c, "DBMOD", "write", me.cache, me.dirty, {}, me.size, me.vers, me.job, me.todo)
  <1> DEFINE me == pager[c]
             x1 == "write"
             x2 == "DBMOD"
             x3 == {}
             o1 == [me EXCEPT !.pc = x1]
             o2 == [o1 EXCEPT !.eState = x2]
             o3 == [o2 EXCEPT !.needSync = x3]
  <1>1. pager' = [pager EXCEPT ![c] = o3]
    BY DEF SyncHeader
  <1> HIDE DEF x1, o1, x2, o2, x3, o3
  <1>2. IsObject(o1) /\ Fields(o1, me.eState, x1, me.cache, me.dirty, me.needSync, me.size,
                            me.vers, me.job, me.todo)
    BY Shaped, SetPc DEF Fields, o1
  <1>3. IsObject(o2) /\ Fields(o2, x2, x1, me.cache, me.dirty, me.needSync, me.size, me.vers,
                            me.job, me.todo)
    BY <1>2, SetState DEF Fields, o2
  <1>4. IsObject(o3) /\ Fields(o3, x2, x1, me.cache, me.dirty, x3, me.size, me.vers, me.job,
                            me.todo)
    BY <1>3, SetNeedSync DEF Fields, o3
  <1> QED
    BY <1>1, <1>4, Becomes DEF Turned, x1, x2, x3

LEMMA AfterSyncFile ==
  ASSUME Objects, NEW c \in Conn, SyncFile(c)
  PROVE  LET me == pager[c]
         IN
         Turned(c, "FINISHED", "finalize", me.cache, me.dirty, me.needSync, me.size, me.vers,
             me.job, me.todo)
  <1> DEFINE me == pager[c]
             x1 == "FINISHED"
             x2 == "finalize"
             o1 == [me EXCEPT !.eState = x1]
             o2 == [o1 EXCEPT !.pc = x2]
  <1>1. pager' = [pager EXCEPT ![c] = o2]
    BY DEF SyncFile
  <1> HIDE DEF x1, o1, x2, o2
  <1>2. IsObject(o1) /\ Fields(o1, x1, me.pc, me.cache, me.dirty, me.needSync, me.size, me.vers,
                            me.job, me.todo)
    BY Shaped, SetState DEF Fields, o1
  <1>3. IsObject(o2) /\ Fields(o2, x1, x2, me.cache, me.dirty, me.needSync, me.size, me.vers,
                            me.job, me.todo)
    BY <1>2, SetPc DEF Fields, o2
  <1> QED
    BY <1>1, <1>3, Becomes DEF Turned, x1, x2

LEMMA AfterEndRead ==
  ASSUME Objects, NEW c \in Conn, EndRead(c)
  PROVE  LET me == pager[c]
         IN
         Turned(c, "OPEN", me.pc, me.cache, me.dirty, me.needSync, 0, me.vers, me.job, me.todo)
  <1> DEFINE me == pager[c]
             x1 == "OPEN"
             x2 == 0
             o1 == [me EXCEPT !.eState = x1]
             o2 == [o1 EXCEPT !.size = x2]
  <1>1. pager' = [pager EXCEPT ![c] = o2]
    BY DEF EndRead
  <1> HIDE DEF x1, o1, x2, o2
  <1>2. IsObject(o1) /\ Fields(o1, x1, me.pc, me.cache, me.dirty, me.needSync, me.size, me.vers,
                            me.job, me.todo)
    BY Shaped, SetState DEF Fields, o1
  <1>3. IsObject(o2) /\ Fields(o2, x1, me.pc, me.cache, me.dirty, me.needSync, x2, me.vers,
                            me.job, me.todo)
    BY <1>2, SetSize DEF Fields, o2
  <1> QED
    BY <1>1, <1>3, Becomes DEF Turned, x1, x2

LEMMA AfterBeginWrite ==
  ASSUME Objects, NEW c \in Conn, BeginWrite(c)
  PROVE  LET me == pager[c]
         IN
         Turned(c, "LOCKED", me.pc, me.cache, me.dirty, me.needSync, me.size, me.vers, me.job,
             me.todo)
  <1> DEFINE me == pager[c]
             x1 == "LOCKED"
             o1 == [me EXCEPT !.eState = x1]
  <1>1. pager' = [pager EXCEPT ![c] = o1]
    BY DEF BeginWrite
  <1> HIDE DEF x1, o1
  <1>2. IsObject(o1) /\ Fields(o1, x1, me.pc, me.cache, me.dirty, me.needSync, me.size, me.vers,
                            me.job, me.todo)
    BY Shaped, SetState DEF Fields, o1
  <1> QED
    BY <1>1, <1>2, Becomes DEF Turned, x1

LEMMA AfterRead ==
  ASSUME Objects, NEW c \in Conn, NEW p \in Pages, Read(c, p)
  PROVE  LET me == pager[c]
         IN
         Turned(c, me.eState, me.pc, [me.cache EXCEPT ![p] = db[p]], me.dirty, me.needSync,
             me.size, me.vers, me.job, me.todo)
  <1> DEFINE me == pager[c]
             x1 == [me.cache EXCEPT ![p] = db[p]]
             o1 == [me EXCEPT !.cache = x1]
  <1>1. pager' = [pager EXCEPT ![c] = o1]
    BY DEF Read
  <1> HIDE DEF x1, o1
  <1>2. IsObject(o1) /\ Fields(o1, me.eState, me.pc, x1, me.dirty, me.needSync, me.size, me.vers,
                            me.job, me.todo)
    BY Shaped, SetCache DEF Fields, o1
  <1> QED
    BY <1>1, <1>2, Becomes DEF Turned, x1

LEMMA AfterStartPlayback ==
  ASSUME Objects, NEW c \in Conn, Hot(jrnl), StartPlayback(c)
  PROVE  LET me == pager[c]
             todo == SubSeq(jrnl.recs, 1, Cardinality(Counted(jrnl)))
         IN
         Turned(c, me.eState, "play", IF todo = <<>> THEN me.cache ELSE Fresh.cache, me.dirty,
             me.needSync, me.size, me.vers, me.job, todo)
  <1> DEFINE me == pager[c]
             todo == SubSeq(jrnl.recs, 1, Cardinality(Counted(jrnl)))
             x1 == "play"
             x2 == todo
             x3 == IF todo = <<>> THEN me.cache ELSE Fresh.cache
             o1 == [me EXCEPT !.pc = x1]
             o2 == [o1 EXCEPT !.todo = x2]
             o3 == [o2 EXCEPT !.cache = x3]
  <1>1. pager' = [pager EXCEPT ![c] = o3]
    BY DEF StartPlayback
  <1> HIDE DEF x1, o1, x2, o2, x3, o3
  <1>2. IsObject(o1) /\ Fields(o1, me.eState, x1, me.cache, me.dirty, me.needSync, me.size,
                            me.vers, me.job, me.todo)
    BY Shaped, SetPc DEF Fields, o1
  <1>3. IsObject(o2) /\ Fields(o2, me.eState, x1, me.cache, me.dirty, me.needSync, me.size,
                            me.vers, me.job, x2)
    BY <1>2, SetTodo DEF Fields, o2
  <1>4. IsObject(o3) /\ Fields(o3, me.eState, x1, x3, me.dirty, me.needSync, me.size, me.vers,
                            me.job, x2)
    BY <1>3, SetCache DEF Fields, o3
  <1> QED
    BY <1>1, <1>4, Becomes DEF Turned, x1, x2, x3

LEMMA AfterPlay ==
  ASSUME Objects, NEW c \in Conn, Play(c)
  PROVE  LET me == pager[c]
             r == Head(me.todo)
             cached == me.cache[r.pg] # NotCached
         IN
         Turned(c, me.eState, me.pc, [me.cache EXCEPT ![r.pg] = IF cached THEN r.val
             ELSE me.cache[r.pg]], me.dirty, me.needSync, me.size, IF cached /\ r.pg = 1
             THEN r.val ELSE me.vers, me.job, Tail(me.todo))
  <1> DEFINE me == pager[c]
             r == Head(me.todo)
             cached == me.cache[r.pg] # NotCached
             x1 == Tail(me.todo)
             x2 == [me.cache EXCEPT ![r.pg] = IF cached THEN r.val ELSE me.cache[r.pg]]
             x3 == IF cached /\ r.pg = 1 THEN r.val ELSE me.vers
             o1 == [me EXCEPT !.todo = x1]
             o2 == [o1 EXCEPT !.cache = x2]
             o3 == [o2 EXCEPT !.vers = x3]
  <1>1. pager' = [pager EXCEPT ![c] = o3]
    BY DEF Play
  <1> HIDE DEF x1, o1, x2, o2, x3, o3
  <1>2. IsObject(o1) /\ Fields(o1, me.eState, me.pc, me.cache, me.dirty, me.needSync, me.size,
                            me.vers, me.job, x1)
    BY Shaped, SetTodo DEF Fields, o1
  <1>3. IsObject(o2) /\ Fields(o2, me.eState, me.pc, x2, me.dirty, me.needSync, me.size, me.vers,
                            me.job, x1)
    BY <1>2, SetCache DEF Fields, o2
  <1>4. IsObject(o3) /\ Fields(o3, me.eState, me.pc, x2, me.dirty, me.needSync, me.size, x3,
                            me.job, x1)
    BY <1>3, SetVers DEF Fields, o3
  <1> QED
    BY <1>1, <1>4, Becomes DEF Turned, x1, x2, x3

LEMMA AfterValidate ==
  ASSUME Objects, NEW c \in Conn, Validate(c)
  PROVE  LET me == pager[c]
             counter == Counter(db[1])
             kept == IF counter = me.vers THEN me.cache ELSE Fresh.cache
         IN
         Turned(c, "READER", "none", [kept EXCEPT ![1] = IF Size(db) = 0 THEN NotCached
             ELSE counter], me.dirty, me.needSync, Size(db), counter, me.job, me.todo)
  <1> DEFINE me == pager[c]
             counter == Counter(db[1])
             kept == IF counter = me.vers THEN me.cache ELSE Fresh.cache
             x1 == "none"
             x2 == "READER"
             x3 == Size(db)
             x4 == counter
             x5 == [kept EXCEPT ![1] = IF Size(db) = 0 THEN NotCached ELSE counter]
             o1 == [me EXCEPT !.pc = x1]
             o2 == [o1 EXCEPT !.eState = x2]
             o3 == [o2 EXCEPT !.size = x3]
             o4 == [o3 EXCEPT !.vers = x4]
             o5 == [o4 EXCEPT !.cache = x5]
  <1>1. pager' = [pager EXCEPT ![c] = o5]
    BY DEF Validate
  <1> HIDE DEF x1, o1, x2, o2, x3, o3, x4, o4, x5, o5
  <1>2. IsObject(o1) /\ Fields(o1, me.eState, x1, me.cache, me.dirty, me.needSync, me.size,
                            me.vers, me.job, me.todo)
    BY Shaped, SetPc DEF Fields, o1
  <1>3. IsObject(o2) /\ Fields(o2, x2, x1, me.cache, me.dirty, me.needSync, me.size, me.vers,
                            me.job, me.todo)
    BY <1>2, SetState DEF Fields, o2
  <1>4. IsObject(o3) /\ Fields(o3, x2, x1, me.cache, me.dirty, me.needSync, x3, me.vers, me.job,
                            me.todo)
    BY <1>3, SetSize DEF Fields, o3
  <1>5. IsObject(o4) /\ Fields(o4, x2, x1, me.cache, me.dirty, me.needSync, x3, x4, me.job, me.todo)
    BY <1>4, SetVers DEF Fields, o4
  <1>6. IsObject(o5) /\ Fields(o5, x2, x1, x5, me.dirty, me.needSync, x3, x4, me.job, me.todo)
    BY <1>5, SetCache DEF Fields, o5
  <1> QED
    BY <1>1, <1>6, Becomes DEF Turned, x1, x2, x3, x4, x5

LEMMA AfterSpill ==
  ASSUME Objects, NEW c \in Conn, NEW p \in Pages, Spill(c, p)
  PROVE  LET me == pager[c]
         IN
         Turned(c, me.eState, IF p \in me.needSync \/ me.eState = "CACHEMOD" THEN "lock"
             ELSE "write", me.cache, me.dirty, me.needSync, me.size, me.vers, p, me.todo)
  <1> DEFINE me == pager[c]
             x1 == p
             x2 == IF p \in me.needSync \/ me.eState = "CACHEMOD" THEN "lock" ELSE "write"
             o1 == [me EXCEPT !.job = x1]
             o2 == [o1 EXCEPT !.pc = x2]
  <1>1. pager' = [pager EXCEPT ![c] = o2]
    BY DEF Spill
  <1> HIDE DEF x1, o1, x2, o2
  <1>2. IsObject(o1) /\ Fields(o1, me.eState, me.pc, me.cache, me.dirty, me.needSync, me.size,
                            me.vers, x1, me.todo)
    BY Shaped, SetJob DEF Fields, o1
  <1>3. IsObject(o2) /\ Fields(o2, me.eState, x2, me.cache, me.dirty, me.needSync, me.size,
                            me.vers, x1, me.todo)
    BY <1>2, SetPc DEF Fields, o2
  <1> QED
    BY <1>1, <1>3, Becomes DEF Turned, x1, x2

LEMMA AfterRollback ==
  ASSUME Objects, NEW c \in Conn, Rollback(c)
  PROVE  LET me == pager[c]
         IN
         Turned(c, me.eState, "play", me.cache, me.dirty, me.needSync, me.size, me.vers, me.job,
             jrnl.recs)
  <1> DEFINE me == pager[c]
             x1 == "play"
             x2 == jrnl.recs
             o1 == [me EXCEPT !.pc = x1]
             o2 == [o1 EXCEPT !.todo = x2]
  <1>1. pager' = [pager EXCEPT ![c] = o2]
    BY DEF Rollback
  <1> HIDE DEF x1, o1, x2, o2
  <1>2. IsObject(o1) /\ Fields(o1, me.eState, x1, me.cache, me.dirty, me.needSync, me.size,
                            me.vers, me.job, me.todo)
    BY Shaped, SetPc DEF Fields, o1
  <1>3. IsObject(o2) /\ Fields(o2, me.eState, x1, me.cache, me.dirty, me.needSync, me.size,
                            me.vers, me.job, x2)
    BY <1>2, SetTodo DEF Fields, o2
  <1> QED
    BY <1>1, <1>3, Becomes DEF Turned, x1, x2

LEMMA AfterWritePage ==
  ASSUME Objects, NEW c \in Conn, WritePage(c)
  PROVE  LET me == pager[c]
             p == IF me.job = 0 THEN Min(me.dirty) ELSE me.job
             v == IF p = 1 THEN me.vers + 1 ELSE me.cache[p]
         IN
         Turned(c, me.eState, IF me.job = 0 THEN me.pc ELSE "none",
             [me.cache EXCEPT ![p] = IF me.job = 0 THEN me.cache[p] ELSE NotCached],
             me.dirty \ {p}, me.needSync, me.size, IF p = 1 THEN v ELSE me.vers, 0, me.todo)
  <1> DEFINE me == pager[c]
             p == IF me.job = 0 THEN Min(me.dirty) ELSE me.job
             v == IF p = 1 THEN me.vers + 1 ELSE me.cache[p]
             x1 == me.dirty \ {p}
             x2 == IF p = 1 THEN v ELSE me.vers
             x3 == [me.cache EXCEPT ![p] = IF me.job = 0 THEN me.cache[p] ELSE NotCached]
             x4 == IF me.job = 0 THEN me.pc ELSE "none"
             x5 == 0
             o1 == [me EXCEPT !.dirty = x1]
             o2 == [o1 EXCEPT !.vers = x2]
             o3 == [o2 EXCEPT !.cache = x3]
             o4 == [o3 EXCEPT !.pc = x4]
             o5 == [o4 EXCEPT !.job = x5]
  <1>1. pager' = [pager EXCEPT ![c] = o5]
    BY DEF WritePage
  <1> HIDE DEF x1, o1, x2, o2, x3, o3, x4, o4, x5, o5
  <1>2. IsObject(o1) /\ Fields(o1, me.eState, me.pc, me.cache, x1, me.needSync, me.size, me.vers,
                            me.job, me.todo)
    BY Shaped, SetDirty DEF Fields, o1
  <1>3. IsObject(o2) /\ Fields(o2, me.eState, me.pc, me.cache, x1, me.needSync, me.size, x2,
                            me.job, me.todo)
    BY <1>2, SetVers DEF Fields, o2
  <1>4. IsObject(o3) /\ Fields(o3, me.eState, me.pc, x3, x1, me.needSync, me.size, x2, me.job,
                            me.todo)
    BY <1>3, SetCache DEF Fields, o3
  <1>5. IsObject(o4) /\ Fields(o4, me.eState, x4, x3, x1, me.needSync, me.size, x2, me.job, me.todo)
    BY <1>4, SetPc DEF Fields, o4
  <1>6. IsObject(o5) /\ Fields(o5, me.eState, x4, x3, x1, me.needSync, me.size, x2, x5, me.todo)
    BY <1>5, SetJob DEF Fields, o5
  <1> QED
    BY <1>1, <1>6, Becomes DEF Turned, x1, x2, x3, x4, x5

LEMMA AfterWrite ==
  ASSUME Objects, NEW c \in Conn, NEW p \in Pages, Write(c, p)
  PROVE  LET me == pager[c]
             v == IF p = 1 THEN 0 ELSE OwnJournal(c).tx
         IN
         Turned(c, IF Opening(c) THEN "CACHEMOD" ELSE me.eState, me.pc,
             [me.cache EXCEPT ![p] = v], me.dirty \cup {p}, IF Unsaved(c,
             p) \/ (p > OwnJournal(c).orig /\ me.eState # "DBMOD") THEN me.needSync \cup {p}
             ELSE me.needSync, Max({me.size, p}), me.vers, me.job, me.todo)
  <1> DEFINE me == pager[c]
             v == IF p = 1 THEN 0 ELSE OwnJournal(c).tx
             x1 == IF Opening(c) THEN "CACHEMOD" ELSE me.eState
             x2 == [me.cache EXCEPT ![p] = v]
             x3 == me.dirty \cup {p}
             x4 == IF Unsaved(c, p) \/ (p > OwnJournal(c).orig /\ me.eState # "DBMOD")
                   THEN me.needSync \cup {p} ELSE me.needSync
             x5 == Max({me.size, p})
             o1 == [me EXCEPT !.eState = x1]
             o2 == [o1 EXCEPT !.cache = x2]
             o3 == [o2 EXCEPT !.dirty = x3]
             o4 == [o3 EXCEPT !.needSync = x4]
             o5 == [o4 EXCEPT !.size = x5]
  <1>1. pager' = [pager EXCEPT ![c] = o5]
    BY DEF Write, Changed
  <1> HIDE DEF x1, o1, x2, o2, x3, o3, x4, o4, x5, o5
  <1>2. IsObject(o1) /\ Fields(o1, x1, me.pc, me.cache, me.dirty, me.needSync, me.size, me.vers,
                            me.job, me.todo)
    BY Shaped, SetState DEF Fields, o1
  <1>3. IsObject(o2) /\ Fields(o2, x1, me.pc, x2, me.dirty, me.needSync, me.size, me.vers,
                            me.job, me.todo)
    BY <1>2, SetCache DEF Fields, o2
  <1>4. IsObject(o3) /\ Fields(o3, x1, me.pc, x2, x3, me.needSync, me.size, me.vers, me.job,
                            me.todo)
    BY <1>3, SetDirty DEF Fields, o3
  <1>5. IsObject(o4) /\ Fields(o4, x1, me.pc, x2, x3, x4, me.size, me.vers, me.job, me.todo)
    BY <1>4, SetNeedSync DEF Fields, o4
  <1>6. IsObject(o5) /\ Fields(o5, x1, me.pc, x2, x3, x4, x5, me.vers, me.job, me.todo)
    BY <1>5, SetSize DEF Fields, o5
  <1> QED
    BY <1>1, <1>6, Becomes DEF Turned, x1, x2, x3, x4, x5

LEMMA AfterCommit ==
  ASSUME Objects, NEW c \in Conn, Commit(c)
  PROVE  LET me == pager[c]
             v == me.vers + 1
         IN
         Turned(c, IF Opening(c) THEN "CACHEMOD" ELSE me.eState, "lock",
             [me.cache EXCEPT ![1] = v], me.dirty \cup {1}, IF Unsaved(c,
             1) \/ (1 > OwnJournal(c).orig /\ me.eState # "DBMOD") THEN me.needSync \cup {1}
             ELSE me.needSync, Max({me.size, 1}), me.vers, 0, me.todo)
  <1> DEFINE me == pager[c]
             v == me.vers + 1
             x1 == IF Opening(c) THEN "CACHEMOD" ELSE me.eState
             x2 == [me.cache EXCEPT ![1] = v]
             x3 == me.dirty \cup {1}
             x4 == IF Unsaved(c, 1) \/ (1 > OwnJournal(c).orig /\ me.eState # "DBMOD")
                   THEN me.needSync \cup {1} ELSE me.needSync
             x5 == Max({me.size, 1})
             x6 == 0
             x7 == "lock"
             o1 == [me EXCEPT !.eState = x1]
             o2 == [o1 EXCEPT !.cache = x2]
             o3 == [o2 EXCEPT !.dirty = x3]
             o4 == [o3 EXCEPT !.needSync = x4]
             o5 == [o4 EXCEPT !.size = x5]
             o6 == [o5 EXCEPT !.job = x6]
             o7 == [o6 EXCEPT !.pc = x7]
  <1>1. pager' = [pager EXCEPT ![c] = o7]
    BY DEF Commit, Changed
  <1> HIDE DEF x1, o1, x2, o2, x3, o3, x4, o4, x5, o5, x6, o6, x7, o7
  <1>2. IsObject(o1) /\ Fields(o1, x1, me.pc, me.cache, me.dirty, me.needSync, me.size, me.vers,
                            me.job, me.todo)
    BY Shaped, SetState DEF Fields, o1
  <1>3. IsObject(o2) /\ Fields(o2, x1, me.pc, x2, me.dirty, me.needSync, me.size, me.vers,
                            me.job, me.todo)
    BY <1>2, SetCache DEF Fields, o2
  <1>4. IsObject(o3) /\ Fields(o3, x1, me.pc, x2, x3, me.needSync, me.size, me.vers, me.job,
                            me.todo)
    BY <1>3, SetDirty DEF Fields, o3
  <1>5. IsObject(o4) /\ Fields(o4, x1, me.pc, x2, x3, x4, me.size, me.vers, me.job, me.todo)
    BY <1>4, SetNeedSync DEF Fields, o4
  <1>6. IsObject(o5) /\ Fields(o5, x1, me.pc, x2, x3, x4, x5, me.vers, me.job, me.todo)
    BY <1>5, SetSize DEF Fields, o5
  <1>7. IsObject(o6) /\ Fields(o6, x1, me.pc, x2, x3, x4, x5, me.vers, x6, me.todo)
    BY <1>6, SetJob DEF Fields, o6
  <1>8. IsObject(o7) /\ Fields(o7, x1, x7, x2, x3, x4, x5, me.vers, x6, me.todo)
    BY <1>7, SetPc DEF Fields, o7
  <1> QED
    BY <1>1, <1>8, Becomes DEF Turned, x1, x2, x3, x4, x5, x6, x7

LEMMA AfterDowngrade ==
  ASSUME Objects, NEW c \in Conn, pager[c].eState # "OPEN", Downgrade(c)
  PROVE  LET me == pager[c]
             size == IF me.eState \in {"LOCKED", "FINISHED"} THEN me.size ELSE Size(db)
         IN
         Turned(c, "READER", "none", [p \in Pages |-> IF p > size THEN NotCached
             ELSE me.cache[p]], {}, {}, size, me.vers, 0, me.todo)
  <1> DEFINE me == pager[c]
             size == IF me.eState \in {"LOCKED", "FINISHED"} THEN me.size ELSE Size(db)
             x1 == "none"
             x2 == "READER"
             x3 == {}
             x4 == {}
             x5 == size
             x6 == 0
             x7 == [p \in Pages |-> IF p > size THEN NotCached ELSE me.cache[p]]
             o1 == [me EXCEPT !.pc = x1]
             o2 == [o1 EXCEPT !.eState = x2]
             o3 == [o2 EXCEPT !.dirty = x3]
             o4 == [o3 EXCEPT !.needSync = x4]
             o5 == [o4 EXCEPT !.size = x5]
             o6 == [o5 EXCEPT !.job = x6]
             o7 == [o6 EXCEPT !.cache = x7]
  <1>1. pager' = [pager EXCEPT ![c] = o7]
    BY DEF Downgrade
  <1> HIDE DEF x1, o1, x2, o2, x3, o3, x4, o4, x5, o5, x6, o6, x7, o7
  <1>2. IsObject(o1) /\ Fields(o1, me.eState, x1, me.cache, me.dirty, me.needSync, me.size,
                            me.vers, me.job, me.todo)
    BY Shaped, SetPc DEF Fields, o1
  <1>3. IsObject(o2) /\ Fields(o2, x2, x1, me.cache, me.dirty, me.needSync, me.size, me.vers,
                            me.job, me.todo)
    BY <1>2, SetState DEF Fields, o2
  <1>4. IsObject(o3) /\ Fields(o3, x2, x1, me.cache, x3, me.needSync, me.size, me.vers, me.job,
                            me.todo)
    BY <1>3, SetDirty DEF Fields, o3
  <1>5. IsObject(o4) /\ Fields(o4, x2, x1, me.cache, x3, x4, me.size, me.vers, me.job, me.todo)
    BY <1>4, SetNeedSync DEF Fields, o4
  <1>6. IsObject(o5) /\ Fields(o5, x2, x1, me.cache, x3, x4, x5, me.vers, me.job, me.todo)
    BY <1>5, SetSize DEF Fields, o5
  <1>7. IsObject(o6) /\ Fields(o6, x2, x1, me.cache, x3, x4, x5, me.vers, x6, me.todo)
    BY <1>6, SetJob DEF Fields, o6
  <1>8. IsObject(o7) /\ Fields(o7, x2, x1, x7, x3, x4, x5, me.vers, x6, me.todo)
    BY <1>7, SetCache DEF Fields, o7
  <1> QED
    BY <1>1, <1>8, Becomes DEF Turned, x1, x2, x3, x4, x5, x6, x7

\* A new Pager object, and what an error or a killed process leaves.
LEMMA FreshShaped ==
  /\ IsObject(Fresh)
  /\ Fields(Fresh, "OPEN", "none", [p \in Pages |-> NotCached], {}, {}, 0, 0, 0, <<>>)
  BY DEF Fresh, IsObject, Object, Fields

LEMMA AfterCrash ==
  ASSUME Objects, NEW c \in Conn, Crash(c)
  PROVE  Turned(c, "OPEN", "none", [p \in Pages |-> NotCached], {}, {}, 0, 0, 0, <<>>)
  BY FreshShaped, Becomes DEF Turned, Crash

LEMMA AfterGiveUp ==
  ASSUME Objects, NEW c \in Conn, GiveUp(c)
  PROVE  Turned(c, "OPEN", "none", [p \in Pages |-> NotCached], {}, {}, 0, pager[c].vers, 0, <<>>)
  <1> DEFINE x == pager[c].vers
             o == [Fresh EXCEPT !.vers = x]
  <1>1. pager' = [pager EXCEPT ![c] = o]
    BY DEF GiveUp
  <1> HIDE DEF x, o
  <1>2. IsObject(o) /\ Fields(o, "OPEN", "none", [p \in Pages |-> NotCached], {}, {}, 0, x, 0, <<>>)
    BY FreshShaped, SetVers DEF Fields, o
  <1> QED
    BY <1>1, <1>2, Becomes DEF Turned, x

-----------------------------------------------------------------------------
(* What FileLock promises, for any number of connections                   *)

\* A connection that comes down, or whose process ends, leaves the promises
\* to the others as they were.
LEMMA Lowering ==
  ASSUME Promises, lock' \in [Conn -> Levels],
         \A c \in Conn : lock'[c] = lock[c] \/ (lock'[c] <= SHARED_LOCK /\ lock'[c] <= lock[c])
  PROVE  Promises'
  <1>1. TypeOK'
    BY DEF TypeOK
  <1>2. ASSUME NEW c \in Conn, lock'[c] = EXCLUSIVE_LOCK, NEW d \in Others(c)
        PROVE  lock'[d] = NO_LOCK
    BY <1>2 DEF Promises, TypeOK, ExclusiveIsAlone, Others, Levels,
                NO_LOCK, SHARED_LOCK, EXCLUSIVE_LOCK
  <1>3. ASSUME NEW c \in Conn, lock'[c] >= RESERVED_LOCK, NEW d \in Others(c)
        PROVE  lock'[d] < RESERVED_LOCK
    BY <1>3 DEF Promises, TypeOK, OneWriter, Others, Levels,
                NO_LOCK, SHARED_LOCK, RESERVED_LOCK, EXCLUSIVE_LOCK
  <1>4. QED
    BY <1>1, <1>2, <1>3 DEF Promises, ExclusiveIsAlone, OneWriter, Others

\* Every step of the lock keeps its promises.
LEMMA PromisesKept == Promises /\ [Next]_lock => Promises'
  <1> SUFFICES ASSUME Promises, [Next]_lock PROVE Promises'
    OBVIOUS
  <1> USE DEF NO_LOCK, SHARED_LOCK, RESERVED_LOCK, PENDING_LOCK, EXCLUSIVE_LOCK, Levels
  <1>1. ASSUME NEW c \in Conn, Share(c) PROVE Promises'
    BY <1>1 DEF Share, MayShare, Promises, TypeOK, ExclusiveIsAlone, OneWriter, Others
  <1>2. ASSUME NEW c \in Conn, Reserve(c) PROVE Promises'
    BY <1>2 DEF Reserve, MayReserve, Promises, TypeOK, ExclusiveIsAlone, OneWriter, Others
  <1>3. ASSUME NEW c \in Conn, Pend(c) PROVE Promises'
    BY <1>3 DEF Pend, Promises, TypeOK, ExclusiveIsAlone, OneWriter, Others
  <1>4. ASSUME NEW c \in Conn, Exclude(c) PROVE Promises'
    BY <1>4 DEF Exclude, MayExclude, Promises, TypeOK, ExclusiveIsAlone, OneWriter, Others
  <1>5. ASSUME NEW c \in Conn, NEW l \in {NO_LOCK, SHARED_LOCK}, Lower(c, l) PROVE Promises'
    BY <1>5, Lowering DEF Lower, Promises, TypeOK
  <1>6. ASSUME NEW S \in SUBSET Conn, DropAll(S) PROVE Promises'
    BY <1>6, Lowering DEF DropAll, Promises, TypeOK
  <1>7. CASE UNCHANGED lock
    BY <1>7 DEF Promises, TypeOK, ExclusiveIsAlone, OneWriter, Others
  <1>8. QED
    BY <1>1, <1>2, <1>3, <1>4, <1>5, <1>6, <1>7 DEF Next

(* FileLock is type correct, EXCLUSIVE is alone (os_unix.c:1747) and at most *)
(* one connection holds RESERVED or more (os_unix.c:1740).                  *)
THEOREM LockPromises == Spec => []Promises
  <1>1. Init => Promises
    BY DEF Init, Promises, TypeOK, ExclusiveIsAlone, OneWriter, Others, Levels,
           NO_LOCK, RESERVED_LOCK, EXCLUSIVE_LOCK
  <1>2. QED
    BY <1>1, PromisesKept, PTL DEF Spec

-----------------------------------------------------------------------------

\* What remains to be shown of a step of c for the protocol.
LEMMA Protocol ==
  ASSUME ProtocolInv, NEW c \in Conn,
         NEW s, NEW l, NEW ca, NEW di, NEW ns, NEW sz, NEW v, NEW jb, NEW td,
         Turned(c, s, l, ca, di, ns, sz, v, jb, td),
         NEW k \in Levels, Promises', lock' = [lock EXCEPT ![c] = k],
         PlacedAt(s, l, k),
         nextTx' \in Nat \ {0},
         jrnl' = jrnl \/ lock[c] >= RESERVED_LOCK,
         s \in {"CACHEMOD", "DBMOD"} /\ l # "downgrade" => IsJournal(jrnl')
  PROVE  ProtocolInv'
  <1>1. Placed(c)' /\ (Changing(c)' => IsJournal(jrnl)')
    BY DEF Placed, Changing, Turned, Fields, IsJournal, ProtocolInv, Promises, TypeOK
  <1>2. ASSUME NEW d \in Conn \ {c} PROVE Placed(d)' /\ (Changing(d)' => IsJournal(jrnl)')
    <2>1. pager'[d] = pager[d] /\ lock'[d] = lock[d]
      BY DEF Turned, ProtocolInv, Promises, TypeOK
    <2>2. Placed(d)' /\ (Changing(d)' <=> Changing(d))
      BY <2>1 DEF Placed, Changing, ProtocolInv
    <2>3. Changing(d) => lock[d] >= RESERVED_LOCK
      <3>1. Placed(d)
        BY DEF ProtocolInv
      <3> QED BY <3>1 DEF Placed, Changing, PlacedAt, RESERVED_LOCK, EXCLUSIVE_LOCK
    <2>4. Changing(d) => ~(lock[c] >= RESERVED_LOCK)
      BY <2>3 DEF ProtocolInv, Promises, OneWriter, Others, TypeOK, Levels,
                    NO_LOCK, SHARED_LOCK, RESERVED_LOCK, EXCLUSIVE_LOCK
    <2>5. Changing(d) => IsJournal(jrnl) /\ jrnl' = jrnl
      BY <2>4 DEF ProtocolInv
    <2> QED
      BY <2>2, <2>5 DEF IsJournal
  <1> QED
    BY <1>1, <1>2 DEF ProtocolInv, Turned

\* The same for a step that leaves the lock alone.
LEMMA ProtocolUnlocked ==
  ASSUME ProtocolInv, NEW c \in Conn,
         NEW s, NEW l, NEW ca, NEW di, NEW ns, NEW sz, NEW v, NEW jb, NEW td,
         Turned(c, s, l, ca, di, ns, sz, v, jb, td),
         lock' = lock,
         PlacedAt(s, l, lock[c]),
         nextTx' \in Nat \ {0},
         jrnl' = jrnl \/ lock[c] >= RESERVED_LOCK,
         s \in {"CACHEMOD", "DBMOD"} /\ l # "downgrade" => IsJournal(jrnl')
  PROVE  ProtocolInv'
  <1>1. lock[c] \in Levels /\ lock' = [lock EXCEPT ![c] = lock[c]]
    BY DEF ProtocolInv, Promises, TypeOK
  <1>2. Promises'
    BY PromisesKept DEF ProtocolInv
  <1> QED
    BY <1>1, <1>2, Protocol

-----------------------------------------------------------------------------
(* The protocol of the locks                                               *)

USE DEF NO_LOCK, SHARED_LOCK, RESERVED_LOCK, PENDING_LOCK, EXCLUSIVE_LOCK

\* What the protocol says of a connection and its lock.
LEMMA AtPlace ==
  ASSUME ProtocolInv, NEW c \in Conn
  PROVE  PlacedAt(pager[c].eState, pager[c].pc, lock[c]) /\ lock[c] \in Levels /\ Objects
  BY DEF ProtocolInv, Placed, Promises, TypeOK

\* The level that a step of the lock gives to c.
LEMMA Granted ==
  ASSUME ProtocolInv, NEW c \in Conn
  PROVE  /\ Share(c) => Promises' /\ lock' = [lock EXCEPT ![c] = SHARED_LOCK]
         /\ Reserve(c) => Promises' /\ lock' = [lock EXCEPT ![c] = RESERVED_LOCK]
         /\ Pend(c) => Promises' /\ lock' = [lock EXCEPT ![c] = PENDING_LOCK]
         /\ Exclude(c) => Promises' /\ lock' = [lock EXCEPT ![c] = EXCLUSIVE_LOCK]
         /\ Lower(c, NO_LOCK) => Promises' /\ lock' = [lock EXCEPT ![c] = NO_LOCK]
         /\ Lower(c, SHARED_LOCK) => Promises' /\ lock' = [lock EXCEPT ![c] = SHARED_LOCK]
  <1>1. Share(c) \/ Reserve(c) \/ Pend(c) \/ Exclude(c) \/ Lower(c, NO_LOCK) \/ Lower(c, SHARED_LOCK)
        => Promises'
    BY PromisesKept DEF ProtocolInv, Next
  <1> QED
    BY <1>1 DEF Share, Reserve, Pend, Exclude, Lower

\* c is at place l and has done nothing else to its Pager object.
Moved(c, l) ==
  LET me == pager[c] IN
  Turned(c, me.eState, l, me.cache, me.dirty, me.needSync, me.size, me.vers, me.job, me.todo)

LEMMA Moves ==
  ASSUME Objects, NEW c \in Conn
  PROVE  /\ SharedLock(c) => Moved(c, "access")
         /\ AccessJournal(c) => Moved(c, IF jrnl = NoFile THEN "validate" ELSE "reserved")
         /\ CheckReserved(c) => Moved(c, "validate") \/ Moved(c, "first")
         /\ FirstByte(c) =>
              \/ Size(db) = 0 /\ Reserve(c) /\ Moved(c, "remove")
              \/ Size(db) = 0 /\ lock' = lock /\ Moved(c, "validate")
              \/ /\ Size(db) # 0 /\ lock' = lock
                 /\ Moved(c, IF jrnl = NoFile \/ Hot(jrnl) THEN "exclusive" ELSE "validate")
         /\ RemoveJournal(c) => Moved(c, "downgrade")
         /\ HotExclusive(c) => \/ Exclude(c) /\ Moved(c, "open")
                               \/ Lower(c, NO_LOCK) /\ Moved(c, "none")
         /\ OpenHot(c) => Moved(c, IF jrnl = NoFile THEN "downgrade" ELSE "start")
         /\ StartPlayback(c) /\ ~Hot(jrnl) => Moved(c, "play")
         /\ EndPlayback(c) => Moved(c, "finalize")
         /\ Finalize(c) => Moved(c, "downgrade")
         /\ Downgrade(c) /\ pager[c].eState = "OPEN" => Moved(c, "validate")
         /\ CommitNothing(c) => Moved(c, "downgrade")
         /\ TakeExclusive(c) =>
              \/ Exclude(c) /\ Moved(c, "sync")
              \/ lock[c] = EXCLUSIVE_LOCK /\ lock' = lock /\ Moved(c, "sync")
              \/ (Pend(c) \/ lock' = lock) /\ Moved(c, "none")
         /\ SyncRecords(c) => Moved(c, "count")
         /\ CountRecords(c) => Moved(c, "resync")
  <1> USE AfterPc DEF Moved
  <1>1. SharedLock(c) => Moved(c, "access")
    BY DEF SharedLock
  <1>2. AccessJournal(c) => Moved(c, IF jrnl = NoFile THEN "validate" ELSE "reserved")
    BY DEF AccessJournal
  <1>3. CheckReserved(c) => Moved(c, "validate") \/ Moved(c, "first")
    BY DEF CheckReserved
  <1>4. FirstByte(c) =>
          \/ Size(db) = 0 /\ Reserve(c) /\ Moved(c, "remove")
          \/ Size(db) = 0 /\ lock' = lock /\ Moved(c, "validate")
          \/ /\ Size(db) # 0 /\ lock' = lock
             /\ Moved(c, IF jrnl = NoFile \/ Hot(jrnl) THEN "exclusive" ELSE "validate")
    BY DEF FirstByte
  <1>5. RemoveJournal(c) => Moved(c, "downgrade")
    BY DEF RemoveJournal
  <1>6. HotExclusive(c) => \/ Exclude(c) /\ Moved(c, "open")
                           \/ Lower(c, NO_LOCK) /\ Moved(c, "none")
    BY DEF HotExclusive
  <1>7. OpenHot(c) => Moved(c, IF jrnl = NoFile THEN "downgrade" ELSE "start")
    BY DEF OpenHot
  <1>8. StartPlayback(c) /\ ~Hot(jrnl) => Moved(c, "play")
    BY DEF StartPlayback
  <1>9. EndPlayback(c) => Moved(c, "finalize")
    BY DEF EndPlayback
  <1>10. Finalize(c) => Moved(c, "downgrade")
    BY DEF Finalize
  <1>11. Downgrade(c) /\ pager[c].eState = "OPEN" => Moved(c, "validate")
    <2> SUFFICES ASSUME Downgrade(c), pager[c].eState = "OPEN" PROVE Moved(c, "validate")
      OBVIOUS
    <2>1. pager' = [pager EXCEPT ![c].pc = "validate"]
      BY DEF Downgrade
    <2> QED
      BY <2>1
  <1>12. CommitNothing(c) => Moved(c, "downgrade")
    BY DEF CommitNothing
  <1>13. TakeExclusive(c) =>
           \/ Exclude(c) /\ Moved(c, "sync")
           \/ lock[c] = EXCLUSIVE_LOCK /\ lock' = lock /\ Moved(c, "sync")
           \/ (Pend(c) \/ lock' = lock) /\ Moved(c, "none")
    BY DEF TakeExclusive
  <1>14. SyncRecords(c) => Moved(c, "count")
    BY DEF SyncRecords
  <1>15. CountRecords(c) => Moved(c, "resync")
    BY DEF CountRecords
  <1> QED
    BY <1>1, <1>2, <1>3, <1>4, <1>5, <1>6, <1>7, <1>8, <1>9, <1>10, <1>11, <1>12, <1>13, <1>14, <1>15

\* A step that only moves c on keeps the protocol.
LEMMA Moving ==
  ASSUME ProtocolInv, NEW c \in Conn, NEW l, Moved(c, l),
         NEW k \in Levels, Promises', lock' = [lock EXCEPT ![c] = k],
         PlacedAt(pager[c].eState, l, k), nextTx' = nextTx,
         jrnl' = jrnl \/ lock[c] >= RESERVED_LOCK,
         pager[c].eState \in {"CACHEMOD", "DBMOD"} /\ l # "downgrade" =>
           pager[c].pc # "downgrade" /\ jrnl' = jrnl
  PROVE  ProtocolInv'
  <1>1. Changing(c) => IsJournal(jrnl)
    BY DEF ProtocolInv
  <1>2. pager[c].eState \in {"CACHEMOD", "DBMOD"} /\ l # "downgrade" => IsJournal(jrnl')
    BY <1>1 DEF Changing, IsJournal
  <1> QED
    BY <1>2, Protocol DEF ProtocolInv, Moved

LEMMA MovingUnlocked ==
  ASSUME ProtocolInv, NEW c \in Conn, NEW l, Moved(c, l),
         lock' = lock,
         PlacedAt(pager[c].eState, l, lock[c]), nextTx' = nextTx,
         jrnl' = jrnl \/ lock[c] >= RESERVED_LOCK,
         pager[c].eState \in {"CACHEMOD", "DBMOD"} /\ l # "downgrade" =>
           pager[c].pc # "downgrade" /\ jrnl' = jrnl
  PROVE  ProtocolInv'
  <1>1. lock[c] \in Levels /\ lock' = [lock EXCEPT ![c] = lock[c]]
    BY DEF ProtocolInv, Promises, TypeOK
  <1>2. Promises'
    BY PromisesKept DEF ProtocolInv
  <1> QED
    BY <1>1, <1>2, Moving

\* The search for a hot journal and its playback.
LEMMA RecoveryKeepsProtocol ==
  ASSUME ProtocolInv, NEW c \in Conn, Recovery(c)
  PROVE  ProtocolInv'
  <1> DEFINE s == pager[c].eState
  <1>a. PlacedAt(s, pager[c].pc, lock[c]) /\ Objects
    BY AtPlace
  <1>b. nextTx \in Nat \ {0} /\ (Changing(c) => IsJournal(jrnl))
    BY DEF ProtocolInv
  <1> USE DEF files, At, Idle
  <1>1. CASE SharedLock(c)
    <2>1. Moved(c, "access") /\ s = "OPEN" /\ Share(c) /\ nextTx' = nextTx /\ jrnl' = jrnl
      BY <1>1, <1>a, Moves DEF SharedLock
    <2> QED
      BY <2>1, Granted, Moving DEF PlacedAt, Calling, Levels
  <1>2. CASE AccessJournal(c)
    <2>1. /\ Moved(c, "validate") \/ Moved(c, "reserved")
          /\ pager[c].pc = "access" /\ lock' = lock /\ nextTx' = nextTx /\ jrnl' = jrnl
      BY <1>2, <1>a, Moves DEF AccessJournal
    <2> QED
      BY <1>a, <2>1, MovingUnlocked DEF PlacedAt, Calling
  <1>3. CASE CheckReserved(c)
    <2>1. /\ Moved(c, "validate") \/ Moved(c, "first")
          /\ pager[c].pc = "reserved" /\ lock' = lock /\ nextTx' = nextTx /\ jrnl' = jrnl
      BY <1>3, <1>a, Moves DEF CheckReserved
    <2> QED
      BY <1>a, <2>1, MovingUnlocked DEF PlacedAt, Calling
  <1>4. CASE FirstByte(c)
    <2>1. pager[c].pc = "first" /\ nextTx' = nextTx /\ jrnl' = jrnl
      BY <1>4, <1>a DEF FirstByte
    <2>2. CASE Reserve(c) /\ Moved(c, "remove")
      BY <1>a, <2>1, <2>2, Granted, Moving DEF PlacedAt, Calling, Levels
    <2>3. CASE lock' = lock /\ (Moved(c, "exclusive") \/ Moved(c, "validate"))
      BY <1>a, <2>1, <2>3, MovingUnlocked DEF PlacedAt, Calling
    <2> QED
      BY <1>4, <1>a, <2>2, <2>3, Moves
  <1>5. CASE RemoveJournal(c)
    <2>1. Moved(c, "downgrade") /\ pager[c].pc = "remove" /\ lock' = lock /\ nextTx' = nextTx
      BY <1>5, <1>a, Moves DEF RemoveJournal
    <2> QED
      BY <1>a, <2>1, MovingUnlocked DEF PlacedAt, Calling
  <1>6. CASE HotExclusive(c)
    <2>1. pager[c].pc = "exclusive" /\ nextTx' = nextTx /\ jrnl' = jrnl
      BY <1>6 DEF HotExclusive
    <2>2. CASE Exclude(c) /\ Moved(c, "open")
      BY <1>a, <2>1, <2>2, Granted, Moving DEF PlacedAt, Calling, Levels
    <2>3. CASE Lower(c, NO_LOCK) /\ Moved(c, "none")
      BY <1>a, <2>1, <2>3, Granted, Moving DEF PlacedAt, Calling, Levels
    <2> QED
      BY <1>6, <1>a, <2>2, <2>3, Moves
  <1>7. CASE OpenHot(c)
    <2>1. /\ Moved(c, "downgrade") \/ Moved(c, "start")
          /\ pager[c].pc = "open" /\ lock' = lock /\ nextTx' = nextTx /\ jrnl' = jrnl
      BY <1>7, <1>a, Moves DEF OpenHot
    <2> QED
      BY <1>a, <2>1, MovingUnlocked DEF PlacedAt, Calling
  <1>8. CASE StartPlayback(c)
    <2>1. pager[c].pc = "start" /\ lock' = lock /\ nextTx' = nextTx /\ jrnl' = jrnl
      BY <1>8 DEF StartPlayback
    <2>2. s = "OPEN" /\ PlacedAt(s, "play", lock[c])
      BY <1>a, <2>1 DEF PlacedAt, Calling
    <2>3. CASE Hot(jrnl)
      BY <1>8, <1>a, <1>b, <2>1, <2>2, <2>3, AfterStartPlayback, ProtocolUnlocked
    <2>4. CASE ~Hot(jrnl)
      BY <1>8, <1>a, <2>1, <2>2, <2>4, Moves, MovingUnlocked
    <2> QED
      BY <2>3, <2>4
  <1>9. CASE Play(c)
    <2>1. pager[c].pc = "play" /\ lock' = lock /\ nextTx' = nextTx /\ jrnl' = jrnl
      BY <1>9 DEF Play
    <2>2. s \in {"CACHEMOD", "DBMOD"} => IsJournal(jrnl')
      BY <1>b, <2>1 DEF Changing
    <2> QED
      BY <1>9, <1>a, <1>b, <2>1, <2>2, AfterPlay, ProtocolUnlocked
  <1>10. CASE EndPlayback(c)
    <2>1. /\ Moved(c, "finalize")
          /\ pager[c].pc = "play" /\ lock' = lock /\ nextTx' = nextTx /\ jrnl' = jrnl
      BY <1>10, <1>a, Moves DEF EndPlayback
    <2> QED
      BY <1>a, <2>1, MovingUnlocked DEF PlacedAt, Calling
  <1>11. CASE Finalize(c)
    <2>1. Moved(c, "downgrade") /\ pager[c].pc = "finalize" /\ lock' = lock /\ nextTx' = nextTx
      BY <1>11, <1>a, Moves DEF Finalize
    <2> QED
      BY <1>a, <2>1, MovingUnlocked DEF PlacedAt, Calling
  <1>12. CASE Downgrade(c)
    <2>1. pager[c].pc = "downgrade" /\ Lower(c, SHARED_LOCK) /\ nextTx' = nextTx /\ jrnl' = jrnl
      BY <1>12 DEF Downgrade
    <2>2. Promises' /\ lock' = [lock EXCEPT ![c] = SHARED_LOCK] /\ SHARED_LOCK \in Levels
      BY <2>1, Granted DEF Levels
    <2>3. CASE s = "OPEN"
      BY <1>12, <1>a, <2>1, <2>2, <2>3, Moves, Moving DEF PlacedAt, Calling
    <2>4. CASE s # "OPEN"
      <3>1. PlacedAt("READER", "none", SHARED_LOCK)
        BY DEF PlacedAt, Calling
      <3> QED
        BY <1>12, <1>a, <1>b, <2>1, <2>2, <2>4, <3>1, AfterDowngrade, Protocol
    <2> QED
      BY <2>3, <2>4
  <1>13. CASE Validate(c)
    <2>1. pager[c].pc = "validate" /\ lock' = lock /\ nextTx' = nextTx /\ jrnl' = jrnl
      BY <1>13 DEF Validate
    <2>2. PlacedAt("READER", "none", lock[c])
      BY <1>a, <2>1 DEF PlacedAt, Calling
    <2> QED
      BY <1>13, <1>a, <1>b, <2>1, <2>2, AfterValidate, ProtocolUnlocked
  <1> QED
    BY <1>1, <1>2, <1>3, <1>4, <1>5, <1>6, <1>7, <1>8, <1>9, <1>10, <1>11, <1>12, <1>13 DEF Recovery

LEMMA AppendedShape ==
  ASSUME NEW j, IsJournal(j), NEW r
  PROVE  LET k == Appended(j, r) IN
         /\ k = [tx |-> j.tx, orig |-> j.orig, counted |-> j.counted, recs |-> Append(j.recs, r)]
         /\ IsJournal(k)
  <1> DEFINE x == Append(j.recs, r)
  <1>1. Appended(j, r) = [j EXCEPT !.recs = x]
    BY DEF Appended
  <1> HIDE DEF x
  <1>2. [j EXCEPT !.recs = x] = [tx |-> j.tx, orig |-> j.orig, counted |-> j.counted, recs |-> x]
    BY DEF IsJournal
  <1> QED
    BY <1>1, <1>2 DEF IsJournal, x

LEMMA CountingShape ==
  ASSUME NEW j, IsJournal(j)
  PROVE  LET k == Counting(j) IN
         /\ k = [tx |-> j.tx, orig |-> j.orig, counted |-> Len(jrnl.recs), recs |-> j.recs]
         /\ IsJournal(k)
  BY DEF IsJournal, Counting

\* The journal that pager_write leaves is one.
LEMMA JournalledIsOne ==
  ASSUME ProtocolInv, NEW c \in Conn, NEW p, Journalled(c, p),
         pager[c].eState = "LOCKED" \/ Changing(c)
  PROVE  IsJournal(jrnl') /\ nextTx' \in Nat \ {0}
  <1> DEFINE j == OwnJournal(c)
  <1>1. IsJournal(j)
    BY DEF OwnJournal, Opening, Created, IsJournal, ProtocolInv
  <1> HIDE DEF j
  <1>2. \A r : IsJournal(Appended(j, r))
    BY <1>1, AppendedShape
  <1>3. jrnl' = j \/ \E r : jrnl' = Appended(j, r)
    BY DEF Journalled, AppendRecord, j
  <1>4. nextTx' \in Nat \ {0}
    BY DEF Journalled, ProtocolInv
  <1>5. IsJournal(jrnl')
    BY <1>1, <1>2, <1>3
  <1> QED
    BY <1>4, <1>5

\* The phases of a commit.
LEMMA CommitKeepsProtocol ==
  ASSUME ProtocolInv, NEW c \in Conn, CommitStep(c)
  PROVE  ProtocolInv'
  <1> DEFINE s == pager[c].eState
  <1>a. PlacedAt(s, pager[c].pc, lock[c]) /\ Objects
    BY AtPlace
  <1>b. nextTx \in Nat \ {0} /\ (Changing(c) => IsJournal(jrnl))
    BY DEF ProtocolInv
  <1> USE DEF files, At, Idle
  <1>1. CASE TakeExclusive(c)
    <2>1. pager[c].pc = "lock" /\ nextTx' = nextTx /\ jrnl' = jrnl
      BY <1>1 DEF TakeExclusive
    <2>2. CASE Exclude(c) /\ Moved(c, "sync")
      BY <1>a, <2>1, <2>2, Granted, Moving DEF PlacedAt, Calling, Levels
    <2>3. CASE lock[c] = EXCLUSIVE_LOCK /\ lock' = lock /\ Moved(c, "sync")
      BY <1>a, <2>1, <2>3, MovingUnlocked DEF PlacedAt, Calling
    <2>4. CASE Pend(c) /\ Moved(c, "none")
      <3>1. s = "CACHEMOD" /\ PlacedAt(s, "none", PENDING_LOCK)
        BY <1>a, <2>1, <2>4 DEF PlacedAt, Calling, Pend
      <3> QED
        BY <1>a, <2>1, <2>4, <3>1, Granted, Moving DEF Levels
    <2>5. CASE lock' = lock /\ Moved(c, "none")
      BY <1>a, <2>1, <2>5, MovingUnlocked DEF PlacedAt, Calling
    <2> QED
      BY <1>1, <1>a, <2>2, <2>3, <2>4, <2>5, Moves
  <1>2. CASE SyncRecords(c)
    <2>1. /\ Moved(c, "count")
          /\ pager[c].pc = "sync" /\ lock' = lock /\ nextTx' = nextTx /\ jrnl' = jrnl
      BY <1>2, <1>a, Moves DEF SyncRecords
    <2> QED
      BY <1>a, <2>1, MovingUnlocked DEF PlacedAt, Calling
  <1>3. CASE CountRecords(c)
    <2>1. /\ Moved(c, "resync") /\ jrnl' = Counting(jrnl)
          /\ pager[c].pc = "count" /\ lock' = lock /\ nextTx' = nextTx
      BY <1>3, <1>a, Moves DEF CountRecords
    <2>2. s \in {"CACHEMOD", "DBMOD"} /\ PlacedAt(s, "resync", lock[c]) /\ lock[c] >= RESERVED_LOCK
      BY <1>a, <2>1 DEF PlacedAt, Calling
    <2>3. IsJournal(jrnl')
      BY <1>b, <2>1, <2>2, CountingShape DEF Changing
    <2> QED
      BY <1>b, <2>1, <2>2, <2>3, ProtocolUnlocked DEF Moved
  <1>4. CASE SyncHeader(c)
    <2>1. pager[c].pc = "resync" /\ lock' = lock /\ nextTx' = nextTx /\ jrnl' = jrnl
      BY <1>4 DEF SyncHeader
    <2>2. s \in {"CACHEMOD", "DBMOD"} /\ PlacedAt("DBMOD", "write", lock[c])
      BY <1>a, <2>1 DEF PlacedAt, Calling
    <2>3. IsJournal(jrnl')
      BY <1>b, <2>1, <2>2 DEF Changing
    <2> QED
      BY <1>4, <1>a, <1>b, <2>1, <2>2, <2>3, AfterSyncHeader, ProtocolUnlocked
  <1>5. CASE WritePage(c)
    <2>1. pager[c].pc = "write" /\ lock' = lock /\ nextTx' = nextTx /\ jrnl' = jrnl
      BY <1>5 DEF WritePage
    <2>2. /\ s \in {"CACHEMOD", "DBMOD"}
          /\ PlacedAt(s, "write", lock[c]) /\ PlacedAt(s, "none", lock[c])
      BY <1>a, <2>1 DEF PlacedAt, Calling
    <2>3. IsJournal(jrnl')
      BY <1>b, <2>1, <2>2 DEF Changing
    <2>4. PlacedAt(s, IF pager[c].job = 0 THEN pager[c].pc ELSE "none", lock[c])
      BY <2>1, <2>2
    <2> QED
      BY <1>5, <1>a, <1>b, <2>1, <2>3, <2>4, AfterWritePage, ProtocolUnlocked
  <1>6. CASE SyncFile(c)
    <2>1. pager[c].pc = "write" /\ lock' = lock /\ nextTx' = nextTx /\ jrnl' = jrnl
      BY <1>6 DEF SyncFile
    <2>2. PlacedAt("FINISHED", "finalize", lock[c])
      BY <1>a, <2>1 DEF PlacedAt, Calling
    <2> QED
      BY <1>6, <1>a, <1>b, <2>1, <2>2, AfterSyncFile, ProtocolUnlocked
  <1> QED
    BY <1>1, <1>2, <1>3, <1>4, <1>5, <1>6 DEF CommitStep

\* What the b-tree asks for: reading, writing, the end of a transaction.
LEMMA CallsKeepProtocol ==
  ASSUME ProtocolInv, NEW c \in Conn,
         \/ EndRead(c) \/ BeginWrite(c) \/ CommitNothing(c) \/ Commit(c) \/ Rollback(c)
         \/ \E p \in Pages : Read(c, p) \/ Write(c, p) \/ Spill(c, p)
  PROVE  ProtocolInv'
  <1> DEFINE s == pager[c].eState
  <1>a. PlacedAt(s, pager[c].pc, lock[c]) /\ Objects
    BY AtPlace
  <1>b. nextTx \in Nat \ {0} /\ (Changing(c) => IsJournal(jrnl))
    BY DEF ProtocolInv
  <1> USE DEF files, At, Idle
  <1>1. CASE EndRead(c)
    <2>1. Lower(c, NO_LOCK) /\ nextTx' = nextTx /\ jrnl' = jrnl
      BY <1>1 DEF EndRead
    <2>2. PlacedAt("OPEN", "none", NO_LOCK) /\ NO_LOCK \in Levels
      BY DEF PlacedAt, Levels
    <2>3. pager[c].pc = "none"
      BY <1>1 DEF EndRead
    <2> QED
      BY <1>1, <1>a, <1>b, <2>1, <2>2, <2>3, Granted, AfterEndRead, Protocol
  <1>2. CASE BeginWrite(c)
    <2>1. Reserve(c) /\ nextTx' = nextTx /\ jrnl' = jrnl /\ pager[c].pc = "none"
      BY <1>2 DEF BeginWrite
    <2>2. PlacedAt("LOCKED", "none", RESERVED_LOCK) /\ RESERVED_LOCK \in Levels
      BY DEF PlacedAt, Levels
    <2> QED
      BY <1>2, <1>a, <1>b, <2>1, <2>2, Granted, AfterBeginWrite, Protocol
  <1>3. CASE CommitNothing(c)
    <2>1. Moved(c, "downgrade") /\ s = "LOCKED" /\ lock' = lock /\ nextTx' = nextTx /\ jrnl' = jrnl
      BY <1>3, <1>a, Moves DEF CommitNothing
    <2> QED
      BY <1>a, <2>1, MovingUnlocked DEF PlacedAt, Calling
  <1>4. CASE Commit(c)
    <2>1. Journalled(c, 1) /\ s \in {"CACHEMOD", "DBMOD"} /\ pager[c].pc = "none" /\ lock' = lock
      BY <1>4 DEF Commit
    <2>2. PlacedAt(s, "lock", lock[c]) /\ lock[c] >= RESERVED_LOCK
      BY <1>a, <2>1 DEF PlacedAt, Calling
    <2>3. Changing(c)
      BY <2>1 DEF Changing
    <2>4. IsJournal(jrnl') /\ nextTx' \in Nat \ {0}
      BY <2>1, <2>3, JournalledIsOne
    <2>5. (IF Opening(c) THEN "CACHEMOD" ELSE s) = s
      BY <2>1 DEF Opening
    <2> QED
      BY <1>4, <1>a, <2>1, <2>2, <2>4, <2>5, AfterCommit, ProtocolUnlocked
  <1>5. CASE Rollback(c)
    <2>1. /\ s \in {"CACHEMOD", "DBMOD"} /\ pager[c].pc # "downgrade"
          /\ lock' = lock /\ nextTx' = nextTx /\ jrnl' = jrnl
      BY <1>5 DEF Rollback
    <2>2. PlacedAt(s, "play", lock[c]) /\ lock[c] >= RESERVED_LOCK
      BY <1>a, <2>1 DEF PlacedAt, Calling
    <2>3. IsJournal(jrnl')
      BY <1>b, <2>1 DEF Changing
    <2> QED
      BY <1>5, <1>a, <1>b, <2>1, <2>2, <2>3, AfterRollback, ProtocolUnlocked
  <1>6. ASSUME NEW p \in Pages, Read(c, p) PROVE ProtocolInv'
    <2>1. lock' = lock /\ nextTx' = nextTx /\ jrnl' = jrnl /\ pager[c].pc = "none"
      BY <1>6 DEF Read
    <2>2. s \in {"CACHEMOD", "DBMOD"} => IsJournal(jrnl')
      BY <1>b, <2>1 DEF Changing
    <2> QED
      BY <1>6, <1>a, <1>b, <2>1, <2>2, AfterRead, ProtocolUnlocked
  <1>7. ASSUME NEW p \in Pages, Write(c, p) PROVE ProtocolInv'
    <2>1. Journalled(c, p) /\ s \in Writing /\ pager[c].pc = "none" /\ lock' = lock
      BY <1>7 DEF Write
    <2>2. /\ PlacedAt(IF Opening(c) THEN "CACHEMOD" ELSE s, pager[c].pc, lock[c])
          /\ lock[c] >= RESERVED_LOCK
      BY <1>a, <2>1 DEF PlacedAt, Calling, Opening, Writing
    <2>3. s = "LOCKED" \/ Changing(c)
      BY <2>1 DEF Changing, Writing
    <2>4. IsJournal(jrnl') /\ nextTx' \in Nat \ {0}
      BY <2>1, <2>3, JournalledIsOne
    <2> QED
      BY <1>7, <1>a, <2>1, <2>2, <2>4, AfterWrite, ProtocolUnlocked
  <1>8. ASSUME NEW p \in Pages, Spill(c, p) PROVE ProtocolInv'
    <2>1. /\ s \in {"CACHEMOD", "DBMOD"} /\ pager[c].pc = "none"
          /\ lock' = lock /\ nextTx' = nextTx /\ jrnl' = jrnl
      BY <1>8 DEF Spill
    <2>2. IsJournal(jrnl')
      BY <1>b, <2>1 DEF Changing
    <2>3. PlacedAt(s, IF p \in pager[c].needSync \/ s = "CACHEMOD" THEN "lock" ELSE "write", lock[c])
      BY <1>a, <2>1 DEF PlacedAt, Calling
    <2> QED
      BY <1>8, <1>a, <1>b, <2>1, <2>2, <2>3, AfterSpill, ProtocolUnlocked
  <1> QED
    BY <1>1, <1>2, <1>3, <1>4, <1>5, <1>6, <1>7, <1>8

\* Errors, killed processes and power losses.
LEMMA FailuresKeepProtocol ==
  ASSUME ProtocolInv, PowerLoss \/ \E c \in Conn : GiveUp(c) \/ Crash(c)
  PROVE  ProtocolInv'
  <1>1. PlacedAt("OPEN", "none", NO_LOCK) /\ NO_LOCK \in Levels
    BY DEF PlacedAt, Levels
  <1>2. ASSUME NEW c \in Conn, GiveUp(c) PROVE ProtocolInv'
    <2>1. Lower(c, NO_LOCK) /\ nextTx' = nextTx /\ jrnl' = jrnl
      BY <1>2 DEF GiveUp, files
    <2> QED
      BY <1>1, <1>2, <2>1, Granted, AfterGiveUp, Protocol DEF ProtocolInv
  <1>3. ASSUME NEW c \in Conn, Crash(c) PROVE ProtocolInv'
    <2>1. DropAll({c}) /\ nextTx' = nextTx /\ jrnl' = jrnl
      BY <1>3 DEF Crash, files
    <2>2. Promises' /\ lock' = [lock EXCEPT ![c] = NO_LOCK]
      <3>1. Promises'
        BY <2>1, PromisesKept DEF ProtocolInv, Next
      <3> QED
        BY <2>1, <3>1 DEF DropAll, ProtocolInv, Promises, TypeOK
    <2> QED
      BY <1>1, <1>3, <2>1, <2>2, AfterCrash, Protocol DEF ProtocolInv
  <1>4. CASE PowerLoss
    <2>1. DropAll(Conn) /\ pager' = [c \in Conn |-> Fresh] /\ nextTx' = nextTx
      BY <1>4 DEF PowerLoss
    <2>2. Promises'
      BY <2>1, PromisesKept DEF ProtocolInv, Next
    <2>3. \A c \in Conn : pager'[c] = Fresh /\ IsObject(pager'[c]) /\ lock'[c] = NO_LOCK
      BY <2>1, FreshShaped DEF DropAll
    <2>4. Objects'
      BY <2>1, <2>3 DEF Objects, IsObject
    <2>5. \A c \in Conn : pager'[c].eState = "OPEN" /\ pager'[c].pc = "none"
      BY <2>3, FreshShaped DEF Fields
    <2> QED
      BY <1>1, <2>1, <2>2, <2>3, <2>4, <2>5 DEF ProtocolInv, Placed, Changing
  <1> QED
    BY <1>2, <1>3, <1>4

\* The protocol is inductive.
LEMMA ProtocolKept == ProtocolInv /\ [PagerNext]_vars => ProtocolInv'
  <1> SUFFICES ASSUME ProtocolInv, [PagerNext]_vars PROVE ProtocolInv'
    OBVIOUS
  <1>1. CASE UNCHANGED vars
    BY <1>1 DEF vars, files, ProtocolInv, Promises, TypeOK, ExclusiveIsAlone, OneWriter, Others,
                Objects, Placed, Changing, IsJournal
  <1> QED
    BY <1>1, RecoveryKeepsProtocol, CommitKeepsProtocol, CallsKeepProtocol, FailuresKeepProtocol
    DEF PagerNext

LEMMA ProtocolInit == PagerInit => ProtocolInv
  <1> SUFFICES ASSUME PagerInit PROVE ProtocolInv
    OBVIOUS
  <1>1. pager = [c \in Conn |-> Fresh] /\ lock = [c \in Conn |-> NO_LOCK] /\ nextTx = 1
    BY DEF PagerInit, Init
  <1>2. \A c \in Conn : pager[c] = Fresh /\ IsObject(pager[c]) /\ lock[c] = NO_LOCK
    BY <1>1, FreshShaped
  <1>3. Objects
    BY <1>1, <1>2 DEF Objects, IsObject
  <1>4. \A c \in Conn : pager[c].eState = "OPEN" /\ pager[c].pc = "none"
    BY <1>2, FreshShaped DEF Fields
  <1>5. Promises
    BY <1>1 DEF Promises, TypeOK, ExclusiveIsAlone, OneWriter, Levels, Others
  <1> QED
    BY <1>1, <1>2, <1>3, <1>4, <1>5 DEF ProtocolInv, Placed, PlacedAt, Changing

\* No reader that took a live journal for a left-over plays it back or removes
\* it (ticket 3883, pager.c:5144): the protocol of the locks alone sees to it.
THEOREM JournalAlwaysKept == PagerSpec => []JournalIsKept
  <1>1. ProtocolInv => JournalIsKept
    <2> SUFFICES ASSUME ProtocolInv, NEW c \in Conn, Changing(c)
                 PROVE  /\ jrnl # NoFile
                        /\ \A d \in Others(c) : pager[d].pc \notin {"remove", "open", "start", "play"}
      BY DEF JournalIsKept, Changing
    <2>1. jrnl # NoFile
      <3>1. jrnl.tx # 0
        BY DEF ProtocolInv, IsJournal
      <3> QED
        BY <3>1 DEF NoFile
    <2>2. lock[c] >= RESERVED_LOCK
      BY AtPlace DEF PlacedAt, Changing
    <2>3. ASSUME NEW d \in Others(c) PROVE pager[d].pc \notin {"remove", "open", "start", "play"}
      <3>1. lock[d] < RESERVED_LOCK /\ d \in Conn /\ lock[d] \in Levels
        BY <2>2 DEF ProtocolInv, Promises, OneWriter, Others, TypeOK
      <3> QED
        BY <3>1, AtPlace DEF PlacedAt, Calling, Levels
    <2> QED
      BY <2>1, <2>3
  <1> QED
    BY <1>1, ProtocolInit, ProtocolKept, PTL DEF PagerSpec

-----------------------------------------------------------------------------
(* Images and journals                                                     *)

\* The size of a file without holes.
LEMMA SizeIs ==
  ASSUME NEW d, NEW k \in 0 .. N, \A p \in Pages : d[p] # Absent <=> p <= k
  PROVE  Size(d) = k
  <1>1. {p \in Pages : d[p] # Absent} = 1 .. k
    BY BoundsAreNat DEF Pages
  <1>2. Cardinality(1 .. k) = k
    <2>1. k \in Int /\ k >= 0
      BY BoundsAreNat
    <2>2. Cardinality(1 .. k) = IF 1 > k THEN 0 ELSE k-1+1
      BY <2>1, FS_Interval
    <2> QED
      BY <2>1, <2>2
  <1> QED
    BY <1>1, <1>2 DEF Size

LEMMA SizeType ==
  ASSUME NEW d
  PROVE  Size(d) \in 0 .. N /\ (Size(d) = 0 => \A p \in Pages : d[p] = Absent)
  <1> DEFINE S == {p \in Pages : d[p] # Absent}
  <1>1. IsFiniteSet(1 .. N) /\ Cardinality(1 .. N) = N
    <2>1. 1 \in Int /\ N \in Int /\ N >= 1
      BY BoundsAreNat
    <2>2. IsFiniteSet(1 .. N) /\ Cardinality(1 .. N) = IF 1 > N THEN 0 ELSE N-1+1
      BY <2>1, FS_Interval
    <2> QED
      BY <2>1, <2>2
  <1>2. S \subseteq 1 .. N
    BY DEF Pages
  <1>3. IsFiniteSet(S) /\ Cardinality(S) <= N
    BY <1>1, <1>2, FS_Subset
  <1>4. Cardinality(S) \in Nat /\ (Cardinality(S) = 0 => S = {})
    BY <1>3, FS_CardinalityType, FS_EmptySet
  <1> QED
    BY <1>3, <1>4, BoundsAreNat DEF Size

LEMMA MinOfPages ==
  ASSUME NEW S, S \subseteq Pages, S # {}
  PROVE  Min(S) \in S
  <1>1. S \subseteq Nat
    BY DEF Pages
  <1>2. PICK x \in S : \A y \in S : ~(<<y, x>> \in OpToRel(<, Nat))
    BY <1>1, NatLessThanWellFounded, WFMin
  <1>3. \A y \in S : ~(y < x)
    BY <1>1, <1>2 DEF OpToRel
  <1>4. \A y \in S : x <= y
    BY <1>1, <1>3
  <1> QED
    BY <1>4 DEF Min

LEMMA MaxOfTwo ==
  ASSUME NEW a \in Int, NEW b \in Int
  PROVE  Max({a, b}) = IF a >= b THEN a ELSE b
  BY DEF Max

\* The first page is there.
LEMMA FirstPage == 1 \in Pages
  BY BoundsAreNat DEF Pages

LEMMA JournalType ==
  ASSUME NEW j \in Journal
  PROVE  /\ j.tx \in 1 .. nextTx - 1 /\ j.orig \in 0 .. N
         /\ j.counted \in Int /\ j.counted >= Cold /\ j.counted <= Len(j.recs)
         /\ j.recs \in Seq([pg : Int, val : Int]) /\ Len(j.recs) \in Nat
         /\ DOMAIN j.recs = 1 .. Len(j.recs)
         /\ \A i \in 1 .. Len(j.recs) : j.recs[i] \in [pg : Int, val : Int]
         /\ IsJournal(j)
  <1>1. /\ j.tx \in 1 .. nextTx - 1 /\ j.orig \in 0 .. N
        /\ j.counted \in Nat \cup {Cold} /\ j.recs \in Seq([pg : Int, val : Int])
        /\ j.counted <= Len(j.recs)
        /\ j = [tx |-> j.tx, orig |-> j.orig, counted |-> j.counted, recs |-> j.recs]
    BY DEF Journal
  <1>2. Len(j.recs) \in Nat /\ DOMAIN j.recs = 1 .. Len(j.recs)
    BY <1>1
  <1>3. \A i \in 1 .. Len(j.recs) : j.recs[i] \in [pg : Int, val : Int]
    BY <1>1, ElementOfSeq
  <1>4. j.counted \in Int /\ j.counted >= Cold
    BY <1>1 DEF Cold
  <1>5. j.tx \in Nat \ {0}
    BY <1>1
  <1> QED
    BY <1>1, <1>2, <1>3, <1>4, <1>5 DEF IsJournal

LEMMA NoFileFields ==
  NoFile.tx = 0 /\ NoFile.orig = 0 /\ NoFile.counted = 0 /\ NoFile.recs = <<>> /\ ~Hot(NoFile)
  BY DEF NoFile, Hot

\* A journal in the directory is hot when its header has been written.
LEMMA HotJournal ==
  ASSUME NEW j \in Journal
  PROVE  Hot(j) <=> j.counted # Cold
  <1>1. j # NoFile
    BY JournalType, NoFileFields
  <1> QED
    BY <1>1 DEF Hot

\* The records of a journal that restores an image are all read.
LEMMA AllCounted ==
  ASSUME NEW j \in Journal, j.counted # Cold, NEW img, \A i \in 1 .. j.counted : OldPage(j.recs[i], img)
  PROVE  Counted(j) = 1 .. j.counted /\ Cardinality(Counted(j)) = j.counted
  <1>1. j.counted \in Nat /\ DOMAIN j.recs = 1 .. Len(j.recs) /\ j.counted <= Len(j.recs) /\ Len(j.recs) \in Nat
    BY JournalType DEF Journal
  <1>2. ASSUME NEW k \in 1 .. j.counted PROVE k \in DOMAIN j.recs /\ j.recs[k] # Garbage
    <2>1. j.recs[k].pg \in 1 .. Size(img)
      BY DEF OldPage
    <2>2. Garbage.pg = 0
      BY DEF Garbage
    <2> QED
      BY <1>1, <2>1, <2>2, SizeType
  <1>3. Counted(j) = 1 .. j.counted
    BY <1>1, <1>2 DEF Counted
  <1> QED
    BY <1>1, <1>3, FS_Interval

\* A file that is the image has its size.
LEMMA WholeSize ==
  ASSUME NEW img, Whole(img)
  PROVE  /\ Size(img) \in 0 .. N
         /\ \A p \in Pages : img[p] # Absent <=> p <= Size(img)
         /\ \A p \in Pages : img[p] \in Data \cup {Absent}
         /\ \A p \in Pages : p <= Size(img) => img[p] \in Data
         /\ Size(img) # 0 => img[1] \in Data /\ Counter(img[1]) = img[1]
         /\ Size(img) = 0 => Counter(img[1]) = 0
         /\ img # None
         /\ Counter(img[1]) < nextTx
  <1>1. Size(img) \in 0 .. N /\ \A p \in Pages : img[p] \in Data \cup {Absent}
    BY SizeType DEF Whole
  <1>2. \A p \in Pages : img[p] # Absent <=> p <= Size(img)
    BY DEF Whole
  <1>3. img # None
    <2>1. DOMAIN img = Pages
      BY DEF Whole
    <2>2. DOMAIN None = {}
      BY DEF None
    <2> QED
      BY <2>1, <2>2, FirstPage
  <1>4. Size(img) # 0 => img[1] \in Data /\ Counter(img[1]) = img[1]
    BY <1>1, <1>2, FirstPage DEF Counter, Pages
  <1>5. Size(img) = 0 => Counter(img[1]) = 0
    BY <1>1, <1>2, FirstPage DEF Counter, Pages
  <1> QED
    BY <1>1, <1>2, <1>3, <1>4, <1>5 DEF Whole

\* An image that restores the same files is the same.
LEMMA RecoveredIs ==
  ASSUME NEW img, Files(img)
  PROVE  Recovered(jrnl, db) = img
  <1>1. db = [p \in Pages |-> db[p]] /\ img = [p \in Pages |-> img[p]]
    BY DEF Files, FilesTyped, Whole
  <1>2. jrnl \in jDisk /\ Recoverable(jrnl, img)
    BY DEF Files, FilesTyped
  <1>3. CASE ~Hot(jrnl)
    <2>1. \A p \in Pages : db[p] = img[p]
      BY <1>2, <1>3 DEF Recoverable, Clean, Settled
    <2> QED
      BY <1>1, <1>3, <2>1 DEF Recovered
  <1>4. CASE Hot(jrnl)
    <2>1. Restores(jrnl, img) /\ jrnl \in Journal
      BY <1>2, <1>4, NoFileFields DEF Files, FilesTyped, Recoverable
    <2>2. jrnl.orig = Size(img) /\ jrnl.orig \in 0 .. N
      BY <2>1, JournalType DEF Restores
    <2>3. \A p \in Pages : img[p] # Absent <=> p <= jrnl.orig
      BY <2>2 DEF Files, Whole
    <2>4. CASE Size(db) = 0
      <3>1. \A p \in Pages : db[p] = Absent
        BY <2>4, SizeType
      <3>2. \A p \in Pages : ~(p <= jrnl.orig)
        BY <2>1, <2>2, <3>1 DEF Restores, Pages
      <3> QED
        BY <1>1, <2>3, <2>4, <3>1, <3>2 DEF Recovered
    <2>5. CASE Size(db) # 0
      <3>1. Counted(jrnl) = 1 .. jrnl.counted
        BY <1>4, <2>1, AllCounted, HotJournal DEF Restores
      <3> DEFINE saved(p) == {i \in Counted(jrnl) : jrnl.recs[i].pg = p}
                 val(p) == IF p > jrnl.orig THEN Absent ELSE IF saved(p) = {} THEN db[p]
                           ELSE jrnl.recs[CHOOSE i \in saved(p) : TRUE].val
      <3>2. ASSUME NEW p \in Pages PROVE val(p) = img[p]
        <4>1. CASE p > jrnl.orig
          BY <2>2, <2>3, <4>1 DEF Pages
        <4>2. CASE ~(p > jrnl.orig) /\ saved(p) = {}
          <5>1. p \in 1 .. jrnl.orig /\ ~InJournal(jrnl, p)
            BY <2>2, <3>1, <4>2 DEF Pages, InJournal
          <5> QED
            BY <2>1, <4>2, <5>1 DEF Restores, Settled
        <4>3. CASE ~(p > jrnl.orig) /\ saved(p) # {}
          <5> DEFINE i == CHOOSE k \in saved(p) : TRUE
          <5>1. i \in saved(p)
            BY <4>3
          <5> HIDE DEF i
          <5>2. jrnl.recs[i].val = img[p]
            BY <2>1, <3>1, <5>1 DEF Restores, OldPage
          <5> QED
            BY <4>3, <5>2 DEF i
        <4> QED
          BY <4>1, <4>2, <4>3
      <3>3. Recovered(jrnl, db) = [p \in Pages |-> val(p)]
        BY <1>4, <2>5 DEF Recovered
      <3> HIDE DEF val
      <3> QED
        BY <1>1, <3>2, <3>3
    <2> QED
      BY <2>4, <2>5
  <1> QED
    BY <1>3, <1>4

-----------------------------------------------------------------------------
(* What a step of c leaves to the other connections                        *)

Untouched == UNCHANGED <<db, dbDisk, jrnl, jDisk, nextTx, previous>>

LEMMA UntouchedFiles ==
  ASSUME NEW img, Files(img), Untouched
  PROVE  Files(img)' /\ (Clean(img) <=> Clean(img)')
  <1> USE DEF Untouched
  <1>1. FilesTyped'
    BY DEF Files, FilesTyped, Journal
  <1>2. \A x : Whole(x) <=> Whole(x)'
    BY DEF Whole
  <1>3. \A x, j : Restores(j, x) <=> Restores(j, x)'
    BY DEF Restores, Settled
  <1>4. Clean(img) <=> Clean(img)'
    BY DEF Clean, Settled
  <1>5. \A j \in jDisk : Recoverable(j, img)'
    BY <1>3, <1>4 DEF Files, Recoverable
  <1> QED
    BY <1>1, <1>2, <1>4, <1>5 DEF Files

LEMMA UntouchedConnection ==
  ASSUME NEW img, NEW d \in Conn, Connection(d, img), pager'[d] = pager[d], Untouched
  PROVE  Connection(d, img)'
  <1> USE DEF Untouched
  <1>1. Typed(d)'
    BY DEF Connection, Typed
  <1>2. Clean(img) <=> Clean(img)'
    BY DEF Clean, Settled
  <1>3. \A p : Settled(p, img) <=> Settled(p, img)'
    BY DEF Settled
  <1>4. /\ Agrees(d, img) <=> Agrees(d, img)'
        /\ NothingCached(d) <=> NothingCached(d)'
        /\ Versed(d, img) <=> Versed(d, img)'
        /\ Agrees(d, db) <=> Agrees(d, db)'
    BY DEF Agrees, NothingCached, Versed
  <1>5. \A p : ToDo(d, p) <=> ToDo(d, p)'
    BY DEF ToDo
  <1>6. Opened(d, img) <=> Opened(d, img)'
    BY <1>2, <1>4, <1>5 DEF Opened
  <1>7. Reading(d, img) <=> Reading(d, img)'
    BY <1>2, <1>4 DEF Reading
  <1>8. Journalling(d, img) <=> Journalling(d, img)'
    BY <1>2 DEF Journalling
  <1>9. Protected(d, img) <=> Protected(d, img)'
    BY <1>3 DEF Protected
  <1>10. RollingBack(d, img) <=> RollingBack(d, img)'
    BY <1>4, <1>5 DEF RollingBack
  <1>11. RolledBack(d, img) <=> RolledBack(d, img)'
    BY <1>2, <1>4 DEF RolledBack
  <1>12. Live(d, img) <=> Live(d, img)'
    <2>1. Counting1(d, img) <=> Counting1(d, img)'
      BY <1>4 DEF Counting1
    <2> QED
      BY <2>1 DEF Live
  <1>13. Committing(d, img) <=> Committing(d, img)'
    <2>1. Whole(db) <=> Whole(db)'
      BY DEF Whole
    <2> QED
      BY <1>4, <2>1 DEF Committing
  <1>14. Writer(d, img) <=> Writer(d, img)'
    BY <1>8, <1>9, <1>10, <1>11, <1>12 DEF Writer
  <1> QED
    BY <1>1, <1>6, <1>7, <1>13, <1>14 DEF Connection

\* Beside a writer there are only readers, and connections that look for a
\* hot journal: they rely on the committed image and on nothing else.
LEMMA ReaderUndisturbed ==
  ASSUME ProtocolInv, NEW img, NEW d \in Conn, Connection(d, img), pager'[d] = pager[d],
         lock[d] < RESERVED_LOCK,
         nextTx' \in Nat, nextTx' >= nextTx, Clean(img) => Clean(img)'
  PROVE  Connection(d, img)'
  <1>1. Typed(d)'
    <2>1. pager[d].vers \in 0 .. nextTx - 1 => pager[d].vers \in 0 .. nextTx' - 1
      BY DEF ProtocolInv
    <2> QED
      BY <2>1 DEF Connection, Typed
  <1>2. /\ pager[d].eState \in {"OPEN", "READER"}
        /\ pager[d].pc \notin {"start", "play"}
    BY AtPlace DEF PlacedAt, Calling, Levels
  <1>3. /\ Agrees(d, img) <=> Agrees(d, img)'
        /\ NothingCached(d) <=> NothingCached(d)'
        /\ Versed(d, img) <=> Versed(d, img)'
    BY DEF Agrees, NothingCached, Versed
  <1>4. Opened(d, img) => Opened(d, img)'
    BY <1>2, <1>3 DEF Opened
  <1>5. Reading(d, img) => Reading(d, img)'
    BY <1>3 DEF Reading
  <1> QED
    BY <1>1, <1>2, <1>4, <1>5 DEF Connection

\* Beside a connection with the EXCLUSIVE lock there are only connections
\* outside of transactions: they may keep an image, or an older one.
LEMMA AbsentUndisturbed ==
  ASSUME ProtocolInv, NEW img, NEW img2, NEW d \in Conn, Connection(d, img), pager'[d] = pager[d],
         lock[d] = NO_LOCK,
         nextTx' \in Nat, nextTx' >= nextTx,
         Counter(img[1]) \in Int, Counter(img2[1]) \in Int,
         img2 = img \/ Counter(img2[1]) > Counter(img[1])
  PROVE  Connection(d, img2)'
  <1>1. Typed(d)'
    <2>1. pager[d].vers \in 0 .. nextTx - 1 => pager[d].vers \in 0 .. nextTx' - 1
      BY DEF ProtocolInv
    <2> QED
      BY <2>1 DEF Connection, Typed
  <1>2. pager[d].eState = "OPEN" /\ pager[d].pc = "none"
    BY AtPlace DEF PlacedAt, Calling, Levels
  <1>3. /\ Agrees(d, img2) <=> Agrees(d, img2)'
        /\ NothingCached(d) <=> NothingCached(d)'
    BY DEF Agrees, NothingCached
  <1>4. pager[d].vers \in Int
    BY DEF Connection, Typed, ProtocolInv
  <1>5. Opened(d, img2)'
    BY <1>2, <1>3, <1>4 DEF Opened, Connection
  <1> QED
    BY <1>1, <1>2, <1>5 DEF Connection

-----------------------------------------------------------------------------
(* What remains to be shown of a step of c                                 *)

LEMMA StepUntouched ==
  ASSUME NEW img, Inv(img), NEW c \in Conn, Untouched,
         \A d \in Conn \ {c} : pager'[d] = pager[d],
         Connection(c, img)'
  PROVE  Inv(img)'
  BY UntouchedFiles, UntouchedConnection DEF Inv

LEMMA StepOfWriter ==
  ASSUME ProtocolInv, NEW img, Inv(img), NEW c \in Conn, lock[c] >= RESERVED_LOCK,
         \A d \in Conn \ {c} : pager'[d] = pager[d],
         nextTx' \in Nat, nextTx' >= nextTx, Clean(img) => Clean(img)',
         Files(img)', Connection(c, img)'
  PROVE  Inv(img)'
  <1>1. \A d \in Conn \ {c} : lock[d] < RESERVED_LOCK
    BY DEF ProtocolInv, Promises, OneWriter, Others
  <1> QED
    BY <1>1, ReaderUndisturbed DEF Inv

LEMMA StepOfOwner ==
  ASSUME ProtocolInv, NEW img, NEW img2, Inv(img), NEW c \in Conn, lock[c] = EXCLUSIVE_LOCK,
         \A d \in Conn \ {c} : pager'[d] = pager[d],
         nextTx' = nextTx,
         img2 = img \/ Counter(img2[1]) > Counter(img[1]), Counter(img2[1]) \in Int,
         Files(img2)', Connection(c, img2)'
  PROVE  Inv(img2)'
  <1>1. \A d \in Conn \ {c} : lock[d] = NO_LOCK
    BY DEF ProtocolInv, Promises, ExclusiveIsAlone, Others
  <1>2. Counter(img[1]) \in Int
    <2>1. Whole(img)
      BY DEF Inv, Files
    <2> QED
      BY <2>1, FirstPage DEF Whole, Counter, Data, Absent
  <1>3. nextTx' \in Nat /\ nextTx' >= nextTx
    BY DEF ProtocolInv
  <1> QED
    BY <1>1, <1>2, <1>3, AbsentUndisturbed DEF Inv

-----------------------------------------------------------------------------
(* Steps that change no file                                               *)

\* The new fields of c, for its predicates after the step.
USE DEF Fields

LEMMA CleanFile ==
  ASSUME NEW img, Files(img), Clean(img)
  PROVE  db = img /\ Size(db) = Size(img)
  <1>1. db = [p \in Pages |-> db[p]] /\ img = [p \in Pages |-> img[p]]
    BY DEF Files, FilesTyped, Whole
  <1>2. \A p \in Pages : db[p] = img[p]
    BY DEF Clean, Settled
  <1> QED
    BY <1>1, <1>2

\* Without a hot journal the file is the image.
LEMMA ColdIsClean ==
  ASSUME NEW img, Files(img), ~Hot(jrnl)
  PROVE  Clean(img)
  BY DEF Files, FilesTyped, Recoverable

\* An empty file is the image.
LEMMA EmptyIsClean ==
  ASSUME NEW img, Files(img), Size(db) = 0
  PROVE  Clean(img) /\ Size(img) = 0
  <1>1. CASE ~Hot(jrnl)
    BY <1>1, ColdIsClean, CleanFile
  <1>2. CASE Hot(jrnl)
    <2>1. Restores(jrnl, img)
      BY <1>2 DEF Files, FilesTyped, Recoverable
    <2>2. \A p \in Pages : db[p] = Absent /\ dbDisk[p] = {Absent}
      BY SizeType DEF Files, FilesTyped
    <2>3. Whole(img) /\ Size(img) \in 0 .. N /\ \A p \in Pages : img[p] # Absent <=> p <= Size(img)
      BY WholeSize DEF Files
    <2>4. \A p \in 1 .. Size(img) : p \in Pages
      BY <2>3, BoundsAreNat DEF Pages
    <2>5. Size(img) = 0
      <3>1. ~(1 <= Size(img))
        BY <2>1, <2>2, <2>3, <2>4, FirstPage DEF Restores
      <3> QED BY <2>3, <3>1
    <2>6. \A p \in Pages : img[p] = Absent
      BY <2>3, <2>5 DEF Pages
    <2> QED
      BY <2>2, <2>5, <2>6 DEF Clean, Settled
  <1> QED
    BY <1>1, <1>2

\* The search for a hot journal only moves on; what it finds it knows.
LEMMA SearchStep ==
  ASSUME NEW img, Inv(img), NEW c \in Conn, NEW l, Moved(c, l), Untouched,
         pager[c].eState = "OPEN", pager[c].pc # "play",
         l \in {"none", "access", "reserved", "first", "exclusive", "open", "remove", "downgrade", "validate"},
         l = "remove" => Size(img) = 0,
         l \in {"remove", "downgrade", "validate"} => Clean(img)
  PROVE  Inv(img)'
  <1> USE DEF Moved, Turned
  <1>1. Typed(c)'
    BY DEF Inv, Connection, Typed, Untouched
  <1>2. Clean(img) => Clean(img)'
    BY DEF Clean, Settled, Untouched
  <1>3. /\ Agrees(c, img) <=> Agrees(c, img)'
        /\ NothingCached(c) <=> NothingCached(c)'
    BY DEF Agrees, NothingCached
  <1>4. Opened(c, img)'
    BY <1>2, <1>3 DEF Opened, Inv, Connection
  <1>5. Connection(c, img)'
    BY <1>1, <1>4 DEF Connection
  <1> QED
    BY <1>5, StepUntouched

LEMMA SharedLockInv ==
  ASSUME ProtocolInv, NEW img, Inv(img), NEW c \in Conn, SharedLock(c)
  PROVE  Inv(img)'
  <1>1. Moved(c, "access") /\ Untouched /\ pager[c].eState = "OPEN" /\ pager[c].pc = "none"
    BY AtPlace, Moves DEF SharedLock, Untouched, files, Idle, At
  <1> QED
    BY <1>1, SearchStep

LEMMA AccessJournalInv ==
  ASSUME ProtocolInv, NEW img, Inv(img), NEW c \in Conn, AccessJournal(c)
  PROVE  Inv(img)'
  <1>1. /\ Moved(c, IF jrnl = NoFile THEN "validate" ELSE "reserved") /\ Untouched
        /\ pager[c].pc = "access"
    BY AtPlace, Moves DEF AccessJournal, Untouched, files, At
  <1>2. pager[c].eState = "OPEN"
    BY <1>1, AtPlace DEF PlacedAt, Calling
  <1>3. jrnl = NoFile => Clean(img)
    BY ColdIsClean, NoFileFields DEF Inv
  <1> QED
    BY <1>1, <1>2, <1>3, SearchStep

\* A writer that has not taken EXCLUSIVE has not touched the file.
LEMMA ReservedIsClean ==
  ASSUME ProtocolInv, NEW img, Inv(img), NEW d \in Conn, lock[d] >= RESERVED_LOCK, lock[d] # EXCLUSIVE_LOCK
  PROVE  Clean(img)
  <1>1. \/ pager[d].eState = "OPEN" /\ pager[d].pc \in {"remove", "downgrade"}
        \/ pager[d].eState = "LOCKED"
        \/ pager[d].eState = "CACHEMOD" /\ pager[d].pc \in {"none", "lock", "play", "finalize", "downgrade"}
    BY AtPlace DEF PlacedAt, Levels
  <1>2. Connection(d, img)
    BY DEF Inv
  <1> QED
    BY <1>1, <1>2 DEF Connection, Opened, Reading, Writer, Journalling, RolledBack

LEMMA CheckReservedInv ==
  ASSUME ProtocolInv, NEW img, Inv(img), NEW c \in Conn, CheckReserved(c)
  PROVE  Inv(img)'
  <1>1. /\ Untouched /\ pager[c].pc = "reserved"
        /\ \/ Moved(c, "first")
           \/ Moved(c, "validate") /\ \E d \in Others(c) : lock[d] >= RESERVED_LOCK
    <2>1. Untouched /\ pager[c].pc = "reserved"
      BY DEF CheckReserved, Untouched, files, At
    <2>2. CASE \E d \in Others(c) : lock[d] >= RESERVED_LOCK
      BY <2>1, <2>2, AtPlace, Moves
    <2>3. CASE ~\E d \in Others(c) : lock[d] >= RESERVED_LOCK
      <3>1. pager' = [pager EXCEPT ![c].pc = "first"]
        BY <2>3 DEF CheckReserved
      <3> QED
        BY <2>1, <3>1, AfterPc, AtPlace DEF Moved
    <2> QED
      BY <2>2, <2>3
  <1>2. pager[c].eState = "OPEN" /\ lock[c] = SHARED_LOCK
    BY <1>1, AtPlace DEF PlacedAt, Calling
  <1>3. ASSUME NEW d \in Others(c), lock[d] >= RESERVED_LOCK PROVE Clean(img)
    <2>1. lock[d] # EXCLUSIVE_LOCK /\ d \in Conn
      BY <1>2 DEF ProtocolInv, Promises, ExclusiveIsAlone, Others
    <2> QED
      BY <1>3, <2>1, ReservedIsClean
  <1> QED
    BY <1>1, <1>2, <1>3, SearchStep

LEMMA FirstByteInv ==
  ASSUME ProtocolInv, NEW img, Inv(img), NEW c \in Conn, FirstByte(c)
  PROVE  Inv(img)'
  <1>1. Untouched /\ pager[c].pc = "first"
    BY DEF FirstByte, Untouched, files, At
  <1>2. pager[c].eState = "OPEN"
    BY <1>1, AtPlace DEF PlacedAt, Calling
  <1>3. CASE Size(db) = 0
    <2>1. Clean(img) /\ Size(img) = 0
      BY <1>3, EmptyIsClean DEF Inv
    <2>2. Moved(c, "remove") \/ Moved(c, "validate")
      BY <1>3, AtPlace, Moves
    <2> QED
      BY <1>1, <1>2, <2>1, <2>2, SearchStep
  <1>4. CASE Size(db) # 0
    <2>1. Moved(c, IF jrnl = NoFile \/ Hot(jrnl) THEN "exclusive" ELSE "validate")
      BY <1>4, AtPlace, Moves
    <2>2. ~Hot(jrnl) => Clean(img)
      BY ColdIsClean DEF Inv
    <2> QED
      BY <1>1, <1>2, <2>1, <2>2, SearchStep
  <1> QED
    BY <1>3, <1>4

LEMMA HotExclusiveInv ==
  ASSUME ProtocolInv, NEW img, Inv(img), NEW c \in Conn, HotExclusive(c)
  PROVE  Inv(img)'
  <1>1. Untouched /\ pager[c].pc = "exclusive"
    BY DEF HotExclusive, Untouched, files, At
  <1>2. pager[c].eState = "OPEN"
    BY <1>1, AtPlace DEF PlacedAt, Calling
  <1>3. Moved(c, "open") \/ Moved(c, "none")
    BY AtPlace, Moves
  <1> QED
    BY <1>1, <1>2, <1>3, SearchStep

\* Reading between the calls, and at the end of a transaction that changed nothing.
LEMMA ReadingAfter ==
  ASSUME NEW img, Inv(img), NEW c \in Conn, NEW s, NEW l, NEW ca, NEW sz, NEW v, NEW di, NEW ns, NEW jb,
         Turned(c, s, l, ca, di, ns, sz, v, jb, <<>>), Untouched,
         s \in {"READER", "LOCKED"}, s = "LOCKED" => nextTx <= MaxTx,
         Clean(img), ca \in [Pages -> Data \cup {NotCached}],
         \A p \in Pages : ca[p] \in {NotCached, img[p]},
         di = {}, ns \subseteq Pages, jb \in 0 .. N,
         v \in 0 .. nextTx - 1, Size(img) = 0 \/ v = img[1], sz = Size(img)
  PROVE  Inv(img)'
  <1> USE DEF Turned
  <1>1. Typed(c)'
    <2>1. <<>> \in Seq([pg : Pages, val : Data])
      OBVIOUS
    <2>2. Size(img) \in 0 .. N
      BY SizeType
    <2> QED
      BY <2>1, <2>2 DEF Typed, Untouched
  <1>2. Clean(img)'
    BY DEF Clean, Settled, Untouched
  <1>3. Agrees(c, img)' /\ Versed(c, img)'
    BY DEF Agrees, Versed
  <1>4. Reading(c, img)'
    BY <1>2, <1>3 DEF Reading
  <1>5. Connection(c, img)'
    BY <1>1, <1>4 DEF Connection, Untouched
  <1> QED
    BY <1>5, StepUntouched

LEMMA ValidateInv ==
  ASSUME ProtocolInv, NEW img, Inv(img), NEW c \in Conn, Validate(c)
  PROVE  Inv(img)'
  <1> DEFINE me == pager[c]
             counter == Counter(db[1])
             kept == IF counter = me.vers THEN me.cache ELSE Fresh.cache
             ca == [kept EXCEPT ![1] = IF Size(db) = 0 THEN NotCached ELSE counter]
  <1>1. Untouched /\ me.pc = "validate"
    BY DEF Validate, Untouched, files, At
  <1>2. me.eState = "OPEN"
    BY <1>1, AtPlace DEF PlacedAt, Calling
  <1>3. Typed(c) /\ Opened(c, img) /\ Clean(img) /\ Files(img) /\ me.todo = <<>>
    BY <1>1, <1>2 DEF Inv, Connection, Opened, Typed
  <1>4. db = img /\ Whole(img)
    BY <1>3, CleanFile DEF Files
  <1>5. Turned(c, "READER", "none", ca, me.dirty, me.needSync, Size(db), counter, me.job, <<>>)
    BY <1>3, AtPlace, AfterValidate
  <1>6. /\ kept \in [Pages -> Data \cup {NotCached}]
        /\ \A p \in Pages : kept[p] \in {NotCached, img[p]}
    <2>1. Fresh.cache = [p \in Pages |-> NotCached]
      BY FreshShaped
    <2>2. CASE counter # me.vers
      BY <2>1, <2>2
    <2>3. CASE counter = me.vers
      <3>1. me.vers \in Int
        BY <1>3 DEF Typed, ProtocolInv
      <3>2. NothingCached(c) \/ Agrees(c, img)
        BY <1>3, <1>4, <2>3, <3>1 DEF Opened
      <3> QED
        BY <1>3, <2>3, <3>2 DEF Typed, NothingCached, Agrees
    <2> QED
      BY <2>2, <2>3
  <1>7. counter \in 0 .. nextTx - 1 /\ counter \in Data /\ (Size(img) = 0 \/ counter = img[1])
    <2>1. counter \in Data
      BY <1>4, WholeSize, FirstPage, BoundsAreNat DEF Counter, Data, Absent
    <2> QED
      BY <1>4, <2>1, WholeSize DEF Data, ProtocolInv
  <1> HIDE DEF kept, counter
  <1>8. /\ ca \in [Pages -> Data \cup {NotCached}]
        /\ \A p \in Pages : ca[p] \in {NotCached, img[p]}
    BY <1>4, <1>6, <1>7, FirstPage
  <1> HIDE DEF ca
  <1>9. Size(db) = Size(img)
    BY <1>4
  <1> QED
    BY <1>1, <1>2, <1>3, <1>5, <1>7, <1>8, <1>9, ReadingAfter DEF Typed

LEMMA BeginWriteInv ==
  ASSUME ProtocolInv, NEW img, Inv(img), NEW c \in Conn, BeginWrite(c)
  PROVE  Inv(img)'
  <1> DEFINE me == pager[c]
  <1>1. Untouched /\ me.pc = "none" /\ me.eState = "READER" /\ nextTx <= MaxTx
    BY DEF BeginWrite, Untouched, files, Idle, At
  <1>2. Reading(c, img) /\ Typed(c)
    BY <1>1 DEF Inv, Connection
  <1>3. Turned(c, "LOCKED", "none", me.cache, me.dirty, me.needSync, me.size, me.vers, me.job, <<>>)
    BY <1>1, <1>2, AtPlace, AfterBeginWrite DEF Typed
  <1> QED
    BY <1>1, <1>2, <1>3, ReadingAfter DEF Typed, Reading, Agrees, Versed

LEMMA CommitNothingInv ==
  ASSUME ProtocolInv, NEW img, Inv(img), NEW c \in Conn, CommitNothing(c)
  PROVE  Inv(img)'
  <1> DEFINE me == pager[c]
  <1>1. Untouched /\ me.pc = "none" /\ me.eState = "LOCKED" /\ Moved(c, "downgrade")
    BY AtPlace, Moves DEF CommitNothing, Untouched, files, Idle, At
  <1>2. Reading(c, img) /\ Typed(c) /\ nextTx <= MaxTx
    BY <1>1 DEF Inv, Connection
  <1>3. Turned(c, "LOCKED", "downgrade", me.cache, me.dirty, me.needSync, me.size, me.vers,
            me.job, <<>>)
    BY <1>1, <1>2 DEF Typed, Moved
  <1> QED
    BY <1>1, <1>2, <1>3, ReadingAfter DEF Typed, Reading, Agrees, Versed

LEMMA EndReadInv ==
  ASSUME ProtocolInv, NEW img, Inv(img), NEW c \in Conn, EndRead(c)
  PROVE  Inv(img)'
  <1> DEFINE me == pager[c]
  <1>1. Untouched /\ me.pc = "none" /\ me.eState = "READER"
    BY DEF EndRead, Untouched, files, Idle, At
  <1>2. Reading(c, img) /\ Typed(c) /\ Whole(img)
    BY <1>1 DEF Inv, Connection, Files
  <1>3. Turned(c, "OPEN", me.pc, me.cache, me.dirty, me.needSync, 0, me.vers, me.job, me.todo)
    BY AtPlace, AfterEndRead
  <1>4. Typed(c)'
    BY <1>1, <1>2, <1>3, BoundsAreNat DEF Turned, Typed, Untouched
  <1>5. NothingCached(c)' \/ (me.vers = Counter(img[1]) /\ Agrees(c, img)')
    <2>1. CASE Size(img) = 0
      <3>1. \A p \in Pages : img[p] = Absent
        BY <2>1, SizeType
      <3>2. \A p \in Pages : me.cache[p] \in Data \cup {NotCached}
        BY <1>2 DEF Typed
      <3>3. \A p \in Pages : me.cache[p] = NotCached
        BY <1>2, <3>1, <3>2 DEF Reading, Agrees, Data, Absent, NotCached
      <3> QED
        BY <1>3, <3>3 DEF NothingCached, Turned
    <2>2. CASE Size(img) # 0
      BY <1>2, <1>3, <2>2, WholeSize DEF Reading, Versed, Agrees, Turned
    <2> QED
      BY <2>1, <2>2
  <1>6. Opened(c, img)'
    BY <1>1, <1>3, <1>5 DEF Opened, Turned
  <1>7. Connection(c, img)'
    BY <1>3, <1>4, <1>6 DEF Connection, Turned
  <1> QED
    BY <1>1, <1>3, <1>7, StepUntouched DEF Turned

LEMMA DowngradeInv ==
  ASSUME ProtocolInv, NEW img, Inv(img), NEW c \in Conn, Downgrade(c)
  PROVE  Inv(img)'
  <1> DEFINE me == pager[c]
             size == IF me.eState \in {"LOCKED", "FINISHED"} THEN me.size ELSE Size(db)
             ca == [p \in Pages |-> IF p > size THEN NotCached ELSE me.cache[p]]
  <1>1. Untouched /\ me.pc = "downgrade"
    BY DEF Downgrade, Untouched, files, At
  <1>2. Typed(c) /\ Files(img) /\ Connection(c, img) /\ Whole(img) /\ me.todo = <<>>
    BY <1>1 DEF Inv, Connection, Files, Typed
  <1>3. CASE me.eState = "OPEN"
    <2>1. Moved(c, "validate")
      BY <1>3, AtPlace, Moves
    <2>2. Clean(img)
      BY <1>1, <1>2, <1>3 DEF Connection, Opened
    <2> QED
      BY <1>1, <1>3, <2>1, <2>2, SearchStep
  <1>4. CASE me.eState # "OPEN"
    <2>1. Turned(c, "READER", "none", ca, {}, {}, size, me.vers, 0, <<>>)
      BY <1>2, <1>4, AtPlace, AfterDowngrade
    <2>2. me.eState \in {"LOCKED", "CACHEMOD", "DBMOD", "FINISHED"}
      BY <1>1, <1>4, AtPlace DEF PlacedAt
    <2>3. /\ Clean(img) /\ Versed(c, img) /\ size = Size(img)
          /\ \A p \in 1 .. Size(img) : me.cache[p] \in {NotCached, img[p]}
      <3>1. CASE me.eState \in {"LOCKED", "FINISHED"}
        <4>1. Reading(c, img)
          BY <1>1, <1>2, <3>1 DEF Connection
        <4>2. \A p \in 1 .. Size(img) : p \in Pages
          BY SizeType, BoundsAreNat DEF Pages
        <4> QED
          BY <3>1, <4>1, <4>2 DEF Reading, Agrees
      <3>2. CASE me.eState \in {"CACHEMOD", "DBMOD"}
        <4>1. RolledBack(c, img)
          BY <1>1, <1>2, <3>2 DEF Connection, Writer
        <4>2. Size(db) = Size(img)
          BY <1>2, <4>1, CleanFile DEF RolledBack
        <4> QED
          BY <3>2, <4>1, <4>2 DEF RolledBack
      <3> QED
        BY <2>2, <3>1, <3>2
    <2>4. /\ ca \in [Pages -> Data \cup {NotCached}]
          /\ \A p \in Pages : ca[p] \in {NotCached, img[p]}
      <3> HIDE DEF size
      <3>1. ca \in [Pages -> Data \cup {NotCached}]
        BY <1>2 DEF Typed
      <3>2. \A p \in Pages : p > size \/ p \in 1 .. Size(img)
        BY <2>3, SizeType, BoundsAreNat DEF Pages
      <3> QED
        BY <2>3, <3>1, <3>2
    <2> HIDE DEF ca, size
    <2>5. 0 \in 0 .. N
      BY BoundsAreNat
    <2> QED
      BY <1>1, <1>2, <2>1, <2>3, <2>4, <2>5, ReadingAfter DEF Typed, Versed
  <1> QED
    BY <1>3, <1>4

\* A connection that has dropped its cache, or whose process ended.
LEMMA FreshConnection ==
  ASSUME NEW img, NEW d \in Conn, NEW v,
         pager'[d].eState = "OPEN" /\ pager'[d].pc = "none" /\ pager'[d].cache = [p \in Pages |-> NotCached],
         pager'[d].dirty = {} /\ pager'[d].needSync = {} /\ pager'[d].size = 0,
         pager'[d].vers \in 0 .. nextTx' - 1 /\ pager'[d].job = 0 /\ pager'[d].todo = <<>>
  PROVE  Connection(d, img)'
  <1>1. Typed(d)'
    BY BoundsAreNat DEF Typed
  <1>2. Opened(d, img)'
    BY DEF Opened, NothingCached
  <1> QED
    BY <1>1, <1>2 DEF Connection

LEMMA GiveUpInv ==
  ASSUME ProtocolInv, NEW img, Inv(img), NEW c \in Conn, GiveUp(c) \/ Crash(c)
  PROVE  Inv(img)'
  <1>1. Untouched
    BY DEF GiveUp, Crash, Untouched, files
  <1>2. PICK v \in 0 .. nextTx - 1 :
          Turned(c, "OPEN", "none", [p \in Pages |-> NotCached], {}, {}, 0, v, 0, <<>>)
    <2>1. 0 \in 0 .. nextTx - 1 /\ pager[c].vers \in 0 .. nextTx - 1
      BY DEF ProtocolInv, Inv, Connection, Typed
    <2> QED
      BY <2>1, AtPlace, AfterGiveUp, AfterCrash
  <1>3. Connection(c, img)'
    BY <1>1, <1>2, FreshConnection DEF Turned, Untouched
  <1> QED
    BY <1>1, <1>2, <1>3, StepUntouched DEF Turned

-----------------------------------------------------------------------------
(* Steps that change files                                                 *)

\* With a hot journal the disk has only journals that restore the image.
LEMMA HotRestores ==
  ASSUME NEW img, Files(img), Hot(jrnl), NEW j \in jDisk, Hot(j)
  PROVE  Restores(j, img) /\ j \in Journal
  BY NoFileFields DEF Files, FilesTyped, Recoverable

\* Journals disappear from the disk.
LEMMA FewerJournals ==
  ASSUME NEW img, Files(img), jDisk' \subseteq jDisk, jrnl' \in jDisk',
         UNCHANGED <<db, dbDisk, nextTx, previous>>,
         jrnl' = jrnl \/ ~Hot(jrnl')
  PROVE  Files(img)' /\ (Clean(img) <=> Clean(img)')
  <1>1. FilesTyped'
    BY DEF Files, FilesTyped, Journal
  <1>2. \A x : Whole(x) <=> Whole(x)'
    BY DEF Whole
  <1>3. \A x, j : Restores(j, x) <=> Restores(j, x)'
    BY DEF Restores, Settled
  <1>4. Clean(img) <=> Clean(img)'
    BY DEF Clean, Settled
  <1>5. \A j \in jDisk' : Recoverable(j, img)'
    BY <1>3, <1>4 DEF Files, Recoverable
  <1> QED
    BY <1>1, <1>2, <1>4, <1>5 DEF Files

\* The journal is synced.
LEMMA JournalSynced ==
  ASSUME NEW img, Files(img), jDisk' = {jrnl}, jrnl' = jrnl,
         UNCHANGED <<db, dbDisk, nextTx>>, previous' = previous \/ previous' = None
  PROVE  Files(img)' /\ (Clean(img) <=> Clean(img)')
  <1>1. FilesTyped'
    BY DEF Files, FilesTyped, Journal
  <1>2. \A x : Whole(x) <=> Whole(x)'
    BY DEF Whole
  <1>3. \A x, j : Restores(j, x) <=> Restores(j, x)'
    BY DEF Restores, Settled
  <1>4. Clean(img) <=> Clean(img)'
    BY DEF Clean, Settled
  <1>5. Recoverable(jrnl, img)'
    BY <1>3, <1>4 DEF Files, FilesTyped, Recoverable
  <1> QED
    BY <1>1, <1>2, <1>4, <1>5 DEF Files

\* The journal is deleted, and the deletion perhaps not on the disk yet.
LEMMA JournalDeleted ==
  ASSUME NEW img, Files(img), Clean(img), jrnl' = NoFile,
         jDisk' \subseteq jDisk \cup {NoFile}, NoFile \in jDisk',
         UNCHANGED <<db, dbDisk, nextTx, previous>>
  PROVE  Files(img)' /\ Clean(img)'
  <1>1. FilesTyped'
    BY DEF Files, FilesTyped, Journal
  <1>2. \A x : Whole(x) <=> Whole(x)'
    BY DEF Whole
  <1>3. \A x, j : Restores(j, x) <=> Restores(j, x)'
    BY DEF Restores, Settled
  <1>4. Clean(img)'
    BY DEF Clean, Settled
  <1>5. \A j \in jDisk' : Recoverable(j, img)'
    BY <1>3, <1>4, NoFileFields DEF Files, Recoverable
  <1> QED
    BY <1>1, <1>2, <1>4, <1>5, NoFileFields DEF Files

\* The database file is synced.
LEMMA FileSynced ==
  ASSUME NEW img, Files(img), SyncDatabase, UNCHANGED <<db, jrnl, jDisk, nextTx, previous>>
  PROVE  Files(img)' /\ ((\A p \in Pages : db[p] = img[p]) => Clean(img)')
  <1> USE DEF SyncDatabase
  <1>1. FilesTyped'
    BY DEF Files, FilesTyped, Journal
  <1>2. \A x : Whole(x) <=> Whole(x)'
    BY DEF Whole
  <1>3. \A x : \A p \in Pages : Settled(p, x) => Settled(p, x)'
    BY DEF Settled
  <1>4. ASSUME NEW x, NEW j \in Journal, Restores(j, x) PROVE Restores(j, x)'
    <2>1. \A p \in 1 .. j.orig : p \in Pages
      BY JournalType, BoundsAreNat DEF Pages
    <2>2. \A i \in 1 .. j.counted : OldPage(j.recs[i], x)
      BY <1>4 DEF Restores
    <2>3. \A p \in 1 .. j.orig : /\ db[p] # Absent /\ Absent \notin dbDisk'[p]
                                 /\ InJournal(j, p) \/ Settled(p, x)'
      BY <1>3, <1>4, <2>1 DEF Restores
    <2> QED
      BY <1>4, <2>2, <2>3 DEF Restores
  <1>5. Clean(img) => Clean(img)'
    BY <1>3 DEF Clean
  <1>6. \A j \in jDisk : Recoverable(j, img)'
    BY <1>4, <1>5, NoFileFields DEF Files, FilesTyped, Recoverable
  <1>7. (\A p \in Pages : db[p] = img[p]) => Clean(img)'
    BY DEF Clean, Settled
  <1> QED
    BY <1>1, <1>2, <1>6, <1>7 DEF Files

\* A page is written that every journal can restore, or that is not of the image.
LEMMA PageWritten ==
  ASSUME NEW img, Files(img), Hot(jrnl), NEW p \in Pages, NEW v \in Data, Put(p, v),
         UNCHANGED <<jrnl, jDisk, nextTx, previous>>,
         \A j \in jDisk : Hot(j) /\ (p <= Size(img) => InJournal(j, p))
  PROVE  /\ Files(img)'
         /\ db'[p] = v /\ \A q \in Pages \ {p} : db'[q] = db[q] /\ dbDisk'[q] = dbDisk[q]
  <1>1. /\ db' \in [Pages -> Data \cup {Absent, Torn}]
        /\ dbDisk' \in [Pages -> SUBSET (Data \cup {Absent, Torn})]
        /\ db'[p] = v /\ dbDisk'[p] = dbDisk[p] \cup {v, Torn}
        /\ \A q \in Pages \ {p} : db'[q] = db[q] /\ dbDisk'[q] = dbDisk[q]
    BY DEF Put, Files, FilesTyped
  <1>2. v # Absent /\ Torn # Absent
    BY DEF Data, Absent, Torn
  <1>3. FilesTyped'
    BY <1>1, <1>2 DEF Files, FilesTyped, Journal
  <1>4. \A x : Whole(x) <=> Whole(x)'
    BY DEF Whole
  <1>5. previous = None
    BY DEF Files
  <1>6. ASSUME NEW j \in jDisk PROVE Recoverable(j, img)'
    <2>1. Restores(j, img) /\ j \in Journal /\ Hot(j)
      BY HotRestores
    <2>2. j.orig = Size(img) /\ \A q \in 1 .. j.orig : q \in Pages
      BY <2>1, JournalType, BoundsAreNat DEF Restores, Pages
    <2>3. ASSUME NEW q \in 1 .. j.orig
          PROVE  /\ db'[q] # Absent /\ Absent \notin dbDisk'[q]
                 /\ InJournal(j, q) \/ Settled(q, img)'
      <3>1. CASE q = p
        <4>1. p <= Size(img)
          BY <2>2, <3>1
        <4>2. Absent \notin dbDisk[p] /\ InJournal(j, p)
          BY <2>1, <3>1, <4>1 DEF Restores
        <4> QED
          BY <1>1, <1>2, <3>1, <4>2
      <3>2. CASE q # p
        BY <1>1, <2>1, <2>2, <3>2 DEF Restores, Settled
      <3> QED
        BY <3>1, <3>2
    <2>4. Restores(j, img)'
      BY <2>1, <2>3 DEF Restores
    <2> QED
      BY <2>1, <2>4 DEF Recoverable
  <1> QED
    BY <1>1, <1>3, <1>4, <1>5, <1>6 DEF Files

\* The file is cut to the size of the image.
LEMMA FileTruncated ==
  ASSUME NEW img, Files(img), Hot(jrnl), TruncateFile, DurableTruncate,
         jrnl.orig = Size(img), UNCHANGED <<jrnl, jDisk, nextTx, previous>>
  PROVE  /\ Files(img)' /\ (Clean(img) => Clean(img)')
         /\ \A p \in Pages : IF p <= Size(img) THEN db'[p] = db[p] /\ dbDisk'[p] = dbDisk[p]
                             ELSE db'[p] = Absent /\ db'[p] = img[p]
  <1> DEFINE k == Size(img)
  <1>0. k \in 0 .. N /\ Whole(img) /\ \A p \in Pages : p \in Int
    BY SizeType, BoundsAreNat DEF Files, Pages
  <1>1. /\ db' \in [Pages -> Data \cup {Absent, Torn}]
        /\ dbDisk' \in [Pages -> SUBSET (Data \cup {Absent, Torn})]
        /\ \A p \in Pages : IF p <= k THEN db'[p] = db[p] /\ dbDisk'[p] = dbDisk[p]
                            ELSE db'[p] = Absent /\ dbDisk'[p] = {Absent}
    BY <1>0 DEF TruncateFile, Files, FilesTyped
  <1>2. FilesTyped'
    BY <1>1 DEF Files, FilesTyped, Journal
  <1>3. \A x : Whole(x) <=> Whole(x)'
    BY DEF Whole
  <1>4. previous = None
    BY DEF Files
  <1>5. \A p \in Pages : p <= k \/ img[p] = Absent
    BY <1>0, WholeSize
  <1>6. \A p \in Pages : Settled(p, img) => Settled(p, img)'
    BY <1>1, <1>5 DEF Settled
  <1>7. Clean(img) => Clean(img)'
    BY <1>6 DEF Clean
  <1>8. ASSUME NEW j \in jDisk PROVE Recoverable(j, img)'
    <2>1. CASE ~Hot(j)
      BY <1>7, <2>1 DEF Files, Recoverable
    <2>2. CASE Hot(j)
      <3>1. Restores(j, img) /\ j \in Journal
        BY <2>2, HotRestores
      <3>2. j.orig = k /\ \A q \in 1 .. j.orig : q \in Pages /\ q <= k
        BY <3>1, JournalType, BoundsAreNat DEF Restores, Pages
      <3>3. Restores(j, img)'
        BY <1>1, <1>6, <3>1, <3>2 DEF Restores
      <3> QED
        BY <2>2, <3>3 DEF Recoverable
    <2> QED
      BY <2>1, <2>2
  <1> QED
    BY <1>1, <1>2, <1>3, <1>4, <1>5, <1>7, <1>8 DEF Files

\* A sequence of elements of T.
LEMMA Members ==
  ASSUME NEW S, NEW T, NEW s \in Seq(S), \A i \in 1 .. Len(s) : s[i] \in T
  PROVE  s \in Seq(T)
  <1>1. Len(s) \in Nat /\ s \in [1 .. Len(s) -> S]
    BY LenProperties
  <1>2. s \in [1 .. Len(s) -> T]
    BY <1>1
  <1> QED
    BY <1>1, <1>2, SeqDef

-----------------------------------------------------------------------------
(* Recovery                                                                *)

LEMMA RemoveJournalInv ==
  ASSUME ProtocolInv, NEW img, Inv(img), NEW c \in Conn, RemoveJournal(c)
  PROVE  Inv(img)'
  <1> DEFINE me == pager[c]
  <1>1. /\ Moved(c,
               "downgrade") /\ me.pc = "remove" /\ jrnl' = NoFile /\ jDisk' = jDisk \cup {NoFile}
        /\ UNCHANGED <<db, dbDisk, nextTx, previous>>
    BY AtPlace, Moves DEF RemoveJournal, DeleteJournal, At
  <1>2. me.eState = "OPEN" /\ lock[c] >= RESERVED_LOCK
    BY <1>1, AtPlace DEF PlacedAt, Calling
  <1>3. Typed(c) /\ Opened(c, img) /\ Clean(img) /\ me.todo = <<>>
    BY <1>1, <1>2 DEF Inv, Connection, Opened, Typed
  <1>4. Files(img)' /\ Clean(img)'
    BY <1>1, <1>3, JournalDeleted DEF Inv
  <1>5. Typed(c)'
    BY <1>1, <1>3 DEF Typed, Moved, Turned
  <1>6. Opened(c, img)'
    BY <1>1, <1>2, <1>3, <1>4 DEF Opened, NothingCached, Agrees, Moved, Turned
  <1>7. Connection(c, img)'
    BY <1>1, <1>2, <1>5, <1>6 DEF Connection, Moved, Turned
  <1>8. nextTx' \in Nat /\ nextTx' >= nextTx
    BY <1>1 DEF ProtocolInv
  <1> QED
    BY <1>1, <1>2, <1>4, <1>7, <1>8, StepOfWriter DEF Moved, Turned

LEMMA OpenHotInv ==
  ASSUME ProtocolInv, NEW img, Inv(img), NEW c \in Conn, OpenHot(c)
  PROVE  Inv(img)'
  <1> DEFINE me == pager[c]
  <1>1. /\ Moved(c, IF jrnl = NoFile THEN "downgrade" ELSE "start") /\ me.pc = "open"
        /\ jrnl' = jrnl
        /\ jDisk' = IF jrnl = NoFile THEN jDisk ELSE {jrnl} \cup (jDisk \ SameFile(jDisk, jrnl))
        /\ UNCHANGED <<db, dbDisk, nextTx, previous>>
    BY AtPlace, Moves DEF OpenHot, At
  <1>2. me.eState = "OPEN" /\ lock[c] = EXCLUSIVE_LOCK
    BY <1>1, AtPlace DEF PlacedAt, Calling
  <1>3. Typed(c) /\ Opened(c, img) /\ me.todo = <<>> /\ Files(img) /\ jrnl \in jDisk
    BY <1>1, <1>2 DEF Inv, Connection, Opened, Typed, Files, FilesTyped
  <1>4. jDisk' \subseteq jDisk /\ jrnl' \in jDisk'
    BY <1>1, <1>3
  <1>5. Files(img)' /\ (Clean(img) <=> Clean(img)')
    BY <1>1, <1>3, <1>4, FewerJournals
  <1>6. Hot(jrnl) => jDisk' = {jrnl}
    <2>1. Hot(jrnl) => jrnl # NoFile /\ SameFile(jDisk, jrnl) = jDisk
      BY <1>3 DEF Files, SameFile, Hot
    <2> QED
      BY <1>1, <2>1
  <1>7. jrnl = NoFile => Clean(img)
    BY <1>3, ColdIsClean, NoFileFields
  <1>8. Typed(c)'
    BY <1>1, <1>3 DEF Typed, Moved, Turned
  <1>9. Opened(c, img)'
    BY <1>1, <1>2, <1>3, <1>5, <1>6, <1>7 DEF Opened, NothingCached, Agrees, Moved, Turned
  <1>10. Connection(c, img)'
    BY <1>1, <1>2, <1>8, <1>9 DEF Connection, Moved, Turned
  <1>11. nextTx' \in Nat /\ nextTx' >= nextTx /\ lock[c] >= RESERVED_LOCK
    BY <1>1, <1>2 DEF ProtocolInv
  <1> QED
    BY <1>1, <1>5, <1>10, <1>11, StepOfWriter DEF Moved, Turned

LEMMA StartPlaybackInv ==
  ASSUME ProtocolInv, DurableTruncate, NEW img, Inv(img), NEW c \in Conn, StartPlayback(c)
  PROVE  Inv(img)'
  <1> DEFINE me == pager[c]
  <1>1. me.pc = "start" /\ UNCHANGED <<jrnl, jDisk, nextTx, previous>>
    BY DEF StartPlayback, At
  <1>2. me.eState = "OPEN" /\ lock[c] = EXCLUSIVE_LOCK /\ lock[c] >= RESERVED_LOCK
    BY <1>1, AtPlace DEF PlacedAt, Calling
  <1>3. Typed(c) /\ Opened(c, img) /\ me.todo = <<>> /\ Files(img)
    BY <1>1, <1>2 DEF Inv, Connection, Opened, Typed
  <1>4. nextTx' \in Nat /\ nextTx' >= nextTx
    BY <1>1 DEF ProtocolInv
  <1>5. CASE ~Hot(jrnl)
    <2>1. Moved(c, "play") /\ UNCHANGED <<db, dbDisk>>
      BY <1>5, AtPlace, Moves DEF StartPlayback
    <2>2. Untouched
      BY <1>1, <2>1 DEF Untouched
    <2>3. Clean(img)
      BY <1>3, <1>5, ColdIsClean
    <2>4. Typed(c)'
      BY <1>1, <1>3, <2>1 DEF Typed, Moved, Turned
    <2>5. \A p \in Pages : db'[p] = img[p]
      BY <2>1, <2>3 DEF Clean, Settled
    <2>6. me.todo = <<>> /\ DOMAIN me.todo = {}
      BY <1>3
    <2>7. Opened(c, img)'
      BY <1>1, <1>2, <1>3, <1>5, <2>1, <2>5, <2>6 DEF Opened, NothingCached, Agrees, Moved, Turned
    <2>8. Connection(c, img)'
      BY <1>2, <2>1, <2>4, <2>7 DEF Connection, Moved, Turned
    <2> QED
      BY <2>1, <2>2, <2>8, StepUntouched DEF Moved, Turned
  <1>6. CASE Hot(jrnl)
    <2> DEFINE todo == SubSeq(jrnl.recs, 1, Cardinality(Counted(jrnl)))
               ca == IF todo = <<>> THEN me.cache ELSE Fresh.cache
    <2>1. TruncateFile /\ jDisk = {jrnl}
      BY <1>1, <1>3, <1>6 DEF StartPlayback, Opened
    <2>2. Turned(c, "OPEN", "play", ca, me.dirty, me.needSync, me.size, me.vers, me.job, todo)
      BY <1>2, <1>6, AtPlace, AfterStartPlayback
    <2>3. Restores(jrnl, img) /\ jrnl \in Journal
      BY <1>3, <1>6, HotRestores DEF Files, FilesTyped
    <2>4. jrnl.counted \in 0 .. Len(jrnl.recs) /\ Cardinality(Counted(jrnl)) = jrnl.counted
      <3>1. jrnl.counted # Cold /\ \A i \in 1 .. jrnl.counted : OldPage(jrnl.recs[i], img)
        BY <1>6, <2>3, HotJournal DEF Restores
      <3>2. Cardinality(Counted(jrnl)) = jrnl.counted
        BY <2>3, <3>1, AllCounted
      <3>3. jrnl.counted \in Int /\ jrnl.counted >= -1 /\ jrnl.counted # -1 /\ jrnl.counted <= Len(jrnl.recs)
        BY <2>3, <3>1, JournalType DEF Cold
      <3> QED
        BY <3>2, <3>3
    <2>5. /\ todo \in Seq([pg : Int, val : Int]) /\ DOMAIN todo = 1 .. jrnl.counted
          /\ Len(todo) = jrnl.counted /\ \A i \in 1 .. jrnl.counted : todo[i] = jrnl.recs[i]
      <3>1. jrnl.recs \in Seq([pg : Int, val : Int]) /\ Len(jrnl.recs) \in Nat
        BY <2>3, JournalType
      <3>2. todo = SubSeq(jrnl.recs, 1, jrnl.counted)
        BY <2>4
      <3>3. \A i \in 1 .. jrnl.counted : jrnl.recs[i] \in [pg : Int, val : Int]
        BY <2>3, <2>4, JournalType
      <3> DEFINE k == jrnl.counted
                 t == SubSeq(jrnl.recs, 1, k)
      <3>4. k \in Nat /\ 1 \in Int /\ k \in Int
        BY <2>4, <3>1
      <3> HIDE DEF k
      <3>5. /\ t \in Seq([pg : Int, val : Int]) /\ Len(t) = IF 1 <= k THEN k-1+1 ELSE 0
            /\ \A i \in 1 .. k-1+1 : t[i] = jrnl.recs[1+i-1]
        BY <3>3, <3>4, SubSeqProperties DEF k
      <3> HIDE DEF t
      <3>6. Len(t) = k /\ \A i \in 1 .. k : t[i] = jrnl.recs[i]
        BY <3>4, <3>5
      <3>7. DOMAIN t = 1 .. k
        BY <3>5, <3>6, LenProperties
      <3>8. todo = t
        BY <3>2 DEF t, k
      <3> HIDE DEF todo
      <3> QED
        BY <3>5, <3>6, <3>7, <3>8 DEF k
    <2> HIDE DEF todo
    <2>6. Whole(img) /\ Size(img) \in 0 .. N
      BY <1>3, SizeType DEF Files
    <2>7. \A i \in 1 .. jrnl.counted : /\ OldPage(todo[i], img) /\ InJournal(jrnl, todo[i].pg)
                                       /\ todo[i].pg \in Pages /\ todo[i].val \in Data
      <3> SUFFICES ASSUME NEW i \in 1 .. jrnl.counted
                   PROVE  /\ OldPage(todo[i], img) /\ InJournal(jrnl, todo[i].pg)
                          /\ todo[i].pg \in Pages /\ todo[i].val \in Data
        OBVIOUS
      <3>1. OldPage(todo[i], img) /\ InJournal(jrnl, todo[i].pg)
        BY <2>3, <2>5 DEF Restores, InJournal
      <3>2. todo[i].pg \in Pages /\ todo[i].pg <= Size(img)
        BY <2>6, <3>1, BoundsAreNat DEF OldPage, Pages
      <3> QED
        BY <2>6, <3>1, <3>2, WholeSize DEF OldPage
    <2>8. todo \in Seq([pg : Pages, val : Data])
      <3>1. \A i \in 1 .. Len(todo) : todo[i] \in [pg : Pages, val : Data]
        <4> SUFFICES ASSUME NEW i \in 1 .. Len(todo) PROVE todo[i] \in [pg : Pages, val : Data]
          OBVIOUS
        <4>1. todo[i] \in [pg : Int, val : Int]
          BY <2>5, ElementOfSeq
        <4>2. todo[i].pg \in Pages /\ todo[i].val \in Data
          BY <2>5, <2>7
        <4> QED
          BY <4>1, <4>2
      <3> QED
        BY <2>5, <3>1, Members
    <2>9. /\ Files(img)'
          /\ \A p \in Pages : IF p <= Size(img) THEN db'[p] = db[p] ELSE db'[p] = img[p]
      BY <1>1, <1>3, <1>6, <2>1, <2>3, FileTruncated DEF Restores
    <2>10. Clean(img) => Clean(img)'
      BY <1>1, <1>3, <1>6, <2>1, <2>3, FileTruncated DEF Restores
    <2>11. ca \in [Pages -> Data \cup {NotCached}] /\ (todo # <<>> => \A p \in Pages : ca[p] = NotCached)
      <3>1. Fresh.cache = [p \in Pages |-> NotCached]
        BY FreshShaped
      <3> QED
        BY <1>3, <3>1 DEF Typed
    <2>12. todo = <<>> => ca = me.cache
      OBVIOUS
    <2> HIDE DEF ca
    <2>13. Typed(c)'
      BY <1>1, <1>2, <1>3, <2>2, <2>8, <2>11 DEF Typed, Turned
    <2>14. NothingCached(c)' \/ me.vers < Counter(img[1]) \/ (me.vers = Counter(img[1]) /\ Agrees(c, img)')
      BY <1>3, <2>2, <2>11, <2>12 DEF Opened, NothingCached, Agrees, Turned
    <2>15. \A p \in Pages : db'[p] = img[p] \/ ToDo(c, p)'
      <3> SUFFICES ASSUME NEW p \in Pages, db'[p] # img[p] PROVE ToDo(c, p)'
        OBVIOUS
      <3>1. p <= Size(img) /\ db[p] # img[p]
        BY <2>9
      <3>2. InJournal(jrnl, p)
        BY <2>3, <3>1 DEF Restores, Settled, Pages
      <3> QED
        BY <2>2, <2>5, <3>2 DEF InJournal, ToDo, Turned
    <2>16. \A k \in DOMAIN todo : /\ Hot(jrnl') /\ InJournal(jrnl', todo[k].pg) /\ OldPage(todo[k], img)
      BY <1>1, <1>6, <2>5, <2>7
    <2>17. todo # <<>> => NothingCached(c)'
      BY <2>2, <2>11 DEF NothingCached, Turned
    <2>18. Opened(c, img)'
      BY <1>1, <2>1, <2>2, <2>14, <2>15, <2>16, <2>17 DEF Opened, Turned
    <2>19. Connection(c, img)'
      BY <2>2, <2>13, <2>18 DEF Connection, Turned
    <2> QED
      BY <1>2, <1>4, <2>2, <2>9, <2>10, <2>19, StepOfWriter DEF Turned
  <1> QED
    BY <1>5, <1>6

LEMMA TodoTail ==
  ASSUME NEW c \in Conn, Typed(c), pager[c].todo # <<>>, pager'[c].todo = Tail(pager[c].todo)
  PROVE  LET r == Head(pager[c].todo) IN
         /\ r.pg \in Pages /\ r.val \in Data
         /\ 1 \in DOMAIN pager[c].todo /\ pager[c].todo[1] = r
         /\ pager'[c].todo \in Seq([pg : Pages, val : Data])
         /\ \A k \in DOMAIN pager'[c].todo :
              k + 1 \in DOMAIN pager[c].todo /\ pager'[c].todo[k] = pager[c].todo[k + 1]
         /\ \A p : ToDo(c, p) => p = r.pg \/ ToDo(c, p)'
  <1> DEFINE todo == pager[c].todo
             S == [pg : Pages, val : Data]
             r == Head(todo)
  <1>1. todo \in Seq(S) /\ todo # <<>>
    BY DEF Typed
  <1> HIDE DEF todo, S
  <1>2. r \in S /\ Tail(todo) \in Seq(S) /\ Len(Tail(todo)) = Len(todo)-1
        /\ \A i \in 1 .. Len(Tail(todo)) : Tail(todo)[i] = todo[i+1]
    BY <1>1, HeadTailProperties
  <1>3. Len(todo) \in Nat \ {0} /\ DOMAIN todo = 1 .. Len(todo) /\ DOMAIN Tail(todo) = 1 .. Len(Tail(todo))
    BY <1>1, <1>2, EmptySeq, LenProperties
  <1>4. todo[1] = r
    BY <1>1
  <1>5. r.pg \in Pages /\ r.val \in Data
    BY <1>2 DEF S
  <1>6. \A k \in DOMAIN Tail(todo) : k + 1 \in DOMAIN todo /\ Tail(todo)[k] = todo[k + 1]
    BY <1>2, <1>3
  <1>7. ASSUME NEW k \in DOMAIN todo, k # 1
        PROVE  k - 1 \in DOMAIN Tail(todo) /\ Tail(todo)[k - 1] = todo[k]
    BY <1>2, <1>3, <1>7
  <1>8. \A p : ToDo(c, p) => p = r.pg \/ ToDo(c, p)'
    BY <1>4, <1>7 DEF ToDo, todo
  <1> QED
    BY <1>2, <1>3, <1>4, <1>5, <1>6, <1>8 DEF todo, S

\* What Play does to the object of c.
LEMMA Played ==
  ASSUME ProtocolInv, NEW img, Inv(img), NEW c \in Conn, Play(c),
         LET r == Head(pager[c].todo) IN OldPage(r, img)
  PROVE  LET r == Head(pager[c].todo)
             me == pager[c]
             me2 == pager'[c]
         IN /\ Typed(c)'
            /\ \A d \in Conn \ {c} : pager'[d] = pager[d]
            /\ me2.eState = me.eState /\ me2.pc = "play" /\ me2.needSync = me.needSync
            /\ me2.todo = Tail(me.todo)
            /\ \A p \in Pages : me2.cache[p] = IF p = r.pg /\ me.cache[p] # NotCached THEN img[p] ELSE me.cache[p]
            /\ me2.vers = IF r.pg = 1 /\ me.cache[1] # NotCached THEN img[1] ELSE me.vers
  <1> DEFINE me == pager[c]
             r == Head(me.todo)
             cached == me.cache[r.pg] # NotCached
             ca == [me.cache EXCEPT ![r.pg] = IF cached THEN r.val ELSE me.cache[r.pg]]
             v == IF cached /\ r.pg = 1 THEN r.val ELSE me.vers
  <1>1. me.pc = "play" /\ me.todo # <<>> /\ nextTx' = nextTx
    BY DEF Play, At
  <1>2. Turned(c, me.eState, me.pc, ca, me.dirty, me.needSync, me.size, v, me.job, Tail(me.todo))
    BY AtPlace, AfterPlay
  <1>3. Typed(c) /\ Whole(img)
    BY DEF Inv, Connection, Files
  <1>4. pager'[c].todo = Tail(me.todo)
    BY <1>2 DEF Turned
  <1>5. r.pg \in Pages /\ r.val \in Data /\ pager'[c].todo \in Seq([pg : Pages, val : Data])
    BY <1>1, <1>3, <1>4, TodoTail
  <1>6. r.val = img[r.pg] /\ r.pg \in 1 .. Size(img)
    BY DEF OldPage
  <1>7. ca \in [Pages -> Data \cup {NotCached}]
        /\ \A p \in Pages : ca[p] = IF p = r.pg /\ me.cache[p] # NotCached THEN img[p] ELSE me.cache[p]
    BY <1>3, <1>5, <1>6 DEF Typed
  <1>8. v = IF r.pg = 1 /\ me.cache[1] # NotCached THEN img[1] ELSE me.vers
    BY <1>6
  <1>9. v \in 0 .. nextTx - 1
    <2>1. CASE cached /\ r.pg = 1
      <3>1. img[1] \in Data /\ img[1] < nextTx /\ v = img[1]
        BY <1>3, <1>5, <1>6, <2>1, WholeSize, FirstPage, SizeType
      <3> QED
        BY <3>1, BoundsAreNat DEF Data, ProtocolInv
    <2>2. CASE ~(cached /\ r.pg = 1)
      BY <1>3, <2>2 DEF Typed
    <2> QED
      BY <2>1, <2>2
  <1> HIDE DEF ca, v
  <1>10. Typed(c)'
    BY <1>1, <1>2, <1>3, <1>5, <1>7, <1>9 DEF Typed, Turned
  <1> QED
    BY <1>1, <1>2, <1>7, <1>8, <1>10 DEF Turned

LEMMA PlayHotInv ==
  ASSUME ProtocolInv, NEW img, Inv(img), NEW c \in Conn, Play(c), pager[c].eState = "OPEN"
  PROVE  Inv(img)'
  <1> DEFINE me == pager[c]
             r == Head(me.todo)
  <1>1. /\ me.pc = "play" /\ me.todo # <<>> /\ Put(r.pg, r.val)
        /\ UNCHANGED <<jrnl, jDisk, nextTx, previous>>
    BY DEF Play, At
  <1>2. lock[c] = EXCLUSIVE_LOCK
    BY <1>1, AtPlace DEF PlacedAt, Calling
  <1>3. Typed(c) /\ Opened(c, img) /\ Files(img) /\ NothingCached(c) /\ Whole(img)
    BY <1>1 DEF Inv, Connection, Opened, Files
  <1>4. 1 \in DOMAIN me.todo /\ me.todo[1] = r
    <2>1. me.todo \in Seq([pg : Pages, val : Data])
      BY <1>3 DEF Typed
    <2> QED
      BY <1>1, <2>1
  <1>5. OldPage(r, img) /\ Hot(jrnl) /\ InJournal(jrnl, r.pg) /\ jDisk = {jrnl}
    BY <1>1, <1>3, <1>4 DEF Opened
  <1>6. /\ Typed(c)' /\ \A d \in Conn \ {c} : pager'[d] = pager[d]
        /\ pager'[c].eState = "OPEN" /\ pager'[c].pc = "play" /\ pager'[c].todo = Tail(me.todo)
        /\ \A p \in Pages : pager'[c].cache[p] = NotCached
    <2>1. \A p \in Pages : me.cache[p] = NotCached
      BY <1>3 DEF NothingCached
    <2> QED
      BY <1>5, <2>1, Played
  <1>7. /\ r.pg \in Pages /\ r.val \in Data
        /\ \A k \in DOMAIN pager'[c].todo :
              k + 1 \in DOMAIN me.todo /\ pager'[c].todo[k] = me.todo[k + 1]
        /\ \A p : ToDo(c, p) => p = r.pg \/ ToDo(c, p)'
    BY <1>1, <1>3, <1>6, TodoTail
  <1>8. /\ Files(img)'
        /\ db'[r.pg] = r.val /\ \A q \in Pages \ {r.pg} : db'[q] = db[q] /\ dbDisk'[q] = dbDisk[q]
    <2> DEFINE p == r.pg
               v == r.val
    <2>1. p \in Pages /\ v \in Data /\ Put(p, v)
      BY <1>1, <1>7
    <2>2. \A j \in jDisk : Hot(j) /\ (p <= Size(img) => InJournal(j, p))
      BY <1>5
    <2> HIDE DEF p, v
    <2>3. /\ Files(img)'
          /\ db'[p] = v /\ \A q \in Pages \ {p} : db'[q] = db[q] /\ dbDisk'[q] = dbDisk[q]
      BY <1>1, <1>3, <1>5, <2>1, <2>2, PageWritten
    <2> QED
      BY <2>3 DEF p, v
  <1>9. \A p \in Pages : db'[p] = img[p] \/ ToDo(c, p)'
    <2>1. r.val = img[r.pg]
      BY <1>5 DEF OldPage
    <2> QED
      BY <1>1, <1>3, <1>7, <1>8, <2>1 DEF Opened
  <1>10. \A k \in DOMAIN pager'[c].todo : /\ Hot(jrnl') /\ InJournal(jrnl', pager'[c].todo[k].pg)
                                          /\ OldPage(pager'[c].todo[k], img)
    BY <1>1, <1>3, <1>7 DEF Opened
  <1>11. Opened(c, img)'
    <2>1. NothingCached(c)'
      BY <1>6 DEF NothingCached
    <2> QED
      BY <1>1, <1>5, <1>6, <1>9, <1>10, <2>1 DEF Opened
  <1>12. Connection(c, img)'
    BY <1>6, <1>11 DEF Connection
  <1>13. Counter(img[1]) \in Int
    BY <1>3, FirstPage DEF Whole, Counter, Data, Absent
  <1> QED
    BY <1>1, <1>2, <1>6, <1>8, <1>12, <1>13, StepOfOwner

\* A record of a journal that all copies on the disk count is in all of them.
LEMMA InAllJournals ==
  ASSUME NEW img, Files(img), Hot(jrnl), NEW c \in Conn, Protected(c, img),
         NEW p, Saved(jrnl.recs, p), p \notin pager[c].needSync
  PROVE  \A j \in jDisk : Hot(j) /\ InJournal(j, p)
  <1>1. jrnl \in Journal
    BY NoFileFields DEF Files, FilesTyped
  <1>2. PICK i \in 1 .. Len(jrnl.recs) : jrnl.recs[i].pg = p
    BY <1>1, JournalType DEF Saved
  <1>3. i \in DOMAIN jrnl.recs
    BY <1>1, JournalType
  <1>4. ASSUME NEW j \in jDisk PROVE Hot(j) /\ InJournal(j, p)
    <2>1. Hot(j) /\ i <= j.counted /\ j.recs[i] = jrnl.recs[i]
      BY <1>2, <1>3 DEF Protected
    <2>2. j \in Journal /\ j.counted \in Int
      BY <2>1, JournalType, NoFileFields DEF Files, FilesTyped
    <2>3. i \in 1 .. j.counted
      BY <2>1, <2>2
    <2> QED
      BY <1>2, <2>1, <2>3 DEF InJournal
  <1> QED
    BY <1>4

\* A record of the own journal is played back into the cache, and into the
\* file if its page is on the disk in the journal.
LEMMA PlayOwnInv ==
  ASSUME ProtocolInv, NEW img, Inv(img), NEW c \in Conn, Play(c),
         pager[c].eState \in {"CACHEMOD", "DBMOD"}
  PROVE  Inv(img)'
  <1> DEFINE me == pager[c]
             me2 == pager'[c]
             r == Head(me.todo)
             toFile == me.eState = "DBMOD" /\ r.pg \notin me.needSync
  <1>1. /\ me.pc = "play" /\ me.todo # <<>>
        /\ IF toFile THEN Put(r.pg, r.val) ELSE UNCHANGED <<db, dbDisk>>
        /\ UNCHANGED <<jrnl, jDisk, nextTx, previous>>
    BY DEF Play, At
  <1>2. lock[c] >= RESERVED_LOCK /\ (me.eState = "DBMOD" => lock[c] = EXCLUSIVE_LOCK)
    BY <1>1, AtPlace DEF PlacedAt, Calling
  <1>3. /\ Typed(c) /\ Files(img) /\ Whole(img) /\ Journalling(c, img) /\ RollingBack(c, img)
        /\ me.eState = "DBMOD" => Protected(c, img) /\ Hot(jrnl)
    BY <1>1 DEF Inv, Connection, Writer, Files, Journalling
  <1>4. 1 \in DOMAIN me.todo /\ me.todo[1] = r
    <2>1. me.todo \in Seq([pg : Pages, val : Data])
      BY <1>3 DEF Typed
    <2> QED
      BY <1>1, <2>1
  <1>5. OldPage(r, img) /\ Saved(jrnl.recs, r.pg) /\ r.val = img[r.pg]
    BY <1>3, <1>4 DEF RollingBack, OldPage
  <1>6. /\ Typed(c)'
        /\ \A d \in Conn \ {c} : pager'[d] = pager[d]
        /\ me2.eState = me.eState /\ me2.pc = "play" /\ me2.needSync = me.needSync
        /\ me2.todo = Tail(me.todo)
        /\ \A p \in Pages : me2.cache[p] = IF p = r.pg /\ me.cache[p] # NotCached THEN img[p] ELSE me.cache[p]
        /\ me2.vers = IF r.pg = 1 /\ me.cache[1] # NotCached THEN img[1] ELSE me.vers
    BY <1>5, Played
  <1>7. /\ r.pg \in Pages /\ r.val \in Data
        /\ \A k \in DOMAIN me2.todo : k + 1 \in DOMAIN me.todo /\ me2.todo[k] = me.todo[k + 1]
        /\ \A p : ToDo(c, p) => p = r.pg \/ ToDo(c, p)'
    BY <1>1, <1>3, <1>6, TodoTail
  <1>8. ASSUME toFile
        PROVE  /\ Files(img)'
               /\ db'[r.pg] = r.val /\ \A q \in Pages \ {r.pg} : db'[q] = db[q] /\ dbDisk'[q] = dbDisk[q]
    <2> DEFINE p == r.pg
               v == r.val
    <2>1. p \in Pages /\ v \in Data /\ Put(p, v)
      BY <1>1, <1>7, <1>8
    <2>2. \A j \in jDisk : Hot(j) /\ InJournal(j, p)
      BY <1>3, <1>5, <1>8, InAllJournals
    <2> HIDE DEF p, v
    <2>3. /\ Files(img)'
          /\ db'[p] = v /\ \A q \in Pages \ {p} : db'[q] = db[q] /\ dbDisk'[q] = dbDisk[q]
      BY <1>1, <1>3, <1>8, <2>1, <2>2, PageWritten
    <2> QED
      BY <2>3 DEF p, v
  <1>9. \A p \in Pages : db'[p] = img[p] \/ (p \notin me.needSync /\ ToDo(c, p)')
    <2> SUFFICES ASSUME NEW p \in Pages
                 PROVE  db'[p] = img[p] \/ (p \notin me.needSync /\ ToDo(c, p)')
      OBVIOUS
    <2>1. db[p] = img[p] \/ (p \notin me.needSync /\ ToDo(c, p))
      BY <1>3 DEF RollingBack
    <2>2. CASE toFile
      BY <1>5, <1>7, <1>8, <2>1, <2>2
    <2>3. CASE ~toFile /\ me.eState = "DBMOD"
      BY <1>1, <1>7, <2>1, <2>3
    <2>4. CASE me.eState = "CACHEMOD"
      <3>1. db[p] = img[p]
        BY <1>3, <2>4 DEF Journalling, Clean, Settled
      <3> QED
        BY <1>1, <2>4, <3>1
    <2> QED
      BY <2>2, <2>3, <2>4
  <1> HIDE DEF r
  <1>10. RollingBack(c, img)'
    <2>1. \A k \in DOMAIN me2.todo : OldPage(me2.todo[k], img) /\ Saved(jrnl'.recs, me2.todo[k].pg)
      BY <1>1, <1>3, <1>7 DEF RollingBack
    <2>2. \A p \in 1 .. Size(img) : me2.cache[p] \in {NotCached, img[p]} \/ ToDo(c, p)'
      <3> SUFFICES ASSUME NEW p \in 1 .. Size(img)
                   PROVE  me2.cache[p] \in {NotCached, img[p]} \/ ToDo(c, p)'
        OBVIOUS
      <3>1. p \in Pages
        BY SizeType, BoundsAreNat DEF Pages
      <3> QED
        BY <1>3, <1>6, <1>7, <3>1 DEF RollingBack
    <2>3. Size(img) = 0 \/ me2.vers = img[1] \/ (me2.cache[1] # NotCached /\ ToDo(c, 1)')
      BY <1>3, <1>6, <1>7, FirstPage DEF RollingBack, Versed
    <2>4. me2.vers < nextTx'
      BY <1>1, <1>6 DEF Typed, ProtocolInv
    <2> QED
      BY <1>6, <1>9, <2>1, <2>2, <2>3, <2>4 DEF RollingBack, Versed
  <1>11. me.eState = "CACHEMOD" => Untouched /\ Clean(img)'
    BY <1>1, <1>3 DEF Untouched, Journalling, Clean, Settled
  <1>12. Journalling(c, img)'
    BY <1>1, <1>3, <1>6, <1>11 DEF Journalling
  <1>13. me.eState = "DBMOD" => Protected(c, img)'
    <2> SUFFICES ASSUME me.eState = "DBMOD" PROVE Protected(c, img)'
      OBVIOUS
    <2>1. \A p \in me.needSync : p \in Pages /\ (Settled(p, img) => Settled(p, img)')
      <3> SUFFICES ASSUME NEW p \in me.needSync PROVE p \in Pages /\ (Settled(p, img) => Settled(p, img)')
        OBVIOUS
      <3>1. p \in Pages
        BY <1>3 DEF Typed
      <3>2. db'[p] = db[p] /\ dbDisk'[p] = dbDisk[p]
        BY <1>1, <1>8, <3>1
      <3> QED
        BY <3>1, <3>2 DEF Settled
    <2> QED
      BY <1>1, <1>3, <1>6, <2>1 DEF Protected
  <1>14. Connection(c, img)'
    BY <1>6, <1>10, <1>12, <1>13 DEF Connection, Writer
  <1>15. CASE me.eState = "CACHEMOD"
    BY <1>6, <1>11, <1>14, <1>15, StepUntouched
  <1>16. CASE me.eState = "DBMOD"
    <2>1. Files(img)'
      <3>1. CASE toFile
        BY <1>8, <3>1
      <3>2. CASE ~toFile
        BY <1>1, <1>3, <3>2, UntouchedFiles DEF Untouched
      <3> QED
        BY <3>1, <3>2
    <2>2. Counter(img[1]) \in Int
      BY <1>3, FirstPage DEF Whole, Counter, Data, Absent
    <2> QED
      BY <1>1, <1>2, <1>6, <1>14, <1>16, <2>1, <2>2, StepOfOwner
  <1> QED
    BY <1>15, <1>16

LEMMA EndPlaybackInv ==
  ASSUME ProtocolInv, NEW img, Inv(img), NEW c \in Conn, EndPlayback(c)
  PROVE  Inv(img)'
  <1> DEFINE me == pager[c]
  <1>1. /\ Moved(c, "finalize") /\ me.pc = "play" /\ me.todo = <<>>
        /\ IF me.eState = "CACHEMOD" THEN dbDisk' = dbDisk ELSE SyncDatabase
        /\ UNCHANGED <<db, jrnl, jDisk, nextTx, previous>>
    BY AtPlace, Moves DEF EndPlayback, At
  <1>2. me.eState \in {"OPEN", "CACHEMOD", "DBMOD"} /\ lock[c] >= RESERVED_LOCK
    BY <1>1, AtPlace DEF PlacedAt, Calling
  <1>3. Typed(c) /\ Connection(c, img) /\ Files(img) /\ \A p : ~ToDo(c, p)
    <2>1. DOMAIN me.todo = {}
      BY <1>1
    <2> QED
      BY <2>1 DEF Inv, Connection, ToDo
  <1>4. \A p \in Pages : db[p] = img[p]
    <2>1. CASE me.eState = "OPEN"
      BY <1>1, <1>3, <2>1 DEF Connection, Opened
    <2>2. CASE me.eState \in {"CACHEMOD", "DBMOD"}
      BY <1>1, <1>3, <2>2 DEF Connection, Writer, RollingBack
    <2> QED
      BY <1>2, <2>1, <2>2
  <1>5. Files(img)' /\ Clean(img)'
    <2>1. CASE me.eState = "CACHEMOD"
      <3>1. Clean(img)
        BY <1>1, <1>3, <2>1 DEF Connection, Writer, Journalling
      <3> QED
        BY <1>1, <1>3, <2>1, <3>1, UntouchedFiles DEF Untouched
    <2>2. CASE me.eState # "CACHEMOD"
      BY <1>1, <1>3, <1>4, <2>2, FileSynced
    <2> QED
      BY <2>1, <2>2
  <1>6. /\ pager'[c].eState = me.eState /\ pager'[c].pc = "finalize" /\ pager'[c].cache = me.cache
        /\ pager'[c].vers = me.vers /\ pager'[c].todo = <<>>
    BY <1>1 DEF Moved, Turned
  <1>7. Typed(c)'
    BY <1>1, <1>3 DEF Typed, Moved, Turned
  <1>8. CASE me.eState = "OPEN"
    <2>1. Opened(c, img)'
      BY <1>1, <1>3, <1>5, <1>6, <1>8 DEF Connection, Opened, NothingCached, Agrees
    <2>2. Connection(c, img)'
      BY <1>6, <1>7, <1>8, <2>1 DEF Connection
    <2>3. nextTx' \in Nat /\ nextTx' >= nextTx
      BY <1>1 DEF ProtocolInv
    <2> QED
      BY <1>1, <1>2, <1>5, <2>2, <2>3, StepOfWriter DEF Moved, Turned
  <1>9. CASE me.eState \in {"CACHEMOD", "DBMOD"}
    <2>1. Journalling(c, img) /\ RollingBack(c, img)
      BY <1>1, <1>3, <1>9 DEF Connection, Writer
    <2>2. Journalling(c, img)'
      BY <1>1, <1>5, <1>6, <1>9, <2>1 DEF Journalling
    <2>3. Versed(c, img) /\ \A p \in 1 .. Size(img) : me.cache[p] \in {NotCached, img[p]}
      BY <1>3, <2>1 DEF RollingBack
    <2>4. RolledBack(c, img)'
      BY <1>5, <1>6, <2>3 DEF RolledBack, Versed
    <2>5. Connection(c, img)'
      BY <1>6, <1>7, <1>9, <2>2, <2>4 DEF Connection, Writer
    <2>6. nextTx' \in Nat /\ nextTx' >= nextTx
      BY <1>1 DEF ProtocolInv
    <2> QED
      BY <1>1, <1>2, <1>5, <2>5, <2>6, StepOfWriter DEF Moved, Turned
  <1> QED
    BY <1>2, <1>8, <1>9

\* The journal of a playback or a rollback is deleted.
LEMMA FinalizeOldInv ==
  ASSUME ProtocolInv, NEW img, Inv(img), NEW c \in Conn, Finalize(c), pager[c].eState # "FINISHED"
  PROVE  Inv(img)'
  <1> DEFINE me == pager[c]
  <1>1. /\ Moved(c, "downgrade") /\ me.pc = "finalize" /\ jrnl' = NoFile
        /\ jDisk' \subseteq jDisk \cup {NoFile} /\ NoFile \in jDisk'
        /\ UNCHANGED <<db, dbDisk, nextTx, previous>>
    BY AtPlace, Moves DEF Finalize, DeleteJournal, At
  <1>2. me.eState \in {"OPEN", "CACHEMOD", "DBMOD"} /\ lock[c] >= RESERVED_LOCK
    BY <1>1, AtPlace DEF PlacedAt, Calling
  <1>3. Typed(c) /\ Connection(c, img) /\ Files(img)
    BY DEF Inv, Connection
  <1>4. Clean(img) /\ (me.eState # "OPEN" => RolledBack(c, img))
    BY <1>1, <1>2, <1>3 DEF Connection, Opened, Writer, RolledBack
  <1>5. Files(img)' /\ Clean(img)'
    BY <1>1, <1>3, <1>4, JournalDeleted
  <1>6. /\ pager'[c].eState = me.eState /\ pager'[c].pc = "downgrade" /\ pager'[c].cache = me.cache
        /\ pager'[c].vers = me.vers
    BY <1>1 DEF Moved, Turned
  <1>7. Typed(c)'
    BY <1>1, <1>3 DEF Typed, Moved, Turned
  <1>8. me.eState = "OPEN" => Opened(c, img)'
    BY <1>1, <1>3, <1>5, <1>6 DEF Connection, Opened, NothingCached, Agrees
  <1>9. me.eState # "OPEN" => RolledBack(c, img)'
    BY <1>4, <1>5, <1>6 DEF RolledBack, Versed
  <1>10. Connection(c, img)'
    BY <1>2, <1>6, <1>7, <1>8, <1>9 DEF Connection, Writer
  <1>11. nextTx' \in Nat /\ nextTx' >= nextTx
    BY <1>1 DEF ProtocolInv
  <1> QED
    BY <1>1, <1>2, <1>5, <1>10, <1>11, StepOfWriter DEF Moved, Turned

\* The journal of a transaction is deleted: what the file has is committed,
\* and the image before may come back as long as the deletion is not synced.
LEMMA FinalizeNewInv ==
  ASSUME ProtocolInv, NEW img, Inv(img), NEW c \in Conn, Finalize(c), pager[c].eState = "FINISHED"
  PROVE  \E x : Inv(x)'
  <1> DEFINE me == pager[c]
  <1>1. /\ Moved(c, "downgrade") /\ me.pc = "finalize" /\ DeleteJournal(ExtraSync)
        /\ previous' = IF ExtraSync THEN previous ELSE Recovered(jrnl, db)
        /\ UNCHANGED <<db, dbDisk, nextTx>>
    BY AtPlace, Moves DEF Finalize, At
  <1>2. lock[c] = EXCLUSIVE_LOCK
    BY <1>1, AtPlace DEF PlacedAt, Calling
  <1>3. Typed(c) /\ Committing(c, img) /\ Files(img) /\ Whole(img)
    BY <1>1 DEF Inv, Connection, Files
  <1>4. previous' = (IF ExtraSync THEN None ELSE img)
    <2>1. previous = None
      BY <1>3 DEF Files, Committing
    <2> QED
      BY <1>1, <1>3, <2>1, RecoveredIs
  <1>5. PICK new : new = db
    OBVIOUS
  <1>6. Whole(new) /\ Whole(new)' /\ Whole(img)'
    BY <1>1, <1>3, <1>5 DEF Committing, Whole
  <1>7. Clean(new) /\ Clean(new)'
    BY <1>1, <1>3, <1>5 DEF Committing, Clean, Settled
  <1>8. Files(new)'
    <2>1. jrnl' = NoFile /\ jrnl' \in jDisk' /\ jDisk' \subseteq jDisk \cup {NoFile}
          /\ (ExtraSync => jDisk' = {NoFile})
      BY <1>1 DEF DeleteJournal
    <2>2. FilesTyped'
      BY <1>1, <1>3, <2>1 DEF Files, FilesTyped, Journal
    <2>3. ASSUME NEW j \in jDisk' PROVE Recoverable(j, new)'
      <3>1. CASE ~Hot(j)
        BY <1>7, <3>1 DEF Recoverable
      <3>2. CASE Hot(j)
        <4>1. j \in jDisk /\ ~ExtraSync
          BY <2>1, <3>2, NoFileFields
        <4>2. Restores(j, img)
          BY <1>3, <3>2, <4>1, HotRestores DEF Committing
        <4>3. Restores(j, img)'
          BY <1>1, <4>2 DEF Restores, Settled
        <4>4. previous' = img /\ previous' # None
          BY <1>3, <1>4, <4>1, WholeSize
        <4>5. (previous # None /\ Restores(j, previous))'
          BY <4>3, <4>4 DEF Restores, Settled
        <4> QED
          BY <3>2, <4>5 DEF Recoverable
      <3> QED
        BY <3>1, <3>2
    <2>4. ~Hot(jrnl')
      BY <2>1, NoFileFields
    <2>5. previous' # None => Whole(previous)'
      BY <1>1, <1>3, <1>4 DEF Whole
    <2> QED
      BY <1>6, <2>2, <2>3, <2>4, <2>5 DEF Files
  <1>9. /\ pager'[c].eState = "FINISHED" /\ pager'[c].pc = "downgrade" /\ pager'[c].cache = me.cache
        /\ pager'[c].vers = me.vers /\ pager'[c].size = me.size
    BY <1>1 DEF Moved, Turned
  <1>10. Typed(c)'
    BY <1>1, <1>3 DEF Typed, Moved, Turned
  <1>11. Reading(c, new)'
    BY <1>3, <1>5, <1>7, <1>9 DEF Reading, Committing, Agrees, Versed
  <1>12. Connection(c, new)'
    BY <1>9, <1>10, <1>11 DEF Connection
  <1>13. Counter(new[1]) > Counter(img[1]) /\ Counter(new[1]) \in Int
    <2>1. new[1] = me.vers /\ me.vers > Counter(img[1]) /\ me.vers \in Nat
      BY <1>3, <1>5 DEF Committing, Typed, ProtocolInv
    <2> QED
      BY <2>1 DEF Counter, Absent
  <1> QED
    BY <1>1, <1>2, <1>8, <1>12, <1>13, StepOfOwner DEF Moved, Turned

-----------------------------------------------------------------------------
(* Write transactions                                                      *)

\* What is known of a connection that has begun to change pages.
LEMMA WriterKnows ==
  ASSUME ProtocolInv, NEW img, Inv(img), NEW c \in Conn, Changing(c),
         pager[c].pc \notin {"play", "finalize"}
  PROVE  LET me == pager[c] IN
         /\ Typed(c) /\ Files(img) /\ Whole(img) /\ Journalling(c, img) /\ Live(c, img)
         /\ me.todo = <<>> /\ lock[c] >= RESERVED_LOCK
         /\ jrnl \in Journal
         /\ me.eState = "CACHEMOD" => Clean(img)
         /\ me.eState = "DBMOD" => /\ Hot(jrnl) /\ Restores(jrnl, img) /\ Protected(c, img)
                                   /\ lock[c] = EXCLUSIVE_LOCK
  <1> DEFINE me == pager[c]
  <1>1. me.eState \in {"CACHEMOD", "DBMOD"} /\ me.pc # "downgrade"
    BY DEF Changing
  <1>2. /\ Typed(c) /\ Files(img) /\ Whole(img) /\ Journalling(c, img) /\ Live(c, img)
        /\ me.todo = <<>>
        /\ me.eState = "DBMOD" => Protected(c, img)
    BY <1>1 DEF Inv, Connection, Writer, Typed, Files
  <1>3. jrnl \in jDisk /\ jrnl \in Journal
    <2>1. jrnl # NoFile
      BY <1>1, NoFileFields DEF ProtocolInv, IsJournal, Changing
    <2> QED
      BY <1>2, <2>1 DEF Files, FilesTyped
  <1>4. /\ me.eState = "CACHEMOD" => Clean(img)
        /\ me.eState = "DBMOD" => Hot(jrnl)
    BY <1>2 DEF Journalling
  <1>5. me.eState = "DBMOD" => Restores(jrnl, img)
    BY <1>2, <1>3, <1>4, HotRestores
  <1>6. lock[c] >= RESERVED_LOCK /\ (me.eState = "DBMOD" => lock[c] = EXCLUSIVE_LOCK)
    BY <1>1, AtPlace DEF PlacedAt
  <1> QED
    BY <1>2, <1>3, <1>4, <1>5, <1>6

\* What the journal does not have is in the file as it was.
LEMMA SavedOrSettled ==
  ASSUME NEW img, Restores(jrnl, img), jrnl \in Journal, NEW p \in 1 .. Size(img)
  PROVE  Saved(jrnl.recs, p) \/ Settled(p, img)
  <1>1. InJournal(jrnl, p) \/ Settled(p, img)
    BY DEF Restores
  <1>2. \A i \in 1 .. jrnl.counted : i \in DOMAIN jrnl.recs
    BY JournalType
  <1> QED
    BY <1>1, <1>2 DEF InJournal, Saved

LEMMA RecordsTyped ==
  ASSUME NEW img, Whole(img), jrnl \in Journal,
         \A i \in DOMAIN jrnl.recs : OldPage(jrnl.recs[i], img)
  PROVE  jrnl.recs \in Seq([pg : Pages, val : Data])
  <1>1. /\ jrnl.recs \in Seq([pg : Int, val : Int]) /\ DOMAIN jrnl.recs = 1 .. Len(jrnl.recs)
        /\ \A i \in 1 .. Len(jrnl.recs) : jrnl.recs[i] \in [pg : Int, val : Int]
    BY JournalType
  <1>2. ASSUME NEW i \in 1 .. Len(jrnl.recs) PROVE jrnl.recs[i] \in [pg : Pages, val : Data]
    <2>1. OldPage(jrnl.recs[i], img) /\ Size(img) \in 0 .. N
      BY <1>1, SizeType
    <2>2. jrnl.recs[i].pg \in Pages /\ jrnl.recs[i].pg <= Size(img)
      BY <2>1, BoundsAreNat DEF OldPage, Pages
    <2>3. jrnl.recs[i].val \in Data
      BY <2>1, <2>2, WholeSize DEF OldPage
    <2> QED
      BY <1>1, <2>2, <2>3
  <1> QED
    BY <1>1, <1>2, Members

LEMMA RollbackInv ==
  ASSUME ProtocolInv, DurableTruncate, NEW img, Inv(img), NEW c \in Conn, Rollback(c)
  PROVE  Inv(img)'
  <1> DEFINE me == pager[c]
             k == Size(img)
  <1>1. /\ me.eState \in {"CACHEMOD", "DBMOD"}
        /\ me.pc \in {"none", "lock", "sync", "count", "resync", "write"}
        /\ IF me.eState = "DBMOD" THEN TruncateFile ELSE UNCHANGED <<db, dbDisk>>
        /\ UNCHANGED <<jrnl, jDisk, nextTx, previous>>
    BY DEF Rollback
  <1>2. Turned(c, me.eState, "play", me.cache, me.dirty, me.needSync, me.size, me.vers, me.job,
            jrnl.recs)
    BY AtPlace, AfterRollback
  <1>3. /\ Typed(c) /\ Files(img) /\ Whole(img) /\ Journalling(c, img) /\ Live(c, img)
        /\ lock[c] >= RESERVED_LOCK /\ jrnl \in Journal
        /\ me.eState = "CACHEMOD" => Clean(img)
        /\ me.eState = "DBMOD" => Hot(jrnl) /\ Restores(jrnl, img) /\ Protected(c, img)
    BY <1>1, WriterKnows DEF Changing
  <1>4. k \in 0 .. N /\ \A p \in 1 .. k : p \in Pages
    BY SizeType, BoundsAreNat DEF Pages
  <1>5. \A p \in 1 .. k : Saved(jrnl.recs, p) \/ Settled(p, img)
    <2>1. CASE me.eState = "CACHEMOD"
      BY <1>3, <1>4, <2>1 DEF Clean
    <2>2. CASE me.eState = "DBMOD"
      BY <1>3, <2>2, SavedOrSettled
    <2> QED
      BY <1>1, <2>1, <2>2
  <1>6. /\ Files(img)' /\ (Clean(img) => Clean(img)')
        /\ \A p \in Pages : IF p <= k THEN db'[p] = db[p] /\ dbDisk'[p] = dbDisk[p]
                            ELSE db'[p] = img[p]
    <2>1. CASE me.eState = "CACHEMOD"
      <3>1. Untouched /\ \A p \in Pages : db'[p] = img[p] /\ db'[p] = db[p] /\ dbDisk'[p] = dbDisk[p]
        BY <1>1, <1>3, <2>1 DEF Untouched, Clean, Settled
      <3> QED
        BY <1>3, <3>1, UntouchedFiles
    <2>2. CASE me.eState = "DBMOD"
      <3>1. jrnl.orig = k
        BY <1>3 DEF Journalling
      <3> HIDE DEF k
      <3> QED
        BY <1>1, <1>3, <2>2, <3>1, FileTruncated DEF k
    <2> QED
      BY <1>1, <2>1, <2>2
  <1>7. jrnl.recs \in Seq([pg : Pages, val : Data]) /\ \A i \in DOMAIN jrnl.recs : OldPage(jrnl.recs[i], img)
    BY <1>3, RecordsTyped DEF Journalling
  <1>8. Typed(c)'
    BY <1>1, <1>2, <1>3, <1>7 DEF Typed, Turned
  <1>9. \A p : Saved(jrnl.recs, p) => ToDo(c, p)'
    BY <1>2 DEF Saved, ToDo, Turned
  <1>10. Journalling(c, img)'
    BY <1>1, <1>2, <1>3, <1>6 DEF Journalling, Turned
  <1>11. me.eState = "DBMOD" => Protected(c, img)'
    <2> SUFFICES ASSUME me.eState = "DBMOD" PROVE Protected(c, img)'
      OBVIOUS
    <2>1. \A p \in me.needSync : p \in Pages /\ (p <= k => Settled(p, img)')
      BY <1>3, <1>6 DEF Typed, Protected, Settled
    <2> QED
      BY <1>1, <1>2, <1>3, <2>1 DEF Protected, Turned
  <1>12. RollingBack(c, img)'
    <2>1. \A i \in DOMAIN jrnl.recs : Saved(jrnl'.recs, jrnl.recs[i].pg)
      BY <1>1 DEF Saved
    <2>2. \A p \in 1 .. k : me.cache[p] \in {NotCached, img[p]} \/ ToDo(c, p)'
      <3> SUFFICES ASSUME NEW p \in 1 .. k, ~Saved(jrnl.recs, p) PROVE me.cache[p] \in {NotCached, img[p]}
        BY <1>9
      <3>1. p \in Pages /\ p <= k /\ db[p] = img[p]
        BY <1>4, <1>5 DEF Settled
      <3> QED
        BY <1>3, <3>1 DEF Live
    <2>3. \A p \in Pages : db'[p] = img[p] \/ (p \notin me.needSync /\ ToDo(c, p)')
      <3> SUFFICES ASSUME NEW p \in Pages, db'[p] # img[p] PROVE p \notin me.needSync /\ ToDo(c, p)'
        OBVIOUS
      <3>1. p \in 1 .. k /\ db'[p] = db[p]
        BY <1>4, <1>6 DEF Pages
      <3>2. ~Settled(p, img) /\ ToDo(c, p)'
        BY <1>5, <1>9, <3>1 DEF Settled
      <3>3. me.eState = "DBMOD"
        BY <1>1, <1>3, <3>2 DEF Clean
      <3> QED
        BY <1>3, <3>1, <3>2, <3>3 DEF Protected
    <2>4. Versed(c, img) \/ (me.cache[1] # NotCached /\ ToDo(c, 1)')
      <3> SUFFICES ASSUME ~Versed(c, img) PROVE me.cache[1] # NotCached /\ ToDo(c, 1)'
        OBVIOUS
      <3>1. me.cache[1] = me.vers /\ db[1] = me.vers /\ me.vers > Counter(img[1])
        BY <1>3 DEF Live, Counting1
      <3>2. 1 \in 1 .. k /\ Counter(img[1]) = img[1]
        BY <1>3, <1>4, WholeSize DEF Versed
      <3>3. ~Settled(1, img)
        BY <1>3, <3>1, <3>2 DEF Settled, Typed, ProtocolInv
      <3>4. me.vers # NotCached
        BY <1>3 DEF Typed, ProtocolInv, NotCached
      <3> QED
        BY <1>5, <1>9, <3>1, <3>2, <3>3, <3>4
    <2>5. me.vers < nextTx
      BY <1>3 DEF Typed, ProtocolInv
    <2> QED
      BY <1>1, <1>2, <1>7, <2>1, <2>2, <2>3, <2>4, <2>5 DEF RollingBack, Versed, Turned
  <1>13. Connection(c, img)'
    BY <1>1, <1>2, <1>8, <1>10, <1>11, <1>12 DEF Connection, Writer, Turned
  <1>14. nextTx' \in Nat /\ nextTx' >= nextTx
    BY <1>1 DEF ProtocolInv
  <1> QED
    BY <1>2, <1>3, <1>6, <1>13, <1>14, StepOfWriter DEF Turned

\* What remains to be shown of a step of a writer that changes no file.
LEMMA WriterUntouched ==
  ASSUME ProtocolInv, NEW img, Inv(img), NEW c \in Conn, Changing(c),
         pager[c].pc \notin {"play", "finalize"}, Untouched,
         \A d \in Conn \ {c} : pager'[d] = pager[d],
         pager'[c].eState = pager[c].eState, pager'[c].needSync = pager[c].needSync,
         pager'[c].pc \notin {"play", "finalize", "downgrade"},
         Typed(c)', Live(c, img)'
  PROVE  Inv(img)'
  <1> DEFINE me == pager[c]
  <1>1. /\ Journalling(c, img) /\ me.eState \in {"CACHEMOD", "DBMOD"}
        /\ me.eState = "DBMOD" => Protected(c, img)
    BY WriterKnows DEF Changing
  <1>2. Journalling(c, img)'
    BY <1>1 DEF Journalling, Untouched, Clean, Settled
  <1>3. me.eState = "DBMOD" => Protected(c, img)'
    BY <1>1 DEF Protected, Untouched, Settled
  <1>4. Connection(c, img)'
    BY <1>1, <1>2, <1>3 DEF Connection, Writer
  <1> QED
    BY <1>4, StepUntouched

LEMMA ReadInv ==
  ASSUME ProtocolInv, NEW img, Inv(img), NEW c \in Conn, NEW p \in Pages, Read(c, p)
  PROVE  Inv(img)'
  <1> DEFINE me == pager[c]
             ca == [me.cache EXCEPT ![p] = db[p]]
  <1>1. /\ Untouched /\ me.pc = "none" /\ me.eState \in {"READER", "LOCKED", "CACHEMOD", "DBMOD"}
        /\ p <= me.size /\ me.cache[p] = NotCached
    BY DEF Read, Untouched, files, Idle, At, Writing
  <1>2. Turned(c, me.eState, me.pc, ca, me.dirty, me.needSync, me.size, me.vers, me.job, me.todo)
    BY AtPlace, AfterRead
  <1>3. Typed(c) /\ Whole(img) /\ me.todo = <<>>
    BY <1>1 DEF Inv, Connection, Files, Typed
  <1>4. CASE me.eState \in {"READER", "LOCKED"}
    <2>1. Reading(c, img) /\ (me.eState = "LOCKED" => nextTx <= MaxTx)
      BY <1>1, <1>4 DEF Inv, Connection
    <2>2. db[p] = img[p] /\ db[p] \in Data
      BY <1>1, <1>3, <2>1, WholeSize DEF Reading, Clean, Settled
    <2>3. /\ ca \in [Pages -> Data \cup {NotCached}]
          /\ \A q \in Pages : ca[q] \in {NotCached, img[q]}
      BY <1>3, <2>1, <2>2 DEF Typed, Reading, Agrees
    <2>4. Turned(c, me.eState, me.pc, ca, me.dirty, me.needSync, me.size, me.vers, me.job, <<>>)
      BY <1>2, <1>3
    <2> HIDE DEF ca
    <2> QED
      BY <1>1, <1>3, <1>4, <2>1, <2>3, <2>4, ReadingAfter DEF Typed, Reading, Versed
  <1>5. CASE me.eState \in {"CACHEMOD", "DBMOD"}
    <2>1. Live(c, img) /\ Changing(c)
      BY <1>1, <1>5, WriterKnows DEF Changing
    <2>2. p \notin me.dirty /\ db[p] \in Data
      BY <1>1, <2>1 DEF Live
    <2>3. ca \in [Pages -> Data \cup {NotCached}]
      BY <1>3, <2>2 DEF Typed
    <2>4. Typed(c)'
      BY <1>1, <1>2, <1>3, <2>3 DEF Typed, Turned, Untouched
    <2>5. Live(c, img)'
      <3>1. \A q \in Pages : q # p => ca[q] = me.cache[q]
        BY <1>3 DEF Typed
      <3>2. ca[p] = db[p]
        BY <1>3 DEF Typed
      <3> HIDE DEF ca
      <3>3. Counting1(c, img)'
        BY <1>1, <1>2, <2>1 DEF Live, Counting1, Versed, Turned, Untouched, Calling
      <3>4. \A q \in Pages :
              /\ q \in me.dirty => /\ ca[q] # NotCached
                                   /\ q <= Size(img) => Saved(jrnl.recs, q)
              /\ q \notin me.dirty => ca[q] \in {NotCached, db[q]}
              /\ q > me.size => ca[q] = NotCached /\ db[q] = Absent
        <4> SUFFICES ASSUME NEW q \in Pages
              PROVE  /\ q \in me.dirty => /\ ca[q] # NotCached
                                          /\ q <= Size(img) => Saved(jrnl.recs, q)
                     /\ q \notin me.dirty => ca[q] \in {NotCached, db[q]}
                     /\ q > me.size => ca[q] = NotCached /\ db[q] = Absent
          OBVIOUS
        <4>1. p > me.size => FALSE
          BY <1>1, <1>3 DEF Typed, Pages
        <4> QED
          BY <2>1, <2>2, <3>1, <3>2, <4>1 DEF Live
      <3> QED
        BY <1>1, <1>2, <2>1, <3>3, <3>4 DEF Live, Turned, Untouched, Calling
    <2> QED
      BY <1>1, <1>2, <2>1, <2>4, <2>5, WriterUntouched DEF Turned
  <1> QED
    BY <1>1, <1>4, <1>5

LEMMA SpillInv ==
  ASSUME ProtocolInv, NEW img, Inv(img), NEW c \in Conn, NEW p \in Pages, Spill(c, p)
  PROVE  Inv(img)'
  <1> DEFINE me == pager[c]
             l == IF p \in me.needSync \/ me.eState = "CACHEMOD" THEN "lock" ELSE "write"
  <1>1. /\ Untouched /\ me.pc = "none" /\ me.eState \in {"CACHEMOD", "DBMOD"}
        /\ p \in me.dirty \ {1}
    BY DEF Spill, Untouched, files, Idle, At
  <1>2. Turned(c, me.eState, l, me.cache, me.dirty, me.needSync, me.size, me.vers, p, me.todo)
    BY AtPlace, AfterSpill
  <1>3. Typed(c) /\ Live(c, img) /\ me.todo = <<>> /\ Changing(c)
    BY <1>1, WriterKnows DEF Changing
  <1>4. p # 0 /\ p \in 0 .. N
    BY BoundsAreNat DEF Pages
  <1>5. Typed(c)'
    BY <1>1, <1>2, <1>3, <1>4 DEF Typed, Turned, Untouched
  <1>6. Counting1(c, img)'
    BY <1>1, <1>2, <1>3, <1>4 DEF Live, Counting1, Versed, Turned, Untouched, Calling
  <1>7. Live(c, img)'
    BY <1>1, <1>2, <1>3, <1>4, <1>6 DEF Live, Turned, Untouched, Calling
  <1> QED
    BY <1>1, <1>2, <1>3, <1>5, <1>7, WriterUntouched DEF Turned

LEMMA TakeExclusiveInv ==
  ASSUME ProtocolInv, NEW img, Inv(img), NEW c \in Conn, TakeExclusive(c)
  PROVE  Inv(img)'
  <1> DEFINE me == pager[c]
  <1>1. Untouched /\ me.pc = "lock"
    BY DEF TakeExclusive, Untouched, files, At
  <1>2. me.eState \in {"CACHEMOD", "DBMOD"}
    BY <1>1, AtPlace DEF PlacedAt, Calling
  <1>3. Typed(c) /\ Live(c, img) /\ me.todo = <<>> /\ Changing(c)
    BY <1>1, <1>2, WriterKnows DEF Changing
  <1>4. ASSUME NEW l \in {"none", "sync"}, Moved(c, l) PROVE Inv(img)'
    <2>1. Typed(c)'
      BY <1>1, <1>3, <1>4 DEF Typed, Moved, Turned, Untouched
    <2>2. Counting1(c, img)'
      BY <1>1, <1>3, <1>4 DEF Live, Counting1, Versed, Moved, Turned, Untouched, Calling
    <2>3. Live(c, img)'
      BY <1>1, <1>3, <1>4, <2>2 DEF Live, Moved, Turned, Untouched, Calling
    <2> QED
      BY <1>1, <1>3, <1>4, <2>1, <2>3, WriterUntouched DEF Moved, Turned
  <1>5. Moved(c, "none") \/ Moved(c, "sync")
    BY AtPlace, Moves
  <1> QED
    BY <1>4, <1>5

LEMMA SyncRecordsInv ==
  ASSUME ProtocolInv, NEW img, Inv(img), NEW c \in Conn, SyncRecords(c)
  PROVE  Inv(img)'
  <1> DEFINE me == pager[c]
  <1>1. /\ Moved(c, "count") /\ me.pc = "sync" /\ jDisk' = {jrnl} /\ previous' = None
        /\ UNCHANGED <<db, dbDisk, jrnl, nextTx>>
    BY AtPlace, Moves DEF SyncRecords, SyncJournal, At
  <1>2. me.eState \in {"CACHEMOD", "DBMOD"}
    BY <1>1, AtPlace DEF PlacedAt, Calling
  <1>3. /\ Typed(c) /\ Files(img) /\ Journalling(c, img) /\ Live(c, img) /\ me.todo = <<>>
        /\ lock[c] >= RESERVED_LOCK
        /\ me.eState = "DBMOD" => Protected(c, img)
    BY <1>1, <1>2, WriterKnows DEF Changing
  <1>4. Files(img)' /\ (Clean(img) <=> Clean(img)') /\ jrnl \in jDisk
    BY <1>1, <1>3, JournalSynced DEF Files, FilesTyped
  <1>5. Typed(c)'
    BY <1>1, <1>3 DEF Typed, Moved, Turned
  <1>6. Journalling(c, img)'
    BY <1>1, <1>3, <1>4 DEF Journalling, Moved, Turned
  <1>7. me.eState = "DBMOD" => Protected(c, img)'
    BY <1>1, <1>3, <1>4 DEF Protected, Settled, Moved, Turned
  <1>8. Live(c, img)'
    <2>1. Counting1(c, img)'
      BY <1>1, <1>3 DEF Live, Counting1, Versed, Moved, Turned, Calling
    <2> QED
      BY <1>1, <1>3, <2>1 DEF Live, Moved, Turned, Calling
  <1>9. Connection(c, img)'
    BY <1>1, <1>2, <1>5, <1>6, <1>7, <1>8 DEF Connection, Writer, Moved, Turned
  <1>10. nextTx' \in Nat /\ nextTx' >= nextTx
    BY <1>1 DEF ProtocolInv
  <1> QED
    BY <1>1, <1>3, <1>4, <1>9, <1>10, StepOfWriter DEF Moved, Turned

LEMMA CountRecordsInv ==
  ASSUME ProtocolInv, NEW img, Inv(img), NEW c \in Conn, CountRecords(c)
  PROVE  Inv(img)'
  <1> DEFINE me == pager[c]
             new == Counting(jrnl)
  <1>1. /\ Moved(c, "resync") /\ me.pc = "count" /\ jrnl' = new
        /\ jDisk' = jDisk \cup {Counting(x) : x \in SameFile(jDisk, jrnl)}
        /\ UNCHANGED <<db, dbDisk, nextTx, previous>>
    BY AtPlace, Moves DEF CountRecords, At
  <1>2. me.eState \in {"CACHEMOD", "DBMOD"}
    BY <1>1, AtPlace DEF PlacedAt, Calling
  <1>3. /\ Typed(c) /\ Files(img) /\ Whole(img) /\ Journalling(c, img) /\ Live(c, img) /\ me.todo = <<>>
        /\ lock[c] >= RESERVED_LOCK /\ jrnl \in Journal
        /\ me.eState = "CACHEMOD" => Clean(img)
        /\ me.eState = "DBMOD" => Hot(jrnl) /\ Restores(jrnl, img) /\ Protected(c, img)
    BY <1>1, <1>2, WriterKnows DEF Changing
  <1>4. jDisk = {jrnl} /\ previous = None /\ jDisk' = {jrnl, new}
    <2>1. jDisk = {jrnl} /\ previous = None
      BY <1>1, <1>3 DEF Live
    <2>2. SameFile(jDisk, jrnl) = {jrnl}
      BY <2>1 DEF SameFile
    <2> HIDE DEF new
    <2>3. {Counting(x) : x \in {jrnl}} = {new}
      BY DEF new
    <2> QED
      BY <1>1, <2>1, <2>2, <2>3
  <1>5. /\ new.tx = jrnl.tx /\ new.orig = jrnl.orig /\ new.counted = Len(jrnl.recs)
        /\ new.recs = jrnl.recs /\ new \in Journal
    <2>1. IsJournal(jrnl) /\ Len(jrnl.recs) \in Nat
      BY <1>3, JournalType
    <2>2. new = [tx |-> jrnl.tx, orig |-> jrnl.orig, counted |-> Len(jrnl.recs), recs |-> jrnl.recs]
      BY <2>1, CountingShape
    <2> HIDE DEF new
    <2>3. jrnl.tx \in 1 .. nextTx - 1 /\ jrnl.orig \in 0 .. N /\ jrnl.recs \in Seq([pg : Int, val : Int])
      BY <1>3, JournalType
    <2> QED
      BY <2>1, <2>2, <2>3 DEF Journal
  <1> HIDE DEF new
  <1>6. Hot(new)
    BY <1>3, <1>5, HotJournal, JournalType DEF Cold
  <1>7. Restores(new, img)
    <2>1. \A i \in 1 .. new.counted : OldPage(new.recs[i], img)
      BY <1>3, <1>5, JournalType DEF Journalling
    <2>2. ASSUME NEW p \in 1 .. new.orig
          PROVE  /\ db[p] # Absent /\ Absent \notin dbDisk[p]
                 /\ InJournal(new, p) \/ Settled(p, img)
      <3>1. p \in Pages /\ p <= Size(img) /\ new.orig = Size(img)
        BY <1>3, <1>5, SizeType, BoundsAreNat DEF Journalling, Pages
      <3>2. CASE me.eState = "CACHEMOD"
        <4>1. img[p] # Absent /\ Settled(p, img)
          BY <1>3, <3>1, <3>2, WholeSize DEF Clean
        <4> QED
          BY <4>1 DEF Settled
      <3>3. CASE me.eState = "DBMOD"
        <4>1. /\ db[p] # Absent /\ Absent \notin dbDisk[p]
              /\ InJournal(jrnl, p) \/ Settled(p, img)
          BY <1>3, <1>5, <3>3 DEF Restores
        <4>2. InJournal(jrnl, p) => InJournal(new, p)
          BY <1>3, <1>5, JournalType DEF InJournal
        <4> QED
          BY <4>1, <4>2
      <3> QED
        BY <1>2, <3>2, <3>3
    <2>3. new.orig = Size(img)
      BY <1>3, <1>5 DEF Journalling
    <2> QED
      BY <2>1, <2>2, <2>3 DEF Restores
  <1>8. Files(img)' /\ (Clean(img) <=> Clean(img)')
    <2>1. FilesTyped'
      BY <1>1, <1>3, <1>4, <1>5 DEF Files, FilesTyped, Journal
    <2>2. \A x : Whole(x) <=> Whole(x)'
      BY <1>1 DEF Whole
    <2>3. \A x, j : Restores(j, x) <=> Restores(j, x)'
      BY <1>1 DEF Restores, Settled
    <2>4. Clean(img) <=> Clean(img)'
      BY <1>1 DEF Clean, Settled
    <2>5. Recoverable(jrnl, img)
      BY <1>3 DEF Files, FilesTyped
    <2>6. \A j \in jDisk' : Recoverable(j, img)'
      BY <1>1, <1>4, <1>6, <1>7, <2>3, <2>4, <2>5 DEF Recoverable
    <2> QED
      BY <1>1, <1>3, <1>4, <1>5, <2>1, <2>2, <2>4, <2>6 DEF Files
  <1>9. Typed(c)'
    BY <1>1, <1>3 DEF Typed, Moved, Turned
  <1>10. Journalling(c, img)'
    BY <1>1, <1>3, <1>5, <1>6, <1>8 DEF Journalling, Moved, Turned
  <1>11. me.eState = "DBMOD" => Protected(c, img)'
    <2> SUFFICES ASSUME me.eState = "DBMOD" PROVE Protected(c, img)'
      OBVIOUS
    <2>1. \A p \in me.needSync : p <= Size(img) => Settled(p, img)'
      BY <1>1, <1>3 DEF Protected, Settled
    <2>2. \A i \in DOMAIN new.recs : i <= new.counted
      BY <1>3, <1>5, JournalType
    <2>3. \A j \in jDisk' : /\ Hot(j)
                            /\ \A i \in DOMAIN new.recs :
                                 new.recs[i].pg \notin me.needSync =>
                                   i <= j.counted /\ j.recs[i] = new.recs[i]
      BY <1>3, <1>4, <1>5, <1>6, <2>2 DEF Protected
    <2> QED
      BY <1>1, <2>1, <2>3 DEF Protected, Moved, Turned
  <1>12. Live(c, img)'
    <2>1. Counting1(c, img)'
      BY <1>1, <1>3 DEF Live, Counting1, Versed, Moved, Turned, Calling
    <2> QED
      BY <1>1, <1>3, <1>4, <1>5, <2>1 DEF Live, Moved, Turned, Calling
  <1>13. Connection(c, img)'
    BY <1>1, <1>2, <1>9, <1>10, <1>11, <1>12 DEF Connection, Writer, Moved, Turned
  <1>14. nextTx' \in Nat /\ nextTx' >= nextTx
    BY <1>1 DEF ProtocolInv
  <1> QED
    BY <1>1, <1>3, <1>8, <1>13, <1>14, StepOfWriter DEF Moved, Turned

LEMMA SyncHeaderInv ==
  ASSUME ProtocolInv, NEW img, Inv(img), NEW c \in Conn, SyncHeader(c)
  PROVE  Inv(img)'
  <1> DEFINE me == pager[c]
  <1>1. /\ me.pc = "resync" /\ jDisk' = {jrnl}
        /\ UNCHANGED <<db, dbDisk, jrnl, nextTx, previous>>
    BY DEF SyncHeader, SyncJournal, At
  <1>2. me.eState \in {"CACHEMOD", "DBMOD"}
    BY <1>1, AtPlace DEF PlacedAt, Calling
  <1>3. Turned(c, "DBMOD", "write", me.cache, me.dirty, {}, me.size, me.vers, me.job, me.todo)
    BY AtPlace, AfterSyncHeader
  <1>4. /\ Typed(c) /\ Files(img) /\ Journalling(c, img) /\ Live(c, img) /\ me.todo = <<>>
        /\ lock[c] >= RESERVED_LOCK /\ jrnl \in Journal
    BY <1>1, <1>2, WriterKnows DEF Changing
  <1>5. Files(img)' /\ (Clean(img) <=> Clean(img)')
    BY <1>1, <1>4, JournalSynced
  <1>6. jrnl.counted = Len(jrnl.recs) /\ Hot(jrnl)
    BY <1>1, <1>4, HotJournal, JournalType DEF Live, Cold
  <1>7. Typed(c)'
    BY <1>1, <1>3, <1>4 DEF Typed, Turned
  <1>8. Journalling(c, img)'
    BY <1>1, <1>3, <1>4, <1>6 DEF Journalling, Turned
  <1>9. Protected(c, img)'
    <2>1. \A i \in DOMAIN jrnl.recs : i <= jrnl.counted
      BY <1>4, <1>6, JournalType
    <2> QED
      BY <1>1, <1>3, <1>6, <2>1 DEF Protected, Turned
  <1>10. Live(c, img)'
    <2>1. Counting1(c, img)'
      BY <1>1, <1>3, <1>4 DEF Live, Counting1, Versed, Turned, Calling
    <2> QED
      BY <1>1, <1>3, <1>4, <2>1 DEF Live, Turned, Calling
  <1>11. Connection(c, img)'
    BY <1>3, <1>7, <1>8, <1>9, <1>10 DEF Connection, Writer, Turned
  <1>12. nextTx' \in Nat /\ nextTx' >= nextTx
    BY <1>1 DEF ProtocolInv
  <1> QED
    BY <1>3, <1>4, <1>5, <1>11, <1>12, StepOfWriter DEF Turned

\* The page that is written is dirty and all its bytes are in the cache.
LEMMA PageToWrite ==
  ASSUME NEW img, NEW c \in Conn, Typed(c), Live(c, img), nextTx \in 1 .. MaxTx + 1,
         pager[c].pc = "write", pager[c].dirty # {},
         NEW p, p = IF pager[c].job = 0 THEN Min(pager[c].dirty) ELSE pager[c].job,
         NEW v, v = IF p = 1 THEN pager[c].vers + 1 ELSE pager[c].cache[p]
  PROVE  /\ p \in pager[c].dirty /\ p \in Pages /\ p \notin pager[c].needSync
         /\ v = pager[c].cache[p] /\ v \in Data
         /\ p = 1 => pager[c].job = 0 /\ pager[c].vers < nextTx - 1 /\ v = pager[c].vers + 1
                     /\ pager[c].vers >= Counter(img[1])
  <1> DEFINE me == pager[c]
  <1>1. me.dirty \subseteq Pages
    BY DEF Typed
  <1>2. p \in me.dirty /\ (me.job # 0 => p # 1)
    BY <1>1, MinOfPages DEF Live, Calling
  <1>3. p \notin me.needSync
    BY DEF Live
  <1>4. me.cache[p] # NotCached /\ me.cache[p] \in Data
    BY <1>1, <1>2 DEF Live, Typed
  <1>5. CASE p # 1
    BY <1>1, <1>2, <1>3, <1>4, <1>5
  <1>6. CASE p = 1
    <2>1. /\ me.vers >= Counter(img[1]) /\ me.vers < nextTx - 1
          /\ 1 \in me.dirty /\ me.cache[1] = me.vers + 1
      BY <1>2, <1>6 DEF Live, Counting1, Calling
    <2> QED
      BY <1>1, <1>2, <1>3, <1>4, <1>6, <2>1
  <1> QED
    BY <1>5, <1>6

LEMMA WritePageInv ==
  ASSUME ProtocolInv, NEW img, Inv(img), NEW c \in Conn, WritePage(c)
  PROVE  Inv(img)'
  <1> DEFINE me == pager[c]
             me2 == pager'[c]
             p == IF me.job = 0 THEN Min(me.dirty) ELSE me.job
             v == IF p = 1 THEN me.vers + 1 ELSE me.cache[p]
             ca == [me.cache EXCEPT ![p] = IF me.job = 0 THEN me.cache[p] ELSE NotCached]
  <1>1. /\ me.pc = "write" /\ me.dirty # {} /\ Put(p, v)
        /\ UNCHANGED <<jrnl, jDisk, nextTx, previous>>
    BY DEF WritePage, At
  <1>2. me.eState = "DBMOD" /\ lock[c] = EXCLUSIVE_LOCK
    BY <1>1, AtPlace DEF PlacedAt, Calling
  <1>3. /\ Typed(c) /\ Files(img) /\ Whole(img) /\ Journalling(c, img) /\ Live(c, img) /\ me.todo = <<>>
        /\ jrnl \in Journal /\ Hot(jrnl) /\ Protected(c, img)
    BY <1>1, <1>2, WriterKnows DEF Changing
  <1>4. Turned(c, me.eState, IF me.job = 0 THEN me.pc ELSE "none", ca, me.dirty \ {p}, me.needSync,
               me.size, IF p = 1 THEN v ELSE me.vers, 0, me.todo)
    BY AtPlace, AfterWritePage
  <1>5. nextTx \in 1 .. MaxTx + 1 /\ nextTx \in Nat
    BY <1>3 DEF Files, FilesTyped, ProtocolInv
  <1>6. p = (IF me.job = 0 THEN Min(me.dirty) ELSE me.job) /\ v = (IF p = 1 THEN me.vers + 1 ELSE me.cache[p])
    OBVIOUS
  <1>7. /\ me2.eState = me.eState /\ me2.pc = (IF me.job = 0 THEN "write" ELSE "none")
        /\ me2.cache = ca /\ me2.dirty = me.dirty \ {p} /\ me2.needSync = me.needSync
        /\ me2.size = me.size /\ me2.vers = (IF p = 1 THEN v ELSE me.vers) /\ me2.job = 0
        /\ me2.todo = <<>> /\ \A d \in Conn \ {c} : pager'[d] = pager[d]
    BY <1>1, <1>3, <1>4 DEF Turned
  <1>8. ca = [me.cache EXCEPT ![p] = IF me.job = 0 THEN me.cache[p] ELSE NotCached]
    OBVIOUS
  <1> HIDE DEF p, v, ca
  <1>9. /\ p \in me.dirty /\ p \in Pages /\ p \notin me.needSync
        /\ v = me.cache[p] /\ v \in Data
        /\ p = 1 => me.job = 0 /\ me.vers < nextTx - 1 /\ v = me.vers + 1 /\ me.vers >= Counter(img[1])
    BY <1>1, <1>3, <1>5, <1>6, PageToWrite
  <1>10. \A j \in jDisk : Hot(j) /\ (p <= Size(img) => InJournal(j, p))
    <2>1. CASE p <= Size(img)
      <3>1. Saved(jrnl.recs, p)
        BY <1>3, <1>9, <2>1 DEF Live
      <3> QED
        BY <1>3, <1>9, <3>1, InAllJournals
    <2>2. CASE ~(p <= Size(img))
      BY <1>3, <2>2 DEF Protected
    <2> QED
      BY <2>1, <2>2
  <1>11. /\ Files(img)'
         /\ db'[p] = v /\ \A q \in Pages \ {p} : db'[q] = db[q] /\ dbDisk'[q] = dbDisk[q]
    BY <1>1, <1>3, <1>9, <1>10, PageWritten
  <1>12. /\ ca \in [Pages -> Data \cup {NotCached}]
         /\ ca[p] = (IF me.job = 0 THEN v ELSE NotCached)
         /\ \A q \in Pages \ {p} : ca[q] = me.cache[q]
    BY <1>3, <1>8, <1>9 DEF Typed
  <1>13. Typed(c)'
    <2>1. me2.vers \in 0 .. nextTx - 1
      BY <1>3, <1>5, <1>7, <1>9 DEF Typed
    <2>2. 0 \in 0 .. N /\ <<>> \in Seq([pg : Pages, val : Data])
      BY BoundsAreNat
    <2> QED
      BY <1>1, <1>3, <1>7, <1>12, <2>1, <2>2 DEF Typed
  <1>14. Journalling(c, img)'
    BY <1>1, <1>2, <1>3, <1>7 DEF Journalling
  <1>15. Protected(c, img)'
    <2>1. \A q \in me.needSync : q <= Size(img) => Settled(q, img)'
      BY <1>3, <1>9, <1>11 DEF Protected, Settled, Typed
    <2> QED
      BY <1>1, <1>3, <1>7, <2>1 DEF Protected
  <1>16. Counting1(c, img)'
    <2>1. me.vers \in Int /\ Counter(img[1]) \in Int
      BY <1>3, FirstPage DEF Typed, ProtocolInv, Whole, Counter, Data, Absent
    <2>2. Counting1(c, img)
      BY <1>3 DEF Live
    <2>3. CASE me.job = 0 /\ p = 1
      <3>1. me2.pc = "write" /\ me2.job = 0 /\ 1 \notin me2.dirty
        BY <1>7, <2>3
      <3>2. me2.cache[1] = v /\ db'[1] = v /\ me2.vers = v
        BY <1>7, <1>11, <1>12, <2>3
      <3>3. v > Counter(img[1]) /\ v < nextTx
        BY <1>5, <1>9, <2>1, <2>3
      <3> QED
        BY <1>1, <3>1, <3>2, <3>3 DEF Counting1
    <2>4. CASE me.job = 0 /\ p # 1
      <3>1. me2.pc = "write" /\ me2.job = 0 /\ (1 \in me2.dirty <=> 1 \in me.dirty)
        BY <1>7, <2>4
      <3>2. me2.cache[1] = me.cache[1] /\ db'[1] = db[1] /\ me2.vers = me.vers
        BY <1>7, <1>11, <1>12, <2>4, FirstPage
      <3> QED
        BY <1>1, <2>2, <2>4, <3>1, <3>2 DEF Counting1, Versed, Calling
    <2>5. CASE me.job # 0
      <3>1. me2.pc = "none" /\ me2.vers = me.vers
        BY <1>7, <1>9, <2>5
      <3> QED
        BY <1>1, <2>2, <2>5, <3>1 DEF Counting1, Versed, Calling
    <2> QED
      BY <2>3, <2>4, <2>5
  <1>17. Live(c, img)'
    <2>1. ASSUME NEW q \in Pages
          PROVE  /\ q \in me2.dirty => /\ me2.cache[q] # NotCached
                                       /\ q <= Size(img) => Saved(jrnl'.recs, q)
                 /\ q \notin me2.dirty => me2.cache[q] \in {NotCached, db'[q]}
                 /\ q > me2.size => me2.cache[q] = NotCached /\ db'[q] = Absent
                 /\ q <= Size(img) \/ (q <= me2.size /\ q \notin me2.dirty) => db'[q] \in Data
                 /\ db'[q] # Torn
      <3>1. CASE q = p
        <4>1. p <= me.size /\ ~(p > me.size)
          BY <1>3, <1>9 DEF Live, Typed
        <4>2. v # Torn
          BY <1>9 DEF Data, Torn
        <4> QED
          BY <1>7, <1>9, <1>11, <1>12, <3>1, <4>1, <4>2
      <3>2. CASE q # p
        BY <1>1, <1>3, <1>7, <1>11, <1>12, <3>2 DEF Live
      <3> QED
        BY <3>1, <3>2
    <2>2. me2.dirty \subseteq 1 .. me2.size /\ Size(img) <= me2.size
      BY <1>3, <1>7 DEF Live
    <2>3. me2.pc # "count" /\ me2.pc # "resync" /\ me2.job = 0
      BY <1>7
    <2>4. me2.pc = "write" => me2.needSync = {}
      BY <1>1, <1>3, <1>7 DEF Live
    <2> QED
      BY <1>16, <2>1, <2>2, <2>3, <2>4 DEF Live
  <1>18. Connection(c, img)'
    BY <1>2, <1>7, <1>13, <1>14, <1>15, <1>17 DEF Connection, Writer
  <1>19. Counter(img[1]) \in Int
    BY <1>3, FirstPage DEF Whole, Counter, Data, Absent
  <1> QED
    BY <1>1, <1>2, <1>7, <1>11, <1>18, <1>19, StepOfOwner

LEMMA SyncFileInv ==
  ASSUME ProtocolInv, NEW img, Inv(img), NEW c \in Conn, SyncFile(c)
  PROVE  Inv(img)'
  <1> DEFINE me == pager[c]
  <1>1. /\ me.pc = "write" /\ me.dirty = {} /\ SyncDatabase
        /\ UNCHANGED <<db, jrnl, jDisk, nextTx, previous>>
    BY DEF SyncFile, At
  <1>2. me.eState = "DBMOD" /\ lock[c] = EXCLUSIVE_LOCK
    BY <1>1, AtPlace DEF PlacedAt, Calling
  <1>3. /\ Typed(c) /\ Files(img) /\ Whole(img) /\ Live(c, img) /\ me.todo = <<>> /\ Hot(jrnl)
    BY <1>1, <1>2, WriterKnows DEF Changing
  <1>4. Turned(c, "FINISHED", "finalize", me.cache, me.dirty, me.needSync, me.size, me.vers,
            me.job, me.todo)
    BY AtPlace, AfterSyncFile
  <1>5. /\ me.cache[1] = me.vers /\ db[1] = me.vers
        /\ me.vers > Counter(img[1]) /\ me.vers < nextTx
    BY <1>1, <1>3 DEF Live, Counting1, Calling
  <1>6. /\ \A p \in Pages : /\ db[p] # Absent <=> p <= me.size
                            /\ db[p] \in Data \cup {Absent} /\ me.cache[p] \in {NotCached, db[p]}
        /\ Size(db) = me.size
    <2>1. ASSUME NEW p \in Pages
          PROVE /\ db[p] # Absent <=> p <= me.size
                /\ db[p] \in Data \cup {Absent} /\ me.cache[p] \in {NotCached, db[p]}
      <3>1. me.size \in Int /\ p \in Int
        BY <1>3, BoundsAreNat DEF Typed, Pages
      <3>2. CASE p <= me.size
        <4>1. db[p] \in Data /\ Absent \notin Data
          BY <1>1, <1>3, <3>2 DEF Live, Data, Absent
        <4> QED
          BY <1>1, <1>3, <3>2, <4>1 DEF Live
      <3>3. CASE p > me.size
        BY <1>1, <1>3, <3>1, <3>3 DEF Live
      <3> QED
        BY <3>1, <3>2, <3>3
    <2>2. me.size \in 0 .. N
      BY <1>3 DEF Typed
    <2> QED
      BY <2>1, <2>2, SizeIs
  <1>7. Files(img)'
    BY <1>1, <1>3, FileSynced
  <1>8. Typed(c)'
    BY <1>1, <1>3, <1>4 DEF Typed, Turned
  <1>9. Whole(db)'
    <2>1. db \in [Pages -> Data \cup {Absent}]
      BY <1>3, <1>6 DEF Files, FilesTyped
    <2>2. Counter(db[1]) < nextTx
      BY <1>3, <1>5 DEF Counter, Absent, Typed, ProtocolInv
    <2> QED
      BY <1>1, <1>6, <2>1, <2>2 DEF Whole
  <1>10. Committing(c, img)'
    <2>1. \A p \in Pages : dbDisk'[p] = {db'[p]}
      BY <1>1 DEF SyncDatabase
    <2> QED
      BY <1>1, <1>3, <1>4, <1>5, <1>6, <1>9, <2>1 DEF Committing, Agrees, Turned
  <1>11. Connection(c, img)'
    BY <1>4, <1>8, <1>10 DEF Connection, Turned
  <1>12. Counter(img[1]) \in Int
    BY <1>3, FirstPage DEF Whole, Counter, Data, Absent
  <1> QED
    BY <1>1, <1>2, <1>4, <1>7, <1>11, <1>12, StepOfOwner DEF Turned

-----------------------------------------------------------------------------
(* Pages that change                                                       *)

\* A record that no header counts changes nothing about recovery.
LEMMA AppendKeeps ==
  ASSUME NEW x, IsJournal(x), x.recs \in Seq([pg : Int, val : Int]),
         x.counted \in Int, x.counted <= Len(x.recs),
         NEW r \in [pg : Int, val : Int]
  PROVE  LET y == Appended(x, r) IN
         /\ IsJournal(y)
         /\ y = [tx |-> x.tx, orig |-> x.orig, counted |-> x.counted, recs |-> y.recs]
         /\ y.tx = x.tx /\ y.orig = x.orig /\ y.counted = x.counted
         /\ y.recs \in Seq([pg : Int, val : Int]) /\ y.counted <= Len(y.recs)
         /\ DOMAIN x.recs = 1 .. Len(x.recs) /\ DOMAIN y.recs = 1 .. Len(x.recs) + 1
         /\ \A i \in 1 .. Len(x.recs) : y.recs[i] = x.recs[i]
         /\ y.recs[Len(x.recs) + 1] = r
         /\ Hot(y) <=> Hot(x)
         /\ \A img : Restores(y, img) <=> Restores(x, img)
  <1> DEFINE y == Appended(x, r)
             S == [pg : Int, val : Int]
             s == x.recs
  <1>1. /\ y = [tx |-> x.tx, orig |-> x.orig, counted |-> x.counted, recs |-> Append(s, r)]
        /\ IsJournal(y)
    BY AppendedShape
  <1>2. s \in Seq(S) /\ r \in S
    OBVIOUS
  <1> HIDE DEF y, S, s
  <1>3. /\ Append(s, r) \in Seq(S) /\ Len(Append(s, r)) = Len(s)+1
        /\ \A i \in 1 .. Len(s) : Append(s, r)[i] = s[i]
        /\ Append(s, r)[Len(s)+1] = r
    BY <1>2, AppendProperties
  <1>4. DOMAIN s = 1 .. Len(s) /\ DOMAIN Append(s, r) = 1 .. Len(s)+1 /\ Len(s) \in Nat
    BY <1>2, <1>3, LenProperties
  <1>5. /\ y.tx = x.tx /\ y.orig = x.orig /\ y.counted = x.counted /\ y.recs = Append(s, r)
    BY <1>1
  <1>6. Hot(y) <=> Hot(x)
    <2>1. x # NoFile /\ y # NoFile
      BY <1>1, NoFileFields DEF IsJournal
    <2> QED
      BY <1>5, <2>1 DEF Hot
  <1>7. \A i \in 1 .. x.counted : y.recs[i] = x.recs[i]
    BY <1>3, <1>4, <1>5 DEF s
  <1>8. \A img : Restores(y, img) <=> Restores(x, img)
    <2>1. \A p : InJournal(y, p) <=> InJournal(x, p)
      BY <1>5, <1>7 DEF InJournal
    <2>2. \A img : (\A i \in 1 .. x.counted : OldPage(x.recs[i], img))
                   <=> (\A i \in 1 .. x.counted : OldPage(y.recs[i], img))
      BY <1>7
    <2> QED
      BY <1>5, <2>1, <2>2 DEF Restores
  <1>9. y = [tx |-> x.tx, orig |-> x.orig, counted |-> x.counted, recs |-> y.recs]
    BY <1>1, <1>5
  <1>10. y.counted <= Len(y.recs) /\ DOMAIN y.recs = 1 .. Len(s)+1
    BY <1>3, <1>4, <1>5 DEF s
  <1>11. /\ \A i \in 1 .. Len(s) : y.recs[i] = s[i]
         /\ y.recs[Len(s)+1] = r /\ y.recs \in Seq(S)
    BY <1>3, <1>5
  <1> QED
    BY <1>1, <1>4, <1>5, <1>6, <1>8, <1>9, <1>10, <1>11 DEF y, s, S

\* What is known of a connection that is about to change a page.
LEMMA BeforeWrite ==
  ASSUME ProtocolInv, NEW img, Inv(img), NEW c \in Conn,
         pager[c].pc = "none", pager[c].eState \in Writing
  PROVE  LET me == pager[c]
             own == OwnJournal(c)
             next == IF Opening(c) THEN nextTx + 1 ELSE nextTx
         IN
         /\ Typed(c) /\ Files(img) /\ Whole(img) /\ me.todo = <<>> /\ lock[c] >= RESERVED_LOCK
         /\ next \in 1 .. MaxTx + 1
         /\ IsJournal(own) /\ own.tx = next - 1 /\ own.tx >= 1 /\ own.orig = Size(img)
         /\ own.counted \in Nat \cup {Cold} /\ own.counted <= Len(own.recs)
         /\ own.recs \in Seq([pg : Int, val : Int])
         /\ \A i \in DOMAIN own.recs : OldPage(own.recs[i], img)
         /\ IF Opening(c) THEN ~Hot(own) /\ Clean(img) ELSE jrnl = own
         /\ me.dirty \subseteq 1 .. me.size /\ Size(img) <= me.size
         /\ \A q \in Pages :
              /\ q \in me.dirty => /\ me.cache[q] # NotCached
                                   /\ q <= Size(img) => Saved(own.recs, q)
              /\ q \notin me.dirty => me.cache[q] \in {NotCached, db[q]}
              /\ q > me.size => me.cache[q] = NotCached /\ db[q] = Absent
              /\ q <= Size(img) \/ (q <= me.size /\ q \notin me.dirty) => db[q] \in Data
              /\ db[q] # Torn
              /\ q <= Size(img) => Saved(own.recs, q) \/ Settled(q, img)
         /\ Versed(c, img) /\ me.vers >= Counter(img[1]) /\ me.vers < next - 1
  <1> DEFINE me == pager[c]
             own == OwnJournal(c)
             next == IF Opening(c) THEN nextTx + 1 ELSE nextTx
  <1>1. Typed(c) /\ Files(img) /\ Whole(img) /\ me.todo = <<>> /\ nextTx \in 1 .. MaxTx + 1
    BY DEF Inv, Connection, Typed, Files, FilesTyped
  <1>2. CASE Opening(c)
    <2>1. /\ Reading(c, img) /\ nextTx <= MaxTx /\ me.eState = "LOCKED" /\ me.dirty = {}
          /\ lock[c] >= RESERVED_LOCK
      BY <1>1, <1>2, AtPlace DEF Inv, Connection, Opening, Typed, PlacedAt
    <2>2. /\ own.tx = nextTx /\ own.orig = me.size /\ own.counted = Cold /\ own.recs = <<>>
          /\ IsJournal(own) /\ next = nextTx + 1
      BY <1>2 DEF OwnJournal, Created, IsJournal, ProtocolInv
    <2> HIDE DEF own, next
    <2>3. <<>> \in Seq([pg : Int, val : Int]) /\ Len(<<>>) = 0 /\ DOMAIN <<>> = {}
      OBVIOUS
    <2>4. ~Hot(own)
      BY <2>2 DEF Hot
    <2>5. Clean(img) /\ me.size = Size(img) /\ Versed(c, img) /\ Agrees(c, img)
      BY <2>1 DEF Reading
    <2>6. ASSUME NEW q \in Pages
          PROVE  /\ me.cache[q] \in {NotCached, db[q]}
                 /\ q > me.size => me.cache[q] = NotCached /\ db[q] = Absent
                 /\ q <= Size(img) => db[q] \in Data
                 /\ db[q] # Torn /\ Settled(q, img)
      <3>1. db[q] = img[q] /\ me.cache[q] \in {NotCached, img[q]} /\ Settled(q, img)
        BY <2>5 DEF Clean, Settled, Agrees
      <3>2. me.cache[q] \in Data \cup {NotCached}
        BY <1>1 DEF Typed
      <3>3. img[q] \in Data \cup {Absent} /\ (img[q] # Absent <=> q <= Size(img))
            /\ (q <= Size(img) => img[q] \in Data)
        BY <1>1, WholeSize
      <3>4. q > Size(img) => ~(q <= Size(img))
        BY SizeType, BoundsAreNat DEF Pages
      <3> QED
        BY <2>5, <3>1, <3>2, <3>3, <3>4 DEF Data, Absent, NotCached, Torn
    <2>7. me.vers >= Counter(img[1]) /\ me.vers < next - 1 /\ me.vers \in Int
      <3>1. me.vers \in 0 .. nextTx - 1
        BY <1>1 DEF Typed
      <3> QED
        BY <1>1, <2>2, <2>5, <3>1, WholeSize DEF Versed
    <2>8. Size(img) <= me.size /\ next \in 1 .. MaxTx + 1 /\ next - 1 = nextTx
      BY <1>1, <2>1, <2>2, <2>5, SizeType, BoundsAreNat
    <2> QED
      BY <1>1, <1>2, <2>1, <2>2, <2>3, <2>4, <2>5, <2>6, <2>7, <2>8 DEF own, next, Cold
  <1>3. CASE ~Opening(c)
    <2>1. me.eState \in {"CACHEMOD", "DBMOD"}
      BY <1>3 DEF Opening, Writing
    <2>2. /\ Journalling(c, img) /\ Live(c, img) /\ lock[c] >= RESERVED_LOCK /\ jrnl \in Journal
          /\ me.eState = "CACHEMOD" => Clean(img)
          /\ me.eState = "DBMOD" => Restores(jrnl, img)
      BY <2>1, WriterKnows DEF Changing
    <2>3. own = jrnl /\ next = nextTx
      BY <1>3 DEF OwnJournal
    <2> HIDE DEF own, next
    <2>4. /\ IsJournal(jrnl) /\ jrnl.tx = nextTx - 1 /\ jrnl.orig = Size(img) /\ jrnl.tx >= 1
          /\ jrnl.counted \in Nat \cup {Cold} /\ jrnl.counted <= Len(jrnl.recs)
          /\ jrnl.recs \in Seq([pg : Int, val : Int])
          /\ \A i \in DOMAIN jrnl.recs : OldPage(jrnl.recs[i], img)
      BY <2>2, JournalType DEF Journalling, Journal
    <2>5. \A q \in Pages : q <= Size(img) => Saved(jrnl.recs, q) \/ Settled(q, img)
      BY <2>1, <2>2, SavedOrSettled, SizeType DEF Clean, Pages
    <2>6. Versed(c, img) /\ me.vers >= Counter(img[1]) /\ me.vers < nextTx - 1
      BY <2>2 DEF Live, Counting1
    <2> QED
      BY <1>1, <1>3, <2>2, <2>3, <2>4, <2>5, <2>6 DEF Live, own, next
  <1> QED
    BY <1>2, <1>3

\* A page that has not been saved is in the image as c has it.
LEMMA OldContent ==
  ASSUME ProtocolInv, NEW img, Inv(img), NEW c \in Conn, NEW p \in Pages,
         pager[c].pc = "none", pager[c].eState \in Writing, Unsaved(c, p)
  PROVE  /\ p \in 1 .. Size(img)
         /\ (IF pager[c].cache[p] = NotCached THEN db[p] ELSE pager[c].cache[p]) = img[p]
         /\ [pg |-> p, val |-> img[p]] \in [pg : Int, val : Int]
  <1>1. /\ OwnJournal(c).orig = Size(img) /\ Whole(img)
        /\ \A q \in Pages :
             /\ q \in pager[c].dirty /\ q <= Size(img) => Saved(OwnJournal(c).recs, q)
             /\ q \notin pager[c].dirty => pager[c].cache[q] \in {NotCached, db[q]}
             /\ q <= Size(img) => Saved(OwnJournal(c).recs, q) \/ Settled(q, img)
    BY BeforeWrite
  <1>2. p <= Size(img) /\ ~Saved(OwnJournal(c).recs, p)
    BY <1>1 DEF Unsaved
  <1>3. p \notin pager[c].dirty /\ db[p] = img[p]
    BY <1>1, <1>2 DEF Settled
  <1>4. img[p] \in Data /\ p \in 1 .. Size(img) /\ p \in Int
    BY <1>1, <1>2, WholeSize DEF Pages
  <1>5. img[p] \in Int
    BY <1>4, BoundsAreNat DEF Data
  <1> QED
    BY <1>1, <1>3, <1>4, <1>5

\* The files after pager_write: whatever was recovered from them still is.
LEMMA JournalledFiles ==
  ASSUME ProtocolInv, NEW img, Inv(img), NEW c \in Conn, NEW p \in Pages,
         pager[c].pc = "none", pager[c].eState \in Writing, Journalled(c, p),
         UNCHANGED <<db, dbDisk, previous>>
  PROVE  LET own == OwnJournal(c)
             r == [pg |-> p, val |-> img[p]]
         IN
         /\ Files(img)' /\ (Clean(img) <=> Clean(img)')
         /\ nextTx' = (IF Opening(c) THEN nextTx + 1 ELSE nextTx)
         /\ IF Unsaved(c, p) THEN r \in [pg : Int, val : Int] /\ jrnl' = Appended(own, r) ELSE jrnl' = own
         /\ ~Opening(c) =>
              \A y \in jDisk' : \/ y \in jDisk
                                \/ Unsaved(c, p) /\ \E x \in jDisk, v \in {r, Garbage} :
                                                       x \in Journal /\ y = Appended(x, v)
  <1> DEFINE me == pager[c]
             own == OwnJournal(c)
             next == IF Opening(c) THEN nextTx + 1 ELSE nextTx
             r == [pg |-> p, val |-> img[p]]
             disk == IF Opening(c) THEN jDisk \cup {own} ELSE jDisk
             S == [pg : Int, val : Int]
             T == {j \in [tx : 1 .. next - 1, orig : 0 .. N, counted : Nat \cup {Cold}, recs : Seq(S)] :
                     j.counted <= Len(j.recs)}
  <1>1. nextTx' = next /\ nextTx \in 1 .. MaxTx + 1 /\ Journal' = T
    BY DEF Journalled, Journal, Inv, Files, FilesTyped
  <1>2. /\ Files(img) /\ Whole(img) /\ next \in 1 .. MaxTx + 1
        /\ IsJournal(own) /\ own.tx = next - 1 /\ own.tx >= 1 /\ own.orig = Size(img)
        /\ own.counted \in Nat \cup {Cold} /\ own.counted <= Len(own.recs)
        /\ own.recs \in Seq(S)
        /\ IF Opening(c) THEN ~Hot(own) /\ Clean(img) ELSE jrnl = own
    BY BeforeWrite
  <1>3. IF Unsaved(c, p)
        THEN /\ jrnl' = Appended(own, r)
             /\ jDisk' = disk \cup {Appended(x, v) : x \in SameFile(disk, own), v \in {r, Garbage}}
        ELSE jrnl' = own /\ jDisk' = disk
    <2> DEFINE old == IF me.cache[p] = NotCached THEN db[p] ELSE me.cache[p]
               r2 == [pg |-> p, val |-> old]
    <2>1. Unsaved(c, p) => r2 = r
      BY OldContent
    <2>2. IF Unsaved(c, p)
          THEN /\ jrnl' = Appended(own, r2)
               /\ jDisk' = disk \cup {Appended(x, v) : x \in SameFile(disk, own), v \in {r2, Garbage}}
          ELSE jrnl' = own /\ jDisk' = disk
      BY DEF Journalled, AppendRecord
    <2> HIDE DEF r, r2, old, own, disk
    <2> QED
      BY <2>1, <2>2
  <1>4. Unsaved(c, p) => r \in S
    BY OldContent
  <1>5. Garbage \in S
    BY DEF Garbage, Torn
  <1> HIDE DEF own, r, S
  <1>6. own \in T
    <2>1. own = [tx |-> own.tx, orig |-> own.orig, counted |-> own.counted, recs |-> own.recs]
      BY <1>2 DEF IsJournal
    <2>2. own.tx \in 1 .. next - 1 /\ own.orig \in 0 .. N
      BY <1>1, <1>2, SizeType
    <2> HIDE DEF next
    <2> QED
      BY <1>2, <2>1, <2>2
  <1> HIDE DEF T
  <1>7. /\ Clean(img) <=> Clean(img)'
        /\ \A j, x : Restores(j, x) <=> Restores(j, x)'
    BY DEF Clean, Restores, Settled
  <1>8. \A x : Whole(x) => Whole(x)'
    <2>1. nextTx' >= nextTx /\ nextTx \in Nat
      BY <1>1
    <2>2. ASSUME NEW x, Whole(x) PROVE Counter(x[1]) < nextTx'
      <3>1. Counter(x[1]) \in Int /\ Counter(x[1]) < nextTx
        BY <2>2, FirstPage DEF Whole, Counter, Data, Absent
      <3> QED
        BY <1>1, <2>1, <3>1
    <2> QED
      BY <2>2 DEF Whole
  <1>9. \A j : Recoverable(j, img) <=> Recoverable(j, img)'
    BY <1>7 DEF Recoverable
  <1>10. ASSUME NEW x \in disk PROVE x \in {NoFile} \cup T /\ Recoverable(x, img)
    <2>1. CASE x \in jDisk
      <3>1. x \in {NoFile} \cup Journal /\ Recoverable(x, img)
        BY <1>2, <2>1 DEF Files, FilesTyped
      <3>2. Journal \subseteq T
        <4> SUFFICES ASSUME NEW j \in Journal PROVE j \in T
          OBVIOUS
        <4>1. j.tx \in 1 .. next - 1
          BY <1>1, JournalType
        <4> HIDE DEF next
        <4> QED
          BY <4>1 DEF Journal, T, S
      <3> QED
        BY <3>1, <3>2
    <2>2. CASE x = own /\ Opening(c)
      BY <1>2, <1>6, <2>2 DEF Recoverable
    <2> QED
      BY <2>1, <2>2
  <1>11. ASSUME NEW x \in T, NEW v \in S
         PROVE  LET y == Appended(x, v) IN
                /\ y \in T /\ y.tx = x.tx /\ (Hot(y) <=> Hot(x))
                /\ Recoverable(x, img) <=> Recoverable(y, img)
    <2> DEFINE y == Appended(x, v)
    <2>1. /\ IsJournal(x) /\ x.recs \in Seq(S) /\ x.counted \in Int /\ x.counted <= Len(x.recs)
          /\ x.tx \in 1 .. next - 1 /\ x.orig \in 0 .. N /\ x.counted \in Nat \cup {Cold}
      <3>1. x = [tx |-> x.tx, orig |-> x.orig, counted |-> x.counted, recs |-> x.recs]
        BY DEF T
      <3>2. /\ x.recs \in Seq(S) /\ x.counted <= Len(x.recs)
            /\ x.tx \in 1 .. next - 1 /\ x.orig \in 0 .. N /\ x.counted \in Nat \cup {Cold}
        BY DEF T
      <3>3. x.counted \in Int /\ x.tx \in Nat \ {0}
        BY <1>1, <3>2 DEF Cold
      <3> QED
        BY <3>1, <3>2, <3>3 DEF IsJournal
    <2>2. /\ y = [tx |-> x.tx, orig |-> x.orig, counted |-> x.counted, recs |-> y.recs]
          /\ y.tx = x.tx /\ y.counted = x.counted
          /\ y.recs \in Seq(S) /\ y.counted <= Len(y.recs)
          /\ Hot(y) <=> Hot(x)
          /\ \A i : Restores(y, i) <=> Restores(x, i)
      BY <2>1, AppendKeeps DEF S
    <2> HIDE DEF y, next
    <2>3. y \in T
      BY <2>1, <2>2 DEF T
    <2>4. Recoverable(x, img) <=> Recoverable(y, img)
      BY <2>2 DEF Recoverable
    <2> QED
      BY <2>2, <2>3, <2>4 DEF y
  <1>12. \A x \in SameFile(disk, own) : x \in disk /\ x \in T /\ x.tx = own.tx
    <2>1. NoFile.tx = 0
      BY NoFileFields
    <2> QED
      BY <1>2, <1>10, <2>1 DEF SameFile
  <1>13. jrnl' \in T /\ (Hot(jrnl') <=> Hot(own)) /\ jrnl'.tx = own.tx
    BY <1>3, <1>4, <1>6, <1>11
  <1>14. own \in disk
    BY <1>2 DEF Files, FilesTyped
  <1>15. ASSUME NEW y \in jDisk'
         PROVE  \/ y \in disk
                \/ /\ Unsaved(c, p)
                   /\ \E x \in disk, v \in {r, Garbage} : x \in T /\ x.tx = own.tx /\ y = Appended(x, v)
    BY <1>3, <1>12
  <1>16. jrnl' \in jDisk'
    <2>1. own \in SameFile(disk, own)
      BY <1>14 DEF SameFile
    <2> QED
      BY <1>3, <1>14, <2>1
  <1>17. ASSUME NEW y \in jDisk'
         PROVE  y \in {NoFile} \cup T /\ Recoverable(y, img)
    <2>1. CASE y \in disk
      BY <1>10, <2>1
    <2>2. CASE y \notin disk
      <3>1. PICK x \in disk, v \in {r, Garbage} : x \in T /\ y = Appended(x, v) /\ Unsaved(c, p)
        BY <1>15, <2>2
      <3> QED
        BY <1>4, <1>5, <1>10, <1>11, <3>1
    <2> QED
      BY <2>1, <2>2
  <1>18. Hot(jrnl') => ~Opening(c) /\ previous = None /\ \A y \in jDisk' : y.tx = jrnl'.tx
    <2> SUFFICES ASSUME Hot(jrnl') PROVE ~Opening(c) /\ previous = None /\ \A y \in jDisk' : y.tx = jrnl'.tx
      OBVIOUS
    <2>1. ~Opening(c) /\ own = jrnl /\ Hot(jrnl) /\ disk = jDisk
      BY <1>2, <1>13
    <2>2. previous = None /\ \A y \in jDisk : y.tx = jrnl.tx
      BY <1>2, <2>1 DEF Files
    <2>3. ASSUME NEW y \in jDisk' PROVE y.tx = jrnl'.tx
      <3>1. CASE y \in disk
        BY <1>13, <2>1, <2>2, <3>1
      <3>2. CASE y \notin disk
        <4>1. PICK x \in disk, v \in {r, Garbage} : x \in T /\ x.tx = own.tx /\ y = Appended(x, v) /\ Unsaved(c, p)
          BY <1>15, <3>2
        <4> QED
          BY <1>4, <1>5, <1>11, <1>13, <4>1
      <3> QED
        BY <3>1, <3>2
    <2> QED
      BY <2>1, <2>2, <2>3
  <1>19. FilesTyped'
    <2>1. nextTx' \in 1 .. MaxTx + 1
      BY <1>1, <1>2
    <2>2. jDisk' \subseteq {NoFile} \cup Journal'
      BY <1>1, <1>17
    <2>3. /\ db \in [Pages -> Data \cup {Absent, Torn}]
          /\ dbDisk \in [Pages -> SUBSET (Data \cup {Absent, Torn})]
          /\ \A q \in Pages : db[q] \in dbDisk[q] /\ (db[q] = Absent => dbDisk[q] = {Absent})
      BY <1>2 DEF Files, FilesTyped
    <2> QED
      BY <1>16, <2>1, <2>2, <2>3 DEF FilesTyped
  <1>20. Files(img)'
    BY <1>2, <1>8, <1>9, <1>17, <1>18, <1>19 DEF Files
  <1>21. ASSUME ~Opening(c), NEW y \in jDisk'
         PROVE  \/ y \in jDisk
                \/ Unsaved(c, p) /\ \E x \in jDisk, v \in {r, Garbage} : x \in Journal /\ y = Appended(x, v)
    <2>1. disk = jDisk /\ T = Journal
      BY <1>21 DEF Journal, T, S
    <2> QED
      BY <1>15, <2>1
  <1> QED
    BY <1>1, <1>3, <1>4, <1>7, <1>20, <1>21 DEF own, r, S

\* Journal new has the records of own, and perhaps one more, the old page p.
OneMore(new, own, p, img) ==
  /\ new.tx = own.tx /\ new.orig = own.orig /\ (Hot(new) <=> Hot(own))
  /\ \A i \in DOMAIN new.recs : OldPage(new.recs[i], img)
  /\ \A i \in DOMAIN new.recs : \/ i \in DOMAIN own.recs /\ new.recs[i] = own.recs[i]
                                \/ new.recs[i].pg = p
  /\ \A q : Saved(own.recs, q) => Saved(new.recs, q)
  /\ Saved(new.recs, p)

\* The own journal after pager_write: the records before, and that of page p.
LEMMA OwnJournalAfter ==
  ASSUME NEW img, NEW own, IsJournal(own), own.recs \in Seq([pg : Int, val : Int]),
         own.counted \in Int, own.counted <= Len(own.recs),
         \A i \in DOMAIN own.recs : OldPage(own.recs[i], img),
         NEW p \in 1 .. Size(img),
         NEW r \in [pg : Int, val : Int], r = [pg |-> p, val |-> img[p]],
         NEW new, new = Appended(own, r)
  PROVE  OneMore(new, own, p, img)
  <1> DEFINE y == Appended(own, r)
  <1>1. /\ y.tx = own.tx /\ y.orig = own.orig /\ (Hot(y) <=> Hot(own))
        /\ DOMAIN own.recs = 1 .. Len(own.recs) /\ DOMAIN y.recs = 1 .. Len(own.recs) + 1
        /\ \A i \in 1 .. Len(own.recs) : y.recs[i] = own.recs[i]
        /\ y.recs[Len(own.recs) + 1] = r
    BY AppendKeeps
  <1>2. Len(own.recs) \in Nat /\ new = y
    BY LenProperties
  <1> HIDE DEF y
  <1>3. ASSUME NEW i \in DOMAIN y.recs
        PROVE  \/ i \in DOMAIN own.recs /\ y.recs[i] = own.recs[i]
               \/ y.recs[i] = r
    <2> DEFINE n == Len(own.recs)
    <2>1. n \in Nat /\ i \in 1 .. n + 1
      BY <1>1, <1>2
    <2> HIDE DEF n
    <2>2. i \in 1 .. n \/ i = n + 1
      BY <2>1
    <2> QED
      BY <1>1, <2>2 DEF n
  <1>4. OldPage(r, img) /\ r.pg = p
    BY DEF OldPage
  <1>5. Len(own.recs) + 1 \in DOMAIN y.recs /\ \A i \in DOMAIN own.recs : i \in DOMAIN y.recs
    BY <1>1, <1>2
  <1> QED
    BY <1>1, <1>2, <1>3, <1>4, <1>5 DEF Saved, OneMore

LEMMA ChangedInv ==
  ASSUME ProtocolInv, NEW img, Inv(img), NEW c \in Conn, NEW p \in Pages,
         pager[c].pc = "none", pager[c].eState \in Writing, Journalled(c, p),
         UNCHANGED <<db, dbDisk, previous>>,
         p <= pager[c].size + 1, NEW v \in Data, NEW l \in {"none", "lock"}, NEW jb \in 0 .. N,
         l = "lock" => jb = 0 /\ p = 1 /\ v = pager[c].vers + 1,
         Turned(c, IF Opening(c) THEN "CACHEMOD" ELSE pager[c].eState, l,
                [pager[c].cache EXCEPT ![p] = v], pager[c].dirty \cup {p},
                IF Unsaved(c, p) \/ (p > OwnJournal(c).orig /\ pager[c].eState # "DBMOD")
                THEN pager[c].needSync \cup {p} ELSE pager[c].needSync,
                Max({pager[c].size, p}), pager[c].vers, jb, pager[c].todo)
  PROVE  Inv(img)'
  <1> DEFINE me == pager[c]
             me2 == pager'[c]
             own == OwnJournal(c)
             next == IF Opening(c) THEN nextTx + 1 ELSE nextTx
             r == [pg |-> p, val |-> img[p]]
             ns == IF Unsaved(c, p) \/ (p > own.orig /\ me.eState # "DBMOD")
                   THEN me.needSync \cup {p} ELSE me.needSync
  <1>1. /\ Typed(c) /\ Files(img) /\ Whole(img) /\ me.todo = <<>> /\ lock[c] >= RESERVED_LOCK
        /\ next \in 1 .. MaxTx + 1
        /\ IsJournal(own) /\ own.tx = next - 1 /\ own.tx >= 1 /\ own.orig = Size(img)
        /\ own.counted \in Nat \cup {Cold} /\ own.counted <= Len(own.recs)
        /\ own.recs \in Seq([pg : Int, val : Int])
        /\ \A i \in DOMAIN own.recs : OldPage(own.recs[i], img)
        /\ IF Opening(c) THEN ~Hot(own) /\ Clean(img) ELSE jrnl = own
        /\ me.dirty \subseteq 1 .. me.size /\ Size(img) <= me.size
        /\ \A q \in Pages :
             /\ q \in me.dirty => /\ me.cache[q] # NotCached
                                  /\ q <= Size(img) => Saved(own.recs, q)
             /\ q \notin me.dirty => me.cache[q] \in {NotCached, db[q]}
             /\ q > me.size => me.cache[q] = NotCached /\ db[q] = Absent
             /\ q <= Size(img) \/ (q <= me.size /\ q \notin me.dirty) => db[q] \in Data
             /\ db[q] # Torn
             /\ q <= Size(img) => Saved(own.recs, q) \/ Settled(q, img)
        /\ Versed(c, img) /\ me.vers >= Counter(img[1]) /\ me.vers < next - 1
    BY BeforeWrite
  <1>2. /\ Files(img)' /\ (Clean(img) <=> Clean(img)')
        /\ nextTx' = next
        /\ IF Unsaved(c, p) THEN r \in [pg : Int, val : Int] /\ jrnl' = Appended(own, r) ELSE jrnl' = own
        /\ ~Opening(c) =>
             \A y \in jDisk' : \/ y \in jDisk
                               \/ Unsaved(c, p) /\ \E x \in jDisk, w \in {r, Garbage} :
                                                      x \in Journal /\ y = Appended(x, w)
    BY JournalledFiles
  <1>3. Max({me.size, p}) = IF me.size >= p THEN me.size ELSE p
    <2>1. p \in Int /\ me.size \in Int
      BY <1>1, BoundsAreNat DEF Typed, Pages
    <2> QED
      BY <2>1, MaxOfTwo
  <1>4. /\ me2.eState = (IF Opening(c) THEN "CACHEMOD" ELSE me.eState)
        /\ me2.pc = l /\ me2.dirty = me.dirty \cup {p} /\ me2.needSync = ns
        /\ me2.size = (IF me.size >= p THEN me.size ELSE p)
        /\ me2.vers = me.vers /\ me2.job = jb /\ me2.todo = <<>>
        /\ \A d \in Conn \ {c} : pager'[d] = pager[d]
    BY <1>1, <1>3 DEF Turned
  <1>5. /\ me2.cache \in [Pages -> Data \cup {NotCached}]
        /\ me2.cache[p] = v /\ \A q \in Pages \ {p} : me2.cache[q] = me.cache[q]
    BY <1>1 DEF Typed, Turned
  <1>6. me2.eState \in {"CACHEMOD", "DBMOD"} /\ (me2.eState = "DBMOD" => ~Opening(c) /\ me.eState = "DBMOD")
    BY <1>4 DEF Opening, Writing
  <1>7. p \in Int /\ me.size \in 0 .. N /\ p <= N /\ p >= 1 /\ Size(img) \in 0 .. N
    BY <1>1, SizeType, BoundsAreNat DEF Typed, Pages
  <1>8. Unsaved(c, p) => p \in 1 .. Size(img)
    BY <1>1, <1>7 DEF Unsaved
  <1>9. p <= Size(img) => Unsaved(c, p) \/ Saved(own.recs, p)
    BY <1>1 DEF Unsaved
  <1>10. own.counted \in Int
    BY <1>1 DEF Cold
  <1> HIDE DEF own, ns, next
  <1>11. /\ jrnl'.tx = own.tx /\ jrnl'.orig = own.orig /\ (Hot(jrnl') <=> Hot(own))
         /\ \A i \in DOMAIN jrnl'.recs : OldPage(jrnl'.recs[i], img)
         /\ \A i \in DOMAIN jrnl'.recs : \/ i \in DOMAIN own.recs /\ jrnl'.recs[i] = own.recs[i]
                                         \/ Unsaved(c, p) /\ jrnl'.recs[i].pg = p
         /\ \A q : Saved(own.recs, q) => Saved(jrnl'.recs, q)
         /\ Unsaved(c, p) => Saved(jrnl'.recs, p)
    <2>1. CASE Unsaved(c, p)
      <3>1. p \in 1 .. Size(img) /\ r \in [pg : Int, val : Int] /\ r = [pg |-> p, val |-> img[p]]
            /\ jrnl' = Appended(own, r)
        BY <1>2, <1>8, <2>1
      <3> HIDE DEF r
      <3> DEFINE new == jrnl'
      <3>2. new = Appended(own, r)
        BY <3>1
      <3>3. IsJournal(own) /\ own.recs \in Seq([pg : Int, val : Int]) /\ own.counted <= Len(own.recs)
            /\ \A i \in DOMAIN own.recs : OldPage(own.recs[i], img)
        BY <1>1
      <3> HIDE DEF new
      <3>4. OneMore(new, own, p, img)
        BY <1>10, <3>1, <3>2, <3>3, OwnJournalAfter
      <3>5. new = jrnl'
        BY DEF new
      <3> QED
        BY <2>1, <3>4, <3>5 DEF OneMore
    <2>2. CASE ~Unsaved(c, p)
      BY <1>1, <1>2, <2>2
    <2> QED
      BY <2>1, <2>2
  <1>12. Typed(c)'
    <2>1. me2.size \in 0 .. N /\ me2.dirty \subseteq Pages /\ me2.needSync \subseteq Pages
      BY <1>1, <1>4, <1>7 DEF Typed, ns
    <2>2. me2.vers \in 0 .. nextTx' - 1
      <3>1. me.vers \in Int /\ me.vers >= 0
        BY <1>1 DEF Typed, ProtocolInv
      <3> QED
        BY <1>1, <1>2, <1>4, <3>1
    <2>3. me2.todo \in Seq([pg : Pages, val : Data])
      BY <1>4
    <2> QED
      BY <1>4, <1>5, <1>6, <2>1, <2>2, <2>3 DEF Typed
  <1>13. me2.eState = "CACHEMOD" => Clean(img)'
    <2>1. CASE Opening(c)
      BY <1>1, <1>2, <2>1
    <2>2. CASE ~Opening(c)
      <3>1. me.eState = me2.eState
        BY <1>4, <2>2
      <3>2. me2.eState = "CACHEMOD" => Clean(img)
        BY <3>1, WriterKnows DEF Changing
      <3> QED
        BY <1>2, <3>2
    <2> QED
      BY <2>1, <2>2
  <1>14. me2.eState = "DBMOD" => Protected(c, img) /\ Hot(own) /\ jrnl = own
    <2>1. me.eState = "DBMOD" => Protected(c, img) /\ Hot(jrnl)
      BY WriterKnows DEF Changing
    <2> QED
      BY <1>1, <1>6, <2>1
  <1>15. Journalling(c, img)'
    BY <1>1, <1>2, <1>11, <1>13, <1>14 DEF Journalling
  <1>16. me2.eState = "DBMOD" => Protected(c, img)'
    <2> SUFFICES ASSUME me2.eState = "DBMOD" PROVE Protected(c, img)'
      OBVIOUS
    <2>0. me.eState = "DBMOD" /\ ~Opening(c) /\ Protected(c, img) /\ jrnl = own
      BY <1>6, <1>14
    <2>1. ASSUME NEW q \in me2.needSync, q <= Size(img) PROVE Settled(q, img)'
      <3>1. Settled(q, img)
        <4>1. CASE q \in me.needSync
          BY <2>0, <2>1, <4>1 DEF Protected
        <4>2. CASE q \notin me.needSync
          <5>1. q = p /\ Unsaved(c, p)
            BY <1>4, <2>0, <2>1, <4>2 DEF ns
          <5>2. ~Saved(own.recs, p)
            BY <5>1 DEF Unsaved, own
          <5> QED
            BY <1>1, <2>1, <5>1, <5>2
        <4> QED
          BY <4>1, <4>2
      <3> QED
        BY <3>1 DEF Settled
    <2>2. Unsaved(c, p) => p \in me2.needSync
      BY <1>4 DEF ns
    <2>3. me.needSync \subseteq me2.needSync
      BY <1>4 DEF ns
    <2>4. ASSUME NEW j \in jDisk, NEW i \in DOMAIN jrnl'.recs, jrnl'.recs[i].pg \notin me2.needSync
          PROVE  i \in DOMAIN own.recs /\ i <= j.counted /\ j.recs[i] = jrnl'.recs[i]
      <3>1. i \in DOMAIN own.recs /\ jrnl'.recs[i] = own.recs[i]
        BY <1>11, <2>2, <2>4
      <3>2. own.recs[i].pg \notin me.needSync
        BY <2>3, <2>4, <3>1
      <3> QED
        BY <2>0, <3>1, <3>2 DEF Protected
    <2>5. \A j \in jDisk : Hot(j)
      BY <2>0 DEF Protected
    <2>6. ASSUME NEW y \in jDisk'
          PROVE  /\ Hot(y)
                 /\ \A i \in DOMAIN jrnl'.recs :
                      jrnl'.recs[i].pg \notin me2.needSync => i <= y.counted /\ y.recs[i] = jrnl'.recs[i]
      <3>1. CASE y \in jDisk
        BY <2>4, <2>5, <3>1
      <3>2. CASE y \notin jDisk
        <4>1. PICK x \in jDisk, w \in {r, Garbage} : x \in Journal /\ y = Appended(x, w) /\ Unsaved(c, p)
          BY <1>2, <2>0, <3>2
        <4>2. w \in [pg : Int, val : Int]
          BY <1>2, <4>1 DEF Garbage, Torn
        <4>3. /\ IsJournal(x) /\ x.recs \in Seq([pg : Int, val : Int])
              /\ x.counted \in Int /\ x.counted <= Len(x.recs) /\ Len(x.recs) \in Nat
          BY <4>1, JournalType
        <4> DEFINE z == Appended(x, w)
        <4> HIDE DEF r
        <4>4. /\ z.counted = x.counted /\ (Hot(z) <=> Hot(x))
              /\ \A i \in 1 .. Len(x.recs) : z.recs[i] = x.recs[i]
          BY <4>2, <4>3, AppendKeeps
        <4>6. y = z
          BY <4>1
        <4> HIDE DEF z
        <4>5. ASSUME NEW i \in DOMAIN jrnl'.recs, jrnl'.recs[i].pg \notin me2.needSync
              PROVE  i <= y.counted /\ y.recs[i] = jrnl'.recs[i]
          <5>1. i \in DOMAIN own.recs /\ i <= x.counted /\ x.recs[i] = jrnl'.recs[i]
            BY <2>4, <4>5
          <5>2. i \in Nat \ {0}
            <6>1. DOMAIN own.recs = 1 .. Len(own.recs)
              BY <1>1, LenProperties
            <6> QED
              BY <5>1, <6>1
          <5>3. i \in 1 .. Len(x.recs)
            BY <4>3, <5>1, <5>2
          <5> QED
            BY <4>4, <4>6, <5>1, <5>3
        <4> QED
          BY <2>5, <4>4, <4>5, <4>6
      <3> QED
        BY <3>1, <3>2
    <2> QED
      BY <2>1, <2>6 DEF Protected
  <1>17. Counting1(c, img)'
    <2>1. me2.pc # "write" /\ Versed(c, img)' /\ me2.vers >= Counter(img[1]) /\ me2.vers < nextTx' - 1
      BY <1>1, <1>2, <1>4 DEF Versed
    <2>2. l = "lock" => 1 \in me2.dirty /\ me2.cache[1] = me2.vers + 1
      BY <1>4, <1>5
    <2>3. l # "lock" => me2.pc \notin Calling
      BY <1>4 DEF Calling
    <2> QED
      BY <1>4, <2>1, <2>2, <2>3 DEF Counting1
  <1>18. Live(c, img)'
    <2>1. ASSUME NEW q \in Pages
          PROVE  /\ q \in me2.dirty => /\ me2.cache[q] # NotCached
                                       /\ q <= Size(img) => Saved(jrnl'.recs, q)
                 /\ q \notin me2.dirty => me2.cache[q] \in {NotCached, db[q]}
                 /\ q > me2.size => me2.cache[q] = NotCached /\ db[q] = Absent
                 /\ q <= Size(img) \/ (q <= me2.size /\ q \notin me2.dirty) => db[q] \in Data
                 /\ db[q] # Torn
      <3>0. q \in Int
        BY BoundsAreNat DEF Pages
      <3>1. CASE q = p
        <4>1. v # NotCached
          BY DEF Data, NotCached
        <4>2. ~(p > me2.size) /\ p \in me2.dirty
          BY <1>4, <1>7
        <4>3. p <= Size(img) => Saved(jrnl'.recs, p)
          BY <1>9, <1>11
        <4> QED
          BY <1>1, <1>5, <3>1, <4>1, <4>2, <4>3
      <3>2. CASE q # p
        <4>1. /\ q \in me2.dirty <=> q \in me.dirty
              /\ me2.cache[q] = me.cache[q]
              /\ q > me2.size => q > me.size
              /\ q <= me2.size => q <= me.size
          BY <1>4, <1>5, <1>7, <3>0, <3>2
        <4> QED
          BY <1>1, <1>11, <4>1
      <3> QED
        BY <3>1, <3>2
    <2>2. me2.dirty \subseteq 1 .. me2.size /\ Size(img) <= me2.size
      BY <1>1, <1>4, <1>7
    <2>3. me2.pc # "count" /\ me2.pc # "resync" /\ me2.pc # "write" /\ ~(me2.pc \in Calling /\ me2.job # 0)
      BY <1>4 DEF Calling
    <2> QED
      BY <1>17, <2>1, <2>2, <2>3 DEF Live
  <1>19. Connection(c, img)'
    BY <1>4, <1>6, <1>12, <1>15, <1>16, <1>18 DEF Connection, Writer
  <1>20. nextTx' \in Nat /\ nextTx' >= nextTx
    BY <1>2 DEF next, ProtocolInv
  <1> QED
    BY <1>1, <1>2, <1>4, <1>19, <1>20, StepOfWriter

LEMMA WriteInv ==
  ASSUME ProtocolInv, NEW img, Inv(img), NEW c \in Conn, NEW p \in Pages, Write(c, p)
  PROVE  Inv(img)'
  <1> DEFINE me == pager[c]
             v == IF p = 1 THEN 0 ELSE OwnJournal(c).tx
  <1>1. /\ me.pc = "none" /\ me.eState \in Writing /\ Journalled(c, p)
        /\ p <= me.size + 1 /\ UNCHANGED <<db, dbDisk, previous>>
    BY DEF Write, Idle, At
  <1>2. Turned(c, IF Opening(c) THEN "CACHEMOD" ELSE me.eState, me.pc, [me.cache EXCEPT ![p] = v],
               me.dirty \cup {p},
               IF Unsaved(c, p) \/ (p > OwnJournal(c).orig /\ me.eState # "DBMOD")
               THEN me.needSync \cup {p} ELSE me.needSync,
               Max({me.size, p}), me.vers, me.job, me.todo)
    BY AtPlace, AfterWrite
  <1>3. v \in Data
    <2>1. OwnJournal(c).tx \in 0 .. MaxTx + 1
      <3> DEFINE next == IF Opening(c) THEN nextTx + 1 ELSE nextTx
      <3>1. next \in 1 .. MaxTx + 1 /\ OwnJournal(c).tx = next - 1
        BY <1>1, BeforeWrite
      <3> HIDE DEF next
      <3> QED
        BY <3>1, BoundsAreNat
    <2> QED
      BY <2>1, BoundsAreNat DEF Data
  <1>4. me.job \in 0 .. N
    BY DEF Inv, Connection, Typed
  <1> HIDE DEF v
  <1>5. Turned(c, IF Opening(c) THEN "CACHEMOD" ELSE me.eState, "none", [me.cache EXCEPT ![p] = v],
               me.dirty \cup {p},
               IF Unsaved(c, p) \/ (p > OwnJournal(c).orig /\ me.eState # "DBMOD")
               THEN me.needSync \cup {p} ELSE me.needSync,
               Max({me.size, p}), me.vers, me.job, me.todo)
    BY <1>1, <1>2
  <1> QED
    BY <1>1, <1>3, <1>4, <1>5, ChangedInv

LEMMA CommitInv ==
  ASSUME ProtocolInv, NEW img, Inv(img), NEW c \in Conn, Commit(c)
  PROVE  Inv(img)'
  <1> DEFINE me == pager[c]
             v == me.vers + 1
  <1>1. /\ me.pc = "none" /\ me.eState \in Writing /\ Journalled(c, 1) /\ ~Opening(c)
        /\ UNCHANGED <<db, dbDisk, previous>>
    BY DEF Commit, Idle, At, Writing, Opening
  <1>2. Turned(c, IF Opening(c) THEN "CACHEMOD" ELSE me.eState, "lock", [me.cache EXCEPT ![1] = v],
               me.dirty \cup {1},
               IF Unsaved(c, 1) \/ (1 > OwnJournal(c).orig /\ me.eState # "DBMOD")
               THEN me.needSync \cup {1} ELSE me.needSync,
               Max({me.size, 1}), me.vers, 0, me.todo)
    BY AtPlace, AfterCommit
  <1>3. v \in Data /\ 1 <= me.size + 1 /\ 0 \in 0 .. N
    <2>1. me.vers < nextTx - 1 /\ nextTx \in 1 .. MaxTx + 1 /\ Typed(c)
      BY <1>1, BeforeWrite
    <2> QED
      BY <2>1, BoundsAreNat DEF Typed, Data
  <1>4. v = me.vers + 1
    OBVIOUS
  <1> HIDE DEF v
  <1> QED
    BY <1>1, <1>2, <1>3, <1>4, FirstPage, ChangedInv

\* What a power loss leaves of the database, as one of the journals restores
\* it: the committed image, or the one before it.
LEMMA FilesAfterPowerLoss ==
  ASSUME NEW img, Files(img), NEW d \in [Pages -> Data \cup {Absent, Torn}],
         \A p \in Pages : d[p] \in dbDisk[p], db' = Filled(d),
         jrnl' \in jDisk, jDisk' = {jrnl'}, dbDisk' = [p \in Pages |-> {db'[p]}],
         previous' = None, nextTx' = nextTx
  PROVE  \E x \in {img} \cup ({previous} \ {None}) : Files(x)'
  <1>1. /\ db' \in [Pages -> Data \cup {Absent, Torn}]
        /\ \A p \in Pages : d[p] # Absent => db'[p] = d[p]
        /\ \A p \in Pages : dbDisk'[p] = {db'[p]}
    BY DEF Filled
  <1>2. FilesTyped'
    <2>1. FilesTyped
      BY DEF Files
    <2>2. dbDisk' \in [Pages -> SUBSET (Data \cup {Absent, Torn})]
      BY <1>1
    <2> QED
      BY <1>1, <2>1, <2>2 DEF FilesTyped, Journal
  <1>3. CASE Hot(jrnl')
    <2>1. PICK x \in {img} \cup ({previous} \ {None}) : Whole(x) /\ Restores(jrnl', x)
      BY <1>3 DEF Files, Recoverable
    <2>2. Whole(x)'
      BY <2>1 DEF Whole, Size
    <2>3. Restores(jrnl, x)'
      <3>1. ASSUME NEW p \in 1 .. jrnl'.orig
            PROVE  db'[p] # Absent /\ Absent \notin dbDisk'[p] /\ (InJournal(jrnl', p) \/ Settled(p, x)')
        <4>1. p \in Pages
          <5>1. jrnl'.orig \in 0 .. N
            BY <2>1, WholeSize DEF Restores
          <5> QED
            BY <5>1, BoundsAreNat DEF Pages
        <4>2. d[p] # Absent /\ (InJournal(jrnl', p) \/ Settled(p, x))
          BY <2>1, <4>1 DEF Restores
        <4> QED
          BY <1>1, <4>1, <4>2 DEF Settled
      <3> QED
        BY <2>1, <3>1 DEF Restores, OldPage, Size
    <2>4. Recoverable(jrnl, x)'
      BY <1>3, <2>3 DEF Recoverable, Hot
    <2> QED
      BY <1>2, <2>2, <2>4 DEF Files
  <1>4. CASE ~Hot(jrnl')
    <2>1. Clean(img) /\ Whole(img)
      BY <1>4 DEF Files, Recoverable
    <2>2. \A p \in Pages : d[p] = img[p]
      BY <2>1 DEF Clean, Settled
    <2>3. \A p \in Pages : db'[p] = img[p]
      <3> SUFFICES ASSUME NEW p \in Pages, d[p] = Absent PROVE db'[p] = Absent
        BY <1>1, <2>2
      <3>1. \A q \in Pages : q > p => d[q] = Absent
        BY <2>1, <2>2, WholeSize, BoundsAreNat DEF Pages
      <3> QED
        BY <3>1 DEF Filled
    <2>4. Clean(img)' /\ Whole(img)'
      BY <1>1, <2>1, <2>3 DEF Clean, Settled, Whole, Size
    <2>5. Recoverable(jrnl, img)'
      BY <1>4, <2>4 DEF Recoverable, Hot
    <2>6. Files(img)'
      BY <1>2, <1>4, <2>4, <2>5 DEF Files, Hot
    <2> QED
      BY <2>6
  <1> QED
    BY <1>3, <1>4

LEMMA PowerLossInv ==
  ASSUME ProtocolInv, NEW img, Inv(img), PowerLoss
  PROVE  \E x \in {img} \cup ({previous} \ {None}) : Inv(x)'
  <1>1. PICK d \in [Pages -> UNION {dbDisk[p] : p \in Pages}] :
          (\A p \in Pages : d[p] \in dbDisk[p]) /\ db' = Filled(d)
    BY DEF PowerLoss
  <1>2. /\ jrnl' \in jDisk /\ dbDisk' = [p \in Pages |-> {db'[p]}] /\ jDisk' = {jrnl'}
        /\ pager' = [c \in Conn |-> Fresh] /\ previous' = None /\ nextTx' = nextTx
    BY DEF PowerLoss
  <1>3. d \in [Pages -> Data \cup {Absent, Torn}]
    BY <1>1 DEF Inv, Files, FilesTyped
  <1>4. PICK x \in {img} \cup ({previous} \ {None}) : Files(x)'
    BY <1>1, <1>2, <1>3, FilesAfterPowerLoss DEF Inv
  <1>5. ASSUME NEW c \in Conn PROVE Connection(c, x)'
    <2>1. pager'[c] = Fresh
      BY <1>2
    <2>2. 0 \in 0 .. nextTx' - 1
      BY <1>2 DEF ProtocolInv
    <2> QED
      BY <2>1, <2>2, FreshShaped, FreshConnection
  <1> QED
    BY <1>4, <1>5 DEF Inv

LEMMA InvInit == PagerInit => Inv(db)
  <1> SUFFICES ASSUME PagerInit PROVE Inv(db)
    OBVIOUS
  <1>1. PICK k \in 0 .. N : db = [p \in Pages |-> IF p <= k THEN 0 ELSE Absent]
    BY DEF PagerInit
  <1>2. /\ dbDisk = [p \in Pages |-> {db[p]}]
        /\ jrnl = NoFile /\ jDisk = {NoFile} /\ pager = [c \in Conn |-> Fresh]
        /\ nextTx = 1 /\ previous = None
    BY DEF PagerInit
  <1>3. 0 \in Data /\ 1 \in 1 .. MaxTx + 1
    BY BoundsAreNat DEF Data
  <1>4. db \in [Pages -> Data \cup {Absent}]
    BY <1>1, <1>3
  <1>5. FilesTyped
    <2>1. dbDisk \in [Pages -> SUBSET (Data \cup {Absent, Torn})]
      BY <1>2, <1>4
    <2>2. nextTx \in 1 .. MaxTx + 1
      BY <1>2, <1>3
    <2> QED
      BY <1>2, <1>4, <2>1, <2>2 DEF FilesTyped
  <1>6. Clean(db)
    BY <1>2 DEF Clean, Settled
  <1>7. \A p \in Pages : db[p] # Absent <=> p <= k
    BY <1>1 DEF Absent
  <1>8. Whole(db)
    <2>1. Size(db) = k
      BY <1>7, SizeIs
    <2>2. Counter(db[1]) = 0
      BY <1>1, FirstPage DEF Counter
    <2> QED
      BY <1>2, <1>4, <1>7, <2>1, <2>2 DEF Whole
  <1>9. Files(db)
    BY <1>2, <1>5, <1>6, <1>8, NoFileFields DEF Files, Recoverable
  <1>10. ASSUME NEW c \in Conn PROVE Connection(c, db)
    <2>1. Fields(pager[c], "OPEN", "none", [p \in Pages |-> NotCached], {}, {}, 0, 0, 0, <<>>)
      BY <1>2, FreshShaped
    <2>2. Typed(c)
      <3>1. 0 \in 0 .. nextTx - 1 /\ 0 \in 0 .. N
        BY <1>2, BoundsAreNat
      <3> QED
        BY <2>1, <3>1 DEF Typed
    <2>3. Opened(c, db)
      BY <2>1 DEF Opened, NothingCached
    <2> QED
      BY <2>1, <2>2, <2>3 DEF Connection
  <1> QED
    BY <1>9, <1>10 DEF Inv

LEMMA StutterInv ==
  ASSUME NEW img, Inv(img), UNCHANGED vars
  PROVE  Inv(img)'
  <1>1. Untouched /\ pager' = pager
    BY DEF vars, files, Untouched
  <1>2. \A c \in Conn : Connection(c, img)'
    BY <1>1, UntouchedConnection DEF Inv
  <1> QED
    BY <1>1, <1>2, UntouchedFiles DEF Inv

\* The deletion of the journal of a finished transaction.
Finishing(c) == Finalize(c) /\ pager[c].eState = "FINISHED"

\* Every other step of a connection keeps the committed image.
LEMMA RecoveryInv ==
  ASSUME ProtocolInv, NEW img, Inv(img), DurableTruncate, NEW c \in Conn, Recovery(c), ~Finishing(c)
  PROVE  Inv(img)'
  <1>1. CASE Play(c)
    <2>1. pager[c].eState \in {"OPEN", "CACHEMOD", "DBMOD"}
      BY <1>1, AtPlace DEF PlacedAt, Play, At, Calling
    <2> QED
      BY <1>1, <2>1, PlayHotInv, PlayOwnInv
  <1>2. CASE SharedLock(c) \/ AccessJournal(c) \/ CheckReserved(c) \/ FirstByte(c) \/ RemoveJournal(c)
    BY <1>2, SharedLockInv, AccessJournalInv, CheckReservedInv, FirstByteInv, RemoveJournalInv
  <1>3. CASE HotExclusive(c) \/ OpenHot(c) \/ StartPlayback(c) \/ EndPlayback(c)
    BY <1>3, HotExclusiveInv, OpenHotInv, StartPlaybackInv, EndPlaybackInv
  <1>4. CASE Finalize(c) \/ Downgrade(c) \/ Validate(c)
    BY <1>4, FinalizeOldInv, DowngradeInv, ValidateInv DEF Finishing
  <1> QED
    BY <1>1, <1>2, <1>3, <1>4 DEF Recovery

LEMMA CommitStepInv ==
  ASSUME ProtocolInv, NEW img, Inv(img), NEW c \in Conn, CommitStep(c)
  PROVE  Inv(img)'
  BY TakeExclusiveInv, SyncRecordsInv, CountRecordsInv, SyncHeaderInv, WritePageInv, SyncFileInv
  DEF CommitStep

LEMMA CallInv ==
  ASSUME ProtocolInv, NEW img, Inv(img), DurableTruncate, NEW c \in Conn,
         \/ EndRead(c) \/ BeginWrite(c) \/ CommitNothing(c) \/ Commit(c) \/ Rollback(c)
         \/ GiveUp(c) \/ Crash(c)
         \/ \E p \in Pages : Read(c, p) \/ Write(c, p) \/ Spill(c, p)
  PROVE  Inv(img)'
  <1>1. CASE \/ EndRead(c) \/ BeginWrite(c) \/ CommitNothing(c) \/ Commit(c) \/ Rollback(c)
             \/ GiveUp(c) \/ Crash(c)
    BY <1>1, EndReadInv, BeginWriteInv, CommitNothingInv, CommitInv, RollbackInv, GiveUpInv
  <1>2. CASE \E p \in Pages : Read(c, p) \/ Write(c, p) \/ Spill(c, p)
    BY <1>2, ReadInv, WriteInv, SpillInv
  <1> QED
    BY <1>1, <1>2

LEMMA StepInv ==
  ASSUME DurableTruncate, ProtocolInv, NEW img, Inv(img), [PagerNext]_vars
  PROVE  \E x : Inv(x)'
  <1>1. CASE UNCHANGED vars
    BY <1>1, StutterInv
  <1>2. ASSUME NEW c \in Conn, Recovery(c) PROVE \E x : Inv(x)'
    BY <1>2, RecoveryInv, FinalizeNewInv DEF Finishing
  <1>3. ASSUME NEW c \in Conn, CommitStep(c) PROVE \E x : Inv(x)'
    BY <1>3, CommitStepInv
  <1>4. ASSUME NEW c \in Conn,
               \/ EndRead(c) \/ BeginWrite(c) \/ CommitNothing(c) \/ Commit(c) \/ Rollback(c)
               \/ GiveUp(c) \/ Crash(c)
               \/ \E p \in Pages : Read(c, p) \/ Write(c, p) \/ Spill(c, p)
        PROVE  \E x : Inv(x)'
    BY <1>4, CallInv
  <1>5. CASE PowerLoss
    BY <1>5, PowerLossInv
  <1> QED
    BY <1>1, <1>2, <1>3, <1>4, <1>5 DEF PagerNext

\* An invariant of the specification, whichever image is committed.
SomeInv == ProtocolInv /\ \E x : Inv(x)

LEMMA RecoveredImage == SomeInv => PagerInv
  <1> SUFFICES ASSUME ProtocolInv, NEW x, Inv(x) PROVE Inv(Recovered(jrnl, db))
    BY DEF SomeInv, PagerInv
  <1>1. Recovered(jrnl, db) = x
    BY RecoveredIs DEF Inv
  <1> QED
    BY <1>1

LEMMA SomeImageAlways ==
  ASSUME DurableTruncate
  PROVE  PagerSpec => []SomeInv
  <1>1. PagerInit => SomeInv
    BY InvInit, ProtocolInit DEF SomeInv
  <1>2. SomeInv /\ [PagerNext]_vars => SomeInv'
    <2> SUFFICES ASSUME SomeInv, [PagerNext]_vars PROVE SomeInv'
      OBVIOUS
    <2>1. ProtocolInv'
      BY ProtocolKept DEF SomeInv
    <2>2. \E x : Inv(x)'
      BY StepInv DEF SomeInv
    <2> QED
      BY <2>1, <2>2 DEF SomeInv
  <1> QED
    BY <1>1, <1>2, PTL DEF PagerSpec

\* In every reachable state the committed image, which recovery makes of the
\* files, can be had from whatever a killed process or a power loss leaves of
\* them: sqlite3PagerCommitPhaseOne, pager_playback and pagerUnlockAndRollback
\* keep the order of writes and syncs that this needs.
THEOREM PagerIsInvariant ==
  ASSUME DurableTruncate
  PROVE  PagerSpec => []PagerInv
  BY SomeImageAlways, RecoveredImage, PTL

\* What syncJournal and pager_end_transaction promise of the order of syncs: a
\* database without a journal is on the disk as it is.
THEOREM SyncedBeforeDeletionAlways ==
  ASSUME DurableTruncate
  PROVE  PagerSpec => []SyncedBeforeDeletion
  <1>1. PagerInv => SyncedBeforeDeletion
    <2> DEFINE img == Recovered(jrnl, db)
    <2> SUFFICES ASSUME PagerInv, jrnl = NoFile, NEW p \in Pages PROVE dbDisk[p] = {db[p]}
      BY DEF SyncedBeforeDeletion
    <2>1. Files(img)
      BY DEF PagerInv, Inv
    <2> HIDE DEF img
    <2>2. Clean(img)
      BY <2>1, NoFileFields, ColdIsClean
    <2> QED
      BY <2>2 DEF Clean, Settled
  <1> QED
    BY <1>1, PagerIsInvariant, PTL

\* The assertions of assert_pager_state hold, when truncations are durable at
\* once (DurableTruncate).
THEOREM AssertionsHold ==
  ASSUME DurableTruncate
  PROVE  PagerSpec => []AssertedStates
  <1>1. PagerInv => AssertedStates
    <2> DEFINE img == Recovered(jrnl, db)
    <2> SUFFICES ASSUME PagerInv, NEW c \in Conn
                 PROVE LET me == pager[c] IN
                       /\ me.eState = "READER" => lock[c] >= SHARED_LOCK
                       /\ me.eState \in {"LOCKED", "CACHEMOD"} => lock[c] >= RESERVED_LOCK
                       /\ me.eState = "LOCKED" => me.size = Size(db)
                       /\ me.eState = "CACHEMOD" /\ me.pc # "downgrade" => jrnl.orig = Size(db)
                       /\ me.eState \in {"DBMOD", "FINISHED"} => lock[c] = EXCLUSIVE_LOCK
      BY DEF AssertedStates
    <2> DEFINE me == pager[c]
    <2>1. ProtocolInv /\ Files(img) /\ Connection(c, img)
      BY DEF PagerInv, Inv
    <2> HIDE DEF img
    <2>2. /\ me.eState = "READER" => lock[c] >= SHARED_LOCK
          /\ me.eState \in {"LOCKED", "CACHEMOD"} => lock[c] >= RESERVED_LOCK
          /\ me.eState \in {"DBMOD", "FINISHED"} => lock[c] = EXCLUSIVE_LOCK
      BY <2>1, AtPlace DEF PlacedAt
    <2>3. me.eState = "LOCKED" => me.size = Size(db)
      BY <2>1, CleanFile DEF Connection, Reading
    <2>4. me.eState = "CACHEMOD" /\ me.pc # "downgrade" => jrnl.orig = Size(db)
      BY <2>1, CleanFile DEF Connection, Writer, Journalling
    <2> QED
      BY <2>2, <2>3, <2>4
  <1> QED
    BY <1>1, PagerIsInvariant, PTL

\* Type correctness: no torn page and no page past the end reaches a cache,
\* when truncations are durable at once (DurableTruncate).
THEOREM PagerTypes ==
  ASSUME DurableTruncate
  PROVE  PagerSpec => []PagerTypeOK
  <1>1. PagerInv => PagerTypeOK
    <2> DEFINE img == Recovered(jrnl, db)
    <2> SUFFICES ASSUME PagerInv PROVE PagerTypeOK
      OBVIOUS
    <2>1. ProtocolInv /\ Files(img) /\ \A c \in Conn : Connection(c, img)
      BY DEF PagerInv, Inv
    <2> HIDE DEF img
    <2>2. nextTx - 1 \in Int /\ nextTx - 1 <= MaxTx /\ 0 .. nextTx - 1 \subseteq Data
      BY <2>1, BoundsAreNat DEF Files, FilesTyped, Data
    <2>3. ASSUME NEW c \in Conn
          PROVE pager[c] \in
       [eState : {"OPEN", "READER", "LOCKED", "CACHEMOD", "DBMOD", "FINISHED"},
        pc : {"none", "access", "reserved", "first", "remove", "exclusive", "open", "start",
              "play", "finalize", "downgrade", "validate",
              "lock", "sync", "count", "resync", "write"},
        cache : [Pages -> Data \cup {NotCached}],
        dirty : SUBSET Pages, needSync : SUBSET Pages,
        size : 0 .. N, vers : Data, job : 0 .. N, todo : Seq([pg : Pages, val : Data])]
      <3> DEFINE me == pager[c]
      <3>1. /\ me.eState \in {"OPEN", "READER", "LOCKED", "CACHEMOD", "DBMOD", "FINISHED"}
            /\ me.pc \in {"none", "access", "reserved", "first", "remove", "exclusive", "open", "start",
                          "play", "finalize", "downgrade", "validate",
                          "lock", "sync", "count", "resync", "write"}
        BY <2>1, AtPlace DEF PlacedAt, Calling
      <3>2. me = Object(me.eState, me.pc, me.cache, me.dirty, me.needSync, me.size, me.vers, me.job, me.todo)
        BY <2>1, Shaped DEF ProtocolInv, IsObject
      <3>3. Typed(c) /\ me.vers \in Data
        BY <2>1, <2>2 DEF Connection, Typed
      <3> QED
        BY <3>1, <3>2, <3>3 DEF Typed, Object
    <2>4. TypeOK
      BY <2>1 DEF ProtocolInv, Promises
    <2> QED
      BY <2>1, <2>3, <2>4 DEF PagerTypeOK, Files, FilesTyped
  <1> QED
    BY <1>1, PagerIsInvariant, PTL

-----------------------------------------------------------------------------
(* The pager implements DurableDb                                          *)

\* What is known of the abstract database in every state.
CommittedKnown  == \A x : Inv(x) => Committed = x
OneWriterAtMost == \A c, d \in Writers : c = d

LEMMA CommittedIsKnown == CommittedKnown
  BY RecoveredIs DEF CommittedKnown, Committed, Inv

LEMMA WriterPlace ==
  ASSUME ProtocolInv, NEW c \in Writers
  PROVE  c \in Conn /\ lock[c] >= RESERVED_LOCK
  BY AtPlace DEF Writers, Writing, PlacedAt

LEMMA OneWriterIsKnown == ProtocolInv => OneWriterAtMost
  <1> SUFFICES ASSUME ProtocolInv, NEW c \in Writers, NEW d \in Writers, c # d PROVE FALSE
    BY DEF OneWriterAtMost
  <1>1. c \in Conn /\ d \in Conn /\ lock[c] >= RESERVED_LOCK /\ lock[d] >= RESERVED_LOCK
    BY WriterPlace
  <1>2. lock[d] < RESERVED_LOCK
    BY <1>1 DEF ProtocolInv, Promises, OneWriter, Others
  <1>3. lock[d] \in Levels
    BY <1>1 DEF ProtocolInv, Promises, TypeOK
  <1> QED
    BY <1>1, <1>2, <1>3 DEF Levels

\* The writer of the abstract database.
LEMMA WriterNowIs ==
  ASSUME OneWriterAtMost, NEW c \in Conn
  PROVE  WriterNow = c <=> c \in Writers
  BY NoneIsNoConnection DEF WriterNow, OneWriterAtMost

\* Who reads the committed image sees it.
LEMMA SeesImage ==
  ASSUME NEW img \in [Pages -> Data \cup {Absent}], \A p \in Pages : img[p] # Absent <=> p <= Size(img),
         NEW d, NEW ca, NEW sz, sz = Size(img),
         \A p \in Pages : ca[p] \in {NotCached, img[p]},
         \A p \in Pages : d[p] = img[p]
  PROVE  [p \in Pages |-> IF p > sz THEN Absent ELSE IF ca[p] # NotCached THEN ca[p] ELSE d[p]] = img
  <1>1. sz \in Int /\ \A p \in Pages : p \in Int /\ (img[p] # Absent <=> p <= sz)
    BY SizeType, BoundsAreNat DEF Pages
  <1>2. \A p \in Pages : img[p] = IF p > sz THEN Absent ELSE IF ca[p] # NotCached THEN ca[p] ELSE d[p]
    BY <1>1
  <1> QED
    BY <1>2

LEMMA ReaderSees ==
  ASSUME NEW c, NEW img, Reading(c, img), Whole(img)
  PROVE  Seen(c) = img
  <1>1. \A p \in Pages : db[p] = img[p]
    BY DEF Reading, Clean, Settled
  <1> QED
    BY <1>1, SeesImage DEF Seen, Reading, Agrees, Whole

LEMMA ReaderSeesAfter ==
  ASSUME NEW c, NEW img, Reading(c, img)', Whole(img)'
  PROVE  Seen(c)' = img
  <1>1. \A p \in Pages : db'[p] = img[p]
    BY DEF Reading, Clean, Settled
  <1> QED
    BY <1>1, SeesImage DEF Seen, Reading, Agrees, Whole, Size

\* A step of c shows in the views and the writer of c alone.
LEMMA OthersSee ==
  ASSUME ProtocolInv, NEW c \in Conn, \A d \in Conn \ {c} : pager'[d] = pager[d],
         (Committed' = Committed /\ db' = db) \/ lock[c] = EXCLUSIVE_LOCK
  PROVE  \A d \in Conn \ {c} : View(d)' = View(d) /\ (d \in Writers' <=> d \in Writers)
  <1> SUFFICES ASSUME NEW d \in Conn \ {c}
               PROVE  View(d)' = View(d) /\ (d \in Writers' <=> d \in Writers)
    OBVIOUS
  <1>1. pager'[d] = pager[d]
    OBVIOUS
  <1>2. d \in Writers' <=> d \in Writers
    BY <1>1 DEF Writers, Rolling
  <1>3. CASE Committed' = Committed /\ db' = db
    BY <1>1, <1>2, <1>3 DEF View, Rolling, Seen
  <1>4. CASE lock[c] = EXCLUSIVE_LOCK
    <2>1. lock[d] = NO_LOCK
      BY <1>4 DEF ProtocolInv, Promises, ExclusiveIsAlone, Others
    <2>2. pager[d].eState = "OPEN"
      BY <2>1, AtPlace DEF PlacedAt
    <2> QED
      BY <1>1, <1>2, <2>2 DEF View
  <1> QED
    BY <1>3, <1>4

LEMMA ViewsAfter ==
  ASSUME NEW c \in Conn, \A d \in Conn \ {c} : View(d)' = View(d)
  PROVE  Views' = [Views EXCEPT ![c] = View(c)'] /\ Views'[c] = View(c)' /\ Views[c] = View(c)
  BY DEF Views

LEMMA WriterAfter ==
  ASSUME NEW c \in Conn, \A d \in Conn \ {c} : d \in Writers' <=> d \in Writers,
         c \in Writers' <=> c \in Writers
  PROVE  WriterNow' = WriterNow
  <1>1. Writers' = Writers
    BY DEF Writers
  <1> QED
    BY <1>1 DEF WriterNow, None

\* A step of c that changes nothing in the abstract database.
LEMMA Silent ==
  ASSUME ProtocolInv, NEW c \in Conn, \A d \in Conn \ {c} : pager'[d] = pager[d],
         db' = db \/ lock[c] = EXCLUSIVE_LOCK, Committed' = Committed, previous' = previous,
         View(c)' = View(c), c \in Writers' <=> c \in Writers
  PROVE  UNCHANGED Durable!vars
  <1>1. \A d \in Conn \ {c} : View(d)' = View(d) /\ (d \in Writers' <=> d \in Writers)
    BY OthersSee
  <1>2. Views' = Views
    BY <1>1 DEF Views
  <1>3. WriterNow' = WriterNow
    BY <1>1, WriterAfter
  <1> QED
    BY <1>2, <1>3 DEF Durable!vars

\* What is known at a step that keeps the committed image.
Keeping(img) == ProtocolInv /\ Inv(img) /\ Inv(img)' /\ Committed = img /\ Committed' = img

LEMMA OpenSilent ==
  ASSUME NEW img, Keeping(img), NEW c \in Conn, \A d \in Conn \ {c} : pager'[d] = pager[d],
         pager[c].eState = "OPEN", pager'[c].eState = "OPEN",
         db' = db \/ lock[c] = EXCLUSIVE_LOCK, previous' = previous
  PROVE  UNCHANGED Durable!vars
  <1>1. View(c)' = View(c) /\ (c \in Writers' <=> c \in Writers)
    BY DEF View, Writers, Writing
  <1> QED
    BY <1>1, Silent DEF Keeping

LEMMA RollingSilent ==
  ASSUME NEW img, Keeping(img), NEW c \in Conn, \A d \in Conn \ {c} : pager'[d] = pager[d],
         pager[c].eState # "OPEN", pager'[c].eState # "OPEN", Rolling(c), Rolling(c)',
         db' = db \/ lock[c] = EXCLUSIVE_LOCK, previous' = previous
  PROVE  UNCHANGED Durable!vars
  <1>1. View(c)' = View(c) /\ (c \in Writers' <=> c \in Writers)
    BY DEF View, Writers, Keeping
  <1> QED
    BY <1>1, Silent DEF Keeping

\* The search for a hot journal and its playback, and the end of a rollback.
LEMMA SearchMaps ==
  ASSUME NEW img, Keeping(img), NEW c \in Conn,
         \/ SharedLock(c) \/ AccessJournal(c) \/ CheckReserved(c) \/ FirstByte(c)
         \/ RemoveJournal(c) \/ HotExclusive(c) \/ OpenHot(c)
  PROVE  UNCHANGED Durable!vars
  <1>1. PICK l : Moved(c, l)
    BY Moves DEF Keeping, ProtocolInv
  <1>2. pager[c].pc \in {"none", "access", "reserved", "first", "remove", "exclusive", "open"}
        /\ (pager[c].pc = "none" => pager[c].eState = "OPEN")
    BY DEF SharedLock, AccessJournal, CheckReserved, FirstByte, RemoveJournal, HotExclusive, OpenHot, Idle, At
  <1>3. pager[c].eState = "OPEN"
    BY <1>2, AtPlace DEF PlacedAt, Calling, Keeping
  <1>4. db' = db /\ previous' = previous
    BY DEF SharedLock, AccessJournal, CheckReserved, FirstByte, RemoveJournal, HotExclusive, OpenHot, files
  <1> QED
    BY <1>1, <1>3, <1>4, OpenSilent DEF Moved, Turned

LEMMA PlaybackMaps ==
  ASSUME NEW img, Keeping(img), NEW c \in Conn,
         StartPlayback(c) \/ Play(c) \/ EndPlayback(c) \/ (Finalize(c) /\ pager[c].eState # "FINISHED")
  PROVE  UNCHANGED Durable!vars
  <1> DEFINE me == pager[c]
  <1>0. Objects
    BY DEF Keeping, ProtocolInv
  <1>1. /\ pager'[c].eState = me.eState /\ \A d \in Conn \ {c} : pager'[d] = pager[d]
        /\ pager'[c].pc \in {"play", "finalize", "downgrade"}
    <2>1. CASE StartPlayback(c)
      <3>1. CASE Hot(jrnl)
        BY <1>0, <2>1, <3>1, AfterStartPlayback DEF Turned
      <3>2. CASE ~Hot(jrnl)
        BY <1>0, <2>1, <3>2, Moves DEF Moved, Turned
      <3> QED
        BY <3>1, <3>2
    <2>2. CASE Play(c)
      BY <1>0, <2>2, AfterPlay DEF Turned, Play, At
    <2>3. CASE EndPlayback(c) \/ Finalize(c)
      BY <1>0, <2>3, Moves DEF Moved, Turned
    <2> QED
      BY <2>1, <2>2, <2>3
  <1>2. me.pc \in {"start", "play", "finalize"} /\ me.eState # "FINISHED"
    <2>1. me.pc \in {"start", "play", "finalize"}
      BY DEF StartPlayback, Play, EndPlayback, Finalize, At
    <2>2. me.pc \in {"start", "play"} => me.eState # "FINISHED"
      BY AtPlace DEF PlacedAt, Calling, Keeping
    <2>3. me.pc = "finalize" => me.eState # "FINISHED"
      BY DEF StartPlayback, Play, EndPlayback, At
    <2> QED
      BY <2>1, <2>2, <2>3
  <1>3. db' = db \/ lock[c] = EXCLUSIVE_LOCK
    <2>1. CASE EndPlayback(c) \/ Finalize(c)
      BY <2>1 DEF EndPlayback, Finalize
    <2>2. CASE StartPlayback(c)
      BY <2>2, AtPlace DEF StartPlayback, At, PlacedAt, Calling, Keeping
    <2>3. CASE Play(c)
      <3>1. me.eState \in {"OPEN", "DBMOD"} => lock[c] = EXCLUSIVE_LOCK
        BY <2>3, AtPlace DEF Play, At, PlacedAt, Calling, Keeping
      <3>2. me.eState \notin {"OPEN", "DBMOD"} => db' = db
        BY <2>3 DEF Play
      <3> QED
        BY <3>1, <3>2
    <2> QED
      BY <2>1, <2>2, <2>3
  <1>4. previous' = previous
    BY <1>2 DEF StartPlayback, Play, EndPlayback, Finalize
  <1>5. CASE me.eState = "OPEN"
    BY <1>1, <1>3, <1>4, <1>5, OpenSilent
  <1>6. CASE me.eState # "OPEN"
    <2>1. me.pc # "start"
      BY <1>6, AtPlace DEF PlacedAt, Calling, Keeping
    <2>2. Rolling(c) /\ Rolling(c)'
      BY <1>1, <1>2, <2>1 DEF Rolling
    <2> QED
      BY <1>1, <1>3, <1>4, <1>6, <2>2, RollingSilent
  <1> QED
    BY <1>5, <1>6

LEMMA DowngradeMaps ==
  ASSUME NEW img, Keeping(img), NEW c \in Conn, Downgrade(c)
  PROVE  UNCHANGED Durable!vars
  <1> DEFINE me == pager[c]
  <1>1. me.pc = "downgrade" /\ db' = db /\ previous' = previous /\ Objects
    BY DEF Downgrade, At, files, Keeping, ProtocolInv
  <1>2. CASE me.eState = "OPEN"
    <2>1. Moved(c, "validate")
      BY <1>1, <1>2, Moves
    <2> QED
      BY <1>1, <1>2, <2>1, OpenSilent DEF Moved, Turned
  <1>3. CASE me.eState # "OPEN"
    <2>1. /\ pager'[c].eState = "READER" /\ pager'[c].pc = "none"
          /\ \A d \in Conn \ {c} : pager'[d] = pager[d]
      BY <1>1, <1>3, AfterDowngrade DEF Turned
    <2>2. View(c) = img
      <3>1. CASE me.eState = "FINISHED"
        <4>1. Reading(c, img) /\ Whole(img)
          BY <1>1, <3>1 DEF Keeping, Inv, Connection, Files
        <4> QED
          BY <3>1, <4>1, ReaderSees DEF View, Rolling
      <3>2. CASE me.eState # "FINISHED"
        BY <1>1, <1>3, <3>2 DEF View, Rolling, Keeping
      <3> QED
        BY <3>1, <3>2
    <2>3. View(c)' = img
      <3>1. Reading(c, img)' /\ Whole(img)'
        BY <2>1 DEF Keeping, Inv, Connection, Files
      <3> QED
        BY <2>1, <3>1, ReaderSeesAfter DEF View, Rolling
    <2>4. c \in Writers' <=> c \in Writers
      BY <1>1, <2>1 DEF Writers, Writing, Rolling
    <2> QED
      BY <1>1, <2>1, <2>2, <2>3, <2>4, Silent DEF Keeping
  <1> QED
    BY <1>2, <1>3

\* A transaction goes on and sees what it saw.
LEMMA GoesOn ==
  ASSUME NEW img, Keeping(img), NEW c \in Conn, \A d \in Conn \ {c} : pager'[d] = pager[d],
         db' = db \/ lock[c] = EXCLUSIVE_LOCK,
         pager[c].eState # "OPEN", pager'[c].eState # "OPEN", ~Rolling(c), ~Rolling(c)',
         Seen(c)' = Seen(c), c \in Writers' <=> c \in Writers
  PROVE  Committed' = Committed /\ Views' = Views /\ WriterNow' = WriterNow
  <1>1. View(c)' = View(c)
    BY DEF View
  <1>2. \A d \in Conn \ {c} : View(d)' = View(d) /\ (d \in Writers' <=> d \in Writers)
    BY OthersSee DEF Keeping
  <1>3. Views' = Views
    BY <1>1, <1>2 DEF Views
  <1>4. WriterNow' = WriterNow
    BY <1>2, WriterAfter
  <1> QED
    BY <1>3, <1>4 DEF Keeping

\* The steps of a spill and of a commit up to the change of the database.
LEMMA CommitMaps ==
  ASSUME NEW img, Keeping(img), NEW c \in Conn,
         \/ TakeExclusive(c) \/ SyncRecords(c) \/ CountRecords(c) \/ SyncHeader(c) \/ SyncFile(c)
         \/ \E p \in Pages : Spill(c, p)
  PROVE  /\ Committed' = Committed /\ Views' = Views /\ WriterNow' = WriterNow
         /\ previous' = IF SyncRecords(c) THEN None ELSE previous
  <1> DEFINE me == pager[c]
             me2 == pager'[c]
  <1>1. /\ me2.eState \in {me.eState, "DBMOD", "FINISHED"}
        /\ me2.pc \in {"sync", "none", "count", "resync", "write", "lock"}
           \/ (me2.pc = "finalize" /\ me2.eState = "FINISHED")
        /\ me2.cache = me.cache /\ me2.size = me.size
        /\ \A d \in Conn \ {c} : pager'[d] = pager[d]
    <2>1. Objects
      BY DEF Keeping, ProtocolInv
    <2>2. CASE TakeExclusive(c) \/ SyncRecords(c) \/ CountRecords(c)
      BY <2>1, <2>2, Moves DEF Moved, Turned
    <2>3. CASE SyncHeader(c)
      BY <2>1, <2>3, AfterSyncHeader DEF Turned
    <2>4. CASE SyncFile(c)
      BY <2>1, <2>4, AfterSyncFile DEF Turned
    <2>5. CASE \E p \in Pages : Spill(c, p)
      BY <2>1, <2>5, AfterSpill DEF Turned
    <2> QED
      BY <2>2, <2>3, <2>4, <2>5
  <1>2. me.pc \in {"none", "lock", "sync", "count", "resync", "write"} /\ me.eState \in {"CACHEMOD", "DBMOD"}
    <2>1. \/ me.pc \in {"lock", "sync", "count", "resync", "write"}
          \/ me.pc = "none" /\ me.eState \in {"CACHEMOD", "DBMOD"}
      BY DEF TakeExclusive, SyncRecords, CountRecords, SyncHeader, SyncFile, Spill, Idle, At
    <2> QED
      BY <2>1, AtPlace DEF PlacedAt, Calling, Keeping
  <1>3. db' = db
    BY DEF TakeExclusive, SyncRecords, CountRecords, SyncHeader, SyncFile, Spill, files
  <1>4. ~Rolling(c) /\ ~Rolling(c)' /\ (c \in Writers' <=> c \in Writers)
    BY <1>1, <1>2 DEF Rolling, Writers, Writing
  <1>5. Seen(c)' = Seen(c)
    BY <1>1, <1>3 DEF Seen
  <1>6. previous' = IF SyncRecords(c) THEN None ELSE previous
    BY DEF TakeExclusive, SyncRecords, CountRecords, SyncHeader, SyncFile, Spill
  <1> QED
    BY <1>1, <1>2, <1>3, <1>4, <1>5, <1>6, GoesOn

\* A page that is read into the cache is seen as it was in the file.
LEMMA ReadMaps ==
  ASSUME NEW img, Keeping(img), NEW c \in Conn, NEW p \in Pages, Read(c, p)
  PROVE  UNCHANGED Durable!vars
  <1> DEFINE me == pager[c]
  <1>1. Turned(c, me.eState, me.pc, [me.cache EXCEPT ![p] = db[p]], me.dirty, me.needSync,
               me.size, me.vers, me.job, me.todo)
    BY AfterRead DEF Keeping, ProtocolInv
  <1>2. /\ me.pc = "none" /\ me.eState \in {"READER"} \cup Writing
        /\ me.cache[p] = NotCached /\ db' = db /\ previous' = previous
    BY DEF Read, Idle, At, files
  <1>3. me.cache \in [Pages -> Data \cup {NotCached}]
    BY DEF Keeping, Inv, Connection, Typed
  <1>4. Seen(c)' = Seen(c)
    <2>1. \A q \in Pages : (IF pager'[c].cache[q] # NotCached THEN pager'[c].cache[q] ELSE db'[q])
                         = (IF me.cache[q] # NotCached THEN me.cache[q] ELSE db[q])
      BY <1>1, <1>2, <1>3 DEF Turned
    <2>2. pager'[c].size = me.size
      BY <1>1 DEF Turned
    <2> QED
      BY <2>1, <2>2 DEF Seen
  <1>5. ~Rolling(c) /\ ~Rolling(c)' /\ (c \in Writers' <=> c \in Writers)
        /\ me.eState # "OPEN" /\ pager'[c].eState # "OPEN"
    BY <1>1, <1>2 DEF Turned, Rolling, Writers, Writing
  <1> QED
    BY <1>1, <1>2, <1>4, <1>5, GoesOn DEF Turned, Durable!vars

\* A page that goes to the file is seen as it was in the cache.
LEMMA WritePageMaps ==
  ASSUME NEW img, Keeping(img), NEW c \in Conn, WritePage(c)
  PROVE  UNCHANGED Durable!vars
  <1> DEFINE me == pager[c]
             p == IF me.job = 0 THEN Min(me.dirty) ELSE me.job
             v == IF p = 1 THEN me.vers + 1 ELSE me.cache[p]
             ca == [me.cache EXCEPT ![p] = IF me.job = 0 THEN me.cache[p] ELSE NotCached]
  <1>1. /\ me.pc = "write" /\ me.dirty # {} /\ db' = [db EXCEPT ![p] = v] /\ previous' = previous
    BY DEF WritePage, At, Put
  <1>2. me.eState = "DBMOD" /\ lock[c] = EXCLUSIVE_LOCK
    BY <1>1, AtPlace DEF PlacedAt, Calling, Keeping
  <1>3. Typed(c) /\ Live(c, img) /\ Files(img) /\ db \in [Pages -> Data \cup {Absent, Torn}]
    BY <1>1, <1>2, WriterKnows DEF Changing, Keeping, Files, FilesTyped
  <1>4. Turned(c, me.eState, IF me.job = 0 THEN me.pc ELSE "none", ca, me.dirty \ {p}, me.needSync,
               me.size, IF p = 1 THEN v ELSE me.vers, 0, me.todo)
    BY AfterWritePage DEF Keeping, ProtocolInv
  <1>5. p = (IF me.job = 0 THEN Min(me.dirty) ELSE me.job) /\ v = (IF p = 1 THEN me.vers + 1 ELSE me.cache[p])
    OBVIOUS
  <1>6. ca[p] \in {me.cache[p], NotCached} /\ \A q \in Pages \ {p} : ca[q] = me.cache[q]
    BY <1>3 DEF Typed
  <1> HIDE DEF p, v, ca
  <1>7. p \in Pages /\ v = me.cache[p] /\ v \in Data
    <2>1. nextTx \in 1 .. MaxTx + 1
      BY <1>3 DEF Files, FilesTyped
    <2> QED
      BY <1>1, <1>3, <1>5, <2>1, PageToWrite
  <1>8. Seen(c)' = Seen(c)
    <2>1. \A q \in Pages : (IF ca[q] # NotCached THEN ca[q] ELSE db'[q])
                         = (IF me.cache[q] # NotCached THEN me.cache[q] ELSE db[q])
      <3>1. db'[p] = v /\ \A q \in Pages \ {p} : db'[q] = db[q]
        BY <1>1, <1>3, <1>7
      <3>2. v # NotCached
        BY <1>7, BoundsAreNat DEF Data, NotCached
      <3> QED
        BY <1>6, <1>7, <3>1, <3>2
    <2>2. pager'[c].size = me.size /\ pager'[c].cache = ca
      BY <1>4 DEF Turned
    <2> QED
      BY <2>1, <2>2 DEF Seen
  <1>9. ~Rolling(c) /\ ~Rolling(c)' /\ (c \in Writers' <=> c \in Writers)
        /\ me.eState # "OPEN" /\ pager'[c].eState # "OPEN"
    BY <1>1, <1>2, <1>4 DEF Turned, Rolling, Writers, Writing
  <1> QED
    BY <1>1, <1>2, <1>4, <1>8, <1>9, GoesOn DEF Turned, Durable!vars

\* The writer ends its transaction: nobody writes then.
LEMMA NoWriterAfter ==
  ASSUME ProtocolInv, NEW c \in Writers, c \notin Writers',
         \A d \in Conn \ {c} : d \in Writers' <=> d \in Writers
  PROVE  WriterNow = c /\ WriterNow' = None
  <1>1. OneWriterAtMost /\ c \in Conn
    BY OneWriterIsKnown, WriterPlace
  <1>2. WriterNow = c
    BY <1>1, WriterNowIs
  <1>3. Writers' = {}
    <2> SUFFICES ASSUME NEW d \in Writers' PROVE FALSE
      OBVIOUS
    <2>1. d \in Conn \ {c}
      BY DEF Writers
    <2> QED
      BY <1>1, <2>1 DEF OneWriterAtMost
  <1> QED
    BY <1>2, <1>3 DEF WriterNow, None

\* A read transaction begins with the committed image.
LEMMA ValidateMaps ==
  ASSUME NEW img, Keeping(img), NEW c \in Conn, Validate(c)
  PROVE  Durable!Begin(c)
  <1>1. pager[c].pc = "validate" /\ db' = db /\ previous' = previous
    BY DEF Validate, At, files
  <1>2. pager[c].eState = "OPEN"
    BY <1>1, AtPlace DEF PlacedAt, Calling, Keeping
  <1>3. pager'[c].eState = "READER" /\ pager'[c].pc = "none" /\ \A d \in Conn \ {c} : pager'[d] = pager[d]
    BY AfterValidate DEF Turned, Keeping, ProtocolInv
  <1>4. View(c) = None
    BY <1>2 DEF View
  <1>5. View(c)' = img
    <2>1. Reading(c, img)' /\ Whole(img)'
      BY <1>3 DEF Keeping, Inv, Connection, Files
    <2> QED
      BY <1>3, <2>1, ReaderSeesAfter DEF View, Rolling
  <1>6. \A d \in Conn \ {c} : View(d)' = View(d) /\ (d \in Writers' <=> d \in Writers)
    BY <1>1, <1>3, OthersSee DEF Keeping
  <1>7. c \in Writers' <=> c \in Writers
    BY <1>2, <1>3 DEF Writers, Writing
  <1>8. Views' = [Views EXCEPT ![c] = View(c)'] /\ Views[c] = View(c)
    BY <1>6, ViewsAfter
  <1>9. WriterNow' = WriterNow
    BY <1>6, <1>7, WriterAfter
  <1> QED
    BY <1>1, <1>4, <1>5, <1>8, <1>9 DEF Durable!Begin, Keeping

LEMMA EndReadMaps ==
  ASSUME NEW img, Keeping(img), NEW c \in Conn, EndRead(c)
  PROVE  Durable!End(c)
  <1>1. pager[c].pc = "none" /\ pager[c].eState = "READER" /\ db' = db /\ previous' = previous
    BY DEF EndRead, Idle, At, files
  <1>2. pager'[c].eState = "OPEN" /\ \A d \in Conn \ {c} : pager'[d] = pager[d]
    BY AfterEndRead DEF Turned, Keeping, ProtocolInv
  <1>3. View(c) # None
    <2>1. Reading(c, img) /\ Whole(img)
      BY <1>1 DEF Keeping, Inv, Connection, Files
    <2>2. Seen(c) = img /\ img # None
      BY <2>1, ReaderSees, WholeSize
    <2> QED
      BY <1>1, <2>2 DEF View, Rolling
  <1>4. View(c)' = None
    BY <1>2 DEF View
  <1>5. \A d \in Conn \ {c} : View(d)' = View(d) /\ (d \in Writers' <=> d \in Writers)
    BY <1>1, <1>2, OthersSee DEF Keeping
  <1>6. c \notin Writers /\ c \notin Writers'
    BY <1>1, <1>2 DEF Writers, Writing
  <1>7. Views' = [Views EXCEPT ![c] = View(c)'] /\ Views[c] = View(c)
    BY <1>5, ViewsAfter
  <1>8. WriterNow' = WriterNow
    BY <1>5, <1>6, WriterAfter
  <1>9. WriterNow # c
    BY <1>6, OneWriterIsKnown, WriterNowIs DEF Keeping
  <1> QED
    BY <1>1, <1>3, <1>4, <1>7, <1>8, <1>9 DEF Durable!End, Keeping

\* The RESERVED lock makes the one writer, of a reader that is current.
LEMMA BeginWriteMaps ==
  ASSUME NEW img, Keeping(img), NEW c \in Conn, BeginWrite(c)
  PROVE  Durable!BeginWrite(c)
  <1>1. /\ pager[c].pc = "none" /\ pager[c].eState = "READER" /\ db' = db /\ previous' = previous
        /\ \A d \in Others(c) : lock[d] < RESERVED_LOCK
    BY DEF BeginWrite, Idle, At, files, Reserve, MayReserve
  <1>2. /\ pager'[c].eState = "LOCKED" /\ pager'[c].pc = "none"
        /\ pager'[c].cache = pager[c].cache /\ pager'[c].size = pager[c].size
        /\ \A d \in Conn \ {c} : pager'[d] = pager[d]
    BY <1>1, AfterBeginWrite DEF Turned, Keeping, ProtocolInv
  <1>3. View(c) = img /\ View(c)' = View(c)
    <2>1. Reading(c, img) /\ Whole(img)
      BY <1>1 DEF Keeping, Inv, Connection, Files
    <2>2. Seen(c) = img /\ Seen(c)' = Seen(c)
      BY <1>1, <1>2, <2>1, ReaderSees DEF Seen
    <2> QED
      BY <1>1, <1>2, <2>2 DEF View, Rolling
  <1>4. \A d \in Conn \ {c} : View(d)' = View(d) /\ (d \in Writers' <=> d \in Writers)
    BY <1>1, <1>2, OthersSee DEF Keeping
  <1>5. Writers = {}
    <2> SUFFICES ASSUME NEW d \in Writers PROVE FALSE
      OBVIOUS
    <2>1. d \in Conn /\ lock[d] >= RESERVED_LOCK /\ lock[d] \in Levels
      BY WriterPlace DEF Keeping, ProtocolInv, Promises, TypeOK
    <2>2. d # c
      BY <1>1 DEF Writers, Writing
    <2> QED
      BY <1>1, <2>1, <2>2 DEF Others, Levels
  <1>6. Writers' = {c}
    <2>1. c \in Writers'
      BY <1>2 DEF Writers, Writing, Rolling
    <2>2. \A d \in Writers' : d \in Conn
      BY DEF Writers
    <2> QED
      BY <1>4, <1>5, <2>1, <2>2
  <1>7. WriterNow = None /\ WriterNow' = c
    BY <1>5, <1>6 DEF WriterNow
  <1>8. Views' = Views /\ Views[c] = View(c)
    BY <1>3, <1>4 DEF Views
  <1> QED
    BY <1>1, <1>3, <1>7, <1>8 DEF Durable!BeginWrite, Keeping

\* What a writer sees is the content of a database.
LEMMA LiveSees ==
  ASSUME NEW img, NEW c \in Conn, Typed(c)', Live(c, img)'
  PROVE  Seen(c)' \in [Pages -> Data \cup {Absent}]
  <1>1. ASSUME NEW p \in Pages
        PROVE  (IF p > pager'[c].size THEN Absent
                ELSE IF pager'[c].cache[p] # NotCached THEN pager'[c].cache[p] ELSE db'[p])
               \in Data \cup {Absent}
    <2>1. pager'[c].cache[p] \in Data \cup {NotCached} /\ p \in Int /\ pager'[c].size \in Int
      BY BoundsAreNat DEF Typed, Pages
    <2>2. p \in pager'[c].dirty => pager'[c].cache[p] # NotCached
      BY DEF Live
    <2>3. p <= pager'[c].size /\ p \notin pager'[c].dirty => db'[p] \in Data
      BY DEF Live
    <2> QED
      BY <2>1, <2>2, <2>3
  <1> QED
    BY <1>1 DEF Seen

LEMMA ChangeMaps ==
  ASSUME NEW img, Keeping(img), NEW c \in Conn, NEW p \in Pages, Write(c, p) \/ Commit(c)
  PROVE  Durable!Write(c)
  <1>1. pager[c].pc = "none" /\ pager[c].eState \in Writing /\ db' = db /\ previous' = previous
    BY DEF Write, Commit, Idle, At, Writing
  <1>2. /\ pager'[c].eState \in {"CACHEMOD", "DBMOD"} /\ pager'[c].pc \in {"none", "lock"}
        /\ \A d \in Conn \ {c} : pager'[d] = pager[d]
    <2>1. (IF Opening(c) THEN "CACHEMOD" ELSE pager[c].eState) \in {"CACHEMOD", "DBMOD"}
      BY <1>1 DEF Opening, Writing
    <2>2. CASE Write(c, p)
      BY <1>1, <2>1, <2>2, AfterWrite DEF Turned, Keeping, ProtocolInv
    <2>3. CASE Commit(c)
      BY <1>1, <2>1, <2>3, AfterCommit DEF Turned, Keeping, ProtocolInv
    <2> QED
      BY <2>2, <2>3
  <1>3. View(c)' \in [Pages -> Data \cup {Absent}]
    <2>1. Typed(c)' /\ Live(c, img)'
      BY <1>2 DEF Keeping, Inv, Connection, Writer
    <2> QED
      BY <1>2, <2>1, LiveSees DEF View, Rolling
  <1>4. \A d \in Conn \ {c} : View(d)' = View(d) /\ (d \in Writers' <=> d \in Writers)
    BY <1>1, <1>2, OthersSee DEF Keeping
  <1>5. c \in Writers /\ c \in Writers'
    BY <1>1, <1>2 DEF Writers, Writing, Rolling
  <1>6. WriterNow = c /\ WriterNow' = WriterNow
    BY <1>4, <1>5, OneWriterIsKnown, WriterNowIs, WriterAfter DEF Keeping
  <1>7. Views' = [Views EXCEPT ![c] = View(c)'] /\ Views'[c] = View(c)'
    BY <1>4, ViewsAfter
  <1> QED
    BY <1>1, <1>3, <1>6, <1>7 DEF Durable!Write, Keeping

\* A transaction is given up: the rest of it shows the committed image.
LEMMA RollbackMaps ==
  ASSUME NEW img, Keeping(img), NEW c \in Conn, CommitNothing(c) \/ Rollback(c)
  PROVE  Durable!Rollback(c)
  <1>1. /\ pager[c].eState \in Writing /\ previous' = previous
        /\ pager[c].pc \in {"none", "lock", "sync", "count", "resync", "write"}
    BY DEF CommitNothing, Rollback, Idle, At, Writing
  <1>2. /\ pager'[c].eState = pager[c].eState /\ pager'[c].pc \in {"play", "downgrade"}
        /\ \A d \in Conn \ {c} : pager'[d] = pager[d]
    <2>1. CASE CommitNothing(c)
      BY <2>1, Moves DEF Moved, Turned, Keeping, ProtocolInv
    <2>2. CASE Rollback(c)
      BY <2>2, AfterRollback DEF Turned, Keeping, ProtocolInv
    <2> QED
      BY <2>1, <2>2
  <1>3. db' = db \/ lock[c] = EXCLUSIVE_LOCK
    <2>1. pager[c].eState = "DBMOD" => lock[c] = EXCLUSIVE_LOCK
      BY AtPlace DEF PlacedAt, Keeping
    <2>2. pager[c].eState # "DBMOD" => db' = db
      BY DEF CommitNothing, Rollback, files
    <2> QED
      BY <2>1, <2>2
  <1>4. View(c)' = img
    BY <1>1, <1>2 DEF View, Rolling, Keeping, Writing
  <1>5. \A d \in Conn \ {c} : View(d)' = View(d) /\ (d \in Writers' <=> d \in Writers)
    BY <1>2, <1>3, OthersSee DEF Keeping
  <1>6. c \in Writers /\ c \notin Writers'
    BY <1>1, <1>2 DEF Writers, Writing, Rolling
  <1>7. WriterNow = c /\ WriterNow' = None
    BY <1>5, <1>6, NoWriterAfter DEF Keeping
  <1>8. Views' = [Views EXCEPT ![c] = View(c)']
    BY <1>5, ViewsAfter
  <1> QED
    BY <1>1, <1>4, <1>7, <1>8 DEF Durable!Rollback, Keeping

\* The deletion of the journal commits what the writer sees.
LEMMA FinalizeMaps ==
  ASSUME ProtocolInv, NEW img, Inv(img), Committed = img, NEW c \in Conn,
         Finalize(c), pager[c].eState = "FINISHED"
  PROVE  Durable!Commit(c)
  <1> DEFINE me == pager[c]
  <1>1. /\ Moved(c, "downgrade") /\ me.pc = "finalize" /\ jrnl' = NoFile /\ db' = db
        /\ previous' = IF ExtraSync THEN previous ELSE Committed
    BY AtPlace, Moves DEF Finalize, At, DeleteJournal, Committed
  <1>2. lock[c] = EXCLUSIVE_LOCK
    BY <1>1, AtPlace DEF PlacedAt, Calling
  <1>3. Committing(c, img) /\ Whole(db) /\ Agrees(c, db) /\ me.size = Size(db) /\ Files(img)
    BY <1>1 DEF Inv, Connection, Committing
  <1>4. previous' \in {Committed, None}
    BY <1>1, <1>3 DEF Files, Committing
  <1>5. Committed' = db
    BY <1>1, NoFileFields DEF Committed, Recovered, Hot
  <1>6. Seen(c) = db
    <2>1. PICK new : new = db
      OBVIOUS
    <2>2. /\ new \in [Pages -> Data \cup {Absent}] /\ \A p \in Pages : new[p] # Absent <=> p <= Size(new)
          /\ \A p \in Pages : me.cache[p] \in {NotCached, new[p]}
          /\ me.size = Size(new)
      BY <1>3, <2>1 DEF Whole, Agrees
    <2> QED
      BY <2>1, <2>2, SeesImage DEF Seen
  <1>7. /\ pager'[c].eState = "FINISHED" /\ pager'[c].pc = "downgrade"
        /\ pager'[c].cache = me.cache /\ pager'[c].size = me.size
        /\ \A d \in Conn \ {c} : pager'[d] = pager[d]
    BY <1>1 DEF Moved, Turned
  <1>8. View(c) = db /\ View(c)' = db
    BY <1>1, <1>6, <1>7 DEF View, Rolling, Seen
  <1>9. \A d \in Conn \ {c} : View(d)' = View(d) /\ (d \in Writers' <=> d \in Writers)
    BY <1>2, <1>7, OthersSee
  <1>10. \A d \in Conn \ {c} : View(d) = None
    <2> SUFFICES ASSUME NEW d \in Conn \ {c} PROVE View(d) = None
      OBVIOUS
    <2>1. lock[d] = NO_LOCK
      BY <1>2 DEF ProtocolInv, Promises, ExclusiveIsAlone, Others
    <2> QED
      BY <2>1, AtPlace DEF PlacedAt, View
  <1>11. c \in Writers /\ c \notin Writers'
    BY <1>1, <1>7 DEF Writers, Rolling
  <1>12. WriterNow = c /\ WriterNow' = None
    BY <1>9, <1>11, NoWriterAfter
  <1>13. Views' = Views /\ Views[c] = View(c) /\ \A d \in Conn \ {c} : Views[d] = View(d)
    BY <1>8, <1>9 DEF Views
  <1> QED
    BY <1>4, <1>5, <1>8, <1>10, <1>12, <1>13 DEF Durable!Commit

\* A process that is killed, and a transaction that is given up in an error,
\* leave the rest as it was.
LEMMA CrashMaps ==
  ASSUME NEW img, Keeping(img), NEW c \in Conn, GiveUp(c) \/ Crash(c)
  PROVE  Durable!Crash({c})
  <1>1. db' = db /\ previous' = previous
    BY DEF GiveUp, Crash, files
  <1>2. pager'[c].eState = "OPEN" /\ \A d \in Conn \ {c} : pager'[d] = pager[d]
    BY AfterCrash, AfterGiveUp DEF Turned, Keeping, ProtocolInv
  <1>3. View(c)' = None /\ c \notin Writers'
    BY <1>2 DEF View, Writers, Writing
  <1>4. \A d \in Conn \ {c} : View(d)' = View(d) /\ (d \in Writers' <=> d \in Writers)
    BY <1>1, <1>2, OthersSee DEF Keeping
  <1>5. WriterNow' = IF WriterNow \in {c} THEN None ELSE WriterNow
    <2>1. CASE c \in Writers
      BY <1>3, <1>4, <2>1, NoWriterAfter DEF Keeping
    <2>2. CASE c \notin Writers
      <3>1. WriterNow' = WriterNow
        BY <1>3, <1>4, <2>2, WriterAfter
      <3>2. WriterNow # c
        BY <2>2, OneWriterIsKnown, WriterNowIs DEF Keeping
      <3> QED
        BY <3>1, <3>2
    <2> QED
      BY <2>1, <2>2
  <1>6. Views' = [d \in Conn |-> IF d \in {c} THEN None ELSE Views[d]]
    <2>1. Views' = [d \in Conn |-> View(d)'] /\ \A d \in Conn : Views[d] = View(d)
      BY DEF Views
    <2> QED
      BY <1>3, <1>4, <2>1
  <1> QED
    BY <1>1, <1>5, <1>6 DEF Durable!Crash, Keeping

\* A power loss leaves the committed image, or the one before it.
LEMMA PowerLossMaps ==
  ASSUME ProtocolInv, NEW img, Inv(img), Committed = img, CommittedKnown', PowerLoss
  PROVE  Durable!PowerLoss
  <1>1. PICK x \in {img} \cup ({previous} \ {None}) : Inv(x)'
    BY PowerLossInv
  <1>2. Committed' = x
    BY <1>1 DEF CommittedKnown
  <1>3. previous' = None /\ pager' = [c \in Conn |-> Fresh]
    BY DEF PowerLoss
  <1>4. \A c \in Conn : pager'[c].eState = "OPEN"
    BY <1>3, FreshShaped
  <1>5. Views' = [c \in Conn |-> None]
    BY <1>4 DEF Views, View
  <1>6. WriterNow' = None
    <2>1. Writers' = {}
      BY <1>4 DEF Writers, Writing
    <2> QED
      BY <2>1 DEF WriterNow, None
  <1> QED
    BY <1>2, <1>3, <1>5, <1>6 DEF Durable!PowerLoss

LEMMA StutterMaps ==
  ASSUME UNCHANGED vars
  PROVE  UNCHANGED Durable!vars
  <1>1. pager' = pager /\ db' = db /\ jrnl' = jrnl /\ previous' = previous
    BY DEF vars, files
  <1>2. Committed' = Committed
    BY <1>1 DEF Committed
  <1>3. Writers' = Writers
    BY <1>1 DEF Writers, Rolling
  <1>4. Views' = Views
    BY <1>1, <1>2 DEF Views, View, Rolling, Seen
  <1>5. WriterNow' = WriterNow
    BY <1>3 DEF WriterNow
  <1> QED
    BY <1>1, <1>2, <1>4, <1>5 DEF Durable!vars

LEMMA InitMaps == PagerInit => Durable!Init
  <1> SUFFICES ASSUME PagerInit PROVE Durable!Init
    OBVIOUS
  <1>1. previous = None /\ pager = [c \in Conn |-> Fresh]
    BY DEF PagerInit
  <1>2. Inv(db)
    BY InvInit
  <1>3. Committed = db /\ db \in [Pages -> Data \cup {Absent}]
    BY <1>2, CommittedIsKnown DEF CommittedKnown, Inv, Files, Whole
  <1>4. \A c \in Conn : pager[c].eState = "OPEN"
    BY <1>1, FreshShaped
  <1>5. Views = [c \in Conn |-> None]
    BY <1>4 DEF Views, View
  <1>6. Writers = {}
    BY <1>4 DEF Writers, Writing
  <1> QED
    BY <1>1, <1>3, <1>5, <1>6 DEF Durable!Init, WriterNow

\* Every step is a step of the abstract database or changes nothing there.
LEMMA RecoveryMaps ==
  ASSUME DurableTruncate, ProtocolInv, NEW img, Inv(img), CommittedKnown, CommittedKnown',
         NEW c \in Conn, Recovery(c)
  PROVE  Durable!Begin(c) \/ Durable!Commit(c) \/ UNCHANGED Durable!vars
  <1>1. CASE Finishing(c)
    BY <1>1, FinalizeMaps DEF CommittedKnown, Finishing
  <1>2. CASE ~Finishing(c)
    <2>1. Keeping(img)
      BY <1>2, RecoveryInv DEF Keeping, CommittedKnown
    <2>2. CASE \/ SharedLock(c) \/ AccessJournal(c) \/ CheckReserved(c) \/ FirstByte(c)
               \/ RemoveJournal(c) \/ HotExclusive(c) \/ OpenHot(c)
      BY <2>1, <2>2, SearchMaps
    <2>3. CASE StartPlayback(c) \/ Play(c) \/ EndPlayback(c) \/ Finalize(c)
      BY <1>2, <2>1, <2>3, PlaybackMaps DEF Finishing
    <2>4. CASE Downgrade(c) \/ Validate(c)
      BY <2>1, <2>4, DowngradeMaps, ValidateMaps
    <2> QED
      BY <2>2, <2>3, <2>4 DEF Recovery
  <1> QED
    BY <1>1, <1>2

LEMMA CommitStepMaps ==
  ASSUME ProtocolInv, NEW img, Inv(img), CommittedKnown, CommittedKnown',
         NEW c \in Conn, CommitStep(c)
  PROVE  Durable!Harden \/ UNCHANGED Durable!vars
  <1>1. Keeping(img)
    BY CommitStepInv DEF Keeping, CommittedKnown
  <1>2. CASE WritePage(c)
    BY <1>1, <1>2, WritePageMaps
  <1>3. CASE ~WritePage(c)
    <2>1. /\ Committed' = Committed /\ Views' = Views /\ WriterNow' = WriterNow
          /\ previous' = IF SyncRecords(c) THEN None ELSE previous
      BY <1>1, <1>3, CommitMaps DEF CommitStep
    <2> QED
      BY <2>1 DEF Durable!Harden, Durable!vars
  <1> QED
    BY <1>2, <1>3

LEMMA CallMaps ==
  ASSUME DurableTruncate, ProtocolInv, NEW img, Inv(img), CommittedKnown, CommittedKnown', NEW c \in Conn,
         \/ EndRead(c) \/ BeginWrite(c) \/ CommitNothing(c) \/ Commit(c) \/ Rollback(c)
         \/ GiveUp(c) \/ Crash(c)
         \/ \E p \in Pages : Read(c, p) \/ Write(c, p) \/ Spill(c, p)
  PROVE  \/ Durable!End(c) \/ Durable!BeginWrite(c) \/ Durable!Write(c) \/ Durable!Rollback(c)
         \/ Durable!Crash({c}) \/ UNCHANGED Durable!vars
  <1>1. Keeping(img)
    BY CallInv DEF Keeping, CommittedKnown
  <1>2. CASE EndRead(c) \/ BeginWrite(c) \/ CommitNothing(c) \/ Rollback(c) \/ GiveUp(c) \/ Crash(c)
    BY <1>1, <1>2, EndReadMaps, BeginWriteMaps, RollbackMaps, CrashMaps
  <1>3. CASE Commit(c) \/ \E p \in Pages : Write(c, p)
    BY <1>1, <1>3, FirstPage, ChangeMaps
  <1>4. CASE \E p \in Pages : Read(c, p)
    BY <1>1, <1>4, ReadMaps
  <1>5. CASE \E p \in Pages : Spill(c, p)
    <2>1. ~SyncRecords(c)
      BY <1>5 DEF Spill, SyncRecords, Idle, At
    <2> QED
      BY <1>1, <1>5, <2>1, CommitMaps DEF Durable!vars
  <1> QED
    BY <1>2, <1>3, <1>4, <1>5

LEMMA StepMaps ==
  ASSUME DurableTruncate, SomeInv, CommittedKnown, CommittedKnown', [PagerNext]_vars
  PROVE  [Durable!Next]_(Durable!vars)
  <1>1. PICK img : Inv(img)
    BY DEF SomeInv
  <1>2. ProtocolInv /\ Committed = img
    BY <1>1 DEF SomeInv, CommittedKnown
  <1>3. CASE UNCHANGED vars
    BY <1>3, StutterMaps
  <1>4. CASE PowerLoss
    BY <1>1, <1>2, <1>4, PowerLossMaps DEF Durable!Next
  <1>5. ASSUME NEW c \in Conn, Recovery(c) PROVE [Durable!Next]_(Durable!vars)
    BY <1>1, <1>2, <1>5, RecoveryMaps DEF Durable!Next
  <1>6. ASSUME NEW c \in Conn, CommitStep(c) PROVE [Durable!Next]_(Durable!vars)
    BY <1>1, <1>2, <1>6, CommitStepMaps DEF Durable!Next
  <1>7. ASSUME NEW c \in Conn,
               \/ EndRead(c) \/ BeginWrite(c) \/ CommitNothing(c) \/ Commit(c) \/ Rollback(c)
               \/ GiveUp(c) \/ Crash(c)
               \/ \E p \in Pages : Read(c, p) \/ Write(c, p) \/ Spill(c, p)
        PROVE  [Durable!Next]_(Durable!vars)
    <2>1. {c} \in SUBSET Conn
      OBVIOUS
    <2> QED
      BY <1>1, <1>2, <1>7, <2>1, CallMaps DEF Durable!Next
  <1> QED
    BY <1>3, <1>4, <1>5, <1>6, <1>7 DEF PagerNext

\* The pager implements DurableDb: what it reads, commits and recovers is what
\* one image, changed in one step by one writer at a time, would give.
THEOREM PagerImplementsDurableDb ==
  ASSUME DurableTruncate
  PROVE  PagerSpec => ImplementsDurableDb
  <1>1. SomeInv /\ CommittedKnown /\ CommittedKnown' /\ [PagerNext]_vars => [Durable!Next]_(Durable!vars)
    BY StepMaps
  <1> QED
    BY <1>1, InitMaps, CommittedIsKnown, SomeImageAlways, PTL DEF PagerSpec, ImplementsDurableDb, Durable!Spec

-----------------------------------------------------------------------------
(* What readers see, from DurableDb                                        *)

Reads == INSTANCE DurableDbProofs WITH
  Images    <- [Pages -> Data \cup {Absent}],
  committed <- Committed,
  view      <- Views,
  writer    <- WriterNow

LEMMA ReadsApply ==
  ASSUME None \notin [Pages -> Data \cup {Absent}]
  PROVE  ImplementsDurableDb => []Reads!ReadersAreCurrent
  <1>1. None \notin [Pages -> Data \cup {Absent}] \cup Conn
    BY NoneIsNoConnection
  <1>2. Reads!Spec => [](Reads!DbTypeOK /\ Reads!ReadersAreCurrent)
    BY <1>1, Reads!ReadersAlwaysCurrent
  <1>3. Durable!Init => Reads!Init
    BY DEF Durable!Init, Reads!Init
  <1>4. [Durable!Next]_(Durable!vars) => [Reads!Next]_(Reads!vars)
    BY DEF Durable!Next, Reads!Next, Durable!vars, Reads!vars, Durable!Harden, Reads!Harden,
           Durable!Begin, Reads!Begin, Durable!End, Reads!End, Durable!BeginWrite, Reads!BeginWrite,
           Durable!Write, Reads!Write, Durable!Commit, Reads!Commit, Durable!Rollback, Reads!Rollback,
           Durable!Crash, Reads!Crash, Durable!PowerLoss, Reads!PowerLoss
  <1> QED
    BY <1>2, <1>3, <1>4, PTL DEF ImplementsDurableDb, Durable!Spec, Reads!Spec

\* A connection inside a read transaction reads, from its cache or from the
\* file, the image that is committed, whatever writers, rollbacks, recoveries
\* and crashes are under way (pager.c:6448: a commit has the EXCLUSIVE lock), when
\* truncations are durable at once (DurableTruncate).
THEOREM PagerReadersAreCurrent ==
  ASSUME DurableTruncate, None \notin [Pages -> Data \cup {Absent}]
  PROVE  PagerSpec => [](\A c \in Conn : View(c) # None /\ WriterNow # c => View(c) = Committed)
  <1>1. Reads!ReadersAreCurrent => \A c \in Conn : View(c) # None /\ WriterNow # c => View(c) = Committed
    BY DEF Reads!ReadersAreCurrent, Views
  <1> QED
    BY <1>1, PagerImplementsDurableDb, ReadsApply, PTL
=============================================================================

------------------------------- MODULE Pager -------------------------------
(***************************************************************************)
(* SQLite's pager (pager.c) with a rollback journal, journal_mode=DELETE   *)
(* and synchronous=FULL, as app.py uses it: read transactions with the      *)
(* search for a hot journal, write transactions from the RESERVED lock to   *)
(* the deletion of the journal, cache spills, rollback, errors, and the     *)
(* recovery of what a killed process or a power loss left behind.           *)
(*                                                                         *)
(* The lock is FileLock.  Page 1 is represented by its change counter,     *)
(* every other page by the transaction that wrote it.                      *)
(***************************************************************************)
EXTENDS FileLock, Integers, FiniteSets, SequencesExt

CONSTANTS
  N,             \* pages a database may grow to
  MaxTx,         \* write transactions
  MaxFaults,     \* killed processes, power losses and I/O errors
  ExtraSync,     \* synchronous=EXTRA: the directory is synced after a deletion
  DurableTruncate \* the file system has a truncation on the disk at once

ASSUME BoundsAreNat == N \in Nat \ {0} /\ {MaxTx, MaxFaults} \subseteq Nat
ASSUME SwitchesAreBoolean == {ExtraSync, DurableTruncate} \subseteq BOOLEAN

VARIABLES
  db,            \* db[p]: page p of the file as every process reads it
  dbDisk,        \* dbDisk[p]: what a power loss may leave of it
  jrnl,          \* the journal file, NoFile when there is none
  jDisk,         \* what a power loss may leave of it
  pager,         \* pager[c]: the Pager object of connection c
  nextTx,        \* number of the next write transaction
  previous,      \* the image before the last commit, while it may come back
  faults         \* how many of them there were

files == <<db, dbDisk, jrnl, jDisk>>
vars == <<lock, files, pager, nextTx, previous, faults>>

Pages     == 1 .. N
Absent    == -1          \* beyond the end of the file
NotCached == -2
Torn      == -3          \* a page that was being written when the power failed
Data      == 0 .. MaxTx + 1

NoFile  == [tx |-> 0, orig |-> 0, counted |-> 0, recs |-> <<>>]
Garbage == [pg |-> 0, val |-> Torn]
Cold    == -1            \* counted, of a journal whose header has no magic yet
None    == <<>>          \* no image, no connection
ASSUME NoneIsNoConnection == None \notin Conn

Size(img) == Cardinality({p \in Pages : img[p] # Absent})
Counter(v) == IF v = Absent THEN 0 ELSE v

Fresh == [eState |-> "OPEN", pc |-> "none", cache |-> [p \in Pages |-> NotCached],
          dirty |-> {}, needSync |-> {}, size |-> 0, vers |-> 0, job |-> 0, todo |-> <<>>]

PagerInit ==
  /\ Init
  /\ \E k \in 0 .. N : db = [p \in Pages |-> IF p <= k THEN 0 ELSE Absent]
  /\ dbDisk = [p \in Pages |-> {db[p]}]
  /\ jrnl = NoFile /\ jDisk = {NoFile}
  /\ pager = [c \in Conn |-> Fresh]
  /\ nextTx = 1 /\ previous = None
  /\ faults = 0

-----------------------------------------------------------------------------
(* The journal: the size of the database before the transaction, records of *)
(* old pages, and how many records its headers count.  Every sync counts the *)
(* records since the last one in a header of its own.                      *)

Hot(j) == j # NoFile /\ j.counted # Cold

\* The records a hot playback reads: those counted, up to a wrong checksum.
Counted(j) == {i \in 1 .. j.counted : \A k \in 1 .. i : k \in DOMAIN j.recs /\ j.recs[k] # Garbage}

Saved(recs, p) == \E i \in DOMAIN recs : recs[i].pg = p

\* The image that recovery makes of the two files.
Recovered(j, d) ==
  IF ~Hot(j) \/ Size(d) = 0 THEN d
  ELSE [p \in Pages |->
          LET saved == {i \in Counted(j) : j.recs[i].pg = p} IN
          IF p > j.orig THEN Absent
          ELSE IF saved = {} THEN d[p] ELSE j.recs[CHOOSE i \in saved : TRUE].val]

\* Writing to the journal: until a sync the disk may have any of the writes,
\* and instead of an appended record anything.
Created(t, n)   == [tx |-> t, orig |-> n, counted |-> Cold, recs |-> <<>>]
Appended(j, r)  == [j EXCEPT !.recs = Append(@, r)]
Counting(j)     == [j EXCEPT !.counted = Len(jrnl.recs)]
SameFile(disk, j) == {x \in disk : x.tx = j.tx}

AppendRecord(j, disk, r) ==
  /\ jrnl' = Appended(j, r)
  /\ jDisk' = disk \cup {Appended(x, v) : x \in SameFile(disk, j), v \in {r, Garbage}}

SyncJournal == jDisk' = {jrnl}      \* the first sync of a new file syncs the directory

DeleteJournal(dirSync) ==
  /\ jrnl' = NoFile
  /\ jDisk' = IF dirSync THEN {NoFile} ELSE jDisk \cup {NoFile}

\* Writing to the database file.
Put(p, v) ==
  /\ db' = [db EXCEPT ![p] = v]
  /\ dbDisk' = [dbDisk EXCEPT ![p] = @ \cup {v, Torn}]

SyncDatabase == dbDisk' = [p \in Pages |-> {db[p]}]

-----------------------------------------------------------------------------

At(c, l) == pager[c].pc = l
Idle(c, S) == At(c, "none") /\ pager[c].eState \in S

Writing == {"LOCKED", "CACHEMOD", "DBMOD"}          \* PAGER_WRITER_...

\* sqlite3PagerSharedLock: the SHARED lock, and the search for a hot journal
\* in steps that other connections may fall between (ticket 3883).
SharedLock(c) ==
  /\ Idle(c, {"OPEN"}) /\ Share(c)
  /\ pager' = [pager EXCEPT ![c].pc = "access"]
  /\ UNCHANGED <<files, nextTx, previous, faults>>

AccessJournal(c) ==
  /\ At(c, "access")
  /\ pager' = [pager EXCEPT ![c].pc = IF jrnl = NoFile THEN "validate" ELSE "reserved"]
  /\ UNCHANGED <<lock, files, nextTx, previous, faults>>

CheckReserved(c) ==
  LET reserved == \E d \in Others(c) : lock[d] >= RESERVED_LOCK IN
  /\ At(c, "reserved")
  /\ pager' = [pager EXCEPT ![c].pc = IF reserved THEN "validate" ELSE "first"]
  /\ UNCHANGED <<lock, files, nextTx, previous, faults>>

\* Mutant of FirstByte: without the RESERVED lock.
FirstByteUnreserved(c) ==
  /\ At(c, "first")
  /\ pager' = [pager EXCEPT ![c].pc =
       IF Size(db) = 0 THEN "remove"
       ELSE IF jrnl = NoFile \/ Hot(jrnl) THEN "exclusive" ELSE "validate"]
  /\ UNCHANGED <<lock, files, nextTx, previous, faults>>

\* A journal beside an empty database is removed under a RESERVED lock, if
\* that can be had, and nothing is synced first; otherwise the journal is hot
\* when its first byte is not zero, and taken for hot when it is gone.
FirstByte(c) ==
  /\ At(c, "first")
  /\ IF Size(db) = 0
     THEN \/ /\ Reserve(c)
             /\ pager' = [pager EXCEPT ![c].pc = "remove"]
          \/ /\ ~MayReserve(c)
             /\ pager' = [pager EXCEPT ![c].pc = "validate"]
             /\ UNCHANGED lock
     ELSE /\ pager' = [pager EXCEPT ![c].pc =
                         IF jrnl = NoFile \/ Hot(jrnl) THEN "exclusive" ELSE "validate"]
          /\ UNCHANGED lock
  /\ UNCHANGED <<files, nextTx, previous, faults>>

RemoveJournal(c) ==
  /\ At(c, "remove")
  /\ DeleteJournal(FALSE)
  /\ pager' = [pager EXCEPT ![c].pc = "downgrade"]
  /\ UNCHANGED <<lock, db, dbDisk, nextTx, previous, faults>>

\* Not by way of RESERVED: another reader would take the file for safe.
HotExclusive(c) ==
  /\ At(c, "exclusive")
  /\ \/ /\ Exclude(c)
        /\ pager' = [pager EXCEPT ![c].pc = "open"]
     \/ /\ ~MayExclude(c)
        /\ Lower(c, NO_LOCK)
        /\ pager' = [pager EXCEPT ![c].pc = "none"]
  /\ UNCHANGED <<files, nextTx, previous, faults>>

\* Somebody else may have played it back meanwhile; otherwise it is synced
\* before it is used, but not the directory it is in.
OpenHot(c) ==
  /\ At(c, "open")
  /\ pager' = [pager EXCEPT ![c].pc = IF jrnl = NoFile THEN "downgrade" ELSE "start"]
  /\ jDisk' = IF jrnl = NoFile THEN jDisk
              ELSE {jrnl} \cup (jDisk \ SameFile(jDisk, jrnl))
  /\ UNCHANGED <<lock, db, dbDisk, jrnl, nextTx, previous, faults>>

\* pager_truncate: the database gets its original size again.
TruncateFile ==
  /\ db' = [p \in Pages |-> IF p > jrnl.orig THEN Absent ELSE db[p]]
  /\ dbDisk' = [p \in Pages |-> IF p <= jrnl.orig THEN dbDisk[p]
                              ELSE IF DurableTruncate THEN {Absent} ELSE dbDisk[p] \cup {Absent}]

StartPlayback(c) ==
  LET todo == SubSeq(jrnl.recs, 1, Cardinality(Counted(jrnl))) IN
  /\ At(c, "start")
  /\ IF Hot(jrnl)
     THEN /\ TruncateFile
          /\ pager' = [pager EXCEPT ![c].pc = "play", ![c].todo = todo,
                         ![c].cache = IF todo = <<>> THEN @ ELSE Fresh.cache]
     ELSE /\ pager' = [pager EXCEPT ![c].pc = "play"]
          /\ UNCHANGED <<db, dbDisk>>
  /\ UNCHANGED <<lock, jrnl, jDisk, nextTx, previous, faults>>

\* pager_playback_one_page, of a hot journal (OPEN) or the own one.  Only a
\* record before the last synced header, whose page needs no sync any more, is
\* written to the file.
Play(c) ==
  LET r == Head(pager[c].todo)
      cached == pager[c].cache[r.pg] # NotCached
      toFile == \/ pager[c].eState = "OPEN"
                \/ pager[c].eState = "DBMOD" /\ r.pg \notin pager[c].needSync
  IN
  /\ At(c, "play") /\ pager[c].todo # <<>>
  /\ IF toFile THEN Put(r.pg, r.val) ELSE UNCHANGED <<db, dbDisk>>
  /\ pager' = [pager EXCEPT ![c].todo = Tail(@),
                 ![c].cache[r.pg] = IF cached THEN r.val ELSE @,
                 ![c].vers = IF cached /\ r.pg = 1 THEN r.val ELSE @]
  /\ UNCHANGED <<lock, jrnl, jDisk, nextTx, previous, faults>>

\* Mutant of EndPlayback: without the sync.
EndPlaybackUnsynced(c) ==
  /\ At(c, "play") /\ pager[c].todo = <<>>
  /\ pager' = [pager EXCEPT ![c].pc = "finalize"]
  /\ UNCHANGED <<lock, files, nextTx, previous, faults>>

\* The file is synced before the journal goes.
EndPlayback(c) ==
  /\ At(c, "play") /\ pager[c].todo = <<>>
  /\ IF pager[c].eState = "CACHEMOD" THEN UNCHANGED dbDisk ELSE SyncDatabase
  /\ pager' = [pager EXCEPT ![c].pc = "finalize"]
  /\ UNCHANGED <<lock, db, jrnl, jDisk, nextTx, previous, faults>>

\* pager_end_transaction: the journal is deleted, which for a transaction
\* whose pages are all written is the commit; then the lock is lowered.
Finalize(c) ==
  /\ At(c, "finalize")
  /\ DeleteJournal(ExtraSync)
  /\ previous' = IF pager[c].eState = "FINISHED" /\ ~ExtraSync
                 THEN Recovered(jrnl, db) ELSE previous
  /\ pager' = [pager EXCEPT ![c].pc = "downgrade"]
  /\ UNCHANGED <<lock, db, dbDisk, nextTx, faults>>

Downgrade(c) ==
  LET me == pager[c]
      size == IF me.eState \in {"LOCKED", "FINISHED"} THEN me.size ELSE Size(db)
  IN
  /\ At(c, "downgrade")
  /\ Lower(c, SHARED_LOCK)
  /\ pager' = [pager EXCEPT ![c] =
       IF me.eState = "OPEN" THEN [me EXCEPT !.pc = "validate"]
       ELSE [me EXCEPT !.pc = "none", !.eState = "READER", !.dirty = {}, !.needSync = {},
                !.size = size, !.job = 0,
                !.cache = [p \in Pages |-> IF p > size THEN NotCached ELSE me.cache[p]]]]
  /\ UNCHANGED <<files, nextTx, previous, faults>>

\* The cache is kept if the change counter is the one it was read under; the
\* b-tree then fetches page 1.
Validate(c) ==
  LET counter == Counter(db[1])
      kept == IF counter = pager[c].vers THEN pager[c].cache ELSE Fresh.cache
  IN
  /\ At(c, "validate")
  /\ pager' = [pager EXCEPT ![c].pc = "none", ![c].eState = "READER",
                 ![c].size = Size(db), ![c].vers = counter,
                 ![c].cache = [kept EXCEPT ![1] = IF Size(db) = 0 THEN NotCached ELSE counter]]
  /\ UNCHANGED <<lock, files, nextTx, previous, faults>>

\* Mutant of Read: the end of the database is overlooked.
ReadUnbounded(c, p) ==
  /\ Idle(c, {"READER"} \cup Writing)
  /\ pager[c].cache[p] = NotCached
  /\ pager' = [pager EXCEPT ![c].cache[p] = db[p]]
  /\ UNCHANGED <<lock, files, nextTx, previous, faults>>

\* sqlite3PagerGet of a page that is not in the cache.
Read(c, p) ==
  /\ Idle(c, {"READER"} \cup Writing)
  /\ p <= pager[c].size /\ pager[c].cache[p] = NotCached
  /\ pager' = [pager EXCEPT ![c].cache[p] = db[p]]
  /\ UNCHANGED <<lock, files, nextTx, previous, faults>>

EndRead(c) ==
  /\ Idle(c, {"READER"}) /\ Lower(c, NO_LOCK)
  /\ pager' = [pager EXCEPT ![c].eState = "OPEN", ![c].size = 0]
  /\ UNCHANGED <<files, nextTx, previous, faults>>

-----------------------------------------------------------------------------
(* Write transactions                                                      *)

\* sqlite3PagerBegin
BeginWrite(c) ==
  /\ Idle(c, {"READER"}) /\ nextTx <= MaxTx /\ Reserve(c)
  /\ pager' = [pager EXCEPT ![c].eState = "LOCKED"]
  /\ UNCHANGED <<files, nextTx, previous, faults>>

\* pager_write: the first page opens the journal; the old content of a page of
\* the original database is appended to it once, before the page changes.
Opening(c) == pager[c].eState = "LOCKED"
OwnJournal(c) == IF Opening(c) THEN Created(nextTx, pager[c].size) ELSE jrnl
Unsaved(c, p) == p <= OwnJournal(c).orig /\ ~Saved(OwnJournal(c).recs, p)

Journalled(c, p) ==
  LET me   == pager[c]
      disk == IF Opening(c) THEN jDisk \cup {OwnJournal(c)} ELSE jDisk
      old  == IF me.cache[p] = NotCached THEN db[p] ELSE me.cache[p]
  IN
  /\ IF Unsaved(c, p) THEN AppendRecord(OwnJournal(c), disk, [pg |-> p, val |-> old])
     ELSE jrnl' = OwnJournal(c) /\ jDisk' = disk
  /\ nextTx' = IF Opening(c) THEN nextTx + 1 ELSE nextTx

Changed(c, p, v) ==
  [pager[c] EXCEPT
     !.eState = IF Opening(c) THEN "CACHEMOD" ELSE @,
     !.cache[p] = v,
     !.dirty = @ \cup {p},
     !.needSync = IF Unsaved(c, p) \/ (p > OwnJournal(c).orig /\ pager[c].eState # "DBMOD")
                  THEN @ \cup {p} ELSE @,
     !.size = Max({@, p})]

\* A page, or the next page after the last one, gets new content.
Write(c, p) ==
  LET t == OwnJournal(c).tx IN
  /\ Idle(c, Writing)
  /\ p <= pager[c].size + 1
  /\ IF p = 1 THEN pager[c].size = 0 ELSE pager[c].cache[p] # t
  /\ Journalled(c, p)
  /\ pager' = [pager EXCEPT ![c] = Changed(c, p, IF p = 1 THEN 0 ELSE t)]
  /\ UNCHANGED <<lock, db, dbDisk, previous, faults>>

\* pagerStress: the page cache is full and page p has to go to the file.
Spill(c, p) ==
  LET me == pager[c] IN
  /\ Idle(c, {"CACHEMOD", "DBMOD"})
  /\ p \in me.dirty \ {1}
  /\ pager' = [pager EXCEPT ![c].job = p,
                 ![c].pc = IF p \in me.needSync \/ me.eState = "CACHEMOD" THEN "lock" ELSE "write"]
  /\ UNCHANGED <<lock, files, nextTx, previous, faults>>

\* sqlite3PagerCommitPhaseOne: nothing to do (a rollback does the same then),
\* or the change counter first.
CommitNothing(c) ==
  /\ Idle(c, {"LOCKED"})
  /\ pager' = [pager EXCEPT ![c].pc = "downgrade"]
  /\ UNCHANGED <<lock, files, nextTx, previous, faults>>

Commit(c) ==
  /\ Idle(c, {"CACHEMOD", "DBMOD"})
  /\ Journalled(c, 1)
  /\ pager' = [pager EXCEPT ![c] =
       [Changed(c, 1, pager[c].vers + 1) EXCEPT !.job = 0, !.pc = "lock"]]
  /\ UNCHANGED <<lock, db, dbDisk, previous, faults>>

\* Mutant of TakeExclusive: PENDING is taken for enough.
TakePending(c) ==
  /\ At(c, "lock")
  /\ Pend(c) \/ UNCHANGED lock
  /\ pager' = [pager EXCEPT ![c].pc = "sync"]
  /\ UNCHANGED <<files, nextTx, previous, faults>>

\* syncJournal: the EXCLUSIVE lock, which readers may deny, ...
TakeExclusive(c) ==
  /\ At(c, "lock")
  /\ \/ /\ Exclude(c) \/ (lock[c] = EXCLUSIVE_LOCK /\ UNCHANGED lock)
        /\ pager' = [pager EXCEPT ![c].pc = "sync"]
     \/ /\ lock[c] # EXCLUSIVE_LOCK /\ ~MayExclude(c)
        /\ Pend(c) \/ UNCHANGED lock
        /\ pager' = [pager EXCEPT ![c].pc = "none"]
  /\ UNCHANGED <<files, nextTx, previous, faults>>

\* Mutant of SyncRecords: without the sync.
SyncRecordsSkipped(c) ==
  /\ At(c, "sync")
  /\ previous' = None
  /\ pager' = [pager EXCEPT ![c].pc = "count"]
  /\ UNCHANGED <<lock, files, nextTx, faults>>

\* ... the records on the disk before the header counts them, ...
SyncRecords(c) ==
  /\ At(c, "sync")
  /\ SyncJournal
  /\ previous' = None
  /\ pager' = [pager EXCEPT ![c].pc = "count"]
  /\ UNCHANGED <<lock, db, dbDisk, jrnl, nextTx, faults>>

CountRecords(c) ==
  /\ At(c, "count")
  /\ jrnl' = Counting(jrnl)
  /\ jDisk' = jDisk \cup {Counting(x) : x \in SameFile(jDisk, jrnl)}
  /\ pager' = [pager EXCEPT ![c].pc = "resync"]
  /\ UNCHANGED <<lock, db, dbDisk, nextTx, previous, faults>>

\* Mutant of SyncHeader: the database changes before the header is synced.
SyncHeaderSkipped(c) ==
  /\ At(c, "resync")
  /\ pager' = [pager EXCEPT ![c].pc = "write", ![c].eState = "DBMOD", ![c].needSync = {}]
  /\ UNCHANGED <<lock, files, nextTx, previous, faults>>

\* ... and the header on the disk before the database changes.
SyncHeader(c) ==
  /\ At(c, "resync")
  /\ SyncJournal
  /\ pager' = [pager EXCEPT ![c].pc = "write", ![c].eState = "DBMOD", ![c].needSync = {}]
  /\ UNCHANGED <<lock, db, dbDisk, jrnl, nextTx, previous, faults>>

\* pager_write_pagelist: the page to spill, or all dirty pages in order.
WritePage(c) ==
  LET me == pager[c]
      p  == IF me.job = 0 THEN Min(me.dirty) ELSE me.job
      v  == IF p = 1 THEN me.vers + 1 ELSE me.cache[p]
  IN
  /\ At(c, "write") /\ me.dirty # {}
  /\ Put(p, v)
  /\ pager' = [pager EXCEPT ![c] =
       [me EXCEPT !.dirty = @ \ {p},
                  !.vers = IF p = 1 THEN v ELSE @,
                  !.cache[p] = IF me.job = 0 THEN @ ELSE NotCached,
                  !.pc = IF me.job = 0 THEN @ ELSE "none",
                  !.job = 0]]
  /\ UNCHANGED <<lock, jrnl, jDisk, nextTx, previous, faults>>

SyncFile(c) ==
  /\ At(c, "write") /\ pager[c].dirty = {}
  /\ SyncDatabase
  /\ pager' = [pager EXCEPT ![c].eState = "FINISHED", ![c].pc = "finalize"]
  /\ UNCHANGED <<lock, db, jrnl, jDisk, nextTx, previous, faults>>

\* sqlite3PagerRollback, asked for or after BUSY or an error in a commit.
Rollback(c) ==
  /\ pager[c].eState \in {"CACHEMOD", "DBMOD"}
  /\ pager[c].pc \in {"none", "lock", "sync", "count", "resync", "write"}
  /\ pager' = [pager EXCEPT ![c].pc = "play", ![c].todo = jrnl.recs]
  /\ IF pager[c].eState = "DBMOD" THEN TruncateFile ELSE UNCHANGED <<db, dbDisk>>
  /\ UNCHANGED <<lock, jrnl, jDisk, nextTx, previous, faults>>

-----------------------------------------------------------------------------
(* Errors, killed processes, power losses                                  *)

\* pager_error and pager_unlock: nothing in the cache can be trusted, and the
\* journal is left for the next connection.
GiveUp(c) ==
  /\ faults < MaxFaults
  /\ \/ pager[c].pc \in {"start", "play", "finalize"}
     \/ pager[c].pc \in {"sync", "count", "resync", "write"} /\ pager[c].job # 0
  /\ Lower(c, NO_LOCK)
  /\ pager' = [pager EXCEPT ![c] = [Fresh EXCEPT !.vers = pager[c].vers]]
  /\ faults' = faults + 1
  /\ UNCHANGED <<files, nextTx, previous>>

Crash(c) ==
  /\ faults < MaxFaults /\ lock[c] # NO_LOCK
  /\ DropAll({c})
  /\ pager' = [pager EXCEPT ![c] = Fresh]
  /\ faults' = faults + 1
  /\ UNCHANGED <<files, nextTx, previous>>

\* A page that was lost below one that was kept is no page of zeros yet.
Filled(d) ==
  [p \in Pages |-> IF d[p] = Absent /\ (\E q \in Pages : q > p /\ d[q] # Absent)
                  THEN Torn ELSE d[p]]

PowerLoss ==
  /\ faults < MaxFaults
  /\ \E d \in [Pages -> UNION {dbDisk[p] : p \in Pages}] :
       /\ \A p \in Pages : d[p] \in dbDisk[p]
       /\ db' = Filled(d)
  /\ \E j \in jDisk : jrnl' = j
  /\ dbDisk' = [p \in Pages |-> {db'[p]}] /\ jDisk' = {jrnl'}
  /\ DropAll(Conn)
  /\ pager' = [c \in Conn |-> Fresh]
  /\ previous' = None
  /\ faults' = faults + 1
  /\ UNCHANGED nextTx

-----------------------------------------------------------------------------

Recovery(c) ==
  \/ SharedLock(c) \/ AccessJournal(c) \/ CheckReserved(c) \/ FirstByte(c)
  \/ RemoveJournal(c) \/ HotExclusive(c) \/ OpenHot(c) \/ StartPlayback(c)
  \/ Play(c) \/ EndPlayback(c) \/ Finalize(c) \/ Downgrade(c) \/ Validate(c)

CommitStep(c) ==
  \/ TakeExclusive(c) \/ SyncRecords(c) \/ CountRecords(c) \/ SyncHeader(c)
  \/ WritePage(c) \/ SyncFile(c)

PagerNext ==
  \/ \E c \in Conn :
       \/ Recovery(c) \/ CommitStep(c)
       \/ EndRead(c) \/ BeginWrite(c) \/ CommitNothing(c) \/ Commit(c) \/ Rollback(c)
       \/ GiveUp(c) \/ Crash(c)
       \/ \E p \in Pages : Read(c, p) \/ Write(c, p) \/ Spill(c, p)
  \/ PowerLoss

PagerSpec == PagerInit /\ [][PagerNext]_vars

-----------------------------------------------------------------------------

(* Every variable has its type; in particular no torn page and no counter   *)
(* out of range is ever read into a cache.                                 *)
PagerTypeOK ==
  LET Val == Data \cup {Absent} IN
  /\ TypeOK
  /\ db \in [Pages -> Val \cup {Torn}]
  /\ \A p \in Pages : db[p] \in dbDisk[p]
  /\ jrnl \in jDisk
  /\ \A c \in Conn : pager[c] \in
       [eState : {"OPEN", "READER", "LOCKED", "CACHEMOD", "DBMOD", "FINISHED"},
        pc : {"none", "access", "reserved", "first", "remove", "exclusive", "open", "start",
              "play", "finalize", "downgrade", "validate",
              "lock", "sync", "count", "resync", "write"},
        cache : [Pages -> Data \cup {NotCached}],
        dirty : SUBSET Pages, needSync : SUBSET Pages,
        size : 0 .. N, vers : Data, job : 0 .. N, todo : Seq([pg : Pages, val : Data])]

(* What assert_pager_state (pager.c:895-961) asserts in each state of a      *)
(* Pager: the lock it has, and that up to DBMOD neither it nor a recovery    *)
(* changed the size of the file since the transaction began.               *)
AssertedStates ==
  \A c \in Conn : LET me == pager[c] IN
    /\ me.eState = "READER" => lock[c] >= SHARED_LOCK
    /\ me.eState \in {"LOCKED", "CACHEMOD"} => lock[c] >= RESERVED_LOCK
    /\ me.eState = "LOCKED" => me.size = Size(db)
    /\ me.eState = "CACHEMOD" /\ me.pc # "downgrade" => jrnl.orig = Size(db)
    /\ me.eState \in {"DBMOD", "FINISHED"} => lock[c] = EXCLUSIVE_LOCK

(* While a connection has changed pages the journal of its transaction is    *)
(* in the directory: no reader that took it for a left-over removes it       *)
(* (ticket 3883, pager.c:5144).                                            *)
JournalIsKept ==
  \A c \in Conn :
    pager[c].eState \in {"CACHEMOD", "DBMOD"} /\ pager[c].pc # "downgrade" =>
      /\ jrnl # NoFile
      /\ \A d \in Others(c) : pager[d].pc \notin {"remove", "open", "start", "play"}

(* All writes to the database file are synced before the journal is          *)
(* deleted: rule 5 of pager.c:71-72.                                       *)
SyncedBeforeDeletion == jrnl = NoFile => \A p \in Pages : dbDisk[p] = {db[p]}

-----------------------------------------------------------------------------
(* What the pager implements                                               *)

Committed == Recovered(jrnl, db)

\* c has given up its changes, or has made none, and ends its transaction.
Rolling(c) == pager[c].pc \in {"play", "finalize", "downgrade"} /\ pager[c].eState # "FINISHED"

\* What connection c would read now: its cache, then the file.
Seen(c) ==
  LET me == pager[c] IN
  [p \in Pages |-> IF p > me.size THEN Absent
                   ELSE IF me.cache[p] # NotCached THEN me.cache[p] ELSE db[p]]

View(c) == IF pager[c].eState = "OPEN" THEN None ELSE IF Rolling(c) THEN Committed ELSE Seen(c)

Writers == {c \in Conn : /\ pager[c].eState \in Writing \cup {"FINISHED"}
                         /\ ~Rolling(c)
                         /\ ~(pager[c].eState = "FINISHED" /\ pager[c].pc = "downgrade")}

Views     == [c \in Conn |-> View(c)]
WriterNow == IF Writers = {} THEN None ELSE CHOOSE c \in Writers : TRUE

Durable == INSTANCE DurableDb WITH
  Images    <- [Pages -> Data \cup {Absent}],
  committed <- Committed,
  view      <- Views,
  writer    <- WriterNow

(* The pager implements DurableDb: atomic commits, readers that keep their  *)
(* image, and recovery after crashes, errors and power losses.             *)
ImplementsDurableDb == Durable!Spec
=============================================================================

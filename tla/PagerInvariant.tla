--------------------------- MODULE PagerInvariant ---------------------------
(***************************************************************************)
(* Why Pager keeps a database whole: what holds of the files, and of every *)
(* connection at every place in its calls, between any two file operations.*)
(*                                                                         *)
(* img is the committed image, which is what recovery makes of the files.  *)
(***************************************************************************)
EXTENDS Pager

-----------------------------------------------------------------------------
(* Locks and places                                                        *)

Calling == {"lock", "sync", "count", "resync", "write"}

\* The lock k that a connection has in state s at place l of its calls.
PlacedAt(s, l, k) ==
  \/ s = "OPEN" /\ l = "none" /\ k = NO_LOCK
  \/ s = "OPEN" /\ l \in {"access", "reserved", "first", "exclusive", "validate"} /\ k = SHARED_LOCK
  \/ s = "OPEN" /\ l = "remove" /\ k = RESERVED_LOCK
  \/ s = "OPEN" /\ l \in {"open", "start", "play", "finalize"} /\ k = EXCLUSIVE_LOCK
  \/ s = "OPEN" /\ l = "downgrade" /\ k >= RESERVED_LOCK
  \/ s = "READER" /\ l = "none" /\ k = SHARED_LOCK
  \/ s = "LOCKED" /\ l \in {"none", "downgrade"} /\ k = RESERVED_LOCK
  \/ s = "CACHEMOD" /\ l \in {"none", "lock", "play", "finalize", "downgrade"} /\ k >= RESERVED_LOCK
  \/ s = "CACHEMOD" /\ l \in {"sync", "count", "resync"} /\ k = EXCLUSIVE_LOCK
  \/ s = "DBMOD" /\ l \in {"none", "play", "finalize", "downgrade"} \cup Calling /\ k = EXCLUSIVE_LOCK
  \/ s = "FINISHED" /\ l \in {"finalize", "downgrade"} /\ k = EXCLUSIVE_LOCK

Placed(c) == PlacedAt(pager[c].eState, pager[c].pc, lock[c])

\* c is in a write transaction that has begun to change pages.
Changing(c) == pager[c].eState \in {"CACHEMOD", "DBMOD"} /\ pager[c].pc # "downgrade"

\* A Pager object, whatever its fields are.
Object(s, l, ca, di, ns, sz, v, jb, td) ==
  [eState |-> s, pc |-> l, cache |-> ca, dirty |-> di, needSync |-> ns,
   size |-> sz, vers |-> v, job |-> jb, todo |-> td]

Objects == pager = [c \in Conn |-> LET me == pager[c] IN
  Object(me.eState, me.pc, me.cache, me.dirty, me.needSync, me.size, me.vers, me.job, me.todo)]

\* The journal of some transaction.
IsJournal(j) ==
  /\ j = [tx |-> j.tx, orig |-> j.orig, counted |-> j.counted, recs |-> j.recs]
  /\ j.tx \in Nat \ {0}

Promises == TypeOK /\ ExclusiveIsAlone /\ OneWriter

(* The protocol of the locks: the lock a place needs, and the journal of the *)
(* writer there.                                                           *)
ProtocolInv ==
  /\ Promises /\ Objects
  /\ nextTx \in Nat \ {0}
  /\ \A c \in Conn : Placed(c) /\ (Changing(c) => IsJournal(jrnl))

-----------------------------------------------------------------------------
(* Files                                                                   *)

\* An image without holes, written by the transactions so far.
Whole(img) ==
  /\ img \in [Pages -> Data \cup {Absent}]
  /\ \A p \in Pages : img[p] # Absent <=> p <= Size(img)
  /\ Counter(img[1]) < nextTx

\* Page p is in the file and on the disk as it is in the image.
Settled(p, img) == db[p] = img[p] /\ dbDisk[p] = {img[p]}
Clean(img)      == \A p \in Pages : Settled(p, img)

InJournal(j, p) == \E i \in 1 .. j.counted : j.recs[i].pg = p

OldPage(r, img) == r.pg \in 1 .. Size(img) /\ r.val = img[r.pg]

\* Whatever a power loss leaves of the pages, journal j makes img of it.
Restores(j, img) ==
  /\ j.orig = Size(img)
  /\ \A i \in 1 .. j.counted : OldPage(j.recs[i], img)
  /\ \A p \in 1 .. j.orig : /\ db[p] # Absent /\ Absent \notin dbDisk[p]
                            /\ InJournal(j, p) \/ Settled(p, img)

Journal ==
  {j \in [tx : 1 .. nextTx - 1, orig : 0 .. N, counted : Nat \cup {Cold},
          recs : Seq([pg : Int, val : Int])] : j.counted <= Len(j.recs)}

FilesTyped ==
  /\ db \in [Pages -> Data \cup {Absent, Torn}]
  /\ dbDisk \in [Pages -> SUBSET (Data \cup {Absent, Torn})]
  /\ \A p \in Pages : db[p] \in dbDisk[p] /\ (db[p] = Absent => dbDisk[p] = {Absent})
  /\ jrnl \in jDisk /\ jDisk \subseteq {NoFile} \cup Journal
  /\ nextTx \in 1 .. MaxTx + 1

\* What journal j and the pages give after a power loss.
Recoverable(j, img) ==
  IF Hot(j) THEN Restores(j, img) \/ (previous # None /\ Restores(j, previous)) ELSE Clean(img)

Files(img) ==
  /\ FilesTyped
  /\ Whole(img) /\ (previous # None => Whole(previous))
  /\ \A j \in jDisk : Recoverable(j, img)
  /\ Hot(jrnl) => previous = None /\ \A j \in jDisk : j.tx = jrnl.tx

-----------------------------------------------------------------------------
(* Connections                                                             *)

Agrees(c, img) == \A p \in Pages : pager[c].cache[p] \in {NotCached, img[p]}

NothingCached(c) == \A p \in Pages : pager[c].cache[p] = NotCached

\* The version of page 1 that c remembers is that of the image, if there is one.
Versed(c, img) == Size(img) = 0 \/ pager[c].vers = img[1]

ToDo(c, p) == \E k \in DOMAIN pager[c].todo : pager[c].todo[k].pg = p

\* Outside a transaction, and while a hot journal is looked for and played.
Opened(c, img) ==
  LET me == pager[c] IN
  /\ \/ NothingCached(c)
     \/ me.vers < Counter(img[1])
     \/ me.vers = Counter(img[1]) /\ Agrees(c, img)
  /\ me.pc \in {"remove", "finalize", "downgrade", "validate"} => Clean(img)
  /\ me.pc = "remove" => Size(img) = 0
  /\ me.pc \in {"start", "play"} /\ Hot(jrnl) => jDisk = {jrnl}
  /\ me.pc = "play" =>
       /\ \A p \in Pages : db[p] = img[p] \/ ToDo(c, p)
       /\ \A k \in DOMAIN me.todo : /\ Hot(jrnl) /\ InJournal(jrnl, me.todo[k].pg)
                                    /\ OldPage(me.todo[k], img)
       /\ me.todo # <<>> => NothingCached(c)

Reading(c, img) ==
  /\ Clean(img) /\ Agrees(c, img) /\ Versed(c, img)
  /\ pager[c].size = Size(img)

\* The journal of a writer, at any place before its deletion.
Journalling(c, img) ==
  /\ jrnl.tx = nextTx - 1 /\ jrnl.orig = Size(img)
  /\ \A i \in DOMAIN jrnl.recs : OldPage(jrnl.recs[i], img)
  /\ pager[c].eState = "CACHEMOD" => Clean(img)
  /\ pager[c].eState = "DBMOD" => Hot(jrnl)

\* Pages that need no sync are in every copy of the journal; the others have
\* not been written.
Protected(c, img) ==
  /\ \A j \in jDisk : /\ Hot(j)
                      /\ \A i \in DOMAIN jrnl.recs :
                           jrnl.recs[i].pg \notin pager[c].needSync =>
                             i <= j.counted /\ j.recs[i] = jrnl.recs[i]
  /\ \A p \in pager[c].needSync : p <= Size(img) => Settled(p, img)

\* Page 1 while a commit writes it.
Counting1(c, img) ==
  LET me == pager[c] IN
  IF me.pc = "write" /\ me.job = 0 /\ 1 \notin me.dirty
  THEN /\ me.cache[1] = me.vers /\ db[1] = me.vers
       /\ me.vers > Counter(img[1]) /\ me.vers < nextTx
  ELSE /\ Versed(c, img) /\ me.vers >= Counter(img[1]) /\ me.vers < nextTx - 1
       /\ me.pc \in Calling /\ me.job = 0 => 1 \in me.dirty /\ me.cache[1] = me.vers + 1

\* A write transaction that is not being rolled back.
Live(c, img) ==
  LET me == pager[c] IN
  /\ me.dirty \subseteq 1 .. me.size /\ Size(img) <= me.size
  /\ \A p \in Pages :
       /\ p \in me.dirty => /\ me.cache[p] # NotCached
                            /\ p <= Size(img) => Saved(jrnl.recs, p)
       /\ p \notin me.dirty => me.cache[p] \in {NotCached, db[p]}
       /\ p > me.size => me.cache[p] = NotCached /\ db[p] = Absent
       /\ p <= Size(img) \/ (p <= me.size /\ p \notin me.dirty) => db[p] \in Data
       /\ db[p] # Torn
  /\ Counting1(c, img)
  /\ me.pc \in Calling /\ me.job # 0 => me.job \in me.dirty \ {1}
  /\ me.pc = "count" => jDisk = {jrnl} /\ previous = None
  /\ me.pc = "resync" => previous = None /\ jrnl.counted = Len(jrnl.recs)
  /\ me.pc = "write" => IF me.job = 0 THEN me.needSync = {} ELSE me.job \notin me.needSync

\* A rollback.
RollingBack(c, img) ==
  LET me == pager[c] IN
  /\ \A k \in DOMAIN me.todo : OldPage(me.todo[k], img) /\ Saved(jrnl.recs, me.todo[k].pg)
  /\ \A p \in 1 .. Size(img) : me.cache[p] \in {NotCached, img[p]} \/ ToDo(c, p)
  /\ \A p \in Pages : db[p] = img[p] \/ (p \notin me.needSync /\ ToDo(c, p))
  /\ Versed(c, img) \/ (me.cache[1] # NotCached /\ ToDo(c, 1))
  /\ me.vers < nextTx

\* The end of one.
RolledBack(c, img) ==
  /\ Clean(img) /\ Versed(c, img)
  /\ \A p \in 1 .. Size(img) : pager[c].cache[p] \in {NotCached, img[p]}

\* The file has the new image and the journal the old one.
Committing(c, img) ==
  LET me == pager[c] IN
  /\ Hot(jrnl)
  /\ Whole(db) /\ \A p \in Pages : dbDisk[p] = {db[p]}
  /\ Agrees(c, db) /\ me.size = Size(db) /\ me.vers = db[1]
  /\ me.vers > Counter(img[1])

Typed(c) ==
  LET me == pager[c] IN
  /\ me.cache \in [Pages -> Data \cup {NotCached}] /\ me.vers \in 0 .. nextTx - 1
  /\ me.dirty \subseteq Pages /\ me.needSync \subseteq Pages
  /\ me.eState \in {"OPEN", "READER", "LOCKED"} => me.dirty = {}
  /\ me.size \in 0 .. N /\ me.job \in 0 .. N
  /\ me.todo \in Seq([pg : Pages, val : Data])
  /\ me.pc # "play" => me.todo = <<>>

\* A connection that changes pages, or undoes its changes.
Writer(c, img) ==
  LET me == pager[c] IN
  /\ me.pc # "downgrade" => Journalling(c, img)
  /\ me.eState = "DBMOD" /\ me.pc \notin {"finalize", "downgrade"} => Protected(c, img)
  /\ me.pc = "play" => RollingBack(c, img)
  /\ me.pc \in {"finalize", "downgrade"} => RolledBack(c, img)
  /\ me.pc \notin {"play", "finalize", "downgrade"} => Live(c, img)

Connection(c, img) ==
  LET me == pager[c] IN
  /\ Typed(c)
  /\ me.eState = "OPEN" => Opened(c, img)
  /\ me.eState \in {"READER", "LOCKED"} => Reading(c, img)
  /\ me.eState = "LOCKED" => nextTx <= MaxTx
  /\ me.eState \in {"CACHEMOD", "DBMOD"} => Writer(c, img)
  /\ me.eState = "FINISHED" => IF me.pc = "finalize" THEN Committing(c, img) ELSE Reading(c, img)

Inv(img) == Files(img) /\ \A c \in Conn : Connection(c, img)

(* The committed image is whole and can be had from whatever a failure     *)
(* leaves, and every connection knows as much of it as its place needs.    *)
PagerInv == ProtocolInv /\ Inv(Recovered(jrnl, db))
=============================================================================

# Gloora: a verification of the salon booking application

Gloora is a Flask application (`app.py`) with a SQLite database, server-rendered
pages (`templates/`) and a little JavaScript (`static/javascript/`). Customers
register, log in, choose a salon, tick services, choose a 30-minute slot per
service and pay a platform fee through Razorpay; owners register salons and set
the number of workers; an admin deletes users, salons, services and bookings.
The repository carries the source of SQLite 3.50.4 (`sqlite-src-3500400/`). The
parts of it that give the application its transactions (the rollback journal and
the file locks) are modelled too; `Lib/`, `Scripts/` and `Include/` are an
installed Python environment and are not.

The application has no tests. What it promises is read from its code, its
comments and the messages it shows; what SQLite promises, from the comments and
assertions of `pager.c` and `os_unix.c`.

## 1. Inventory

| component | state | operations | what makes it correct |
|---|---|---|---|
| Slot booking and payment (`app.py` 1173-1354, 1412-1536, `payment.js`) | `slot_data`; `pending_booking` in the session; Razorpay orders | `book_slot_for_salon`, `payment`, `payment_success`, `delete_booking` | a booking belongs to an existing user and salon, to the person who chose it, for what was shown and paid; a slot is not sold more often than there are workers |
| Slot arithmetic (`app.py` 1155-1168, 1254-1282; `book_slot.js` 57-93, 123-139) | none | `generate_required_slots`, `end_time`; `getRequiredSlots`, closing-time tests | page and server agree; bookings end by 22:00 |
| Cookie sessions (Flask) | one signed cookie per browser | read with a request, replaced by a response that modified it | overlapping requests and lost responses do not mix accounts |
| Accounts and login (355-419, 530-659) | `users_data`; `user_id`, `username` in the session | `handle_auth`, `login_page`, `logout`, `delete_user` | unique names; an id never denotes two people |
| Password reset (661-782) | `reset_mobile`, `reset_otp`, `otp_time`, `otp_attempts`, `otp_verified` | `forgot_password_*`, `verify_otp`, `reset_password` | dead code, see section 7 |
| Salon registry, services (791-940) | `salons_data`, `services`, `salon_services` | `register_salon`, `delete_salon`, `delete_service` | a salon has the services it was registered with |
| Ratings (986-1010) | `rating_total`, `rating_count` | `rate_salon` | every rating counts once |
| ON/OFF toggle and worker pages (1012-1145) | `status`, `worker_count`, passkey marks in the session | `toggle_verify`, `verify_worker_*`, `update_worker_count` | a switch is not lost and touches nothing else |
| Start-up and backups (85-119, 145-283) | the database file, the directory `backup` | table creation when the file is missing, `backup_database`, `cleanup_old_backups` | after a start all tables exist; the last backups remain |
| Booking page (`book_slot.js`, `book_slot.html`) | highlighting, `selectedSlots`, hidden field, loaded bookings | load, tick, change date, click, submit | posts what it shows, in the form the server reads |
| Payment page (`payment.js`) | a reminder in `localStorage` | checkout, `submitPayment` | the result of a payment is posted |
| SQLite pager (`pager.c`) | database file, rollback journal, page cache, pager state | shared lock and hot-journal search, recovery, read, begin, write, spill, commit, rollback | transactions are atomic and durable, readers keep their image, whatever is killed and whenever the power fails |
| SQLite unix VFS, locks (`os_unix.c`) | POSIX byte-range locks of a process; one inode record per process and file | `unixLock`, `unixUnlock`, `unixCheckReservedLock`, `unixClose` | five lock levels shared by connections of one and of several processes |
| SQLite WAL, page cache, B-tree, SQL compiler and VM, extensions, other platforms, tools | - | - | - |
| Recommendations, uploads, SMS, static pages, chat bot, admin views | files; none | I/O and rendering | - |

Components interact through four shared places: the SQLite file (each handler
opens its own connection; a SELECT is a transaction of its own, an
INSERT/UPDATE/DELETE is one up to its commit), the backup directory, the
browser's cookie (a handler works on the copy that came with the request) and
the payment gateway. The pager reaches the file through the VFS, and other
connections through its locks only.

Hard behaviours: `app.run(debug=True)` and gunicorn run handlers concurrently,
so checks and the writes they justify interleave; the cookie is last-writer-wins
for tabs of one browser; a response may be lost after its transaction committed;
rows that a cookie names are deleted meanwhile; a payment happens long after the
check it relies on; answers to the page's requests arrive out of order; a
registration commits its salon before its services; processes start together and
are killed half-way; in SQLite, a reader that finds a journal must tell a crash
from a writer at work, and the locks of the operating system belong to processes
while SQLite's belong to connections. The list with lines is `hazards` in
`PROJECT.json`.

## 2. Modules

| module | what it is |
|---|---|
| `SlotTimes` | slot arithmetic of server and page; times are minutes since midnight, `strftime` is `% 1440` |
| `Booking` | the server's booking half: tables, cookies, requests in flight, orders, clock |
| `SlotHolds` | abstract specification: holds that reserve nothing turn into sales |
| `BookingHolds` | how `Booking` implements `SlotHolds` for sequential browsers: the refinement mapping, and the invariant it needs |
| `MCBooking` | instances of `Booking` |
| `BookSlotPage` | the booking page's event handlers, with its requests for slot details |
| `SalonRegistry`, `MCSalonRegistry` | registration, ratings, toggle and deletions, split at each statement |
| `Startup` | table creation, backup and clean-up by several processes that may be killed |
| `FileLock` | abstract specification: the five lock levels of a database file |
| `UnixLock`, `MCUnixLock` | `os_unix.c`'s locks over `fcntl()`; implements `FileLock` |
| `DurableDb` | abstract specification: atomic, durable transactions and their readers |
| `Pager`, `MCPager` | `pager.c` with a rollback journal over `FileLock`; implements `DurableDb` |
| `PagerInvariant` | why it does: what holds of the files and of every connection at every place in its calls |
| `SlotHoldsProofs`, `BookingProofs` and `BookSlotPageProofs` (with `SlotTimes`), `SalonRegistryProofs`, `StartupProofs`, `UnixLockProofs`, `PagerProofs` (with `FileLock`), `DurableDbProofs` | theorems and their proofs, for every value of the constants (section 4) |

The modules form a stack. `UnixLock` implements `FileLock`; `Pager` uses
`FileLock` as its lock and implements `DurableDb`; `DurableDb` is what
`Booking`, `SalonRegistry` and `Startup` assume of SQLite when they make a
committed transaction one step. `BookSlotPage` ends in the form that
`Booking` begins with, and checks it with the same `SlotTimes` operators.

**Booking.** `users`, `salons`, `slot_data` and the `*_seq` counters are the
tables and their AUTOINCREMENT counters. A user is its name (`NoName`: no row),
a salon its `worker_count` (0: no row); every row of `slot_data` is paid.
`cookie[b]` is the session a browser holds; `req[t]` is what a thread serves:
its `pc`, the copy of the session, the form. A handler is split where it goes to
the database: `BookFetchSalon` (early returns, the salon's row), then
`BookCheckSlots` (the availability query, the pending booking). `Return` ends a
handler, `Deliver` brings the response to the browser and replaces the cookie if
the handler modified the session, and `Lose` is a response that never arrives,
which also stands for a server that dies after its transaction. `Payment` creates an
order that remembers what its page shows; `Pay` is the customer; the result is
posted by `PaymentSuccessRequest` and handled by `PaymentSuccess`. The failure
branches of `Payment` and `PaymentSuccess` have no guard: they are the refusals,
an error of the gateway and an INSERT that raises (lock timeout, foreign key).
Rows, pending bookings and orders carry history fields (`by`, `order`, `booking`) that no handler reads. Left out: prices, gender, email and mobile
(folded into the name), and handlers that only read.

**BookSlotPage.** One action per event handler. The selection is kept three
times, as in the code: `selected` (the CSS class), `selectedSlots` (the array)
and `slot_time` (the hidden field, as the sequence that the commas join).
`UpdateSlotButtons` is the whole of `updateSlotButtons`, with
`querySelector` finding the first highlighted button only. A request for slot
details is answered at one time and reaches the page at another, or fails.
`posted` is the form on its way; a redirect back loads a fresh page. The date
field has `min` and `max` today, so other dates can be typed, and fire the
handler, but are not submitted. The history variable `steady` notes whether this customer ticked services first
and left the date alone: `PostsWhatIsShown` and `PageAgreesWithServer` are about
those customers, everything else happens to the others in the same run.

**SlotHolds.** Each customer has at most one unpaid set of slots; `Hold` needs
every slot to be sold fewer times than there are workers; `Buy` sells whatever
is held. Under the mapping, a browser's hold is the pending booking of the
session it has or is about to receive, and `sold` is `booked_count`.

**SalonRegistry.** A request is a `pc` and what it has read. `register_salon`
is `RegisterRequest`, `InsertSalon` (committed at once), then for each service of
the form `SelectService`, perhaps `InsertService`, `InsertLink`, and the final
`Commit`. Python's `sqlite3` opens a transaction before an INSERT, UPDATE or
DELETE and not before a SELECT, so `writer` is the one thread whose transaction
is open, and `TimedOut` is the exception that ends another's wait. Python resets
a SELECT once its rows are fetched, so no SHARED lock outlives the statement.
`rate_salon` and `toggle_verify` read in one step and write in another. Rows
remember the name that was on the form, requests whether something raced with
them; no handler reads either.

**Startup.** The import of `app.py`, one step per file operation: the test
whether the file exists, `sqlite3.connect` (which creates it), one commit per
CREATE TABLE (outside a transaction each is committed by itself), opening and
filling the backup, listing the directory, removing the oldest. A backup's name
is the second it was taken in, so two processes may write one file.

**UnixLock.** `posix` is what the kernel has granted each process on the PENDING
byte, the RESERVED byte and the SHARED range; `nShared`, `nLock`, `eFileLock` and
`unused` are the inode record, `mutex` is `pLockMutex`. Each action ends with
one `fcntl()`. `Leave` and `CloseFd` release every lock of the process when the
code closes a descriptor, as POSIX says. `Held` is the level a call has
logically reached (`Believed`) and gives the mapping to `FileLock`, with one
exception. `unixClose` decides under `pLockMutex` that no lock is outstanding and
closes the descriptor after leaving it (`CloseCheck`, `CloseFd`); a thread whose
lock call begins in between may lose its lock to the close. The history variable
`raced` holds the processes where that has happened since they last were without
locks, and a connection of such a process is `Held` at no lock, because that is
all that is certain. Nothing restricts when a connection is closed. What is
claimed of a `raced` process is that it has no lock from the kernel that its
record does not say, so it takes nothing that another process relies on, and
that it is whole again once it has given back its locks.

**Pager.** Files are pairs: what every process reads (`db`, `jrnl`) and what a
power loss may leave (`dbDisk` per page, `jDisk`), which a sync makes equal.
`eState` and the level of the lock are the pager's own; `pc` is where the
connection is inside a call. `SharedLock`, `AccessJournal`, `CheckReserved`,
`FirstByte` and `HotExclusive` are `hasHotJournal` and its caller with every file
operation apart, except that `FirstByte` reads the page count and the journal's
first byte in one step (it has a SHARED lock there). A journal is the original size, its records and the
number of records its headers count; a header is synced after the records it
counts. A sync appends a header of its own in the code, and a record beyond
`counted` is one whose page still needs that sync (`needSync`). A record that
reached the disk only in part is `Garbage`, which the checksum with its random
nonce refuses, as it refuses what an earlier journal left. Playback, truncation,
sync, deletion and the final downgrade are separate steps, so a crash may fall
between any two; recovery can itself be interrupted. `GiveUp` is an I/O error
(`pager_error`, `pager_unlock`). A process without a lock has nothing to lose, so `Crash`
is for connections that hold one. `CommitNothing` stands for a commit and for a
rollback that changed no page. Page 1 is represented by the change counter, the
others by the transaction that wrote them.

## 3. Runs

Runs that pass:

| run | instance | shows |
|---|---|---|
| `tabs` | one browser, two threads, two names, overlapping requests, lost responses, deletions | `ReferentialIntegrity`, `RowsNameTheirUser`, `BookedForWhoChose`, and the inductive invariant `IInv` that the proofs use |
| `sequential` | two browsers, two threads, three orders; one request at a time per browser, no losses | `Booking` implements `SlotHolds`; a slot is sold at most once beyond its worker (`OverbookingBound`); the inductive invariant `SequentialInv` |
| `lone` | one browser, two start times half an hour apart, one or two services, a clock that passes a start, fair threads | alone, nobody oversells a slot (`OverbookingBound` with one browser); every posted payment is answered (`PaymentAnswered`) |
| `page` | two buttons up to closing time, two dates, two services, two workers, two requests in flight, a clock, all actions at any time | no form names one slot while another is highlighted (`NeverOtherThanShown`); who ticks first and keeps the date posts what is highlighted (`PostsWhatIsShown`), and the server accepts it unless something changed meanwhile (`PageAgreesWithServer`); the inductive invariant `PageInv`, with the relation of the three copies of the selection (`SelectionListed`: a highlighted button is in the array, and the hidden field is empty or the whole array) |
| `registry` | three requests of two browsers, two names of services, one deletion | a salon has the services of its form (`LinksMatchForm`); a registration that nothing overlaps is whole (`AloneRegistersWhole`); a rating or switch that none overlaps is not lost, and totals are those of ratings given (`SoloUpdatesCount`); the inductive invariants `RegistryInv` and `UpdatesInv` |
| `startup` | two processes, five starts, two tables, two backups kept, four seconds | the newest backups stay (`LastBackupsKept`); a start fails only by a race with another (`FailsOnlyByRace`); tables are missing only during or after an interrupted initialisation (`TablesMissingOnlyDuringInit`), and get complete otherwise (`InitCompletes`); the inductive invariant `StartupInv` |
| `locks` | three connections in two processes, closes, killed processes, fair calls | `UnixLock` implements `FileLock` under `Held`; the inode record is what the kernel granted (`RecordMatchesSystem`); writers are seen by readers of their own and of other processes (`WritersAreSeen`); the way back to SHARED is never refused (`DowngradeIsGranted`); a waiting writer gets in (`PendingGetsInAtGaps`); the inductive invariant `UnixInv` |
| `pager` | two connections, two pages, two write transactions, three faults (kills, power losses, I/O errors) | `Pager` implements `DurableDb`; `assert_pager_state` holds (`AssertedStates`); no live journal is taken for a hot one (`JournalIsKept`); no journal is deleted before the database is synced (`SyncedBeforeDeletion`); the inductive invariant `PagerInv` |

Runs that find a violation, each a finding in `PROJECT.json`:

| run | the code or page says | and yet |
|---|---|---|
| `overbooking` | "CHECK SLOT AVAILABILITY" | two customers who both choose before either pays are both recorded |
| `confirmed` | "please confirm your booking" | a payment records what is pending when it arrives, not what its page showed |
| `closed` | EXCLUSIVE "ensures that no other locks are held"; a file with outstanding locks is not closed "because that would clear those locks" | `unixClose` decides under the mutex and closes after leaving it: a lock taken in between by another thread is lost |
| `unsynced` | "All writes to the database file are synced prior to the rollback journal being deleted" | a journal beside a database of zero pages is deleted without a sync; if the process that truncated it was killed before its own sync, and truncations are not durable by themselves, the truncation may be lost with the journal gone |

The last two need something rare: `closed` a thread that opens a transaction
exactly while another connection of its process closes, which the application
does at every request; `unsynced` a crash in the recovery of the first
transaction of a file. Both runs isolate the disagreement. The run `locks` has
the overlapping close too, and says of the processes it happens to only what
still holds of them (`raced`, above); the run `pager` assumes the other away by a
named constant (`DurableTruncate`).

**Bounds.** All bounds are constants used in guards. Accounts interact pairwise
(two names suffice for one to take over from another, and for an id to be
reused); overselling by n browsers needs n pending bookings, so two browsers and
three bookings show both that one sale too many happens and that two do not;
two services from starts half an hour apart are the smallest bookings that
overlap without being equal; two requests in flight are the fewest that can be
reordered. Three requests of `registry` are two that race and a third that meets
what they left. Five starts of two processes let a process be killed twice and
more backups be taken than are kept. Three connections in two processes are the
fewest with a peer in the same process and a rival in another. In `pager`, three
faults are a crash, a crash during the recovery from it, and a power loss; two
pages are the fewest where one is written and the other not, and where the
database grows and shrinks; two transactions let one overwrite, or roll back
beside, the files of the other. The theorems of section 4 remove the bounds for
the safety properties they state.

**Deadlock** is not checked in `registry`, `startup`, `pager` and `unsynced`:
requests, starts, transactions and faults are bounded, and when they are used up
nothing is left to do.

**Fairness.**
`Booking.FairSpec` assumes weak fairness of the steps of a thread that has
accepted a request and of the arrival of its response: a handler has no loop
that waits, a lock is waited for at most SQLite's five seconds and then raises,
and the exception is caught. No fairness is assumed of customers, owners or the
admin. `lone` has no lost responses: a lost answer is not repeated by itself.
`Startup.Spec` assumes weak fairness of the steps of a process that is not
killed: they are straight-line code. `UnixLock.FairSpec` assumes weak fairness
of the steps of a call that has begun (no `fcntl()` there waits), and strong
fairness of two things outside it: a connection that could again and again retry
at PENDING (SQLite's busy handler does) or end its read does one of them, and
the retry's `fcntl()` is at times the first to see the range free. Even so a writer may wait
for ever: a process with a SHARED lock gives another one to its own threads
without looking at the PENDING byte (`LockJoin`, os_unix.c:1808), so
readers of one process that always overlap starve it. `PendingGetsInAtGaps`
therefore has the premise that each process is again and again without a reader.

Symmetry is used with the permutations of browsers, threads, names, orders,
requests and connections, none of which the specification orders, and not in
runs with liveness properties. `ImplementsDurableDb` and `ImplementsSlotHolds`
are safety properties (no fairness), which symmetry leaves sound.

## 4. Proofs

`BookingProofs` proves for every value of the constants that
`ReferentialIntegrity`, `RowsNameTheirUser`, `BookedForWhoChose` and `TypeOK`
are invariants of `Spec`. None of the first three is inductive alone. A row is
made from a cookie that may be arbitrarily old, so `IInv` adds
`SessionsSound` (every session, in a cookie or in flight, names an account that
exists or existed under that name and holds no other account's booking),
`FreshIdsUnused` (ids above the counter belong to nobody, so a new account
cannot be the one an old cookie names), `ChecksPassed` (a request at the
availability query is logged in and has a time) and `OrdersKnown` (requests and
rows are about orders that exist). With the foreign keys, a session whose user
is still in the table has that user's name. One lemma per group of actions shows
the step; `StepSound` collects them and `Soundness` is `Spec => []IInv`.

`SlotHoldsProofs` proves `ClaimsBounded` by induction and from it
`SalesBounded`: the bound on overselling in the abstract specification, for any
number of customers and workers.

`BookingProofs` carries that bound over to the server. When no browser has two
requests in flight (`~ConcurrentTabs`) and every response arrives
(`~LossyNetwork`), `BookingImplementsSlotHolds` shows that each step of `Booking`
is a step of `SlotHolds` or none: `BookCheckSlots` is `Hold`, `PaymentSuccess` is
`Buy`, login and logout are `Drop`, and the deletions are `Release`. The mapping is not about what is stored but about the session a
browser is about to have, so `SequentialInv` says which that is: a browser has
one request in flight (`OneRequest`), whose handler works on the very cookie the
browser still has (`CopiesCurrent`). Without the first, a second response could
bring back a hold that was sold; without the second, a handler could sell what
is no longer held. Counting is the other half: `booked_count` of a slot is the
number of places `<<row, index>>` where it occurs, and one more row adds one to each
of its slots and nothing to another, because the slots of a booking are distinct
(`SlotsOffered` with `RequiredSlotsDistinct`). `OverbookingIsBounded` then follows
from `SalesAlwaysBounded`, and `AloneNeverOverbooks` is its case of one browser:
the violation of the run `overbooking` needs two. Both conditions are needed. With two tabs the same
hold can be sold twice, and with lost responses a payment can be posted again
(section 5).

About `SlotTimes`: what the page leaves enabled gives the same slots on the
server, all within opening hours (`EnabledButtonsAccepted`, in
`BookSlotPageProofs`), and up to 48 services need distinct slots, so counting
occurrences counts bookings (`RequiredSlotsDistinct`, in `BookingProofs`).

`BookSlotPageProofs` proves `SelectionListed`, `PostsWhatIsShown` and
`PageAgreesWithServer` for any buttons, services, dates and requests in flight.
`NeverOtherThanShown` follows from `SelectionListed` and `AsSubmitted` below.
`SelectionListed` alone is not inductive, because a click on a highlighted button
writes the array back into the field: the array without the button must still
hold the other highlighted ones. `PageInv` adds `Settled` (for a customer who
ticks first and keeps the date: nothing can be chosen before the only answer has
come, every enabled button is one the loaded details allow, and the three copies
of the selection are equal) and `AsSubmitted` (the page stands still while its
form is on the way). What `selectedSlots.filter` does to an array of any length
(`WithoutLeaves`) is proved from a least counterexample, since induction over
data is not available: the set of lengths for which it fails has a least element
(`NatLessThanWellFounded`, `WFMin`), which is not 0, and the step before it
holds. `ServerAgrees` rests on `EnabledButtonsAccepted`.

`SalonRegistryProofs` proves `LinksMatchForm` and `AloneRegistersWhole` for any
number of requests, names and rows. `RegistryInv` says that every row of
`salon_services`, committed or not, joins a salon and the service of the name on
the form (`Joined`), where in its form a registration is and that the service it
is about to link has the wanted name or was deleted (`OnForm`), that what it has
passed is in the tables, in its transaction, or went with a deletion (`Entered`),
that what it has found is still so unless another request came in between
(`StillSo`), and that a request about to commit is the one writer. Without
`OnForm` a stale id could link the service of another name; without `StillSo`
nothing keeps a registration that is alone from failing.

It also proves `SoloUpdatesCount`, for any number of requests and salons.
`UpdatesInv` adds what the updates under way have read (`Visit`): the totals a
rating will write back, increased by its own, are those of a set of ratings with
every one that overlapped no other (`Counted`), and the status a switch has read is
current unless another switch came in between. An update that finds another of its
kind under way is not alone, so what the other has read still misses none that
must be counted. A total is the number of stars given, a rating of v giving v
(`Stars`): as a cardinality the sum can be reasoned about with the library's
facts about finite sets, where a recursive sum could not.

`StartupProofs` proves `LastBackupsKept`, `FailsOnlyByRace` and
`TablesMissingOnlyDuringInit` for any number of processes, tables, seconds and
backups kept. `StartupInv` adds which tables a process in `init_all_databases`
has created (`Creating`, `Created`) and that a listing no other process has
disturbed is of files that still exist (`Undisturbed`). That a list is longer
than `Kept` when its oldest is removed, and that each removal leaves the newest
`Kept`, are counting arguments over `Cardinality`.

`UnixLockProofs` proves, for any processes and connections:

- `CallsAgree` and `UnixTypes`, without any assumption: `CallInv`, what threads
  of one process know of each other (`nShared` counts the connections with a
  lock, the record's level is the highest of theirs, who is inside a call holds
  the mutex).
- `SystemAgrees`, without any assumption either: `UnixInv`, which says for every
  place between two `fcntl()` calls what the kernel has granted the process
  (`GrantedTo`) and that the grants of different processes are compatible. It has
  two halves. The kernel never grants more than the record and the place in the
  code account for (`NoMoreThan`), in every process; it grants no less
  (`NoLessThan`) in a process that is not in `raced`. That a close takes nothing
  from the latter is `ClosedUnlocked`. From it follow `RecordMatchesSystem`,
  `WritersAreSeen`, `DowngradeIsGranted` and `ExclusiveIsAloneHere` (EXCLUSIVE
  excludes every other lock among the levels `Held`).
- `OnlyRacesIntrude`: `ExclusiveAlone`, the property that the run `closed`
  violates, holds whenever `raced` is empty, so the overlapping close is the only
  way to lose it.
- `Refinement`: `UnixSpec => ImplementsFileLock`, one lemma per step (a step or
  a stutter of `FileLock` under `Held`). It is unconditional, and says of a
  connection whose process is in `raced` that it has no lock of `FileLock`. The
  process has no lock when such a call begins (`ClosedUnlocked`), so no lock of
  `FileLock` is taken away by a close: what the process does until it is whole
  again are stutters, except that its kernel locks may refuse others. `Pager` uses `FileLock` and inherits its promises only for
  connections that have the locks `FileLock` says: what happens to a pager that
  goes on under a lock the close took away is the finding `closed`, and outside
  `Pager`.

`PagerProofs` proves, for any connections, pages, write transactions and faults:

- `LockPromises`, about `FileLock` itself: EXCLUSIVE excludes every other lock
  and at most one connection has RESERVED or more. The levels
  `Held` of the byte-range protocol inherit it through `Refinement`.
- `JournalAlwaysKept`, without any assumption. It needs the protocol of the
  locks only: `ProtocolInv` says which lock each place in a call has (`Placed`)
  and that a writer that has changed pages has a journal. Two connections could
  be at odds over a journal at places whose locks exclude each other, and
  nowhere else.
- `PagerIsInvariant`, `SyncedBeforeDeletionAlways`, `AssertionsHold` and
  `PagerTypes`, all four when truncations are durable at once (`DurableTruncate`).
- `PagerImplementsDurableDb`: `PagerSpec => ImplementsDurableDb`, under the same
  assumption, `DurableTruncate`. What `DurableDbProofs` shows of the abstract database the pager
  inherits: `PagerReadersAreCurrent`, a read transaction sees the committed
  image throughout (under `DurableTruncate` again).

`PagerInv` speaks of the committed image `img`, which is what recovery makes of
journal and database. For the files (`Files`) it says that every journal a power
loss may leave, with whatever it leaves of the pages, gives `img` or, until the
deletion of the last journal is synced, the image before it (`Recoverable`,
`Restores`); without a hot journal the database is `img` and on the disk
(`Clean`). For a connection (`Connection`) it says what it knows at its place: a
reader's cache is `img`; a cache kept between transactions is, if its change
counter is the image's (`Opened`); a writer's journal has the old content of
every page that it has changed in the file, in all its copies once the page
needs no sync (`Journalling`, `Protected`); the change counter is raised while
it is written and not before (`Counting1`); a rollback has a record left for
every page that is not as it was (`RollingBack`); after the last sync of a commit
the file is the new image and the journal gives the old one (`Committing`).
None of the properties is inductive alone: they are about single states of the
files, and what keeps the next step from breaking them is in the caches and
flags of the connection that takes it.

The proof has three layers: the fields of a Pager object after each action; the
protocol of the locks; and for each action that the image of the step before is
still what recovery gives (for the deletion of a finished transaction's journal,
the new one; after a power loss, perhaps the previous). A step of one connection
leaves what the others know alone because of the locks (`StepUntouched`,
`StepOfWriter`, `StepOfOwner`). For the refinement each action is shown to be a
step of `DurableDb` or none: `Validate` is `Begin`, `Write` and `Commit` (which
raises the change counter in the cache) are `Write`, `Finalize` of a finished
transaction is `Commit`, the first sync of the next journal is `Harden` because
it syncs the directory too, and all of a recovery is nothing.

`DurableTruncate` is needed: the run `unsynced` violates `SyncedBeforeDeletion`
without it. `N` is at least 1, the page the header is on.

`DurableDbProofs` proves `ReadersAlwaysCurrent`: a connection in a transaction
that is not the writer sees what is committed, for any connections and images
(provided `None` is neither). The invariant adds that the writer has a view and
the types: without the first, a rollback could leave a connection outside a
transaction with an image.

Assumptions are the named ASSUMEs of the modules (finite sets, bounds that are
natural numbers, model values distinct from the sets they stand beside) and
hypotheses written in the theorems: `SlotHoldsAssumption`; `None` outside
`Images` and `Conn` in `DurableDbProofs`; `DurableTruncate` in the
theorems about `Pager` that need it, which journalling file systems give and the
code does not ask for (finding `unsynced`);
`~ConcurrentTabs` and `~LossyNetwork` in the theorems that use `SequentialInv`,
which the code does not enforce and which the run `sequential` sets; `None` is no image
in `PagerReadersAreCurrent`.

Only model-checked: liveness (`PaymentAnswered`, `InitCompletes` and
`PendingGetsInAtGaps`). Liveness under fairness, ENABLED and induction over data
are beyond the prover used. Every safety property of the passing runs is a
theorem; `OverbookingBound` is one under the two conditions above, which the runs
`sequential` and `lone` check it under.

## 5. Observations that are no findings

The models reach the following, and no text of the repository promises otherwise.

- `end_time` (app.py:1264) is the end of the first slot, so three services from
  21:00 pass the server's closing-time test. The page disables that button, but
  re-examines only the first highlighted one when services are added
  (`book_slot.js`:156).
- Two selected buttons are posted as "20:00,20:30", which `strptime` at
  app.py:1228 refuses.
- After a change of date `selectedSlots` keeps the slots of the other date, and
  the limit "You can select only n slot(s)" counts them. They join later choices,
  or are posted with nothing highlighted once a later choice is taken back;
  `NeverOtherThanShown` is what is left.
- Lowering `worker_count` leaves bookings beyond the new count, before or after a
  check that read the old one. `OverbookingBound` counts against the largest
  number of workers a salon may ever have.
- A payment whose answer is lost can be posted again and is recorded twice.
- A pending booking can be paid for after its slot has begun.
- A file whose initialisation was interrupted is never completed by later starts
  (`interrupted` in `Startup`).
- A session can toggle a salon once; the next toggle of it is refused.

## 6. Plan

1. Done: `SlotTimes`, `Booking`, `SlotHolds`, `BookSlotPage`, `SalonRegistry`,
   `Startup`, `FileLock`, `UnixLock`, `DurableDb`, `Pager`, first proofs.
2. Done: the inductive invariants of `UnixLock`, `Startup`, `SalonRegistry`,
   `BookSlotPage` and `Pager`, that `UnixLock` implements `FileLock`, that
   `Pager` implements `DurableDb`, that `Booking` implements `SlotHolds` for
   sequential browsers, and `SoloUpdatesCount`.
3. Modelling that could follow: savepoints and `journal_mode=PERSIST` in `Pager`,
   the worker pages' session marks, the composition of `BookSlotPage` with
   `Booking` in one run.

## 7. Not modelled

- Password reset. `app.py` never imports `random`, so the handlers that make an
  OTP raise, and no route sets `otp_verified`: no request reaches the UPDATE.
- SQLite's write-ahead log: the application never sets `journal_mode`.
- SQLite's page cache, B-tree, SQL compiler and virtual machine, extensions,
  other platforms, tests and build tools: sequential, or not part of the running
  program. They are nearly all of the repository's lines, so the share of
  lines the models cover is small.
- Savepoints, super-journals, exclusive locking mode, other journal modes,
  shared memory and memory mapping in `pager.c` and `os_unix.c`, and its other
  locking styles.
- Uploads, SMS, rendering, the chat bot and the admin's listings: input and
  output without state that a property could relate. `/recommend` queries a
  table and columns that do not exist; `scheduleSlotReminder` is called by
  nothing. `init_db.py` and `database.py` belong to an earlier layout.
- Prices, contact data, passwords and passkeys (right or wrong by choice). Flask,
  Python's `sqlite3`, the browser, the kernel and Razorpay are modelled from how
  the code uses them and are marked external.

Small differences from the code that the models keep, none of which a property
depends on:

- `Booking.SignatureValid` keeps that an order was paid; the HMAC stays valid
  however often it is posted. `Booking.BookRefused` has day numbers where the
  code compares raw date strings, so that "2026-1-5" is another day to the query
  than "2026-01-05"; the page posts only the second form.
- `BookSlotPage` has one clock; the date field's `min` is the UTC date
  (`book_slot.js`:48) and its `max` the server's. `AnswerFetch` makes the two
  queries of `get_booked_slots` one step.
- `SalonRegistry.TimedOut` leaves the session as it was; outside debug mode the
  mark of a toggle (app.py:1028) is saved with the answer 500, though its UPDATE
  is undone. A commit that fails for a long reader is left out.
- `Startup.CreateTable` has no "database is locked" timeout.
- `Pager.Rollback` is allowed after an error in a spill too, which is more than
  the code does.

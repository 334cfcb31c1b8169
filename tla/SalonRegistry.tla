---------------------------- MODULE SalonRegistry ----------------------------
(***************************************************************************)
(* Salons, their services, ratings and the ON/OFF switch (app.py):         *)
(* /register_salon, /rate, /toggle_verify, /admin/delete_salon and          *)
(* /admin/delete_service, run by threads that share one SQLite file.        *)
(*                                                                         *)
(* Python's sqlite3 opens a transaction before an INSERT, UPDATE or DELETE, *)
(* not before a SELECT, so a handler is split at its SELECTs and its        *)
(* writes; "writer" is the thread whose transaction is open.  A handler     *)
(* that fails leaves its with-block and is rolled back to the last commit.  *)
(***************************************************************************)
EXTENDS Naturals, Sequences, FiniteSets

CONSTANTS
    Req,          \* requests
    Browsers,
    Names,        \* names of services
    Forms,        \* lists of services a registration may carry
    Ratings,      \* ratings between 1 and 5
    MaxSalons,    \* bound on salons ever registered
    MaxServices,  \* bound on services ever inserted
    MaxDeletions, \* bound on salons and services deleted
    NoReq, NoName

ASSUME FormsAssumption == Forms \subseteq Seq(Names) \ {<<>>}
ASSUME RatingsAssumption == Ratings \subseteq 1 .. 5
ASSUME BoundsAssumption == {MaxSalons, MaxServices} \subseteq Nat \ {0}
ASSUME SomeAssumption == Names # {} /\ Browsers # {}
ASSUME NoAssumption == NoReq \notin Req /\ NoName \notin Names

VARIABLES
    salons,          \* salons_data: id -> status, rating_total, rating_count
    salon_seq,       \* its AUTOINCREMENT counter
    services,        \* services: id -> service_name, NoName where there is no row
    service_seq,     \* its AUTOINCREMENT counter
    salon_services,  \* committed rows of salon_services; "name" is history: the
                     \* name on the form
    cascaded,        \* history: the rows that deletions took along
    writer,          \* the request whose transaction is open, or NoReq
    verified,        \* session["verified_salon_toggle_id"] in each cookie, or 0
    req              \* the requests

tables == <<salons, salon_seq, services, service_seq, salon_services, cascaded>>
vars == <<tables, writer, verified, req>>

SalonIds   == 1 .. MaxSalons
ServiceIds == 1 .. MaxServices

NoSalon  == [status |-> "none", total |-> 0, count |-> 0]
NewSalon == [status |-> "ON", total |-> 0, count |-> 0]

\* "session" is the request's copy of verified; "row" what it has read; "own"
\* the rows of its open transaction.  "alone" and "raced" are history: did no
\* other rating (toggle) of the salon overlap, did a deletion, a new service
\* or a lock of another request come in between.
New == [pc |-> "none", browser |-> CHOOSE b \in Browsers : TRUE,
        session |-> 0, salon |-> 0, form |-> <<>>, rating |-> 0, i |-> 1,
        service |-> 0, row |-> NoSalon, own |-> {}, alone |-> TRUE, raced |-> FALSE]

\* One salon with one service is there.
Init ==
    /\ salons = [s \in SalonIds |-> IF s = 1 THEN NewSalon ELSE NoSalon]
    /\ salon_seq = 1
    /\ services = [i \in ServiceIds |-> IF i = 1 THEN CHOOSE n \in Names : TRUE ELSE NoName]
    /\ service_seq = 1
    /\ salon_services = {[salon |-> 1, service |-> 1, name |-> services[1]]}
    /\ cascaded = {} /\ writer = NoReq
    /\ verified = [b \in Browsers |-> 0]
    /\ req = [r \in Req |-> New]

-----------------------------------------------------------------------------
(* Steps of a request                                                      *)

At(r, pc) == req[r].pc = pc

Registering == {"insert", "select", "service", "link", "commit"}

\* The file is locked while another request's transaction is open.
Unlocked(r) == writer \in {NoReq, r}

\* flash() modifies the session, so the answer replaces the cookie.
Answer(r, outcome, session) ==
    /\ req' = [req EXCEPT ![r].pc = outcome, ![r].own = {}]
    /\ verified' = [verified EXCEPT ![req[r].browser] = session]

\* An exception: the open transaction is rolled back, the cookie stays.
Fail(r) ==
    /\ req' = [req EXCEPT ![r].pc = "failed", ![r].own = {}]
    /\ writer' = IF writer = r THEN NoReq ELSE writer
    /\ UNCHANGED <<tables, verified>>

\* "database is locked", after five seconds.
TimedOut(r) ==
    /\ ~Unlocked(r)
    /\ req[r].pc \in {"insert", "service", "link", "rate", "toggle"}
    /\ req' = [req EXCEPT ![r].pc = "failed", ![r].raced = TRUE]
    /\ UNCHANGED <<tables, writer, verified>>

\* The requests, when one of them or an admin has changed what a registration
\* under way relies on.
Raced(r, requests) ==
    [q \in Req |-> IF q # r /\ requests[q].pc \in Registering
                   THEN [requests[q] EXCEPT !.raced = TRUE] ELSE requests[q]]

-----------------------------------------------------------------------------
(* register_salon                                                          *)

\* What arrives carries the cookie its browser has then.
Arrive(r, b, request) ==
    /\ At(r, "none")
    /\ req' = [req EXCEPT ![r] = [request EXCEPT !.browser = b, !.session = verified[b]]]
    /\ UNCHANGED <<tables, writer, verified>>

RegisterRequest(r, b) ==
    \E f \in Forms : Arrive(r, b, [New EXCEPT !.pc = "insert", !.form = f])

\* The salon is committed before its services.
InsertSalon(r) ==
    /\ At(r, "insert") /\ Unlocked(r) /\ salon_seq < MaxSalons
    /\ salon_seq' = salon_seq + 1
    /\ salons' = [salons EXCEPT ![salon_seq'] = NewSalon]
    /\ req' = [req EXCEPT ![r].pc = "select", ![r].salon = salon_seq']
    /\ UNCHANGED <<services, service_seq, salon_services, cascaded, writer, verified>>

Wanted(r) == req[r].form[req[r].i]
Named(n) == {i \in ServiceIds : services[i] = n}

\* Mutant of SelectService: the id of the service before is kept.
SelectServiceStale(r) ==
    LET found == Named(Wanted(r)) IN
    /\ At(r, "select")
    /\ IF found = {} /\ req[r].service = 0 THEN req' = [req EXCEPT ![r].pc = "service"]
       ELSE req' = [req EXCEPT ![r].pc = "link",
                      ![r].service = IF found = {} THEN @ ELSE CHOOSE i \in found : TRUE]
    /\ UNCHANGED <<tables, writer, verified>>

\* SELECT id FROM services
SelectService(r) ==
    LET found == Named(Wanted(r)) IN
    /\ At(r, "select")
    /\ IF found = {} THEN req' = [req EXCEPT ![r].pc = "service"]
       ELSE req' = [req EXCEPT ![r].pc = "link", ![r].service = CHOOSE i \in found : TRUE]
    /\ UNCHANGED <<tables, writer, verified>>

\* A new service is committed at once, with the rows inserted before it.
\* service_name is UNIQUE: another registration may have come first.
AddService(r) ==
    /\ service_seq < MaxServices
    /\ service_seq' = service_seq + 1
    /\ services' = [services EXCEPT ![service_seq'] = Wanted(r)]
    /\ salon_services' = salon_services \cup req[r].own
    /\ writer' = NoReq
    /\ req' = Raced(r, [req EXCEPT ![r].pc = "link", ![r].own = {}, ![r].service = service_seq'])
    /\ UNCHANGED <<salons, salon_seq, cascaded, verified>>

\* Mutant of InsertService: another connection inserts it.
InsertServiceElsewhere(r) ==
    /\ At(r, "service") /\ Unlocked(r)
    /\ IF Named(Wanted(r)) # {} \/ writer = r THEN Fail(r) ELSE AddService(r)

\* INSERT INTO services
InsertService(r) ==
    /\ At(r, "service") /\ Unlocked(r)
    /\ IF Named(Wanted(r)) # {} THEN Fail(r) ELSE AddService(r)

\* Salon and service must still be there (PRAGMA foreign_keys = ON).
InsertLink(r) ==
    LET me == req[r]
        last == me.i = Len(me.form)
    IN
    /\ At(r, "link") /\ Unlocked(r)
    /\ IF salons[me.salon] = NoSalon \/ services[me.service] = NoName THEN Fail(r)
       ELSE /\ writer' = r
            /\ req' = [req EXCEPT ![r].own = @ \cup {[salon |-> me.salon, service |-> me.service,
                                             name |-> Wanted(r)]},
                         ![r].i = IF last THEN @ ELSE @ + 1,
                         ![r].pc = IF last THEN "commit" ELSE "select"]
            /\ UNCHANGED <<tables, verified>>

Commit(r) ==
    /\ At(r, "commit")
    /\ salon_services' = salon_services \cup req[r].own
    /\ writer' = NoReq
    /\ Answer(r, "ok", req[r].session)
    /\ UNCHANGED <<salons, salon_seq, services, service_seq, cascaded>>

-----------------------------------------------------------------------------
(* rate_salon, toggle_verify                                               *)

RateRequest(r, b) ==
    \E s \in 1 .. salon_seq, v \in Ratings :
       Arrive(r, b, [New EXCEPT !.pc = "rateSelect", !.salon = s, !.rating = v])

ToggleRequest(r, b) ==
    \E s \in 1 .. salon_seq : Arrive(r, b, [New EXCEPT !.pc = "toggleSelect", !.salon = s])

RateSelect(r) ==
    LET row == salons[req[r].salon] IN
    /\ At(r, "rateSelect")
    /\ IF row = NoSalon THEN Answer(r, "refused", req[r].session)
       ELSE req' = [req EXCEPT ![r].pc = "rate", ![r].row = row] /\ UNCHANGED verified
    /\ UNCHANGED <<tables, writer>>

\* History: this update and the ones of the same kind that have read the row
\* but not written it yet are not alone.
Overlapping(r) == {q \in Req \ {r} : req[q].pc = req[r].pc /\ req[q].salon = req[r].salon}

Done(r) ==
    [q \in Req |->
       IF q = r THEN [req[r] EXCEPT !.pc = "ok", !.alone = @ /\ Overlapping(r) = {}]
       ELSE IF q \in Overlapping(r) THEN [req[q] EXCEPT !.alone = FALSE] ELSE req[q]]

\* Mutant of Update: a salon that is gone is entered again.
UpdateOrInsert(r, row) ==
    /\ Unlocked(r)
    /\ salons' = [salons EXCEPT ![req[r].salon] = row]
    /\ req' = Done(r)
    /\ verified' = [verified EXCEPT ![req[r].browser] = req[r].session]
    /\ UNCHANGED <<salon_seq, services, service_seq, salon_services, cascaded, writer>>

\* UPDATE changes nothing when the salon has been deleted meanwhile.
Update(r, row) ==
    /\ Unlocked(r)
    /\ salons' = [salons EXCEPT ![req[r].salon] = IF @ = NoSalon THEN NoSalon ELSE row]
    /\ req' = Done(r)
    /\ verified' = [verified EXCEPT ![req[r].browser] = req[r].session]
    /\ UNCHANGED <<salon_seq, services, service_seq, salon_services, cascaded, writer>>

\* Mutant of RateUpdate: the total is increased in the table, the count written
\* from what was read.
RateUpdateInPlace(r) ==
    /\ At(r, "rate")
    /\ Update(r, [salons[req[r].salon] EXCEPT !.total = @ + req[r].rating,
                                              !.count = req[r].row.count + 1])

RateUpdate(r) ==
    /\ At(r, "rate")
    /\ Update(r, [salons[req[r].salon] EXCEPT !.total = req[r].row.total + req[r].rating,
                                              !.count = req[r].row.count + 1])

\* Refused when this session has switched the salon before, or for a wrong key.
ToggleSelect(r) ==
    LET row == salons[req[r].salon] IN
    /\ At(r, "toggleSelect")
    /\ \/ Answer(r, "refused", req[r].session)
       \/ /\ req[r].session # req[r].salon /\ row # NoSalon
          /\ req' = [req EXCEPT ![r].pc = "toggle", ![r].row = row, ![r].session = req[r].salon]
          /\ UNCHANGED verified
    /\ UNCHANGED <<tables, writer>>

Flipped(status) == IF status = "ON" THEN "OFF" ELSE "ON"

\* Mutant of ToggleUpdate: all columns are written back.
ToggleUpdateWholeRow(r) ==
    /\ At(r, "toggle")
    /\ Update(r, [req[r].row EXCEPT !.status = Flipped(@)])

\* UPDATE salons_data SET status
ToggleUpdate(r) ==
    /\ At(r, "toggle")
    /\ Update(r, [salons[req[r].salon] EXCEPT !.status = Flipped(req[r].row.status)])

-----------------------------------------------------------------------------
(* delete_salon, delete_service: the rows that refer to them go too.       *)

Deleted ==
    Cardinality({s \in 1 .. salon_seq : salons[s] = NoSalon})
    + Cardinality({i \in 1 .. service_seq : services[i] = NoName})

Cascade(gone) ==
    /\ writer = NoReq /\ Deleted < MaxDeletions
    /\ salon_services' = salon_services \ gone
    /\ cascaded' = cascaded \cup gone
    /\ req' = Raced(NoReq, req)
    /\ UNCHANGED <<salon_seq, service_seq, writer, verified>>

DeleteSalon(s) ==
    /\ salons[s] # NoSalon
    /\ Cascade({row \in salon_services : row.salon = s})
    /\ salons' = [salons EXCEPT ![s] = NoSalon]
    /\ UNCHANGED services

DeleteService(i) ==
    /\ services[i] # NoName
    /\ Cascade({row \in salon_services : row.service = i})
    /\ services' = [services EXCEPT ![i] = NoName]
    /\ UNCHANGED salons

-----------------------------------------------------------------------------

Step(r) ==
    \/ InsertSalon(r) \/ SelectService(r) \/ InsertService(r) \/ InsertLink(r) \/ Commit(r)
    \/ RateSelect(r) \/ RateUpdate(r) \/ ToggleSelect(r) \/ ToggleUpdate(r)

Next ==
    \/ \E r \in Req :
         \/ Step(r) \/ TimedOut(r)
         \/ \E b \in Browsers : RegisterRequest(r, b) \/ RateRequest(r, b) \/ ToggleRequest(r, b)
    \/ \E s \in SalonIds : DeleteSalon(s)
    \/ \E i \in ServiceIds : DeleteService(i)

Spec == Init /\ [][Next]_vars

-----------------------------------------------------------------------------

Outcomes == {"ok", "refused", "failed"}

\* Requests that have been carried out, by handler.
Registered == {r \in Req : req[r].pc = "ok" /\ req[r].form # <<>>}
Rated(s)   == {r \in Req : req[r].pc = "ok" /\ req[r].rating # 0 /\ req[r].salon = s}
Toggled(s) == {r \in Req : req[r].pc = "ok" /\ req[r].form = <<>> /\ req[r].rating = 0
                           /\ req[r].salon = s}

Row == [salon : SalonIds, service : ServiceIds, name : Names]

(* Types of the tables, cookies and requests; a salon that was deleted does *)
(* not come back through an UPDATE, and the open transaction belongs to a   *)
(* request that is still at work (no handler keeps the lock).               *)
TypeOK ==
    /\ salons \in [SalonIds -> {NoSalon} \cup [status : {"ON", "OFF"}, total : Nat, count : Nat]]
    /\ salon_seq \in SalonIds
    /\ services \in [ServiceIds -> Names \cup {NoName}]
    /\ service_seq \in ServiceIds
    /\ salon_services \cup cascaded \subseteq Row
    /\ writer \in {NoReq} \cup {r \in Req : req[r].pc \in Registering}
    /\ verified \in [Browsers -> 0 .. MaxSalons]
    /\ \A r \in Req :
         /\ req[r].pc \in Registering \cup {"none", "rateSelect", "rate", "toggleSelect", "toggle"}
                          \cup Outcomes
         /\ req[r].own \subseteq Row
         /\ req[r].own # {} => writer = r

(* Every row of salon_services joins a salon that is there with the service *)
(* whose name was on the form, and a registration that was announced as     *)
(* successful (app.py:895) has entered every service of its form, whatever  *)
(* other registrations and deletions did between its commits.               *)
LinksMatchForm ==
    /\ \A row \in salon_services :
         salons[row.salon] # NoSalon /\ services[row.service] = row.name
    /\ \A r \in Registered : \A i \in DOMAIN req[r].form :
         \E row \in salon_services \cup cascaded :
           row.salon = req[r].salon /\ row.name = req[r].form[i]

(* A salon is left with some of its services or none (app.py:867) only when *)
(* another registration or a deletion came in between: a registration that  *)
(* runs alone is not failed by its own commits.                             *)
AloneRegistersWhole ==
    \A r \in Req : req[r].form # <<>> /\ req[r].pc = "failed" => req[r].raced

\* The stars that the ratings in rs give: a rating of v gives v of them.
Stars(rs) == {star \in rs \X (1 .. 5) : star[2] <= req[star[1]].rating}

\* Total and count are those of a set of the ratings that salon s was given,
\* and none that overlapped no other is missing.
Counted(s, total, count) ==
    \E kept \in SUBSET Rated(s) :
      /\ {r \in Rated(s) : req[r].alone} \subseteq kept
      /\ IsFiniteSet(kept) /\ count = Cardinality(kept) /\ total = Cardinality(Stars(kept))

(* Totals and count of a salon are those of a set of ratings it was given,  *)
(* each counted once; two that overlap may lose one (app.py:999-1006), but  *)
(* a rating that overlaps no other is never lost.  A switch that overlaps   *)
(* no other is never lost either.                                          *)
SoloUpdatesCount ==
    \A s \in SalonIds : salons[s] # NoSalon =>
      /\ Counted(s, salons[s].total, salons[s].count)
      /\ (\A r \in Toggled(s) : req[r].alone) =>
           (salons[s].status = "ON") = (Cardinality(Toggled(s)) % 2 = 0)

-----------------------------------------------------------------------------
(* The inductive invariant.                                                *)

Places == Registering \cup {"none", "rateSelect", "rate", "toggleSelect", "toggle"} \cup Outcomes

Salon == [status : {"ON", "OFF"}, total : Nat, count : Nat]

Request ==
    [pc : Places, browser : Browsers, session : 0 .. MaxSalons, salon : 0 .. MaxSalons,
     form : Forms \cup {<<>>}, rating : Ratings \cup {0}, i : Nat, service : 0 .. MaxServices,
     row : Salon \cup {NoSalon}, own : SUBSET Row, alone : BOOLEAN, raced : BOOLEAN]

\* A row joins a salon and the service of that name.
Joined(row) == salons[row.salon] # NoSalon /\ services[row.service] = row.name

\* Where in its form a registration is, and which service it is about to link.
OnForm(r) ==
    LET me == req[r] IN
    /\ me.pc \in Registering => me.i \in DOMAIN me.form
    /\ me.pc = "insert" => me.i = 1
    /\ me.pc \in Registering \ {"insert"} => me.salon \in SalonIds
    /\ me.pc = "link" => me.service \in 1 .. service_seq /\ services[me.service] \in {Wanted(r), NoName}
    /\ me.pc \in {"rateSelect", "rate", "toggleSelect", "toggle"} =>
         me.form = <<>> /\ me.salon \in SalonIds

\* What it has passed on its form is in the tables or in its transaction.
Entered(r) ==
    LET me == req[r] IN
    \A k \in DOMAIN me.form :
      (me.pc \in Registering /\ k < me.i) \/ me.pc \in {"commit", "ok"} =>
        \E row \in salon_services \cup cascaded \cup me.own :
          row.salon = me.salon /\ row.name = me.form[k]

\* What it has found is still so, unless another request came in between.
StillSo(r) ==
    LET me == req[r] IN
    ~me.raced =>
      /\ me.pc \in Registering \ {"insert"} => salons[me.salon] # NoSalon
      /\ me.pc = "service" => Named(Wanted(r)) = {}
      /\ me.pc = "link" => services[me.service] # NoName
      /\ ~(me.form # <<>> /\ me.pc = "failed")

(* Every row joins what its form said, in the tables and in the open         *)
(* transaction, and each registration knows how far it has got.             *)
RegistryInv ==
    /\ TypeOK /\ req \in [Req -> Request]
    /\ \A i \in ServiceIds : i > service_seq => services[i] = NoName
    /\ \A row \in salon_services : Joined(row)
    /\ \A r \in Req : /\ At(r, "commit") => writer = r
                      /\ OnForm(r) /\ Entered(r) /\ StillSo(r)
                      /\ \A row \in req[r].own : Joined(row)

\* What a rating or a switch under way has read: totals of the past, which
\* count every rating that does not overlap it, and a status that is current
\* unless another switch has come in between.
Visit(r) ==
    LET me == req[r] IN
    /\ me.salon <= salon_seq
    /\ me.pc \in {"rateSelect", "rate"} => me.rating # 0
    /\ me.pc \in Registering \cup {"toggleSelect", "toggle"} => me.rating = 0
    /\ me.pc = "rate" => Counted(me.salon, me.row.total, me.row.count)
    /\ me.pc = "toggle" /\ me.alone /\ salons[me.salon] # NoSalon =>
         me.row.status = salons[me.salon].status

(* No update that overlaps no other is lost, and what the updates under way  *)
(* have read and will write back loses none either (app.py:999 to 1006).    *)
UpdatesInv ==
    /\ \A r \in Req : Visit(r)
    /\ \A s \in SalonIds : IsFiniteSet(Toggled(s))
    /\ SoloUpdatesCount
=============================================================================

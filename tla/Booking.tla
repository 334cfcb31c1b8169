------------------------------- MODULE Booking -------------------------------
(***************************************************************************)
(* Booking and paying for salon slots (app.py): the routes                 *)
(* /book-slot, /payment, /payment-success, login and logout,               *)
(* /update_worker_count and the admin deletions, run by the threads of a   *)
(* server that share one SQLite file.                                      *)
(*                                                                         *)
(* The login and the booking being paid for live in Flask's session, that  *)
(* is in a signed cookie of the browser: a request carries a copy of the   *)
(* cookie, the handler works on that copy, and the response replaces the   *)
(* whole cookie when the handler modified the session (flash() does).      *)
(* Requests of one browser that overlap therefore overwrite one another,   *)
(* and a response that never arrives leaves the old cookie in place.       *)
(*                                                                         *)
(* A handler is split where it goes to the database: each SELECT and each  *)
(* committed write is one step.                                            *)
(***************************************************************************)
EXTENDS SlotTimes, FiniteSets

CONSTANTS
    Browsers,        \* browsers, each with its own cookie jar
    Threads,         \* request threads of the server
    Names,           \* usernames; each stands for its email and mobile too
    OrderIds,        \* ids of Razorpay orders
    Dates,           \* days, as day numbers
    Starts,          \* start times the form may carry
    Times,           \* clock readings, in minutes since day 0
    MaxUsers,        \* bound on users ever registered
    MaxSalons,       \* bound on salons ever registered
    MaxWorkers,      \* bound on a salon's worker_count
    MaxServices,     \* bound on services selected in one form
    MaxBookings,     \* bound on bookings ever inserted
    ConcurrentTabs,  \* may a browser have several requests in flight?
    LossyNetwork,    \* may a response be lost?
    NoName, NoBooking, NoOrder

ASSUME SetsAssumption ==
    /\ Dates \subseteq Nat
    /\ Times \subseteq Nat
    /\ Starts \subseteq Minutes
    /\ IsFiniteSet(Browsers)
    /\ IsFiniteSet(Threads)

ASSUME BoundsAssumption ==
    /\ MaxUsers \in Nat
    /\ MaxSalons \in Nat
    /\ MaxWorkers \in Nat \ {0}
    /\ MaxServices \in 1 .. (DayMinutes \div SlotMinutes)
    /\ MaxBookings \in Nat

ASSUME FlagsAssumption ==
    /\ ConcurrentTabs \in BOOLEAN
    /\ LossyNetwork \in BOOLEAN

ASSUME NoNameAssumption == NoName \notin Names

ASSUME NoOrderAssumption == NoOrder \notin OrderIds

VARIABLES
    users,        \* users_data: id -> username, NoName where there is no row
    user_seq,     \* AUTOINCREMENT counter of users_data
    salons,       \* salons_data: id -> worker_count, 0 where there is no row
    salon_seq,    \* AUTOINCREMENT counter of salons_data
    slot_data,    \* the rows of slot_data; every row is 'paid'
    slot_seq,     \* AUTOINCREMENT counter of slot_data
    cookie,       \* the session each browser holds
    req,          \* the request each thread is serving
    orders,       \* Razorpay's orders
    now           \* the server's clock

vars == <<users, user_seq, salons, salon_seq, slot_data, slot_seq,
          cookie, req, orders, now>>

database == <<users, user_seq, salons, salon_seq, slot_data, slot_seq>>

-----------------------------------------------------------------------------
(* Types *)

UserIds  == 1 .. MaxUsers
SalonIds == 1 .. MaxSalons

\* session["pending_booking"].  The number of services, start_time, end_time
\* and platform_fee follow from slots; "by" is a history field: the user whose
\* session the booking was put into.
PendingBooking ==
    [salon : SalonIds, date : Dates, slots : Seq(Minutes), by : UserIds]

\* user = 0 and username = NoName when the keys are not in the session.
Session ==
    [user : 0 .. MaxUsers, username : Names \cup {NoName},
     pending : PendingBooking \cup {NoBooking}]

EmptySession == [user |-> 0, username |-> NoName, pending |-> NoBooking]

NoTime == -1   \* a slot_time that strptime does not parse

Form ==
    [salon : SalonIds, date : Dates, start : Starts \cup {NoTime},
     services : 0 .. MaxServices]

\* Rows of slot_data.  "order" and "by" are history fields: the order whose
\* payment was verified, and the user who chose the slots.
Row ==
    [id : 1 .. MaxBookings, user : UserIds, username : Names \cup {NoName},
     salon : SalonIds, date : Dates, slots : Seq(Minutes),
     order : OrderIds, by : UserIds]

\* An order of the payment gateway: "booking" is what the payment page that
\* carries it shows; a page is "shown" once its response has arrived, and
\* "answered" once the browser got the answer of /payment-success.
Order ==
    [status : {"none"}]
    \cup [status : {"created", "shown", "paid", "answered"},
          browser : Browsers, booking : PendingBooking]

Request ==
    [pc : {"idle"}]
    \cup [pc : {"login"}, browser : Browsers, session : Session,
          username : Names]
    \cup [pc : {"logout", "payment"}, browser : Browsers, session : Session]
    \cup [pc : {"workers"}, browser : Browsers, session : Session,
          salon : SalonIds, count : 0 .. MaxWorkers]
    \cup [pc : {"book"}, browser : Browsers, session : Session, form : Form]
    \cup [pc : {"book_check"}, browser : Browsers, session : Session,
          form : Form, worker_count : 1 .. MaxWorkers]
    \cup [pc : {"success"}, browser : Browsers, session : Session,
          order : OrderIds]
    \cup [pc : {"reply"}, browser : Browsers, session : Session,
          modified : BOOLEAN, order : OrderIds \cup {NoOrder}]

Idle == [pc |-> "idle"]

\* Types of the tables, cookies, requests and orders.
TypeOK ==
    /\ users \in [UserIds -> Names \cup {NoName}]
    /\ user_seq \in 0 .. MaxUsers
    /\ salons \in [SalonIds -> 0 .. MaxWorkers]
    /\ salon_seq \in 0 .. MaxSalons
    /\ slot_data \subseteq Row
    /\ slot_seq \in 0 .. MaxBookings
    /\ cookie \in [Browsers -> Session]
    /\ req \in [Threads -> Request]
    /\ orders \in [OrderIds -> Order]
    /\ now \in Times

Init ==
    /\ users = [u \in UserIds |-> NoName]
    /\ user_seq = 0
    /\ salons = [s \in SalonIds |-> 0]
    /\ salon_seq = 0
    /\ slot_data = {}
    /\ slot_seq = 0
    /\ cookie = [b \in Browsers |-> EmptySession]
    /\ req = [t \in Threads |-> Idle]
    /\ orders = [o \in OrderIds |-> [status |-> "none"]]
    /\ now \in {m \in Times : \A n \in Times : m <= n}

-----------------------------------------------------------------------------
(* Requests and responses: Flask's open_session and save_session *)

InFlight(b) == \E t \in Threads : req[t].pc # "idle" /\ req[t].browser = b

\* Thread t receives a request of browser b with a copy of b's cookie.
Open(t, b, request) ==
    /\ req[t].pc = "idle"
    /\ ConcurrentTabs \/ ~InFlight(b)
    /\ req' = [req EXCEPT ![t] = request]
    /\ UNCHANGED <<database, cookie, orders, now>>

\* The handler of thread t returns, leaving s as its session.  order is the
\* one whose page or payment the response is about.
Return(t, s, modified, order) ==
    req' = [req EXCEPT ![t] = [pc |-> "reply", browser |-> req[t].browser,
                               session |-> s, modified |-> modified,
                               order |-> order]]

\* flash() followed by a redirect: the session is otherwise as it came.
FlashAndReturn(t, order) == Return(t, req[t].session, TRUE, order)

\* What the browser does with the page: a created order's checkout opens, and
\* the answer to /payment-success replaces the checkout page.
OrdersSeen(order) ==
    IF order = NoOrder THEN orders
    ELSE [orders EXCEPT ![order].status =
              IF orders[order].status = "created" THEN "shown" ELSE "answered"]

Deliver(t) ==
    /\ req[t].pc = "reply"
    /\ cookie' = IF req[t].modified
                 THEN [cookie EXCEPT ![req[t].browser] = req[t].session]
                 ELSE cookie
    /\ orders' = OrdersSeen(req[t].order)
    /\ req' = [req EXCEPT ![t] = Idle]
    /\ UNCHANGED <<database, now>>

\* The response is lost, or the server dies before sending it: the browser
\* keeps its cookie and its page.
Lose(t) ==
    /\ LossyNetwork
    /\ req[t].pc = "reply"
    /\ req' = [req EXCEPT ![t] = Idle]
    /\ UNCHANGED <<database, cookie, orders, now>>

-----------------------------------------------------------------------------
(* Accounts *)

\* Mutant of Register: an id without AUTOINCREMENT, one above the largest id in
\* the table.
RegisterReusingIds(n) ==
    LET top == CHOOSE m \in 0 .. MaxUsers :
                   /\ m # 0 => users[m] # NoName
                   /\ \A u \in UserIds : users[u] # NoName => u <= m
    IN  /\ top < MaxUsers
        /\ \A u \in UserIds : users[u] # n
        /\ user_seq' = top + 1
        /\ users' = [users EXCEPT ![top + 1] = n]
        /\ UNCHANGED <<salons, salon_seq, slot_data, slot_seq,
                       cookie, req, orders, now>>

\* The INSERT of handle_auth("register").  A username in use is refused by
\* the UNIQUE constraint and changes nothing.
Register(n) ==
    /\ user_seq < MaxUsers
    /\ \A u \in UserIds : users[u] # n
    /\ user_seq' = user_seq + 1
    /\ users' = [users EXCEPT ![user_seq + 1] = n]
    /\ UNCHANGED <<salons, salon_seq, slot_data, slot_seq,
                   cookie, req, orders, now>>

LoginRequest(t, b, n) ==
    Open(t, b, [pc |-> "login", browser |-> b, session |-> cookie[b],
                username |-> n])

\* Mutant of Login: the new keys are set without session.clear().
LoginWithoutClear(t) ==
    /\ req[t].pc = "login"
    /\ \/ \E u \in UserIds :
             /\ users[u] = req[t].username
             /\ Return(t, [req[t].session EXCEPT !.user = u,
                                                 !.username = users[u]],
                       TRUE, NoOrder)
       \/ FlashAndReturn(t, NoOrder)
    /\ UNCHANGED <<database, cookie, orders, now>>

\* session.clear() precedes the new keys, so a pending booking is dropped.
Login(t) ==
    /\ req[t].pc = "login"
    /\ \/ \E u \in UserIds :
             /\ users[u] = req[t].username
             /\ Return(t, [user |-> u, username |-> users[u],
                           pending |-> NoBooking], TRUE, NoOrder)
       \/ FlashAndReturn(t, NoOrder)    \* wrong password, or no such user
    /\ UNCHANGED <<database, cookie, orders, now>>

LogoutRequest(t, b) ==
    Open(t, b, [pc |-> "logout", browser |-> b, session |-> cookie[b]])

\* Mutant of Logout: the identity is popped, the pending booking is not.
LogoutKeepsBooking(t) ==
    /\ req[t].pc = "logout"
    /\ Return(t, [EmptySession EXCEPT !.pending = req[t].session.pending],
              TRUE, NoOrder)
    /\ UNCHANGED <<database, cookie, orders, now>>

\* /logout; the admin's login and logout empty the session in the same way.
Logout(t) ==
    /\ req[t].pc = "logout"
    /\ Return(t, EmptySession, TRUE, NoOrder)
    /\ UNCHANGED <<database, cookie, orders, now>>

\* ON DELETE CASCADE removes the user's bookings.
DeleteUser(u) ==
    /\ users[u] # NoName
    /\ users' = [users EXCEPT ![u] = NoName]
    /\ slot_data' = {r \in slot_data : r.user # u}
    /\ UNCHANGED <<user_seq, salons, salon_seq, slot_seq,
                   cookie, req, orders, now>>

-----------------------------------------------------------------------------
(* Salons *)

\* The row that register_salon inserts; worker_count is at least 1.
RegisterSalon(n) ==
    /\ salon_seq < MaxSalons
    /\ salon_seq' = salon_seq + 1
    /\ salons' = [salons EXCEPT ![salon_seq + 1] = n]
    /\ UNCHANGED <<users, user_seq, slot_data, slot_seq,
                   cookie, req, orders, now>>

DeleteSalon(s) ==
    /\ salons[s] # 0
    /\ salons' = [salons EXCEPT ![s] = 0]
    /\ slot_data' = {r \in slot_data : r.salon # s}
    /\ UNCHANGED <<users, user_seq, salon_seq, slot_seq,
                   cookie, req, orders, now>>

WorkersRequest(t, b, s, n) ==
    Open(t, b, [pc |-> "workers", browser |-> b, session |-> cookie[b],
                salon |-> s, count |-> n])

\* update_worker_count: an UPDATE of a salon that is gone touches no row.
UpdateWorkerCount(t) ==
    /\ req[t].pc = "workers"
    /\ salons' = IF /\ req[t].session.user # 0
                    /\ req[t].count >= 1
                    /\ salons[req[t].salon] # 0
                 THEN [salons EXCEPT ![req[t].salon] = req[t].count]
                 ELSE salons
    /\ FlashAndReturn(t, NoOrder)
    /\ UNCHANGED <<users, user_seq, salon_seq, slot_data, slot_seq,
                   cookie, orders, now>>

-----------------------------------------------------------------------------
(* Booking a slot *)

\* booked_count[slot]: how often slot occurs in the paid rows of that day.
booked_count(salon, date, slot) ==
    LET rows == {r \in slot_data : r.salon = salon /\ r.date = date}
    IN  Cardinality({p \in rows \X (1 .. MaxServices) :
                        /\ p[2] \in DOMAIN p[1].slots
                        /\ p[1].slots[p[2]] = slot})

BookRequest(t, b, f) ==
    Open(t, b, [pc |-> "book", browser |-> b, session |-> cookie[b],
                form |-> f])

\* Mutant of BookRefused: the login is not checked.
BookRefusedAfterLogin(session, form) ==
    \/ salons[form.salon] = 0
    \/ form.services = 0
    \/ form.start = NoTime
    \/ form.date * DayMinutes + form.start < now
    \/ ExceedsClosing(form.start)

\* The early returns before the availability check.
BookRefused(session, form) ==
    \/ session.user = 0                                 \* login first
    \/ salons[form.salon] = 0                           \* salon not found
    \/ form.services = 0                                \* incomplete form
    \/ form.start = NoTime                              \* invalid time
    \/ form.date * DayMinutes + form.start < now        \* past slot
    \/ ExceedsClosing(form.start)                       \* after closing time

\* book_slot_for_salon up to the availability query: the salon's row, and with
\* it worker_count, is read here.
BookFetchSalon(t) ==
    /\ req[t].pc = "book"
    /\ IF BookRefused(req[t].session, req[t].form)
       THEN FlashAndReturn(t, NoOrder)
       ELSE req' = [req EXCEPT ![t] =
                       [pc |-> "book_check", browser |-> req[t].browser,
                        session |-> req[t].session, form |-> req[t].form,
                        worker_count |-> salons[req[t].form.salon]]]
    /\ UNCHANGED <<database, cookie, orders, now>>

\* Mutants of Unavailable: a comparison that is off by one, and a check of the
\* first slot only.
UnavailableOffByOne(form, worker_count) ==
    LET required_slots == generate_required_slots(form.start, form.services)
    IN  \E i \in DOMAIN required_slots :
            booked_count(form.salon, form.date, required_slots[i])
                > worker_count

UnavailableFirstSlot(form, worker_count) ==
    booked_count(form.salon, form.date, form.start) >= worker_count

\* Some required slot is already sold as often as the salon has workers.
Unavailable(form, worker_count) ==
    LET required_slots == generate_required_slots(form.start, form.services)
    IN  \E i \in DOMAIN required_slots :
            booked_count(form.salon, form.date, required_slots[i])
                >= worker_count

\* Mutant of pending_booking: the slots are listed by their ends.
pending_bookingByEnds(session, form) ==
    [salon |-> form.salon, date |-> form.date,
     slots |-> [i \in 1 .. form.services |->
                   Clock(form.start + i * SlotMinutes)],
     by |-> session.user]

pending_booking(session, form) ==
    [salon |-> form.salon, date |-> form.date,
     slots |-> generate_required_slots(form.start, form.services),
     by |-> session.user]

\* The availability query and the rest of book_slot_for_salon.
BookCheckSlots(t) ==
    LET r == req[t] IN
    /\ r.pc = "book_check"
    /\ IF Unavailable(r.form, r.worker_count)
       THEN FlashAndReturn(t, NoOrder)
       ELSE Return(t, [r.session EXCEPT !.pending =
                          pending_booking(r.session, r.form)], TRUE, NoOrder)
    /\ UNCHANGED <<database, cookie, orders, now>>

\* The admin's delete_booking.
DeleteBooking(r) ==
    /\ slot_data' = slot_data \ {r}
    /\ UNCHANGED <<users, user_seq, salons, salon_seq, slot_seq,
                   cookie, req, orders, now>>

-----------------------------------------------------------------------------
(* Paying *)

PaymentRequest(t, b) ==
    Open(t, b, [pc |-> "payment", browser |-> b, session |-> cookie[b]])

\* The payment page: an order for the platform fee of the pending booking.
\* The gateway may refuse to create one.  On success nothing is flashed, so
\* the response leaves the cookie alone.
Payment(t) ==
    LET session == req[t].session IN
    /\ req[t].pc = "payment"
    /\ \/ /\ FlashAndReturn(t, NoOrder)
          /\ UNCHANGED orders
       \/ /\ session.user # 0
          /\ session.pending # NoBooking
          /\ \E o \in OrderIds :
                /\ orders[o].status = "none"
                /\ orders' = [orders EXCEPT ![o] =
                                 [status |-> "created",
                                  browser |-> req[t].browser,
                                  booking |-> session.pending]]
                /\ Return(t, session, FALSE, o)
    /\ UNCHANGED <<database, cookie, now>>

\* The customer pays in the checkout of payment.js.
Pay(o) ==
    /\ orders[o].status = "shown"
    /\ orders' = [orders EXCEPT ![o].status = "paid"]
    /\ UNCHANGED <<database, cookie, req, now>>

\* submitPayment posts the result of a payment that succeeded; it is posted
\* again, by reloading, only when no answer came back.
PaymentSuccessRequest(t, o) ==
    /\ orders[o].status = "paid"
    /\ \A u \in Threads : ~(req[u].pc \in {"success", "reply"}
                            /\ req[u].order = o)
    /\ Open(t, orders[o].browser,
            [pc |-> "success", browser |-> orders[o].browser,
             session |-> cookie[orders[o].browser], order |-> o])

\* verify_payment_signature: the gateway signs paid orders only.
SignatureValid(o) == orders[o].status = "paid"

\* Mutant of ForeignKeysHold: without the PRAGMA, SQLite enforces none.
ForeignKeysIgnored(session) == TRUE

\* The foreign keys of slot_data, enforced by PRAGMA foreign_keys = ON.
ForeignKeysHold(session) ==
    /\ users[session.user] # NoName
    /\ salons[session.pending.salon] # 0

BookingRow(session, o) ==
    [id |-> slot_seq + 1, user |-> session.user,
     username |-> session.username, salon |-> session.pending.salon,
     date |-> session.pending.date, slots |-> session.pending.slots,
     order |-> o, by |-> session.pending.by]

PaymentRefused(session, o) ==
    \/ session.user = 0
    \/ ~SignatureValid(o)
    \/ session.pending = NoBooking

\* Mutants of PaymentSuccess: the pending booking is not popped, and an INSERT
\* that fails is tried again until it succeeds.
PaymentSuccessWithoutPop(t) ==
    LET session == req[t].session
        o       == req[t].order
    IN
    /\ req[t].pc = "success"
    /\ FlashAndReturn(t, o)
    /\ \/ UNCHANGED <<slot_data, slot_seq>>
       \/ /\ ~PaymentRefused(session, o)
          /\ ForeignKeysHold(session)
          /\ slot_seq < MaxBookings
          /\ slot_seq' = slot_seq + 1
          /\ slot_data' = slot_data \cup {BookingRow(session, o)}
    /\ UNCHANGED <<users, user_seq, salons, salon_seq, cookie, orders, now>>

PaymentSuccessRetrying(t) ==
    LET session == req[t].session
        o       == req[t].order
    IN
    /\ req[t].pc = "success"
    /\ \/ /\ PaymentRefused(session, o)
          /\ FlashAndReturn(t, o)
          /\ UNCHANGED <<slot_data, slot_seq>>
       \/ /\ ~PaymentRefused(session, o)
          /\ ForeignKeysHold(session)
          /\ slot_seq < MaxBookings
          /\ slot_seq' = slot_seq + 1
          /\ slot_data' = slot_data \cup {BookingRow(session, o)}
          /\ Return(t, [session EXCEPT !.pending = NoBooking], TRUE, o)
    /\ UNCHANGED <<users, user_seq, salons, salon_seq, cookie, orders, now>>

\* payment_success records the booking and pops it from the session.  When
\* the INSERT raises (a foreign key is gone, or the database stays locked) the
\* pending booking stays in the session.
PaymentSuccess(t) ==
    LET session == req[t].session
        o       == req[t].order
    IN
    /\ req[t].pc = "success"
    /\ \/ /\ FlashAndReturn(t, o)
          /\ UNCHANGED <<slot_data, slot_seq>>
       \/ /\ ~PaymentRefused(session, o)
          /\ ForeignKeysHold(session)
          /\ slot_seq < MaxBookings
          /\ slot_seq' = slot_seq + 1
          /\ slot_data' = slot_data \cup {BookingRow(session, o)}
          /\ Return(t, [session EXCEPT !.pending = NoBooking], TRUE, o)
    /\ UNCHANGED <<users, user_seq, salons, salon_seq, cookie, orders, now>>

-----------------------------------------------------------------------------

Tick ==
    /\ \E m \in Times : m > now /\ now' = m
    /\ UNCHANGED <<database, cookie, req, orders>>

\* A thread of the server at work on its request.
Handle(t) ==
    \/ Login(t)
    \/ Logout(t)
    \/ UpdateWorkerCount(t)
    \/ BookFetchSalon(t)
    \/ BookCheckSlots(t)
    \/ Payment(t)
    \/ PaymentSuccess(t)

\* A browser sends a request.
Send(t, b) ==
    \/ \E n \in Names : LoginRequest(t, b, n)
    \/ LogoutRequest(t, b)
    \/ \E s \in SalonIds, n \in 0 .. MaxWorkers : WorkersRequest(t, b, s, n)
    \/ \E f \in Form : BookRequest(t, b, f)
    \/ PaymentRequest(t, b)

\* Requests that touch the tables and no modelled key of the session.  The
\* flash of some of them rewrites the cookie just as a refused login does.
Tables ==
    \/ \E n \in Names : Register(n)
    \/ \E n \in 1 .. MaxWorkers : RegisterSalon(n)
    \/ \E u \in UserIds : DeleteUser(u)
    \/ \E s \in SalonIds : DeleteSalon(s)
    \/ \E r \in slot_data : DeleteBooking(r)

Next ==
    \/ \E t \in Threads, b \in Browsers : Send(t, b)
    \/ \E t \in Threads, o \in OrderIds : PaymentSuccessRequest(t, o)
    \/ \E o \in OrderIds : Pay(o)
    \/ \E t \in Threads : Handle(t)
    \/ \E t \in Threads : Deliver(t)
    \/ \E t \in Threads : Lose(t)
    \/ Tables
    \/ Tick

Spec == Init /\ [][Next]_vars

\* The server runs every request it accepted to its end, and the answer
\* arrives (or is lost).  Nothing is assumed of customers and owners.
Fairness ==
    \A t \in Threads : WF_vars(Handle(t)) /\ WF_vars(Deliver(t))

FairSpec == Spec /\ Fairness

-----------------------------------------------------------------------------
(* Properties *)

\* Every booking refers to a user and to a salon that exist, although the
\* INSERT of /payment-success (app.py:1499) uses a user_id and a salon_id that
\* may have been in the cookie since before an admin deleted the row.
ReferentialIntegrity ==
    \A r \in slot_data : users[r.user] # NoName /\ salons[r.salon] # 0

\* The two copies of the customer in a booking, user_id and username, always
\* denote one account: an id in an old cookie is never given to another user,
\* even when users are deleted and the username registers again.
RowsNameTheirUser ==
    \A r \in slot_data : users[r.user] = r.username

\* A booking is recorded for the user who chose its slots, also when several
\* people log in and out of one browser while its requests overlap or their
\* responses are lost: login and logout clear the pending booking together
\* with the identity (session.clear(), app.py:368, 395, 417, 586, 612).
BookedForWhoChose ==
    \A r \in slot_data : r.user = r.by

\* With one request at a time per browser and no lost response, a slot is sold
\* at most (browsers - 1) times beyond the workers the salon ever had: each
\* browser can hold one unpaid booking that passed the availability check
\* before the others were paid.
OverbookingBound ==
    \A r \in slot_data : \A i \in DOMAIN r.slots :
        booked_count(r.salon, r.date, r.slots[i])
            <= MaxWorkers - 1 + Cardinality(Browsers)

\* A posted payment is answered (recorded or refused) and the checkout page
\* goes away, whatever was deleted in the meantime and whether or not the
\* INSERT fails.
PaymentAnswered ==
    \A o \in OrderIds :
        (\E t \in Threads : req[t].pc = "success" /\ req[t].order = o)
            ~> (orders[o].status = "answered")

\* "CHECK SLOT AVAILABILITY" (app.py:1284): no slot is sold to more customers
\* than the salon can serve at once.
NoOverbooking ==
    \A r \in slot_data : \A i \in DOMAIN r.slots :
        booked_count(r.salon, r.date, r.slots[i]) <= MaxWorkers

\* "please confirm your booking" (templates/payment.html:54): the date and the
\* slots recorded for a payment are the ones that its payment page showed.
BookedAsConfirmed ==
    \A r \in slot_data :
        LET shown == orders[r.order].booking
        IN  r.date = shown.date /\ r.slots = shown.slots

-----------------------------------------------------------------------------
(* The inductive invariant *)

\* A session names an account that exists or existed under the same name, and
\* its pending booking was put there by that account.
SessionSound(s) ==
    /\ s.user # 0 => /\ s.user <= user_seq
                     /\ users[s.user] \in {NoName, s.username}
    /\ s.pending # NoBooking => s.user # 0 /\ s.pending.by = s.user

SessionsSound ==
    /\ \A b \in Browsers : SessionSound(cookie[b])
    /\ \A t \in Threads : req[t].pc # "idle" => SessionSound(req[t].session)

\* A request that reached the availability query passed the early returns that
\* its pending booking depends on.
ChecksPassed ==
    \A t \in Threads :
        req[t].pc = "book_check" => /\ req[t].session.user # 0
                                    /\ req[t].form.start # NoTime

\* AUTOINCREMENT: ids above the counter have never been given out.
FreshIdsUnused ==
    /\ \A u \in UserIds : u > user_seq => users[u] = NoName
    /\ \A r \in slot_data : r.id <= slot_seq

\* A request about an order is about one that the gateway has created.
OrdersKnown ==
    /\ \A t \in Threads :
          req[t].pc \in {"success", "reply"} /\ req[t].order # NoOrder
              => orders[req[t].order].status # "none"
    /\ \A r \in slot_data : orders[r.order].status # "none"

\* The invariant that every step keeps and the proofs use: together these say
\* why an old cookie cannot book for somebody else.
IInv ==
    /\ TypeOK
    /\ SessionsSound
    /\ ChecksPassed
    /\ FreshIdsUnused
    /\ OrdersKnown
    /\ ReferentialIntegrity
    /\ RowsNameTheirUser
    /\ BookedForWhoChose
=============================================================================

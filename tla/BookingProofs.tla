---------------------------- MODULE BookingProofs ----------------------------
(***************************************************************************)
(* Booking is type correct and keeps its bookings sound for every number of*)
(* browsers, threads, accounts, salons and orders, with overlapping        *)
(* requests and lost responses.  For browsers that send one request at a   *)
(* time and get every response it implements SlotHolds, and with that the  *)
(* overbooking of a slot is bounded.                                       *)
(***************************************************************************)
EXTENDS BookingHolds, SequenceTheorems, FiniteSetTheorems, TLAPS

-----------------------------------------------------------------------------
(* Lemmas on the operators *)

\* The slots that the server derives from a form are times of day.
LEMMA RequiredSlotsInDay ==
    ASSUME NEW start \in Minutes, NEW n \in Nat
    PROVE  generate_required_slots(start, n) \in [1 .. n -> Minutes]
  <1>1. \A i \in 1 .. n : Clock(start + (i - 1) * SlotMinutes) \in Minutes
    BY DEF Clock, Minutes, DayMinutes, SlotMinutes
  <1>2. QED
    BY <1>1 DEF generate_required_slots

\* A booking of at most one day's worth of services needs each of its slots
\* once, although strftime wraps around midnight: booked_count, which counts
\* occurrences, therefore counts bookings.
THEOREM RequiredSlotsDistinct ==
    ASSUME NEW start \in Minutes,
           NEW n \in 0 .. (DayMinutes \div SlotMinutes),
           NEW i \in 1 .. n, NEW j \in 1 .. n,
           generate_required_slots(start, n)[i]
               = generate_required_slots(start, n)[j]
    PROVE  i = j
  <1>1. (start + (i - 1) * 30) % 1440 = (start + (j - 1) * 30) % 1440
    BY DEF generate_required_slots, Clock, DayMinutes, SlotMinutes
  <1>2. n \in 0 .. 48 /\ start \in 0 .. 1439
    BY DEF DayMinutes, SlotMinutes, Minutes
  <1>3. QED
    BY <1>1, <1>2

\* The slots of a pending booking are a sequence of times of day.
LEMMA RequiredSlotsTyped ==
    ASSUME NEW start \in Minutes, NEW n \in Nat
    PROVE  generate_required_slots(start, n) \in Seq(Minutes)
  BY RequiredSlotsInDay, SeqDef

\* What each kind of request carries.
LEMMA RequestFields ==
    ASSUME NEW r \in Request
    PROVE  /\ r.pc # "idle" => r.browser \in Browsers /\ r.session \in Session
           /\ r.pc = "login" => r.username \in Names
           /\ r.pc = "workers" => r.salon \in SalonIds
                                  /\ r.count \in 0 .. MaxWorkers
           /\ r.pc \in {"book", "book_check"} => r.form \in Form
           /\ r.pc = "book_check" => r.worker_count \in 1 .. MaxWorkers
           /\ r.pc = "success" => r.order \in OrderIds
           /\ r.pc = "reply" => /\ r.modified \in BOOLEAN
                                /\ r.order \in OrderIds \cup {NoOrder}
  BY DEF Request

\* A session without its pending booking, or with a new one, is a session.
LEMMA SessionUpdate ==
    ASSUME NEW s \in Session, NEW p \in PendingBooking \cup {NoBooking}
    PROVE  /\ [s EXCEPT !.pending = p] \in Session
           /\ [s EXCEPT !.pending = p].user = s.user
           /\ [s EXCEPT !.pending = p].username = s.username
           /\ [s EXCEPT !.pending = p].pending = p
  BY DEF Session

\* The session that logging out leaves is a session.
LEMMA EmptySessionTyped == EmptySession \in Session
  BY BoundsAssumption DEF EmptySession, Session

\* A handler that returns a sound session leaves every session sound, and
\* what it returns is a well-formed response.
LEMMA ReturnSound ==
    ASSUME TypeOK, SessionsSound, OrdersKnown,
           NEW t \in Threads, req[t].pc # "idle",
           NEW s \in Session, SessionSound(s),
           NEW m \in BOOLEAN,
           NEW o \in OrderIds \cup {NoOrder},
           UNCHANGED <<users, user_seq, cookie>>,
           Return(t, s, m, o)
    PROVE  /\ req' \in [Threads -> Request]
           /\ SessionsSound'
           /\ \A u \in Threads \ {t} : req'[u] = req[u]
           /\ req'[t].pc = "reply" /\ req'[t].order = o
  <1>1. req[t] \in Request /\ req[t].browser \in Browsers
    BY RequestFields DEF TypeOK
  <1> DEFINE reply == [pc |-> "reply", browser |-> req[t].browser,
                       session |-> s, modified |-> m, order |-> o]
  <1>2. reply \in Request
    BY <1>1 DEF Request
  <1>3. req' = [req EXCEPT ![t] = reply]
    BY DEF Return
  <1> HIDE DEF reply
  <1>4. /\ req' \in [Threads -> Request]
        /\ \A u \in Threads \ {t} : req'[u] = req[u]
        /\ req'[t] = reply
    BY <1>2, <1>3 DEF TypeOK
  <1>5. reply.pc = "reply" /\ reply.session = s /\ reply.order = o
    BY DEF reply
  <1>6. SessionsSound'
    BY <1>4, <1>5 DEF SessionsSound, SessionSound
  <1>7. QED
    BY <1>4, <1>5, <1>6

\* Accepting a request with a copy of the browser's cookie leaves every
\* session sound.
LEMMA OpenSound ==
    ASSUME TypeOK, SessionsSound,
           NEW t \in Threads, NEW b \in Browsers,
           NEW r \in Request, r.pc # "idle", r.session = cookie[b],
           Open(t, b, r)
    PROVE  /\ req' = [req EXCEPT ![t] = r]
           /\ UNCHANGED <<database, cookie, orders, now>>
           /\ req' \in [Threads -> Request]
           /\ SessionsSound'
  <1>1. /\ req' = [req EXCEPT ![t] = r]
        /\ UNCHANGED <<database, cookie, orders, now>>
    BY DEF Open
  <1>2. /\ req' \in [Threads -> Request]
        /\ \A u \in Threads \ {t} : req'[u] = req[u]
        /\ req'[t] = r
    BY <1>1 DEF TypeOK
  <1>3. SessionsSound'
    BY <1>1, <1>2 DEF SessionsSound, SessionSound, database
  <1>4. QED
    BY <1>1, <1>2, <1>3

\* Nothing but the requests in flight changes.
LEMMA OnlyRequests ==
    ASSUME IInv, UNCHANGED <<database, orders, now>>,
           cookie' \in [Browsers -> Session],
           req' \in [Threads -> Request], SessionsSound', ChecksPassed',
           \A t \in Threads :
               req'[t].pc \in {"success", "reply"} /\ req'[t].order # NoOrder
                   => orders[req'[t].order].status # "none"
    PROVE  IInv'
  <1>1. TypeOK'
    BY DEF IInv, TypeOK, database
  <1>2. FreshIdsUnused' /\ OrdersKnown' /\ ReferentialIntegrity'
        /\ RowsNameTheirUser' /\ BookedForWhoChose'
    BY DEF IInv, FreshIdsUnused, OrdersKnown, ReferentialIntegrity,
           RowsNameTheirUser, BookedForWhoChose, database
  <1>3. QED
    BY <1>1, <1>2 DEF IInv

-----------------------------------------------------------------------------
(* The inductive invariant: one lemma per group of actions *)

\* The tables are empty, nobody is logged in and no request is in flight.
LEMMA InitSound == Init => IInv
  <1> SUFFICES ASSUME Init PROVE IInv
    OBVIOUS
  <1>1. TypeOK
    BY BoundsAssumption, EmptySessionTyped
    DEF Init, TypeOK, UserIds, SalonIds, Request, Order, Idle
  <1>2. SessionsSound /\ ChecksPassed
    BY DEF Init, SessionsSound, SessionSound, ChecksPassed, EmptySession, Idle
  <1>3. FreshIdsUnused /\ OrdersKnown /\ ReferentialIntegrity
        /\ RowsNameTheirUser /\ BookedForWhoChose
    BY DEF Init, FreshIdsUnused, OrdersKnown, ReferentialIntegrity,
           RowsNameTheirUser, BookedForWhoChose, Idle
  <1>4. QED
    BY <1>1, <1>2, <1>3 DEF IInv

\* Every request of a browser, the payment result apart.
LEMMA SendSound ==
    ASSUME IInv, NEW t \in Threads, NEW b \in Browsers, Send(t, b)
    PROVE  IInv'
  <1>1. ASSUME NEW r \in Request, Open(t, b, r), r.session = cookie[b],
               r.pc \notin {"idle", "book_check", "success", "reply"}
        PROVE  IInv'
    <2>1. /\ req' = [req EXCEPT ![t] = r]
          /\ UNCHANGED <<database, cookie, orders, now>>
          /\ req' \in [Threads -> Request]
          /\ SessionsSound'
      BY <1>1, OpenSound DEF IInv
    <2>2. \A u \in Threads :
              req'[u].pc \in {"success", "reply"} /\ req'[u].order # NoOrder
                  => orders[req'[u].order].status # "none"
      BY <2>1, <1>1 DEF IInv, OrdersKnown, TypeOK
    <2>3. cookie' \in [Browsers -> Session]
      BY <2>1 DEF IInv, TypeOK
    <2>4. ChecksPassed'
      BY <1>1, <2>1 DEF IInv, ChecksPassed, TypeOK
    <2>5. QED
      BY <2>1, <2>2, <2>3, <2>4, OnlyRequests
  <1>2. cookie[b] \in Session
    BY DEF IInv, TypeOK
  <1>3. CASE \E n \in Names : LoginRequest(t, b, n)
    <2>1. PICK n \in Names : LoginRequest(t, b, n)
      BY <1>3
    <2> DEFINE r == [pc |-> "login", browser |-> b, session |-> cookie[b],
                     username |-> n]
    <2>2. r \in Request
      BY <1>2 DEF Request
    <2>3. Open(t, b, r)
      BY <2>1 DEF LoginRequest
    <2>4. QED
      BY <2>2, <2>3, <1>1
  <1>4. CASE LogoutRequest(t, b)
    <2> DEFINE r == [pc |-> "logout", browser |-> b, session |-> cookie[b]]
    <2>2. r \in Request
      BY <1>2 DEF Request
    <2>3. Open(t, b, r)
      BY <1>4 DEF LogoutRequest
    <2>4. QED
      BY <2>2, <2>3, <1>1
  <1>5. CASE \E s \in SalonIds, n \in 0 .. MaxWorkers :
                WorkersRequest(t, b, s, n)
    <2>1. PICK s \in SalonIds, n \in 0 .. MaxWorkers :
              WorkersRequest(t, b, s, n)
      BY <1>5
    <2> DEFINE r == [pc |-> "workers", browser |-> b, session |-> cookie[b],
                     salon |-> s, count |-> n]
    <2>2. r \in Request
      BY <1>2 DEF Request
    <2>3. Open(t, b, r)
      BY <2>1 DEF WorkersRequest
    <2>4. QED
      BY <2>2, <2>3, <1>1
  <1>6. CASE \E f \in Form : BookRequest(t, b, f)
    <2>1. PICK f \in Form : BookRequest(t, b, f)
      BY <1>6
    <2> DEFINE r == [pc |-> "book", browser |-> b, session |-> cookie[b],
                     form |-> f]
    <2>2. r \in Request
      BY <1>2 DEF Request
    <2>3. Open(t, b, r)
      BY <2>1 DEF BookRequest
    <2>4. QED
      BY <2>2, <2>3, <1>1
  <1>7. CASE PaymentRequest(t, b)
    <2> DEFINE r == [pc |-> "payment", browser |-> b, session |-> cookie[b]]
    <2>2. r \in Request
      BY <1>2 DEF Request
    <2>3. Open(t, b, r)
      BY <1>7 DEF PaymentRequest
    <2>4. QED
      BY <2>2, <2>3, <1>1
  <1>8. QED
    BY <1>3, <1>4, <1>5, <1>6, <1>7 DEF Send

\* The handlers that change no table and create no order: each returns a sound
\* session, or goes on to its next query.
LEMMA SessionHandlersSound ==
    ASSUME IInv, NEW t \in Threads,
           \/ Login(t)
           \/ Logout(t)
           \/ BookFetchSalon(t)
           \/ BookCheckSlots(t)
    PROVE  IInv'
  <1>1. ASSUME NEW s \in Session, SessionSound(s), req[t].pc # "idle",
               Return(t, s, TRUE, NoOrder),
               UNCHANGED <<database, cookie, orders, now>>
        PROVE  IInv'
    <2>1. /\ req' \in [Threads -> Request]
          /\ SessionsSound'
          /\ \A u \in Threads \ {t} : req'[u] = req[u]
          /\ req'[t].pc = "reply" /\ req'[t].order = NoOrder
      BY <1>1, ReturnSound DEF IInv, database
    <2>2. \A u \in Threads :
              req'[u].pc \in {"success", "reply"} /\ req'[u].order # NoOrder
                  => orders[req'[u].order].status # "none"
      BY <2>1 DEF IInv, OrdersKnown
    <2>3. cookie' \in [Browsers -> Session]
      BY <1>1 DEF IInv, TypeOK
    <2>4. ChecksPassed'
      BY <2>1 DEF IInv, ChecksPassed
    <2>5. QED
      BY <1>1, <2>1, <2>2, <2>3, <2>4, OnlyRequests
  <1>2. req[t] \in Request
    BY DEF IInv, TypeOK
  <1>3. req[t].pc # "idle" =>
            /\ req[t].browser \in Browsers
            /\ req[t].session \in Session
            /\ SessionSound(req[t].session)
    BY <1>2, RequestFields DEF IInv, SessionsSound
  <1>4. ASSUME FlashAndReturn(t, NoOrder), req[t].pc # "idle",
               UNCHANGED <<database, cookie, orders, now>>
        PROVE  IInv'
    BY <1>1, <1>3, <1>4 DEF FlashAndReturn
  <1>5. CASE Login(t)
    <2>1. req[t].pc = "login" /\ UNCHANGED <<database, cookie, orders, now>>
      BY <1>5 DEF Login
    <2>2. CASE FlashAndReturn(t, NoOrder)
      BY <2>1, <2>2, <1>4
    <2>3. ASSUME NEW u \in UserIds, users[u] = req[t].username,
                 Return(t, [user |-> u, username |-> users[u],
                            pending |-> NoBooking], TRUE, NoOrder)
          PROVE  IInv'
      <3> DEFINE s == [user |-> u, username |-> users[u],
                       pending |-> NoBooking]
      <3>1. users[u] \in Names
        BY <2>1, <2>3, <1>2, RequestFields
      <3>2. s \in Session
        BY <3>1, BoundsAssumption DEF Session, UserIds
      <3>3. users[u] # NoName
        BY <3>1, NoNameAssumption
      <3>4. u <= user_seq
        BY <3>3, BoundsAssumption DEF IInv, FreshIdsUnused, TypeOK, UserIds
      <3>5. SessionSound(s)
        BY <3>4 DEF SessionSound
      <3>6. QED
        BY <1>1, <2>1, <2>3, <3>2, <3>5
    <2>4. QED
      BY <1>5, <2>2, <2>3 DEF Login
  <1>6. CASE Logout(t)
    <2>1. SessionSound(EmptySession)
      BY DEF SessionSound, EmptySession
    <2>2. QED
      BY <1>1, <1>6, <2>1, EmptySessionTyped DEF Logout
  <1>7. CASE BookFetchSalon(t)
    <2>1. req[t].pc = "book" /\ UNCHANGED <<database, cookie, orders, now>>
      BY <1>7 DEF BookFetchSalon
    <2>2. CASE BookRefused(req[t].session, req[t].form)
      BY <1>4, <1>7, <2>1, <2>2 DEF BookFetchSalon
    <2>3. CASE ~BookRefused(req[t].session, req[t].form)
      <3> DEFINE r == [pc |-> "book_check", browser |-> req[t].browser,
                       session |-> req[t].session, form |-> req[t].form,
                       worker_count |-> salons[req[t].form.salon]]
      <3>1. req' = [req EXCEPT ![t] = r]
        BY <1>7, <2>3 DEF BookFetchSalon
      <3>2. req[t].form \in Form
        BY <1>2, <2>1, RequestFields
      <3>3. salons[req[t].form.salon] \in 1 .. MaxWorkers
        BY <2>3, <3>2, BoundsAssumption DEF BookRefused, Form, IInv, TypeOK
      <3>4. r \in Request /\ r.session = req[t].session
            /\ r.pc = "book_check"
        BY <1>3, <2>1, <3>2, <3>3 DEF Request
      <3> HIDE DEF r
      <3>5. /\ req' \in [Threads -> Request]
            /\ \A u \in Threads \ {t} : req'[u] = req[u]
            /\ req'[t] = r
        BY <3>1, <3>4 DEF IInv, TypeOK
      <3>6. SessionsSound'
        BY <1>3, <2>1, <3>4, <3>5
        DEF IInv, SessionsSound, SessionSound, database
      <3>7. \A u \in Threads :
               req'[u].pc \in {"success", "reply"} /\ req'[u].order # NoOrder
                   => orders[req'[u].order].status # "none"
        BY <3>4, <3>5 DEF IInv, OrdersKnown
      <3>8. cookie' \in [Browsers -> Session]
        BY <2>1 DEF IInv, TypeOK
      <3>9. ChecksPassed'
        <4>1. r.form = req[t].form
          BY DEF r
        <4>2. QED
          BY <2>3, <3>4, <3>5, <4>1 DEF IInv, ChecksPassed, BookRefused
      <3>10. QED
        BY <2>1, <3>5, <3>6, <3>7, <3>8, <3>9, OnlyRequests
    <2>4. QED
      BY <2>2, <2>3
  <1>8. CASE BookCheckSlots(t)
    <2> DEFINE r == req[t]
               p == pending_booking(r.session, r.form)
               s == [r.session EXCEPT !.pending = p]
    <2>1. r.pc = "book_check" /\ UNCHANGED <<database, cookie, orders, now>>
      BY <1>8 DEF BookCheckSlots
    <2>2. CASE Unavailable(r.form, r.worker_count)
      BY <1>4, <1>8, <2>1, <2>2 DEF BookCheckSlots
    <2>3. CASE ~Unavailable(r.form, r.worker_count)
      <3>1. Return(t, s, TRUE, NoOrder)
        BY <1>8, <2>3 DEF BookCheckSlots
      <3>2. r.form \in Form /\ r.form.start \in Minutes
            /\ r.form.services \in Nat /\ r.session.user \in UserIds
        <4>1. r.form \in Form /\ r.session \in Session
          BY <1>2, <2>1, RequestFields
        <4>2. r.session.user # 0 /\ r.form.start # NoTime
          BY <2>1 DEF IInv, ChecksPassed
        <4>3. r.session.user \in UserIds
          BY <4>1, <4>2, BoundsAssumption DEF Session, UserIds
        <4>4. r.form.start \in Minutes
          BY <4>1, <4>2, SetsAssumption DEF Form
        <4>5. r.form.services \in Nat
          BY <4>1, BoundsAssumption DEF Form
        <4>6. QED
          BY <4>1, <4>3, <4>4, <4>5
      <3>3. p \in PendingBooking /\ p.by = r.session.user
        BY <3>2, RequiredSlotsTyped
        DEF pending_booking, PendingBooking, Form
      <3> HIDE DEF p
      <3>4. /\ s \in Session
            /\ s.user = r.session.user
            /\ s.username = r.session.username
            /\ s.pending = p
        BY <1>3, <2>1, <3>3, SessionUpdate
      <3> HIDE DEF s
      <3>5. SessionSound(s)
        BY <1>3, <2>1, <3>2, <3>3, <3>4 DEF SessionSound, UserIds
      <3>6. QED
        BY <1>1, <2>1, <3>1, <3>4, <3>5
    <2>4. QED
      BY <2>2, <2>3
  <1>9. QED
    BY <1>5, <1>6, <1>7, <1>8

\* update_worker_count: a salon that exists keeps at least one worker, so the
\* bookings keep their salon.
LEMMA UpdateWorkerCountSound ==
    ASSUME IInv, NEW t \in Threads, UpdateWorkerCount(t)
    PROVE  IInv'
  <1>1. /\ req[t].pc = "workers"
        /\ req[t].session \in Session /\ SessionSound(req[t].session)
        /\ req[t].salon \in SalonIds /\ req[t].count \in 0 .. MaxWorkers
    BY RequestFields DEF UpdateWorkerCount, IInv, TypeOK, SessionsSound
  <1>2. UNCHANGED <<users, user_seq, salon_seq, slot_data, slot_seq,
                    cookie, orders, now>>
    BY DEF UpdateWorkerCount
  <1>3. /\ req' \in [Threads -> Request]
        /\ SessionsSound'
        /\ \A u \in Threads \ {t} : req'[u] = req[u]
        /\ req'[t].pc = "reply" /\ req'[t].order = NoOrder
    BY <1>1, <1>2, ReturnSound DEF UpdateWorkerCount, FlashAndReturn, IInv
  <1>4. /\ salons' \in [SalonIds -> 0 .. MaxWorkers]
        /\ \A s \in SalonIds : salons[s] # 0 => salons'[s] # 0
    BY <1>1, BoundsAssumption DEF UpdateWorkerCount, IInv, TypeOK
  <1>5. TypeOK'
    BY <1>2, <1>3, <1>4 DEF IInv, TypeOK
  <1>6. ReferentialIntegrity'
    BY <1>2, <1>4 DEF IInv, TypeOK, ReferentialIntegrity, Row
  <1>7. ChecksPassed' /\ FreshIdsUnused' /\ OrdersKnown'
        /\ RowsNameTheirUser' /\ BookedForWhoChose'
    BY <1>2, <1>3 DEF IInv, ChecksPassed, FreshIdsUnused, OrdersKnown,
                      RowsNameTheirUser, BookedForWhoChose
  <1>8. QED
    BY <1>3, <1>5, <1>6, <1>7 DEF IInv

\* The payment page: a new order is one that no request and no booking is
\* about, because those are about orders that exist.
LEMMA PaymentSound ==
    ASSUME IInv, NEW t \in Threads, Payment(t)
    PROVE  IInv'
  <1>1. /\ req[t].pc = "payment"
        /\ req[t].browser \in Browsers
        /\ req[t].session \in Session /\ SessionSound(req[t].session)
    BY RequestFields DEF Payment, IInv, TypeOK, SessionsSound
  <1>2. UNCHANGED <<database, cookie, now>>
    BY DEF Payment
  <1>3. CASE FlashAndReturn(t, NoOrder) /\ UNCHANGED orders
    <2>1. /\ req' \in [Threads -> Request]
          /\ SessionsSound'
          /\ \A u \in Threads \ {t} : req'[u] = req[u]
          /\ req'[t].pc = "reply" /\ req'[t].order = NoOrder
      BY <1>1, <1>2, <1>3, ReturnSound DEF FlashAndReturn, IInv, database
    <2>2. \A u \in Threads :
              req'[u].pc \in {"success", "reply"} /\ req'[u].order # NoOrder
                  => orders[req'[u].order].status # "none"
      BY <2>1 DEF IInv, OrdersKnown
    <2>3. ChecksPassed' /\ cookie' \in [Browsers -> Session]
      BY <1>2, <2>1 DEF IInv, ChecksPassed, TypeOK
    <2>4. QED
      BY <1>2, <1>3, <2>1, <2>2, <2>3, OnlyRequests
  <1>4. ASSUME NEW o \in OrderIds, orders[o].status = "none",
               req[t].session.pending # NoBooking,
               orders' = [orders EXCEPT ![o] =
                             [status |-> "created",
                              browser |-> req[t].browser,
                              booking |-> req[t].session.pending]],
               Return(t, req[t].session, FALSE, o)
        PROVE  IInv'
    <2>1. /\ req' \in [Threads -> Request]
          /\ SessionsSound'
          /\ \A u \in Threads \ {t} : req'[u] = req[u]
          /\ req'[t].pc = "reply" /\ req'[t].order = o
      BY <1>1, <1>2, <1>4, ReturnSound DEF IInv, database
    <2>2. req[t].session.pending \in PendingBooking
      BY <1>1, <1>4 DEF Session
    <2>3. /\ orders' \in [OrderIds -> Order]
          /\ orders'[o].status # "none"
          /\ \A x \in OrderIds \ {o} : orders'[x] = orders[x]
      BY <1>1, <1>4, <2>2 DEF IInv, TypeOK, Order
    <2>4. TypeOK'
      BY <1>2, <2>1, <2>3 DEF IInv, TypeOK, database
    <2>5. \A u \in Threads :
              req'[u].pc \in {"success", "reply"} /\ req'[u].order # NoOrder
                  => req'[u].order \in OrderIds
      BY <2>1, RequestFields
    <2>6. OrdersKnown'
      BY <1>2, <2>1, <2>3, <2>5 DEF IInv, OrdersKnown, TypeOK, Row, database
    <2>7. ChecksPassed' /\ FreshIdsUnused' /\ ReferentialIntegrity'
          /\ RowsNameTheirUser' /\ BookedForWhoChose'
      BY <1>2, <2>1 DEF IInv, ChecksPassed, FreshIdsUnused,
             ReferentialIntegrity, RowsNameTheirUser, BookedForWhoChose,
             database
    <2>8. QED
      BY <2>1, <2>4, <2>6, <2>7 DEF IInv
  <1>5. QED
    BY <1>3, <1>4 DEF Payment

\* payment_success: the new row is about the user and the salon of the session,
\* which the foreign keys find in the tables, so the session's user still has
\* the name under which the session was opened.
LEMMA PaymentSuccessSound ==
    ASSUME IInv, NEW t \in Threads, PaymentSuccess(t)
    PROVE  IInv'
  <1> DEFINE session == req[t].session
             o == req[t].order
             row == BookingRow(session, o)
  <1>1. /\ req[t].pc = "success"
        /\ session \in Session /\ SessionSound(session)
        /\ o \in OrderIds /\ orders[o].status # "none"
    BY RequestFields, NoOrderAssumption
    DEF PaymentSuccess, IInv, TypeOK, SessionsSound, OrdersKnown
  <1>2. UNCHANGED <<users, user_seq, salons, salon_seq, cookie, orders, now>>
    BY DEF PaymentSuccess
  <1>3. CASE FlashAndReturn(t, o) /\ UNCHANGED <<slot_data, slot_seq>>
    <2>1. /\ req' \in [Threads -> Request]
          /\ SessionsSound'
          /\ \A u \in Threads \ {t} : req'[u] = req[u]
          /\ req'[t].pc = "reply" /\ req'[t].order = o
      BY <1>1, <1>2, <1>3, ReturnSound DEF FlashAndReturn, IInv
    <2>2. \A u \in Threads :
              req'[u].pc \in {"success", "reply"} /\ req'[u].order # NoOrder
                  => orders[req'[u].order].status # "none"
      BY <1>1, <2>1 DEF IInv, OrdersKnown
    <2>3. ChecksPassed' /\ cookie' \in [Browsers -> Session]
      BY <1>2, <2>1 DEF IInv, ChecksPassed, TypeOK
    <2>4. UNCHANGED <<database, orders, now>>
      BY <1>2, <1>3 DEF database
    <2>5. QED
      BY <2>1, <2>2, <2>3, <2>4, OnlyRequests
  <1>4. ASSUME ~PaymentRefused(session, o), ForeignKeysHold(session),
               slot_seq < MaxBookings, slot_seq' = slot_seq + 1,
               slot_data' = slot_data \cup {row},
               Return(t, [session EXCEPT !.pending = NoBooking], TRUE, o)
        PROVE  IInv'
    <2>1. session.user # 0 /\ session.pending # NoBooking
      BY <1>4 DEF PaymentRefused
    <2>2. /\ session.user \in UserIds
          /\ session.pending \in PendingBooking
          /\ session.username \in Names \cup {NoName}
      BY <1>1, <2>1, BoundsAssumption DEF Session, UserIds
    <2>3. /\ row \in Row
          /\ row.id = slot_seq + 1
          /\ row.user = session.user
          /\ row.username = session.username
          /\ row.salon = session.pending.salon
          /\ row.order = o
          /\ row.by = session.pending.by
      <3>1. slot_seq + 1 \in 1 .. MaxBookings
        BY <1>4, BoundsAssumption DEF IInv, TypeOK
      <3>2. /\ session.pending.salon \in SalonIds
            /\ session.pending.date \in Dates
            /\ session.pending.slots \in Seq(Minutes)
            /\ session.pending.by \in UserIds
        BY <2>2 DEF PendingBooking
      <3>3. QED
        BY <1>1, <2>2, <3>1, <3>2 DEF BookingRow, Row
    <2> HIDE DEF row
    <2>4. /\ [session EXCEPT !.pending = NoBooking] \in Session
          /\ SessionSound([session EXCEPT !.pending = NoBooking])
      BY <1>1, SessionUpdate DEF SessionSound
    <2>5. /\ req' \in [Threads -> Request]
          /\ SessionsSound'
          /\ \A u \in Threads \ {t} : req'[u] = req[u]
          /\ req'[t].pc = "reply" /\ req'[t].order = o
      BY <1>1, <1>2, <1>4, <2>4, ReturnSound DEF IInv
    <2>6. TypeOK'
      BY <1>2, <1>4, <2>3, <2>5, BoundsAssumption DEF IInv, TypeOK
    <2>7. ChecksPassed'
      BY <2>5 DEF IInv, ChecksPassed
    <2>8. FreshIdsUnused'
      BY <1>2, <1>4, <2>3 DEF IInv, FreshIdsUnused, TypeOK, Row
    <2>9. OrdersKnown'
      BY <1>1, <1>2, <1>4, <2>3, <2>5 DEF IInv, OrdersKnown
    <2>10. ReferentialIntegrity'
      BY <1>2, <1>4, <2>3 DEF IInv, ReferentialIntegrity, ForeignKeysHold
    <2>11. users[session.user] = session.username
      BY <1>1, <1>4, <2>1 DEF SessionSound, ForeignKeysHold
    <2>12. RowsNameTheirUser'
      BY <1>2, <1>4, <2>3, <2>11 DEF IInv, RowsNameTheirUser
    <2>13. BookedForWhoChose'
      BY <1>1, <1>4, <2>1, <2>3 DEF IInv, BookedForWhoChose, SessionSound
    <2>14. QED
      BY <2>5, <2>6, <2>7, <2>8, <2>9, <2>10, <2>12, <2>13 DEF IInv
  <1>5. QED
    BY <1>3, <1>4 DEF PaymentSuccess

\* submitPayment posts the result of an order that exists.
LEMMA PaymentSuccessRequestSound ==
    ASSUME IInv, NEW t \in Threads, NEW o \in OrderIds,
           PaymentSuccessRequest(t, o)
    PROVE  IInv'
  <1> DEFINE b == orders[o].browser
             r == [pc |-> "success", browser |-> b, session |-> cookie[b],
                   order |-> o]
  <1>1. orders[o].status = "paid" /\ orders[o] \in Order
    BY DEF PaymentSuccessRequest, IInv, TypeOK
  <1>2. b \in Browsers
    BY <1>1 DEF Order
  <1>3. r \in Request /\ r.pc = "success" /\ r.order = o
        /\ r.session = cookie[b]
    BY <1>2 DEF IInv, TypeOK, Request
  <1>4. Open(t, b, r)
    BY DEF PaymentSuccessRequest
  <1> HIDE DEF b, r
  <1>5. /\ req' = [req EXCEPT ![t] = r]
        /\ UNCHANGED <<database, cookie, orders, now>>
        /\ req' \in [Threads -> Request]
        /\ SessionsSound'
    BY <1>2, <1>3, <1>4, OpenSound DEF IInv
  <1>6. \A u \in Threads :
            req'[u].pc \in {"success", "reply"} /\ req'[u].order # NoOrder
                => orders[req'[u].order].status # "none"
    BY <1>1, <1>3, <1>5 DEF IInv, OrdersKnown, TypeOK
  <1>7. ChecksPassed' /\ cookie' \in [Browsers -> Session]
    BY <1>3, <1>5 DEF IInv, ChecksPassed, TypeOK
  <1>8. QED
    BY <1>5, <1>6, <1>7, OnlyRequests

\* A change of an order's status to one other than "none" keeps its record
\* and what is known about orders.
LEMMA StatusSound ==
    ASSUME TypeOK, NEW o \in OrderIds, orders[o].status # "none",
           NEW st \in {"created", "shown", "paid", "answered"}
    PROVE  /\ [orders EXCEPT ![o].status = st] \in [OrderIds -> Order]
           /\ \A x \in OrderIds :
                  orders[x].status # "none"
                      => [orders EXCEPT ![o].status = st][x].status # "none"
  <1>1. orders[o] \in [status : {"created", "shown", "paid", "answered"},
                       browser : Browsers, booking : PendingBooking]
    BY DEF TypeOK, Order
  <1>2. [orders[o] EXCEPT !.status = st] \in Order
        /\ [orders[o] EXCEPT !.status = st].status = st
    BY <1>1 DEF Order
  <1>3. [orders EXCEPT ![o].status = st]
            = [orders EXCEPT ![o] = [orders[o] EXCEPT !.status = st]]
    OBVIOUS
  <1>4. QED
    BY <1>2, <1>3 DEF TypeOK

\* The customer pays an order that exists.
LEMMA PaySound ==
    ASSUME IInv, NEW o \in OrderIds, Pay(o)
    PROVE  IInv'
  <1>1. /\ orders' \in [OrderIds -> Order]
        /\ \A x \in OrderIds :
               orders[x].status # "none" => orders'[x].status # "none"
        /\ UNCHANGED <<database, cookie, req, now>>
    BY StatusSound DEF Pay, IInv
  <1>2. TypeOK'
    BY <1>1 DEF IInv, TypeOK, database
  <1>3. \A t \in Threads :
            req[t].pc \in {"success", "reply"} /\ req[t].order # NoOrder
                => req[t].order \in OrderIds
    BY RequestFields DEF IInv, TypeOK
  <1>4. OrdersKnown'
    BY <1>1, <1>3 DEF IInv, OrdersKnown, TypeOK, Row, database
  <1>5. SessionsSound' /\ ChecksPassed' /\ FreshIdsUnused'
        /\ ReferentialIntegrity' /\ RowsNameTheirUser' /\ BookedForWhoChose'
    BY <1>1 DEF IInv, SessionsSound, SessionSound, ChecksPassed,
           FreshIdsUnused, ReferentialIntegrity, RowsNameTheirUser,
           BookedForWhoChose, database
  <1>6. QED
    BY <1>2, <1>4, <1>5 DEF IInv

\* A response arrives: its session, sound when the handler returned it, is
\* sound still.
LEMMA DeliverSound ==
    ASSUME IInv, NEW t \in Threads, Deliver(t)
    PROVE  IInv'
  <1>1. /\ req[t].pc = "reply"
        /\ req[t].browser \in Browsers
        /\ req[t].session \in Session /\ SessionSound(req[t].session)
        /\ req[t].order \in OrderIds \cup {NoOrder}
    BY RequestFields DEF Deliver, IInv, TypeOK, SessionsSound
  <1>2. UNCHANGED <<database, now>>
    BY DEF Deliver
  <1>3. /\ req' \in [Threads -> Request]
        /\ \A u \in Threads : req'[u].pc # "idle" => req'[u] = req[u]
    BY DEF Deliver, IInv, TypeOK, Request, Idle
  <1>4. /\ cookie' \in [Browsers -> Session]
        /\ \A b \in Browsers : cookie'[b] \in {cookie[b], req[t].session}
    BY <1>1 DEF Deliver, IInv, TypeOK
  <1>5. /\ orders' \in [OrderIds -> Order]
        /\ \A x \in OrderIds :
               orders[x].status # "none" => orders'[x].status # "none"
    <2>1. CASE req[t].order = NoOrder
      BY <2>1 DEF Deliver, OrdersSeen, IInv, TypeOK
    <2>2. CASE req[t].order # NoOrder
      <3>1. req[t].order \in OrderIds /\ orders[req[t].order].status # "none"
        BY <1>1, <2>2 DEF IInv, OrdersKnown
      <3>2. QED
        BY <2>2, <3>1, StatusSound DEF Deliver, OrdersSeen, IInv
    <2>3. QED
      BY <2>1, <2>2
  <1>6. TypeOK'
    BY <1>2, <1>3, <1>4, <1>5 DEF IInv, TypeOK, database
  <1>7. SessionsSound'
    BY <1>1, <1>2, <1>3, <1>4 DEF IInv, SessionsSound, SessionSound, database
  <1>8. \A u \in Threads :
            req[u].pc \in {"success", "reply"} /\ req[u].order # NoOrder
                => req[u].order \in OrderIds
    BY RequestFields DEF IInv, TypeOK
  <1>9. OrdersKnown'
    BY <1>2, <1>3, <1>5, <1>8 DEF IInv, OrdersKnown, TypeOK, Row, database
  <1>10. ChecksPassed'
    BY <1>3 DEF IInv, ChecksPassed
  <1>11. FreshIdsUnused' /\ ReferentialIntegrity' /\ RowsNameTheirUser'
         /\ BookedForWhoChose'
    BY <1>2 DEF IInv, FreshIdsUnused, ReferentialIntegrity,
           RowsNameTheirUser, BookedForWhoChose, database
  <1>12. QED
    BY <1>6, <1>7, <1>9, <1>10, <1>11 DEF IInv

\* A lost response changes nothing but the thread that sent it.
LEMMA LoseSound ==
    ASSUME IInv, NEW t \in Threads, Lose(t)
    PROVE  IInv'
  <1>1. UNCHANGED <<database, cookie, orders, now>>
    BY DEF Lose
  <1>2. /\ req' \in [Threads -> Request]
        /\ \A u \in Threads : req'[u].pc # "idle" => req'[u] = req[u]
    BY DEF Lose, IInv, TypeOK, Request, Idle
  <1>3. SessionsSound' /\ ChecksPassed' /\ cookie' \in [Browsers -> Session]
    BY <1>1, <1>2
    DEF IInv, SessionsSound, SessionSound, ChecksPassed, TypeOK, database
  <1>4. \A u \in Threads :
            req'[u].pc \in {"success", "reply"} /\ req'[u].order # NoOrder
                => orders[req'[u].order].status # "none"
    BY <1>2 DEF IInv, OrdersKnown
  <1>5. QED
    BY <1>1, <1>2, <1>3, <1>4, OnlyRequests

\* The rows of the tables: a new account gets an id that no session and no
\* booking mentions, and a deletion takes the bookings with it.
LEMMA TablesSound ==
    ASSUME IInv, Tables
    PROVE  IInv'
  <1>1. UNCHANGED <<cookie, req, orders, now>>
    BY DEF Tables, Register, RegisterSalon, DeleteUser, DeleteSalon,
           DeleteBooking
  <1>2. ChecksPassed'
    BY <1>1 DEF IInv, ChecksPassed
  <1>3. CASE \E n \in Names : Register(n)
    <2>1. PICK n \in Names : Register(n)
      BY <1>3
    <2>2. UNCHANGED <<salons, salon_seq, slot_data, slot_seq>>
      BY <2>1 DEF Register
    <2>3. /\ user_seq \in Nat /\ user_seq + 1 \in UserIds
          /\ user_seq' = user_seq + 1 /\ user_seq' \in 0 .. MaxUsers
      BY <2>1, BoundsAssumption DEF Register, IInv, TypeOK, UserIds
    <2>4. /\ users' \in [UserIds -> Names \cup {NoName}]
          /\ users'[user_seq + 1] = n
          /\ \A u \in UserIds \ {user_seq + 1} : users'[u] = users[u]
          /\ users[user_seq + 1] = NoName
      BY <2>1, <2>3
      DEF Register, IInv, TypeOK, FreshIdsUnused, UserIds
    <2>5. TypeOK'
      BY <1>1, <2>2, <2>3, <2>4 DEF IInv, TypeOK
    <2>6. ASSUME NEW s \in Session, SessionSound(s)
          PROVE  SessionSound(s)'
      <3>1. s.user # 0 => s.user \in UserIds \ {user_seq + 1}
        BY <2>3, <2>6, BoundsAssumption DEF SessionSound, Session, UserIds
      <3>2. s.user # 0 => s.user <= user_seq'
        BY <2>3, <2>6 DEF SessionSound, Session
      <3>3. QED
        BY <2>4, <2>6, <3>1, <3>2 DEF SessionSound
    <2>7. SessionsSound'
      <3>1. \A b \in Browsers : cookie[b] \in Session
        BY DEF IInv, TypeOK
      <3>2. \A t \in Threads : req[t].pc # "idle" => req[t].session \in Session
        BY RequestFields DEF IInv, TypeOK
      <3>3. QED
        BY <1>1, <2>6, <3>1, <3>2 DEF IInv, SessionsSound, SessionSound
    <2>8. FreshIdsUnused'
      BY <2>2, <2>3, <2>4 DEF IInv, FreshIdsUnused, UserIds
    <2>9. OrdersKnown' /\ BookedForWhoChose'
      BY <1>1, <2>2 DEF IInv, OrdersKnown, BookedForWhoChose
    <2>10. \A r \in slot_data : users'[r.user] = users[r.user]
      BY <2>4 DEF IInv, ReferentialIntegrity, TypeOK, Row
    <2>11. ReferentialIntegrity' /\ RowsNameTheirUser'
      BY <2>2, <2>10 DEF IInv, ReferentialIntegrity, RowsNameTheirUser
    <2>12. QED
      BY <1>2, <2>5, <2>7, <2>8, <2>9, <2>11 DEF IInv
  <1>4. CASE \E n \in 1 .. MaxWorkers : RegisterSalon(n)
    <2>1. PICK n \in 1 .. MaxWorkers : RegisterSalon(n)
      BY <1>4
    <2>2. UNCHANGED <<users, user_seq, slot_data, slot_seq>>
      BY <2>1 DEF RegisterSalon
    <2>3. /\ salon_seq' \in 0 .. MaxSalons
          /\ salons' \in [SalonIds -> 0 .. MaxWorkers]
          /\ \A s \in SalonIds : salons[s] # 0 => salons'[s] # 0
      BY <2>1, BoundsAssumption DEF RegisterSalon, IInv, TypeOK, SalonIds
    <2>4. TypeOK'
      BY <1>1, <2>2, <2>3 DEF IInv, TypeOK
    <2>5. SessionsSound' /\ FreshIdsUnused' /\ OrdersKnown'
          /\ RowsNameTheirUser' /\ BookedForWhoChose'
      BY <1>1, <2>2 DEF IInv, SessionsSound, SessionSound, FreshIdsUnused,
             OrdersKnown, RowsNameTheirUser, BookedForWhoChose
    <2>6. ReferentialIntegrity'
      BY <2>2, <2>3 DEF IInv, ReferentialIntegrity, TypeOK, Row
    <2>7. QED
      BY <1>2, <2>4, <2>5, <2>6 DEF IInv
  <1>5. CASE \E u \in UserIds : DeleteUser(u)
    <2>1. PICK u \in UserIds : DeleteUser(u)
      BY <1>5
    <2>2. UNCHANGED <<user_seq, salons, salon_seq, slot_seq>>
      BY <2>1 DEF DeleteUser
    <2>3. /\ users' \in [UserIds -> Names \cup {NoName}]
          /\ users'[u] = NoName
          /\ \A v \in UserIds \ {u} : users'[v] = users[v]
      BY <2>1 DEF DeleteUser, IInv, TypeOK
    <2>4. /\ slot_data' \subseteq slot_data
          /\ \A r \in slot_data' : r.user # u
      BY <2>1 DEF DeleteUser
    <2>5. TypeOK'
      BY <1>1, <2>2, <2>3, <2>4 DEF IInv, TypeOK
    <2>6. ASSUME NEW s \in Session, SessionSound(s)
          PROVE  SessionSound(s)'
      <3>1. s.user # 0 => s.user \in UserIds
        BY BoundsAssumption DEF Session, UserIds
      <3>2. QED
        BY <2>2, <2>3, <2>6, <3>1 DEF SessionSound
    <2>7. SessionsSound'
      <3>1. \A b \in Browsers : cookie[b] \in Session
        BY DEF IInv, TypeOK
      <3>2. \A t \in Threads : req[t].pc # "idle" => req[t].session \in Session
        BY RequestFields DEF IInv, TypeOK
      <3>3. QED
        BY <1>1, <2>6, <3>1, <3>2 DEF IInv, SessionsSound, SessionSound
    <2>8. FreshIdsUnused' /\ OrdersKnown' /\ BookedForWhoChose'
      BY <1>1, <2>2, <2>3, <2>4
      DEF IInv, FreshIdsUnused, OrdersKnown, BookedForWhoChose
    <2>9. \A r \in slot_data' : users'[r.user] = users[r.user]
      BY <2>3, <2>4 DEF IInv, TypeOK, Row
    <2>10. ReferentialIntegrity' /\ RowsNameTheirUser'
      BY <2>2, <2>4, <2>9 DEF IInv, ReferentialIntegrity, RowsNameTheirUser
    <2>11. QED
      BY <1>2, <2>5, <2>7, <2>8, <2>10 DEF IInv
  <1>6. CASE \E s \in SalonIds : DeleteSalon(s)
    <2>1. PICK s \in SalonIds : DeleteSalon(s)
      BY <1>6
    <2>2. UNCHANGED <<users, user_seq, salon_seq, slot_seq>>
      BY <2>1 DEF DeleteSalon
    <2>3. /\ salons' \in [SalonIds -> 0 .. MaxWorkers]
          /\ \A x \in SalonIds \ {s} : salons'[x] = salons[x]
      BY <2>1, BoundsAssumption DEF DeleteSalon, IInv, TypeOK
    <2>4. /\ slot_data' \subseteq slot_data
          /\ \A r \in slot_data' : r.salon # s
      BY <2>1 DEF DeleteSalon
    <2>5. TypeOK'
      BY <1>1, <2>2, <2>3, <2>4 DEF IInv, TypeOK
    <2>6. SessionsSound' /\ FreshIdsUnused' /\ OrdersKnown'
          /\ RowsNameTheirUser' /\ BookedForWhoChose'
      BY <1>1, <2>2, <2>4 DEF IInv, SessionsSound, SessionSound,
             FreshIdsUnused, OrdersKnown, RowsNameTheirUser, BookedForWhoChose
    <2>7. ReferentialIntegrity'
      BY <2>2, <2>3, <2>4 DEF IInv, ReferentialIntegrity, TypeOK, Row
    <2>8. QED
      BY <1>2, <2>5, <2>6, <2>7 DEF IInv
  <1>7. CASE \E r \in slot_data : DeleteBooking(r)
    <2>1. /\ slot_data' \subseteq slot_data
          /\ UNCHANGED <<users, user_seq, salons, salon_seq, slot_seq>>
      BY <1>7 DEF DeleteBooking
    <2>2. TypeOK'
      BY <1>1, <2>1 DEF IInv, TypeOK
    <2>3. SessionsSound' /\ FreshIdsUnused' /\ OrdersKnown'
          /\ ReferentialIntegrity' /\ RowsNameTheirUser' /\ BookedForWhoChose'
      BY <1>1, <2>1 DEF IInv, SessionsSound, SessionSound, FreshIdsUnused,
             OrdersKnown, ReferentialIntegrity, RowsNameTheirUser,
             BookedForWhoChose
    <2>4. QED
      BY <1>2, <2>2, <2>3 DEF IInv
  <1>8. QED
    BY <1>3, <1>4, <1>5, <1>6, <1>7 DEF Tables

\* Only the clock moves, or nothing does.
LEMMA TickSound ==
    ASSUME IInv, Tick \/ UNCHANGED vars
    PROVE  IInv'
  <1>1. /\ UNCHANGED <<database, cookie, req, orders>>
        /\ now' \in Times
    BY DEF Tick, vars, database, IInv, TypeOK
  <1>2. TypeOK'
    BY <1>1 DEF IInv, TypeOK, database
  <1>3. SessionsSound' /\ ChecksPassed' /\ FreshIdsUnused' /\ OrdersKnown'
        /\ ReferentialIntegrity' /\ RowsNameTheirUser' /\ BookedForWhoChose'
    BY <1>1 DEF IInv, SessionsSound, SessionSound, ChecksPassed,
           FreshIdsUnused, OrdersKnown, ReferentialIntegrity,
           RowsNameTheirUser, BookedForWhoChose, database
  <1>4. QED
    BY <1>2, <1>3 DEF IInv

-----------------------------------------------------------------------------
(* The theorems *)

\* Every step of every thread, browser, customer and admin keeps the inductive
\* invariant.
THEOREM StepSound == IInv /\ [Next]_vars => IInv'
  <1> SUFFICES ASSUME IInv, [Next]_vars PROVE IInv'
    OBVIOUS
  <1>1. ASSUME NEW t \in Threads, NEW b \in Browsers, Send(t, b)
        PROVE  IInv'
    BY <1>1, SendSound
  <1>2. ASSUME NEW t \in Threads, NEW o \in OrderIds,
               PaymentSuccessRequest(t, o)
        PROVE  IInv'
    BY <1>2, PaymentSuccessRequestSound
  <1>3. ASSUME NEW o \in OrderIds, Pay(o)
        PROVE  IInv'
    BY <1>3, PaySound
  <1>4. ASSUME NEW t \in Threads, Handle(t)
        PROVE  IInv'
    BY <1>4, SessionHandlersSound, UpdateWorkerCountSound, PaymentSound,
       PaymentSuccessSound DEF Handle
  <1>5. ASSUME NEW t \in Threads, Deliver(t) \/ Lose(t)
        PROVE  IInv'
    BY <1>5, DeliverSound, LoseSound
  <1>6. CASE Tables
    BY <1>6, TablesSound
  <1>7. CASE Tick \/ UNCHANGED vars
    BY <1>7, TickSound
  <1>8. QED
    BY <1>1, <1>2, <1>3, <1>4, <1>5, <1>6, <1>7 DEF Next

\* The inductive invariant holds in every reachable state of the server, its
\* browsers and the payment gateway.
THEOREM Soundness == Spec => []IInv
  BY InitSound, StepSound, PTL DEF Spec

\* The tables, cookies, requests and orders always have their types.
THEOREM TypeCorrect == Spec => []TypeOK
  <1>1. IInv => TypeOK
    BY DEF IInv
  <1>2. QED
    BY <1>1, Soundness, PTL

\* No booking ever refers to a user or a salon that is gone.
THEOREM ReferencesHold == Spec => []ReferentialIntegrity
  <1>1. IInv => ReferentialIntegrity
    BY DEF IInv
  <1>2. QED
    BY <1>1, Soundness, PTL

\* The user_id and the username of a booking always denote one account.
THEOREM NamesAgree == Spec => []RowsNameTheirUser
  <1>1. IInv => RowsNameTheirUser
    BY DEF IInv
  <1>2. QED
    BY <1>1, Soundness, PTL

\* A booking is always recorded for the user who chose its slots.
THEOREM ChosenByItsUser == Spec => []BookedForWhoChose
  <1>1. IInv => BookedForWhoChose
    BY DEF IInv
  <1>2. QED
    BY <1>1, Soundness, PTL

-----------------------------------------------------------------------------
(* Counting the bookings of a slot                                         *)

\* The places at which the rows of a set mention a slot: what booked_count
\* counts.
Places(rows, salon, date, slot) ==
    {p \in {r \in rows : r.salon = salon /\ r.date = date} \X (1 .. MaxServices) :
        /\ p[2] \in DOMAIN p[1].slots
        /\ p[1].slots[p[2]] = slot}

LEMMA CountsPlaces ==
    ASSUME NEW salon, NEW date, NEW slot
    PROVE  booked_count(salon, date, slot)
               = Cardinality(Places(slot_data, salon, date, slot))
  BY DEF booked_count, Places

LEMMA CountsPlacesAfter ==
    ASSUME NEW salon, NEW date, NEW slot
    PROVE  booked_count(salon, date, slot)'
               = Cardinality(Places(slot_data', salon, date, slot))
  BY DEF booked_count, Places

LEMMA PlacesFinite ==
    ASSUME NEW rows, IsFiniteSet(rows), NEW salon, NEW date, NEW slot
    PROVE  /\ IsFiniteSet(Places(rows, salon, date, slot))
           /\ Cardinality(Places(rows, salon, date, slot)) \in Nat
  <1> DEFINE R == {r \in rows : r.salon = salon /\ r.date = date}
             I == 1 .. MaxServices
  <1>1. IsFiniteSet(R)
    BY FS_Subset
  <1>2. IsFiniteSet(I)
    BY FS_Interval, BoundsAssumption DEF DayMinutes, SlotMinutes
  <1>3. IsFiniteSet(R \X I)
    BY <1>1, <1>2, FS_Product
  <1>4. Places(rows, salon, date, slot) \in SUBSET (R \X I)
    BY DEF Places
  <1> QED
    BY <1>3, <1>4, FS_Subset, FS_CardinalityType

\* Deleting bookings raises no count.
LEMMA FewerRows ==
    ASSUME NEW rows, IsFiniteSet(rows), NEW fewer \in SUBSET rows,
           NEW salon, NEW date, NEW slot
    PROVE  /\ Cardinality(Places(fewer, salon, date, slot)) \in Nat
           /\ Cardinality(Places(fewer, salon, date, slot))
                  <= Cardinality(Places(rows, salon, date, slot))
  <1>1. Places(fewer, salon, date, slot) \in SUBSET Places(rows, salon, date, slot)
    BY DEF Places
  <1>2. IsFiniteSet(Places(rows, salon, date, slot))
    BY PlacesFinite
  <1> QED
    BY <1>1, <1>2, FS_Subset, FS_CardinalityType

\* The slots that the server made from a form.
LEMMA OfferedFacts ==
    ASSUME NEW slots, Offered(slots)
    PROVE  /\ DOMAIN slots \in SUBSET (1 .. MaxServices)
           /\ \A i, j \in DOMAIN slots : slots[i] = slots[j] => i = j
           /\ \A s \in SalonIds, d \in Dates, i \in DOMAIN slots :
                  <<s, d, slots[i]>> \in ReachableSlots
  <1>1. PICK m \in Starts, n \in 0 .. MaxServices :
            slots = generate_required_slots(m, n)
    BY DEF Offered
  <1>2. /\ MaxServices \in 1 .. (DayMinutes \div SlotMinutes)
        /\ m \in Minutes
    BY BoundsAssumption, SetsAssumption
  <1>3. DayMinutes \div SlotMinutes = 48
    BY DEF DayMinutes, SlotMinutes
  <1>4. n \in Nat /\ n \in 0 .. (DayMinutes \div SlotMinutes) /\ MaxServices \in Nat
    BY <1>2, <1>3
  <1>5. DOMAIN slots = 1 .. n
    BY <1>1 DEF generate_required_slots
  <1>6. \A i, j \in DOMAIN slots : slots[i] = slots[j] => i = j
    BY <1>1, <1>2, <1>4, <1>5, RequiredSlotsDistinct
  <1>7. ASSUME NEW s \in SalonIds, NEW d \in Dates, NEW i \in DOMAIN slots
        PROVE  <<s, d, slots[i]>> \in ReachableSlots
    <2>1. i - 1 \in 0 .. MaxServices - 1
      BY <1>4, <1>5, <1>7
    <2>2. slots[i] = Clock(m + (i - 1) * SlotMinutes)
      BY <1>1, <1>5, <1>7 DEF generate_required_slots
    <2> QED
      BY <2>1, <2>2 DEF ReachableSlots
  <1> QED
    BY <1>4, <1>5, <1>6, <1>7

LEMMA RequiredSlotsOffered ==
    ASSUME NEW start \in Starts, NEW n \in 0 .. MaxServices
    PROVE  Offered(generate_required_slots(start, n))
  BY DEF Offered

\* A new booking counts once at each of its slots and at no other.
LEMMA OneMoreRow ==
    ASSUME NEW rows, IsFiniteSet(rows), NEW row, row \notin rows,
           Offered(row.slots), NEW salon, NEW date, NEW slot
    PROVE  Cardinality(Places(rows \cup {row}, salon, date, slot))
               = IF /\ row.salon = salon /\ row.date = date
                    /\ \E i \in DOMAIN row.slots : row.slots[i] = slot
                 THEN Cardinality(Places(rows, salon, date, slot)) + 1
                 ELSE Cardinality(Places(rows, salon, date, slot))
  <1>1. /\ DOMAIN row.slots \in SUBSET (1 .. MaxServices)
        /\ \A i, j \in DOMAIN row.slots : row.slots[i] = row.slots[j] => i = j
    BY OfferedFacts
  <1>2. CASE ~(/\ row.salon = salon /\ row.date = date
               /\ \E i \in DOMAIN row.slots : row.slots[i] = slot)
    <2>1. Places(rows \cup {row}, salon, date, slot) = Places(rows, salon, date, slot)
      BY <1>2 DEF Places
    <2> QED
      BY <1>2, <2>1
  <1>3. ASSUME row.salon = salon, row.date = date,
               NEW i \in DOMAIN row.slots, row.slots[i] = slot
        PROVE  Cardinality(Places(rows \cup {row}, salon, date, slot))
                   = Cardinality(Places(rows, salon, date, slot)) + 1
    <2>1. Places(rows \cup {row}, salon, date, slot)
              = Places(rows, salon, date, slot) \cup {<<row, i>>}
      BY <1>1, <1>3 DEF Places
    <2>2. <<row, i>> \notin Places(rows, salon, date, slot)
      BY DEF Places
    <2>3. IsFiniteSet(Places(rows, salon, date, slot))
      BY PlacesFinite
    <2> QED
      BY <2>1, <2>2, <2>3, FS_AddElement
  <1> QED
    BY <1>2, <1>3

-----------------------------------------------------------------------------
(* What a browser holds                                                    *)

AtWork(t) == req[t].pc \notin {"idle", "reply"}

\* The session a browser will have when its one request is answered.
LEMMA SessionInFlight ==
    ASSUME OneRequest, NEW t \in Threads, req[t].pc # "idle"
    PROVE  EffectiveSession(req[t].browser)
               = IF req[t].pc = "reply" /\ req[t].modified THEN req[t].session
                 ELSE cookie[req[t].browser]
  <1>1. NewCookies(req[t].browser)
            = IF req[t].pc = "reply" /\ req[t].modified THEN {t} ELSE {}
    BY DEF OneRequest, NewCookies
  <1> QED
    BY <1>1 DEF EffectiveSession

LEMMA SessionInFlightAfter ==
    ASSUME OneRequest', NEW t \in Threads, req'[t].pc # "idle",
           NEW b, req'[t].browser = b
    PROVE  EffectiveSession(b)'
               = IF req'[t].pc = "reply" /\ req'[t].modified THEN req'[t].session
                 ELSE cookie'[b]
  <1>1. NewCookies(b)'
            = IF req'[t].pc = "reply" /\ req'[t].modified THEN {t} ELSE {}
    BY DEF OneRequest, NewCookies
  <1> QED
    BY <1>1 DEF EffectiveSession

\* A step of one thread leaves what is held by browsers it does not serve.
LEMMA OtherBrowsers ==
    ASSUME NEW t \in Threads, \A u \in Threads \ {t} : req'[u] = req[u],
           NEW b, cookie'[b] = cookie[b],
           req[t].pc = "reply" => req[t].browser # b \/ ~req[t].modified,
           req'[t].pc = "reply" => req'[t].browser # b \/ ~req'[t].modified
    PROVE  EffectiveSession(b)' = EffectiveSession(b)
  <1>1. NewCookies(b)' = NewCookies(b) /\ t \notin NewCookies(b)
    BY DEF NewCookies
  <1>2. NewCookies(b) \subseteq Threads
    BY DEF NewCookies
  <1> QED
    BY <1>1, <1>2 DEF EffectiveSession

\* Nothing that is held or sold changes.
LEMMA SoldStays ==
    ASSUME UNCHANGED slot_data
    PROVE  UNCHANGED SoldNow
  BY DEF SoldNow, booked_count

LEMMA HeldStays ==
    ASSUME \A b \in Browsers : EffectiveSession(b)'.pending = EffectiveSession(b).pending
    PROVE  UNCHANGED HeldNow
  BY DEF HeldNow

-----------------------------------------------------------------------------
(* The steps of a request                                                  *)

\* Nothing changes in SlotHolds.
NothingHeldOrSold == UNCHANGED HeldNow /\ UNCHANGED SoldNow

\* A request arrives at a browser that has no other.
LEMMA OpenKeeps ==
    ASSUME ~ConcurrentTabs, IInv, SequentialInv,
           NEW t \in Threads, NEW b \in Browsers,
           NEW r, r.pc \notin {"idle", "reply"}, r.browser = b, r.session = cookie[b],
           Open(t, b, r)
    PROVE  SequentialInv' /\ NothingHeldOrSold
  <1>1. /\ req[t].pc = "idle" /\ ~InFlight(b)
        /\ UNCHANGED <<cookie, slot_data>>
        /\ \A u \in Threads \ {t} : req'[u] = req[u]
        /\ req'[t] = r
    BY DEF Open, database, IInv, TypeOK
  <1>2. OneRequest'
    BY <1>1 DEF SequentialInv, OneRequest, InFlight
  <1>3. CopiesCurrent'
    BY <1>1 DEF SequentialInv, CopiesCurrent
  <1>4. SlotsOffered'
    BY <1>1 DEF SequentialInv, SlotsOffered, PendingOffered
  <1>5. SequentialInv'
    BY <1>1, <1>2, <1>3, <1>4 DEF SequentialInv
  <1>6. \A c \in Browsers : EffectiveSession(c)' = EffectiveSession(c)
    BY <1>1, OtherBrowsers
  <1> QED
    BY <1>1, <1>5, <1>6, SoldStays, HeldStays DEF NothingHeldOrSold

\* What is left to show of a handler that returns.
ReturnLeaves ==
    /\ OneRequest
    /\ CopiesCurrent
    /\ \A b \in Browsers : PendingOffered(cookie[b])
    /\ \A t \in Threads : req[t].pc # "idle" => PendingOffered(req[t].session)

LEMMA WorkingBrowser ==
    ASSUME IInv, SequentialInv, NEW t \in Threads, AtWork(t)
    PROVE  /\ req[t].browser \in Browsers
           /\ req[t].session = cookie[req[t].browser]
           /\ PendingOffered(req[t].session)
           /\ EffectiveSession(req[t].browser) = req[t].session
           /\ HeldNow[req[t].browser] = SlotsOf(req[t].session.pending)
  <1>1. req[t].browser \in Browsers
    BY RequestFields DEF IInv, TypeOK, AtWork
  <1>2. req[t].session = cookie[req[t].browser] /\ PendingOffered(req[t].session)
    BY DEF SequentialInv, CopiesCurrent, SlotsOffered, AtWork
  <1>3. EffectiveSession(req[t].browser) = req[t].session
    BY <1>2, SessionInFlight DEF AtWork, SequentialInv
  <1> QED
    BY <1>1, <1>2, <1>3 DEF HeldNow

\* A handler returns: its browser will hold what the session it returns says,
\* and every other browser holds what it held.
LEMMA ReturnKeeps ==
    ASSUME IInv, SequentialInv, NEW t \in Threads, AtWork(t),
           NEW s, PendingOffered(s),
           NEW m \in BOOLEAN, ~m => s = req[t].session,
           NEW o, Return(t, s, m, o), UNCHANGED cookie
    PROVE  /\ ReturnLeaves'
           /\ HeldNow' = [HeldNow EXCEPT ![req[t].browser] = SlotsOf(s.pending)]
  <1>0. PICK b \in Browsers : b = req[t].browser
    BY WorkingBrowser
  <1> DEFINE r == [pc |-> "reply", browser |-> req[t].browser, session |-> s,
                   modified |-> m, order |-> o]
  <1>1. req[t].session = cookie[b]
    BY <1>0, WorkingBrowser
  <1>2. req' = [req EXCEPT ![t] = r]
    BY DEF Return
  <1>3. r.pc = "reply" /\ r.browser = b /\ r.session = s /\ r.modified = m
    BY <1>0
  <1> HIDE DEF r
  <1>4. (\A u \in Threads \ {t} : req'[u] = req[u]) /\ req'[t] = r
    BY <1>2 DEF IInv, TypeOK
  <1>5. OneRequest'
    BY <1>0, <1>3, <1>4 DEF SequentialInv, OneRequest, AtWork
  <1>6. CopiesCurrent'
    BY <1>3, <1>4 DEF SequentialInv, CopiesCurrent
  <1>7. ReturnLeaves'
    BY <1>3, <1>4, <1>5, <1>6 DEF ReturnLeaves, SequentialInv, SlotsOffered, PendingOffered
  <1>8. EffectiveSession(b)' = s
    <2>1. req'[t].browser = b /\ req'[t].pc = "reply" /\ req'[t].modified = m
          /\ req'[t].session = s
      BY <1>3, <1>4
    <2>2. EffectiveSession(b)' = IF m THEN s ELSE cookie'[b]
      BY <1>5, <2>1, SessionInFlightAfter
    <2> QED
      BY <1>1, <2>2
  <1>9. ASSUME NEW c \in Browsers \ {b}
        PROVE  EffectiveSession(c)' = EffectiveSession(c)
    BY <1>3, <1>4, <1>9, OtherBrowsers DEF AtWork
  <1>10. HeldNow' = [HeldNow EXCEPT ![b] = SlotsOf(s.pending)]
    BY <1>1, <1>8, <1>9 DEF HeldNow
  <1> QED
    BY <1>0, <1>7, <1>10

\* A handler that leaves the pending booking as it found it.
LEMMA UnchangedHold ==
    ASSUME IInv, SequentialInv, NEW t \in Threads, AtWork(t),
           HeldNow' = [HeldNow EXCEPT ![req[t].browser] = SlotsOf(req[t].session.pending)]
    PROVE  UNCHANGED HeldNow
  <1>1. HeldNow[req[t].browser] = SlotsOf(req[t].session.pending)
    BY WorkingBrowser
  <1>2. HeldNow = [b \in Browsers |-> HeldNow[b]]
    BY DEF HeldNow
  <1> QED
    BY <1>1, <1>2

LEMMA SequentialAfterReturn ==
    ASSUME SequentialInv, ReturnLeaves', UNCHANGED slot_data
    PROVE  SequentialInv' /\ UNCHANGED SoldNow
  BY SoldStays DEF SequentialInv, ReturnLeaves, SlotsOffered

\* A handler that answers with the session it was given and touches no booking.
LEMMA FlashKeeps ==
    ASSUME IInv, SequentialInv, NEW t \in Threads, AtWork(t),
           NEW o, NEW m \in BOOLEAN, Return(t, req[t].session, m, o),
           UNCHANGED <<cookie, slot_data>>
    PROVE  SequentialInv' /\ NothingHeldOrSold
  <1>1. PendingOffered(req[t].session)
    BY WorkingBrowser
  <1>2. /\ ReturnLeaves'
        /\ HeldNow' = [HeldNow EXCEPT ![req[t].browser] = SlotsOf(req[t].session.pending)]
    BY <1>1, ReturnKeeps
  <1> QED
    BY <1>2, UnchangedHold, SequentialAfterReturn DEF NothingHeldOrSold

\* A handler that empties the session, or puts a booking into it.
LEMMA ChangeKeeps ==
    ASSUME IInv, SequentialInv, NEW t \in Threads, AtWork(t),
           NEW s, PendingOffered(s), NEW o, Return(t, s, TRUE, o),
           UNCHANGED <<cookie, slot_data>>
    PROVE  /\ SequentialInv' /\ UNCHANGED SoldNow
           /\ HeldNow' = [HeldNow EXCEPT ![req[t].browser] = SlotsOf(s.pending)]
  <1>1. /\ ReturnLeaves'
        /\ HeldNow' = [HeldNow EXCEPT ![req[t].browser] = SlotsOf(s.pending)]
    BY ReturnKeeps
  <1> QED
    BY <1>1, SequentialAfterReturn

-----------------------------------------------------------------------------
(* The actions                                                             *)

\* What every step is shown to be: it keeps the invariant, and it is a step of
\* SlotHolds or none.
Maps == SequentialInv' /\ [Holds!Next]_(Holds!vars)

LEMMA NothingMaps ==
    ASSUME SequentialInv', NothingHeldOrSold
    PROVE  Maps
  BY DEF Maps, Holds!vars, NothingHeldOrSold

LEMMA SendMaps ==
    ASSUME ~ConcurrentTabs, IInv, SequentialInv, NEW t \in Threads, NEW b \in Browsers, Send(t, b)
    PROVE  Maps
  <1>1. ASSUME NEW r, Open(t, b, r), r.session = cookie[b], r.browser = b,
               r.pc \notin {"idle", "reply"}
        PROVE  Maps
    BY <1>1, OpenKeeps, NothingMaps
  <1>2. CASE \E n \in Names : LoginRequest(t, b, n)
    BY <1>1, <1>2 DEF LoginRequest
  <1>3. CASE LogoutRequest(t, b)
    BY <1>1, <1>3 DEF LogoutRequest
  <1>4. CASE \E s \in SalonIds, n \in 0 .. MaxWorkers : WorkersRequest(t, b, s, n)
    BY <1>1, <1>4 DEF WorkersRequest
  <1>5. CASE \E f \in Form : BookRequest(t, b, f)
    BY <1>1, <1>5 DEF BookRequest
  <1>6. CASE PaymentRequest(t, b)
    BY <1>1, <1>6 DEF PaymentRequest
  <1> QED
    BY <1>2, <1>3, <1>4, <1>5, <1>6 DEF Send

LEMMA PaymentSuccessRequestMaps ==
    ASSUME ~ConcurrentTabs, IInv, SequentialInv, NEW t \in Threads, NEW o \in OrderIds,
           PaymentSuccessRequest(t, o)
    PROVE  Maps
  <1> DEFINE r == [pc |-> "success", browser |-> orders[o].browser,
                   session |-> cookie[orders[o].browser], order |-> o]
  <1>1. orders[o].browser \in Browsers
    BY DEF PaymentSuccessRequest, IInv, TypeOK, Order
  <1>2. Open(t, orders[o].browser, r)
    BY DEF PaymentSuccessRequest
  <1>3. /\ r.pc \notin {"idle", "reply"}
        /\ r.browser = orders[o].browser /\ r.session = cookie[orders[o].browser]
    OBVIOUS
  <1> HIDE DEF r
  <1> QED
    BY <1>1, <1>2, <1>3, OpenKeeps, NothingMaps

\* Logging in and out drops what is held.
LEMMA DropMaps ==
    ASSUME IInv, SequentialInv, NEW t \in Threads, AtWork(t),
           NEW s, s.pending = NoBooking, NEW o, Return(t, s, TRUE, o),
           UNCHANGED <<cookie, slot_data>>
    PROVE  Maps
  <1>1. PendingOffered(s)
    BY DEF PendingOffered
  <1>2. PICK b \in Browsers : b = req[t].browser
    BY WorkingBrowser
  <1>3. SequentialInv' /\ UNCHANGED SoldNow /\ HeldNow' = [HeldNow EXCEPT ![b] = {}]
    BY <1>1, <1>2, ChangeKeeps DEF SlotsOf
  <1>4. Holds!Drop(b)
    BY <1>3 DEF Holds!Drop
  <1> QED
    BY <1>3, <1>4 DEF Maps, Holds!Next

LEMMA LoginMaps ==
    ASSUME IInv, SequentialInv, NEW t \in Threads, Login(t)
    PROVE  Maps
  <1>1. AtWork(t) /\ UNCHANGED <<cookie, slot_data>>
    BY DEF Login, AtWork, database
  <1>2. CASE FlashAndReturn(t, NoOrder)
    BY <1>1, <1>2, FlashKeeps, NothingMaps DEF FlashAndReturn
  <1>3. ASSUME NEW u \in UserIds,
               Return(t, [user |-> u, username |-> users[u], pending |-> NoBooking],
                      TRUE, NoOrder)
        PROVE  Maps
    BY <1>1, <1>3, DropMaps
  <1> QED
    BY <1>2, <1>3 DEF Login

LEMMA LogoutMaps ==
    ASSUME IInv, SequentialInv, NEW t \in Threads, Logout(t)
    PROVE  Maps
  <1>1. AtWork(t) /\ UNCHANGED <<cookie, slot_data>>
    BY DEF Logout, AtWork, database
  <1>2. Return(t, EmptySession, TRUE, NoOrder) /\ EmptySession.pending = NoBooking
    BY DEF Logout, EmptySession
  <1> QED
    BY <1>1, <1>2, DropMaps

LEMMA UpdateWorkerCountMaps ==
    ASSUME IInv, SequentialInv, NEW t \in Threads, UpdateWorkerCount(t)
    PROVE  Maps
  BY FlashKeeps, NothingMaps DEF UpdateWorkerCount, FlashAndReturn, AtWork

\* The salon is read: what the request goes on with is its copy of the cookie.
LEMMA BookFetchSalonMaps ==
    ASSUME IInv, SequentialInv, NEW t \in Threads, BookFetchSalon(t)
    PROVE  Maps
  <1>1. /\ req[t].pc = "book" /\ AtWork(t)
        /\ UNCHANGED <<cookie, slot_data>>
    BY DEF BookFetchSalon, AtWork, database
  <1>2. CASE BookRefused(req[t].session, req[t].form)
    BY <1>1, <1>2, FlashKeeps, NothingMaps DEF BookFetchSalon, FlashAndReturn
  <1>3. CASE ~BookRefused(req[t].session, req[t].form)
    <2> DEFINE r == [pc |-> "book_check", browser |-> req[t].browser,
                     session |-> req[t].session, form |-> req[t].form,
                     worker_count |-> salons[req[t].form.salon]]
    <2>1. req' = [req EXCEPT ![t] = r]
      BY <1>3 DEF BookFetchSalon
    <2>2. r.pc = "book_check" /\ r.browser = req[t].browser /\ r.session = req[t].session
      OBVIOUS
    <2> HIDE DEF r
    <2>3. (\A u \in Threads \ {t} : req'[u] = req[u]) /\ req'[t] = r
      BY <2>1 DEF IInv, TypeOK
    <2>4. OneRequest'
      BY <1>1, <2>2, <2>3 DEF SequentialInv, OneRequest
    <2>5. CopiesCurrent'
      BY <1>1, <2>2, <2>3 DEF SequentialInv, CopiesCurrent
    <2>6. SlotsOffered'
      BY <1>1, <2>2, <2>3 DEF SequentialInv, SlotsOffered, PendingOffered
    <2>7. SequentialInv'
      BY <1>1, <2>4, <2>5, <2>6 DEF SequentialInv
    <2>8. \A b \in Browsers : EffectiveSession(b)' = EffectiveSession(b)
      BY <1>1, <2>2, <2>3, OtherBrowsers
    <2> QED
      BY <1>1, <2>7, <2>8, SoldStays, HeldStays, NothingMaps DEF NothingHeldOrSold
  <1> QED
    BY <1>2, <1>3

\* The availability check grants a hold: every slot of the new pending booking
\* is sold fewer times than the salon had workers when it was read.
LEMMA BookCheckSlotsMaps ==
    ASSUME IInv, SequentialInv, NEW t \in Threads, BookCheckSlots(t)
    PROVE  Maps
  <1> DEFINE session == req[t].session
             form == req[t].form
             slots == generate_required_slots(form.start, form.services)
             p == pending_booking(session, form)
  <1>1. /\ req[t].pc = "book_check" /\ AtWork(t)
        /\ UNCHANGED <<cookie, slot_data>>
    BY DEF BookCheckSlots, AtWork, database
  <1>2. CASE Unavailable(form, req[t].worker_count)
    BY <1>1, <1>2, FlashKeeps, NothingMaps DEF BookCheckSlots, FlashAndReturn
  <1>3. CASE ~Unavailable(form, req[t].worker_count)
    <2>1. /\ form \in Form /\ form.start # NoTime
          /\ req[t].worker_count \in 1 .. MaxWorkers
          /\ session \in Session
      BY <1>1, RequestFields DEF IInv, TypeOK, ChecksPassed
    <2>2. /\ form.salon \in SalonIds /\ form.date \in Dates
          /\ form.start \in Starts /\ form.services \in 0 .. MaxServices
      BY <2>1 DEF Form
    <2>3. p.salon = form.salon /\ p.date = form.date /\ p.slots = slots
      BY DEF pending_booking
    <2>4. Offered(slots)
      BY <2>2, RequiredSlotsOffered
    <2> HIDE DEF slots, p
    <2>5. PICK s : s = [session EXCEPT !.pending = p]
      OBVIOUS
    <2>6. s.pending = p
      BY <2>1, <2>5 DEF Session
    <2>7. PendingOffered(s) /\ Return(t, s, TRUE, NoOrder)
      BY <1>3, <2>3, <2>4, <2>5, <2>6 DEF PendingOffered, BookCheckSlots, p, slots
    <2>8. PICK b \in Browsers : b = req[t].browser
      BY <1>1, WorkingBrowser
    <2>9. SequentialInv' /\ UNCHANGED SoldNow /\ HeldNow' = [HeldNow EXCEPT ![b] = SlotsOf(p)]
      BY <1>1, <2>6, <2>7, <2>8, ChangeKeeps
    <2>10. SlotsOf(p) \in SUBSET ReachableSlots
      BY <2>2, <2>3, <2>4, OfferedFacts DEF SlotsOf
    <2>11. ASSUME NEW x \in SlotsOf(p)
           PROVE  SoldNow[x] < MaxWorkers
      <3>1. PICK i \in DOMAIN slots : x = <<form.salon, form.date, slots[i]>>
        BY <2>3 DEF SlotsOf
      <3>2. ~(booked_count(form.salon, form.date, slots[i]) >= req[t].worker_count)
        BY <1>3, <3>1 DEF Unavailable, slots
      <3>3. SoldNow[x] = booked_count(form.salon, form.date, slots[i])
        BY <2>10, <3>1 DEF SoldNow
      <3>4. booked_count(form.salon, form.date, slots[i]) \in Nat
        BY CountsPlaces, PlacesFinite DEF SequentialInv
      <3>5. req[t].worker_count \in Nat /\ req[t].worker_count <= MaxWorkers /\ MaxWorkers \in Nat
        BY <2>1, BoundsAssumption
      <3> QED
        BY <3>2, <3>3, <3>4, <3>5
    <2>12. Holds!Hold(b, SlotsOf(p))
      BY <2>9, <2>11 DEF Holds!Hold
    <2> QED
      BY <2>9, <2>10, <2>12 DEF Maps, Holds!Next
  <1> QED
    BY <1>2, <1>3

LEMMA PaymentMaps ==
    ASSUME IInv, SequentialInv, NEW t \in Threads, Payment(t)
    PROVE  Maps
  <1>1. AtWork(t) /\ UNCHANGED <<cookie, slot_data>>
    BY DEF Payment, AtWork, database
  <1>2. \E m \in BOOLEAN, o \in OrderIds \cup {NoOrder} : Return(t, req[t].session, m, o)
    BY DEF Payment, FlashAndReturn
  <1> QED
    BY <1>1, <1>2, FlashKeeps, NothingMaps

\* The booking that is recorded is the one that the browser holds: each of its
\* slots is sold once more, and the hold is gone.
LEMMA PaymentSuccessMaps ==
    ASSUME IInv, SequentialInv, NEW t \in Threads, PaymentSuccess(t)
    PROVE  Maps
  <1> DEFINE session == req[t].session
             o == req[t].order
             p == session.pending
             row == BookingRow(session, o)
  <1>1. AtWork(t) /\ UNCHANGED cookie
    BY DEF PaymentSuccess, AtWork
  <1>2. CASE FlashAndReturn(t, o) /\ UNCHANGED slot_data
    BY <1>1, <1>2, FlashKeeps, NothingMaps DEF FlashAndReturn
  <1>3. ASSUME ~PaymentRefused(session, o), slot_data' = slot_data \cup {row},
               Return(t, [session EXCEPT !.pending = NoBooking], TRUE, o)
        PROVE  Maps
    <2>1. session \in Session /\ PendingOffered(session)
      BY <1>1, WorkingBrowser, RequestFields DEF IInv, TypeOK, AtWork
    <2>2. p # NoBooking /\ Offered(p.slots)
      BY <1>3, <2>1 DEF PaymentRefused, PendingOffered
    <2>3. /\ row.id = slot_seq + 1 /\ row.salon = p.salon
          /\ row.date = p.date /\ row.slots = p.slots
      BY DEF BookingRow
    <2> HIDE DEF row
    <2>4. PICK s : s = [session EXCEPT !.pending = NoBooking]
      OBVIOUS
    <2>5. s.pending = NoBooking
      BY <2>1, <2>4 DEF Session
    <2>6. PICK b \in Browsers : b = req[t].browser /\ HeldNow[b] = SlotsOf(p)
      BY <1>1, WorkingBrowser
    <2>7. PendingOffered(s)
      BY <2>5 DEF PendingOffered
    <2>8. Return(t, s, TRUE, o)
      BY <1>3, <2>4
    <2>9. ReturnLeaves' /\ HeldNow' = [HeldNow EXCEPT ![b] = SlotsOf(s.pending)]
      BY <1>1, <2>6, <2>7, <2>8, ReturnKeeps
    <2>10. row \notin slot_data
      BY <2>3 DEF IInv, FreshIdsUnused, TypeOK, Row
    <2>11. IsFiniteSet(slot_data) /\ IsFiniteSet(slot_data')
      BY <1>3, FS_AddElement DEF SequentialInv
    <2>12. SequentialInv'
      BY <1>3, <2>2, <2>3, <2>9, <2>11
      DEF SequentialInv, ReturnLeaves, SlotsOffered
    <2>13. ASSUME NEW x \in ReachableSlots
           PROVE  SoldNow'[x] = IF x \in HeldNow[b] THEN SoldNow[x] + 1 ELSE SoldNow[x]
      <3>1. PICK sa \in SalonIds, d \in Dates, c \in Minutes : x = <<sa, d, c>>
        <4>1. PICK sa \in SalonIds, d \in Dates, m \in Starts, i \in 0 .. MaxServices - 1 :
                  x = <<sa, d, Clock(m + i * SlotMinutes)>>
          BY DEF ReachableSlots
        <4>2. m \in Nat /\ i \in Nat
          BY SetsAssumption, BoundsAssumption DEF Minutes
        <4>3. Clock(m + i * SlotMinutes) \in Minutes
          BY <4>2 DEF Clock, Minutes, DayMinutes, SlotMinutes
        <4> QED
          BY <4>1, <4>3
      <3>2. /\ SoldNow[x] = Cardinality(Places(slot_data, sa, d, c))
            /\ SoldNow'[x] = Cardinality(Places(slot_data', sa, d, c))
        BY <3>1, CountsPlaces, CountsPlacesAfter DEF SoldNow
      <3>3. x \in HeldNow[b] <=>
                /\ row.salon = sa /\ row.date = d
                /\ \E i \in DOMAIN row.slots : row.slots[i] = c
        BY <2>2, <2>3, <2>6, <3>1 DEF SlotsOf
      <3>4. slot_data' = slot_data \cup {row} /\ Offered(row.slots)
        BY <1>3, <2>2, <2>3
      <3> QED
        BY <2>10, <2>11, <3>2, <3>3, <3>4, OneMoreRow
    <2>14. SoldNow' = [x \in ReachableSlots |->
                         IF x \in HeldNow[b] THEN SoldNow[x] + 1 ELSE SoldNow[x]]
      BY <2>13 DEF SoldNow
    <2>15. Holds!Buy(b)
      BY <2>5, <2>9, <2>14 DEF Holds!Buy, SlotsOf
    <2> QED
      BY <2>12, <2>15 DEF Maps, Holds!Next
  <1> QED
    BY <1>2, <1>3 DEF PaymentSuccess

\* A response arrives: the browser has the session it was about to have.
LEMMA DeliverMaps ==
    ASSUME IInv, SequentialInv, NEW t \in Threads, Deliver(t)
    PROVE  Maps
  <1>1. /\ req[t].pc = "reply" /\ UNCHANGED slot_data
        /\ req[t].browser \in Browsers /\ req[t].modified \in BOOLEAN
    BY RequestFields DEF Deliver, database, IInv, TypeOK
  <1>2. PICK b \in Browsers : b = req[t].browser
    BY <1>1
  <1>3. (\A u \in Threads \ {t} : req'[u] = req[u]) /\ req'[t].pc = "idle"
    BY DEF Deliver, Idle, IInv, TypeOK
  <1>4. /\ cookie'[b] = IF req[t].modified THEN req[t].session ELSE cookie[b]
        /\ \A c \in Browsers \ {b} : cookie'[c] = cookie[c]
    BY <1>1, <1>2 DEF Deliver, IInv, TypeOK
  <1>5. \A u \in Threads \ {t} : req[u].pc # "idle" =>
            req[u].browser \in Browsers /\ req[u].browser # b
    BY <1>1, <1>2, RequestFields DEF SequentialInv, OneRequest, IInv, TypeOK
  <1>6. OneRequest'
    BY <1>3 DEF SequentialInv, OneRequest
  <1>7. CopiesCurrent'
    BY <1>3, <1>4, <1>5 DEF SequentialInv, CopiesCurrent
  <1>8. SlotsOffered'
    <2>1. PendingOffered(req[t].session)
      BY <1>1 DEF SequentialInv, SlotsOffered
    <2>2. \A c \in Browsers : cookie'[c] \in {cookie[c], req[t].session}
      BY <1>4
    <2> QED
      BY <1>1, <1>3, <2>1, <2>2 DEF SequentialInv, SlotsOffered, PendingOffered
  <1>9. SequentialInv'
    BY <1>1, <1>6, <1>7, <1>8 DEF SequentialInv
  <1>10. EffectiveSession(b)' = EffectiveSession(b)
    <2>1. EffectiveSession(b) = IF req[t].modified THEN req[t].session ELSE cookie[b]
      BY <1>1, <1>2, SessionInFlight DEF SequentialInv
    <2>2. NewCookies(b)' = {}
      BY <1>3, <1>5 DEF NewCookies
    <2>3. EffectiveSession(b)' = cookie'[b]
      BY <2>2 DEF EffectiveSession
    <2> QED
      BY <1>4, <2>1, <2>3
  <1>11. ASSUME NEW c \in Browsers \ {b}
         PROVE  EffectiveSession(c)' = EffectiveSession(c)
    BY <1>1, <1>2, <1>3, <1>4, <1>11, OtherBrowsers
  <1> QED
    BY <1>1, <1>9, <1>10, <1>11, SoldStays, HeldStays, NothingMaps DEF NothingHeldOrSold

\* Nothing happens to requests, cookies and bookings.
LEMMA ElsewhereMaps ==
    ASSUME SequentialInv, UNCHANGED <<slot_data, cookie, req>>
    PROVE  Maps
  <1>1. SequentialInv'
    BY DEF SequentialInv, OneRequest, CopiesCurrent, SlotsOffered
  <1>2. \A b \in Browsers : EffectiveSession(b)' = EffectiveSession(b)
    BY DEF EffectiveSession, NewCookies
  <1> QED
    BY <1>1, <1>2, SoldStays, HeldStays, NothingMaps DEF NothingHeldOrSold

\* Bookings are deleted, alone or with their user or salon.
LEMMA DeletionMaps ==
    ASSUME SequentialInv, slot_data' \in SUBSET slot_data, UNCHANGED <<cookie, req>>
    PROVE  Maps
  <1>1. IsFiniteSet(slot_data')
    BY FS_Subset DEF SequentialInv
  <1>2. SequentialInv'
    BY <1>1 DEF SequentialInv, OneRequest, CopiesCurrent, SlotsOffered
  <1>3. \A b \in Browsers : EffectiveSession(b)' = EffectiveSession(b)
    BY DEF EffectiveSession, NewCookies
  <1>4. \A x \in ReachableSlots : SoldNow'[x] \in Nat /\ SoldNow'[x] <= SoldNow[x]
    BY CountsPlaces, CountsPlacesAfter, FewerRows DEF SoldNow, SequentialInv
  <1>5. SoldNow' \in [ReachableSlots -> Nat]
    BY <1>4 DEF SoldNow
  <1>6. Holds!Release
    BY <1>3, <1>4, <1>5, HeldStays DEF Holds!Release
  <1> QED
    BY <1>2, <1>6 DEF Maps, Holds!Next

LEMMA TablesMaps ==
    ASSUME SequentialInv, Tables
    PROVE  Maps
  <1>1. CASE (\E n \in Names : Register(n)) \/ (\E n \in 1 .. MaxWorkers : RegisterSalon(n))
    BY <1>1, ElsewhereMaps DEF Register, RegisterSalon
  <1>2. CASE \E u \in UserIds : DeleteUser(u)
    BY <1>2, DeletionMaps DEF DeleteUser
  <1>3. CASE \E s \in SalonIds : DeleteSalon(s)
    BY <1>3, DeletionMaps DEF DeleteSalon
  <1>4. CASE \E r \in slot_data : DeleteBooking(r)
    BY <1>4, DeletionMaps DEF DeleteBooking
  <1> QED
    BY <1>1, <1>2, <1>3, <1>4 DEF Tables

LEMMA HandleMaps ==
    ASSUME IInv, SequentialInv, NEW t \in Threads, Handle(t)
    PROVE  Maps
  BY LoginMaps, LogoutMaps, UpdateWorkerCountMaps, BookFetchSalonMaps, BookCheckSlotsMaps,
     PaymentMaps, PaymentSuccessMaps DEF Handle

LEMMA NextMaps ==
    ASSUME ~ConcurrentTabs, ~LossyNetwork, IInv, SequentialInv, [Next]_vars
    PROVE  Maps
  <1>1. ASSUME NEW t \in Threads, NEW b \in Browsers, Send(t, b) PROVE Maps
    BY <1>1, SendMaps
  <1>2. ASSUME NEW t \in Threads, NEW o \in OrderIds, PaymentSuccessRequest(t, o) PROVE Maps
    BY <1>2, PaymentSuccessRequestMaps
  <1>3. CASE (\E o \in OrderIds : Pay(o)) \/ Tick \/ UNCHANGED vars
    BY <1>3, ElsewhereMaps DEF Pay, Tick, vars, database
  <1>4. ASSUME NEW t \in Threads, Handle(t) PROVE Maps
    BY <1>4, HandleMaps
  <1>5. ASSUME NEW t \in Threads, Deliver(t) PROVE Maps
    BY <1>5, DeliverMaps
  <1>6. ASSUME NEW t \in Threads, Lose(t) PROVE Maps
    BY <1>6 DEF Lose
  <1>7. CASE Tables
    BY <1>7, TablesMaps
  <1> QED
    BY <1>1, <1>2, <1>3, <1>4, <1>5, <1>6, <1>7 DEF Next

LEMMA InitMaps == Init => SequentialInv /\ Holds!Init
  <1> SUFFICES ASSUME Init PROVE SequentialInv /\ Holds!Init
    OBVIOUS
  <1>1. SequentialInv
    BY FS_EmptySet DEF Init, SequentialInv, OneRequest, CopiesCurrent, SlotsOffered,
       PendingOffered, EmptySession, Idle
  <1>2. \A b \in Browsers : EffectiveSession(b).pending = NoBooking
    BY DEF Init, EffectiveSession, NewCookies, EmptySession, Idle
  <1>3. HeldNow = [b \in Browsers |-> {}]
    BY <1>2 DEF HeldNow, SlotsOf
  <1>4. \A x \in ReachableSlots : SoldNow[x] = 0
    <2> SUFFICES ASSUME NEW x \in ReachableSlots PROVE SoldNow[x] = 0
      OBVIOUS
    <2>1. Places(slot_data, x[1], x[2], x[3]) = {}
      BY DEF Init, Places
    <2> QED
      BY <2>1, CountsPlaces, FS_EmptySet DEF SoldNow
  <1>5. SoldNow = [x \in ReachableSlots |-> 0]
    BY <1>4 DEF SoldNow
  <1> QED
    BY <1>1, <1>3, <1>5 DEF Holds!Init

-----------------------------------------------------------------------------
(* The theorems about sequential browsers                                  *)

\* The invariant of sequential browsers: one request in flight for each, with
\* the cookie it still has, and no slot but those the server derived.
THEOREM SequentialSound ==
    ASSUME ~ConcurrentTabs, ~LossyNetwork
    PROVE  Spec => []SequentialInv
  <1>1. IInv /\ SequentialInv /\ [Next]_vars => SequentialInv'
    BY NextMaps DEF Maps
  <1> QED
    BY <1>1, InitMaps, Soundness, PTL DEF Spec

\* The server, with its threads, cookies and tables, does what SlotHolds says
\* about the slots, when browsers send one request at a time and get every
\* response.
THEOREM BookingImplementsSlotHolds ==
    ASSUME ~ConcurrentTabs, ~LossyNetwork
    PROVE  Spec => ImplementsSlotHolds
  <1>1. IInv /\ SequentialInv /\ [Next]_vars => [Holds!Next]_(Holds!vars)
    BY NextMaps DEF Maps
  <1> QED
    BY <1>1, InitMaps, Soundness, SequentialSound, PTL
    DEF Spec, ImplementsSlotHolds, Holds!Spec

-----------------------------------------------------------------------------
(* The bound on overbooking, from SlotHolds                                *)

Facts == INSTANCE SlotHoldsProofs WITH
    Customers <- Browsers,
    Slots     <- ReachableSlots,
    holds     <- HeldNow,
    sold      <- SoldNow

LEMMA SameCardinality == \A S : Facts!Cardinality(S) = Cardinality(S)
  BY DEF Facts!Cardinality, Cardinality

LEMMA SameFiniteness == \A S : Facts!IsFiniteSet(S) <=> IsFiniteSet(S)
  BY DEF Facts!IsFiniteSet, IsFiniteSet

LEMMA FactsApply == ImplementsSlotHolds => []Facts!SalesBounded
  <1>1. Facts!SlotHoldsAssumption
    BY SameFiniteness, SetsAssumption, BoundsAssumption DEF Facts!SlotHoldsAssumption
  <1>2. Facts!Spec => []Facts!SalesBounded
    BY <1>1, Facts!SalesAlwaysBounded
  <1>3. Holds!Init => Facts!Init
    BY DEF Holds!Init, Facts!Init
  <1>4. [Holds!Next]_(Holds!vars) => [Facts!Next]_(Facts!vars)
    BY DEF Holds!Next, Facts!Next, Holds!vars, Facts!vars, Holds!Hold, Facts!Hold,
           Holds!Drop, Facts!Drop, Holds!Buy, Facts!Buy, Holds!Release, Facts!Release
  <1> QED
    BY <1>2, <1>3, <1>4, PTL DEF ImplementsSlotHolds, Holds!Spec, Facts!Spec

LEMMA BookedIsSold ==
    ASSUME IInv, SequentialInv, Facts!SalesBounded
    PROVE  OverbookingBound
  <1> SUFFICES ASSUME NEW r \in slot_data, NEW i \in DOMAIN r.slots
               PROVE  booked_count(r.salon, r.date, r.slots[i])
                          <= MaxWorkers - 1 + Cardinality(Browsers)
    BY DEF OverbookingBound
  <1>1. r.salon \in SalonIds /\ r.date \in Dates
    BY DEF IInv, TypeOK, Row
  <1>2. <<r.salon, r.date, r.slots[i]>> \in ReachableSlots
    BY <1>1, OfferedFacts DEF SequentialInv, SlotsOffered
  <1>3. SoldNow[<<r.salon, r.date, r.slots[i]>>]
            = booked_count(r.salon, r.date, r.slots[i])
    BY <1>2 DEF SoldNow
  <1> QED
    BY <1>2, <1>3, SameCardinality DEF Facts!SalesBounded

\* A slot is sold at most (browsers - 1) times beyond the workers, for any
\* number of browsers, threads, salons and services, when browsers send one
\* request at a time and get every response.
THEOREM OverbookingIsBounded ==
    ASSUME ~ConcurrentTabs, ~LossyNetwork
    PROVE  Spec => []OverbookingBound
  <1>1. Spec => []Facts!SalesBounded
    BY BookingImplementsSlotHolds, FactsApply, PTL
  <1> QED
    BY <1>1, BookedIsSold, Soundness, SequentialSound, PTL

\* "CHECK SLOT AVAILABILITY" (app.py:1284) keeps its word to a browser that is
\* alone: no slot is sold to more customers than the salon has workers.
THEOREM AloneNeverOverbooks ==
    ASSUME ~ConcurrentTabs, ~LossyNetwork, Cardinality(Browsers) = 1
    PROVE  Spec => []NoOverbooking
  <1>1. OverbookingBound => NoOverbooking
    <2>1. MaxWorkers - 1 + Cardinality(Browsers) = MaxWorkers
      BY BoundsAssumption
    <2> QED
      BY <2>1 DEF OverbookingBound, NoOverbooking
  <1> QED
    BY <1>1, OverbookingIsBounded, PTL
=============================================================================

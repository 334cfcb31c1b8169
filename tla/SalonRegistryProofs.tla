-------------------------- MODULE SalonRegistryProofs --------------------------
(***************************************************************************)
(* Registrations, ratings, switches and deletions, for any number of       *)
(* requests, browsers, salons, services and forms.                         *)
(***************************************************************************)
EXTENDS SalonRegistry, FiniteSetTheorems, TLAPS

LEMMA FormFacts ==
  ASSUME NEW f \in Forms
  PROVE  /\ f # <<>> /\ DOMAIN f = 1 .. Len(f) /\ Len(f) \in Nat \ {0}
         /\ \A k \in DOMAIN f : f[k] \in Names
  <1>1. f \in Seq(Names) /\ f # <<>>
    BY FormsAssumption
  <1> QED
    BY <1>1

-----------------------------------------------------------------------------
(* The invariant in parts: the tables, the transaction, the requests.      *)

DataOK ==
  /\ salons \in [SalonIds -> {NoSalon} \cup Salon]
  /\ salon_seq \in SalonIds
  /\ services \in [ServiceIds -> Names \cup {NoName}]
  /\ service_seq \in ServiceIds
  /\ salon_services \cup cascaded \subseteq Row
  /\ verified \in [Browsers -> 0 .. MaxSalons]
  /\ \A i \in ServiceIds : i > service_seq => services[i] = NoName
  /\ \A row \in salon_services : Joined(row)

WriterOK ==
  /\ writer # NoReq => writer \in Req /\ req[writer].pc \in Registering
  /\ \A r \in Req : req[r].own # {} \/ req[r].pc = "commit" => writer = r

RequestOK(r) ==
  OnForm(r) /\ Entered(r) /\ StillSo(r) /\ \A row \in req[r].own : Joined(row)

LEMMA InvSplit ==
  RegistryInv <=> DataOK /\ WriterOK /\ req \in [Req -> Request] /\ \A r \in Req : RequestOK(r)
  <1>1. ASSUME RegistryInv
        PROVE DataOK /\ WriterOK /\ req \in [Req -> Request] /\ \A r \in Req : RequestOK(r)
    BY <1>1 DEF RegistryInv, TypeOK, DataOK, WriterOK, RequestOK, Salon, At
  <1>2. ASSUME DataOK, WriterOK, req \in [Req -> Request], \A r \in Req : RequestOK(r) PROVE RegistryInv
    <2>1. \A r \in Req : req[r].pc \in Places /\ req[r].own \in SUBSET Row
      BY <1>2 DEF Request
    <2>2. TypeOK
      BY <1>2, <2>1 DEF TypeOK, DataOK, WriterOK, Salon, Places
    <2> QED
      BY <1>2, <2>2 DEF RegistryInv, DataOK, RequestOK, WriterOK, At
  <1> QED
    BY <1>1, <1>2

LEMMA InvSplitAfter ==
  RegistryInv' <=> DataOK' /\ WriterOK' /\ req' \in [Req -> Request] /\ \A r \in Req : RequestOK(r)'
  <1>1. ASSUME DataOK', WriterOK', req' \in [Req -> Request], \A r \in Req : RequestOK(r)' PROVE RegistryInv'
    <2>1. \A r \in Req : req'[r].pc \in Places /\ req'[r].own \in SUBSET Row
      BY <1>1 DEF Request
    <2>2. TypeOK'
      BY <1>1, <2>1 DEF TypeOK, DataOK, WriterOK, Salon, Places
    <2> QED
      BY <1>1, <2>2 DEF RegistryInv, DataOK, RequestOK, WriterOK, At
  <1>2. ASSUME RegistryInv'
        PROVE DataOK' /\ WriterOK' /\ req' \in [Req -> Request] /\ \A r \in Req : RequestOK(r)'
    BY <1>2 DEF RegistryInv, TypeOK, DataOK, WriterOK, RequestOK, Salon, At
  <1> QED
    BY <1>1, <1>2

\* What a step of one request may do to the record of another: history only.
Alike(q) ==
  LET x == req[q]
      y == req'[q] IN
  /\ y.pc = x.pc /\ y.browser = x.browser /\ y.session = x.session /\ y.salon = x.salon
  /\ y.form = x.form /\ y.rating = x.rating /\ y.i = x.i /\ y.service = x.service
  /\ y.row = x.row /\ y.own = x.own /\ (x.raced => y.raced)

\* The request r becomes m; the others keep all but their history.
Becomes(r, m) ==
  req' \in [Req -> Request] /\ req'[r] = m /\ \A q \in Req \ {r} : Alike(q)

LEMMA AlikeSame == ASSUME NEW q, req'[q] = req[q] PROVE Alike(q)
  BY DEF Alike

\* What another request relies on.
Steady ==
  /\ \A s \in SalonIds : salons[s] # NoSalon => salons'[s] # NoSalon
  /\ services' = services

Rely(q) ==
  /\ \A row \in salon_services \cup cascaded : row \in salon_services' \cup cascaded'
  /\ service_seq' \in Nat /\ service_seq <= service_seq'
  /\ \A i \in 1 .. service_seq : services'[i] \in {services[i], NoName}
  /\ req[q].own # {} \/ (req[q].pc \in Registering /\ ~req'[q].raced) => Steady

LEMMA OtherRequests ==
  ASSUME RegistryInv, NEW q \in Req, Alike(q), Rely(q)
  PROVE  RequestOK(q)'
  <1> DEFINE x == req[q]
             y == req'[q]
  <1>1. DataOK /\ WriterOK /\ x \in Request /\ RequestOK(q)
    BY InvSplit
  <1>2. /\ y.pc = x.pc /\ y.salon = x.salon /\ y.form = x.form /\ y.i = x.i /\ y.service = x.service
        /\ y.own = x.own /\ (x.raced => y.raced)
    BY DEF Alike
  <1> HIDE DEF x, y
  <1>3. service_seq \in Nat
    BY <1>1, BoundsAssumption DEF DataOK, ServiceIds
  <1>4. OnForm(q)'
    <2>1. OnForm(q)
      BY <1>1 DEF RequestOK
    <2>2. \A i \in 1 .. service_seq : i \in 1 .. service_seq'
      BY <1>3 DEF Rely
    <2> QED
      BY <1>2, <2>1, <2>2 DEF OnForm, Rely, x, y, Wanted
  <1>5. Entered(q)'
    <2>1. Entered(q)
      BY <1>1 DEF RequestOK
    <2> QED
      BY <1>2, <2>1 DEF Entered, Rely, x, y
  <1>6. StillSo(q)'
    <2>1. StillSo(q) /\ OnForm(q)
      BY <1>1 DEF RequestOK
    <2>2. ASSUME ~y.raced, x.pc \in Registering PROVE StillSo(q)'
      <3>1. Steady
        BY <1>2, <2>2 DEF Rely, x, y
      <3> QED
        BY <1>2, <2>1, <2>2, <3>1 DEF StillSo, OnForm, Steady, x, y, Named, Wanted, Registering
    <2>3. ASSUME x.pc \notin Registering PROVE StillSo(q)'
      BY <1>2, <2>1, <2>3 DEF StillSo, x, y, Registering
    <2> QED
      BY <1>2, <2>2, <2>3 DEF StillSo, y
  <1>7. \A row \in y.own : Joined(row)'
    <2> SUFFICES ASSUME NEW row \in x.own PROVE Joined(row)'
      BY <1>2
    <2>1. Joined(row) /\ Steady
      BY <1>1 DEF RequestOK, Rely, x
    <2>2. row.salon \in SalonIds
      BY <1>1 DEF Request, Row
    <2> QED
      BY <2>1, <2>2 DEF Joined, Steady
  <1> QED
    BY <1>4, <1>5, <1>6, <1>7 DEF RequestOK, y

-----------------------------------------------------------------------------
(* Steps in general                                                        *)

LEMMA OwnChange ==
  ASSUME RegistryInv, NEW r \in Req, NEW m \in Request, req' = [req EXCEPT ![r] = m]
  PROVE  Becomes(r, m)
  <1>1. req \in [Req -> Request]
    BY InvSplit
  <1>2. req' \in [Req -> Request] /\ req'[r] = m /\ \A q \in Req \ {r} : req'[q] = req[q]
    BY <1>1
  <1> QED
    BY <1>2, AlikeSame DEF Becomes

LEMMA RacedRecord ==
  ASSUME NEW x \in Request
  PROVE  LET y == [x EXCEPT !.raced = TRUE] IN
         /\ y \in Request /\ y.raced
         /\ y.pc = x.pc /\ y.browser = x.browser /\ y.session = x.session /\ y.salon = x.salon
         /\ y.form = x.form /\ y.rating = x.rating /\ y.i = x.i /\ y.service = x.service
         /\ y.row = x.row /\ y.own = x.own
  BY DEF Request

LEMMA AloneRecord ==
  ASSUME NEW x \in Request
  PROVE  LET y == [x EXCEPT !.alone = FALSE] IN
         /\ y \in Request /\ y.raced = x.raced
         /\ y.pc = x.pc /\ y.browser = x.browser /\ y.session = x.session /\ y.salon = x.salon
         /\ y.form = x.form /\ y.rating = x.rating /\ y.i = x.i /\ y.service = x.service
         /\ y.row = x.row /\ y.own = x.own
  BY DEF Request

LEMMA RacedChange ==
  ASSUME RegistryInv, NEW r \in Req, NEW m \in Request, req' = Raced(r, [req EXCEPT ![r] = m])
  PROVE  Becomes(r, m) /\ \A q \in Req \ {r} : req[q].pc \in Registering => req'[q].raced
  <1>1. req \in [Req -> Request] /\ \A q \in Req : req[q] \in Request
    BY InvSplit
  <1>2. req'[r] = m /\ \A q \in Req \ {r} :
          req'[q] = IF req[q].pc \in Registering THEN [req[q] EXCEPT !.raced = TRUE] ELSE req[q]
    BY <1>1 DEF Raced
  <1>3. ASSUME NEW q \in Req \ {r}
        PROVE req'[q] \in Request /\ Alike(q) /\ (req[q].pc \in Registering => req'[q].raced)
    <2>1. req[q] \in Request
      BY <1>1
    <2>2. CASE req[q].pc \in Registering
      <3>1. req'[q] = [req[q] EXCEPT !.raced = TRUE]
        BY <1>2, <2>2
      <3> QED
        BY <2>1, <3>1, RacedRecord DEF Alike
    <2>3. CASE req[q].pc \notin Registering
      BY <1>2, <2>1, <2>3, AlikeSame
    <2> QED
      BY <2>2, <2>3
  <1>4. req' \in [Req -> Request]
    <2>1. \A q \in Req : req'[q] \in Request
      BY <1>2, <1>3
    <2>2. req' = [q \in Req |-> req'[q]]
      BY DEF Raced
    <2> QED
      BY <2>1, <2>2
  <1> QED
    BY <1>2, <1>3, <1>4 DEF Becomes

LEMMA RacedAll ==
  ASSUME RegistryInv, req' = Raced(NoReq, req)
  PROVE  /\ req' \in [Req -> Request]
         /\ \A q \in Req : Alike(q) /\ (req[q].pc \in Registering => req'[q].raced)
  <1>1. req \in [Req -> Request] /\ \A q \in Req : req[q] \in Request
    BY InvSplit
  <1>2. \A q \in Req : req'[q] = IF req[q].pc \in Registering THEN [req[q] EXCEPT !.raced = TRUE] ELSE req[q]
    BY <1>1, NoAssumption DEF Raced
  <1>3. ASSUME NEW q \in Req
        PROVE req'[q] \in Request /\ Alike(q) /\ (req[q].pc \in Registering => req'[q].raced)
    <2>1. req[q] \in Request
      BY <1>1
    <2>2. CASE req[q].pc \in Registering
      <3>1. req'[q] = [req[q] EXCEPT !.raced = TRUE]
        BY <1>2, <2>2
      <3> QED
        BY <2>1, <3>1, RacedRecord DEF Alike
    <2>3. CASE req[q].pc \notin Registering
      BY <1>2, <2>1, <2>3, AlikeSame
    <2> QED
      BY <2>2, <2>3
  <1>4. req' \in [Req -> Request]
    <2>1. req' = [q \in Req |-> req'[q]]
      BY DEF Raced
    <2> QED
      BY <1>3, <2>1
  <1> QED
    BY <1>3, <1>4

LEMMA DoneChange ==
  ASSUME RegistryInv, NEW r \in Req, req' = Done(r)
  PROVE  \E m \in Request : /\ Becomes(r, m) /\ m.pc = "ok" /\ m.own = req[r].own /\ m.form = req[r].form
                            /\ m.raced = req[r].raced
  <1> DEFINE m == [req[r] EXCEPT !.pc = "ok", !.alone = @ /\ Overlapping(r) = {}]
  <1>1. req \in [Req -> Request] /\ \A q \in Req : req[q] \in Request
    BY InvSplit
  <1>2. /\ m \in Request /\ m.pc = "ok" /\ m.own = req[r].own /\ m.form = req[r].form
        /\ m.raced = req[r].raced
    <2>1. (req[r].alone /\ Overlapping(r) = {}) \in BOOLEAN
      BY <1>1
    <2> QED
      BY <1>1, <2>1 DEF Request, Places, Outcomes
  <1>3. req'[r] = m /\ \A q \in Req \ {r} :
          req'[q] = IF q \in Overlapping(r) THEN [req[q] EXCEPT !.alone = FALSE] ELSE req[q]
    BY DEF Done
  <1> HIDE DEF m
  <1>4. ASSUME NEW q \in Req \ {r} PROVE req'[q] \in Request /\ Alike(q)
    <2>1. req[q] \in Request
      BY <1>1
    <2>2. CASE q \in Overlapping(r)
      <3>1. req'[q] = [req[q] EXCEPT !.alone = FALSE]
        BY <1>3, <2>2
      <3> QED
        BY <2>1, <3>1, AloneRecord DEF Alike
    <2>3. CASE q \notin Overlapping(r)
      BY <1>3, <2>1, <2>3, AlikeSame
    <2> QED
      BY <2>2, <2>3
  <1>5. req' \in [Req -> Request]
    <2>1. \A q \in Req : req'[q] \in Request
      BY <1>2, <1>3, <1>4
    <2>2. req' = [q \in Req |-> req'[q]]
      BY DEF Done
    <2> QED
      BY <2>1, <2>2
  <1> QED
    BY <1>2, <1>3, <1>4, <1>5 DEF Becomes

LEMMA Assembled ==
  ASSUME RegistryInv, NEW r \in Req, NEW m, Becomes(r, m), DataOK', WriterOK', RequestOK(r)',
         \A q \in Req \ {r} : Rely(q)
  PROVE  RegistryInv'
  <1>1. \A q \in Req \ {r} : RequestOK(q)'
    BY OtherRequests DEF Becomes
  <1>2. \A q \in Req : RequestOK(q)'
    BY <1>1
  <1> QED
    BY <1>2, InvSplitAfter DEF Becomes

LEMMA RelySteady ==
  ASSUME RegistryInv, NEW q \in Req, Steady, service_seq' = service_seq,
         salon_services \subseteq salon_services', cascaded \subseteq cascaded'
  PROVE  Rely(q)
  <1>1. service_seq \in Nat
    BY InvSplit, BoundsAssumption DEF DataOK, ServiceIds
  <1> QED
    BY <1>1 DEF Rely, Steady

LEMMA WriterStays ==
  ASSUME RegistryInv, NEW r \in Req, NEW m, Becomes(r, m), writer' = writer,
         m.own # {} \/ m.pc = "commit" => writer = r, writer = r => m.pc \in Registering
  PROVE  WriterOK'
  <1>1. WriterOK
    BY InvSplit
  <1>2. \A q \in Req \ {r} : req'[q].pc = req[q].pc /\ req'[q].own = req[q].own
    BY DEF Becomes, Alike
  <1> QED
    BY <1>1, <1>2 DEF WriterOK, Becomes

LEMMA WriterLeaves ==
  ASSUME RegistryInv, NEW r \in Req, NEW m, Becomes(r, m), Unlocked(r) \/ writer = r, writer' = NoReq, m.own = {}, m.pc # "commit"
  PROVE  WriterOK'
  <1>1. WriterOK
    BY InvSplit
  <1>2. \A q \in Req \ {r} : req'[q].pc = req[q].pc /\ req'[q].own = req[q].own
    BY DEF Becomes, Alike
  <1>3. \A q \in Req \ {r} : req[q].own = {} /\ req[q].pc # "commit"
    BY <1>1, NoAssumption DEF WriterOK, Unlocked
  <1> QED
    BY <1>1, <1>2, <1>3 DEF WriterOK, Becomes

\* A step that touches no table.
LEMMA LocalStep ==
  ASSUME RegistryInv, NEW r \in Req, NEW m \in Request, req' = [req EXCEPT ![r] = m],
         UNCHANGED <<tables, writer>>, verified' \in [Browsers -> 0 .. MaxSalons],
         m.own = req[r].own, m.pc # "commit", writer = r => m.pc \in Registering, RequestOK(r)'
  PROVE  RegistryInv'
  <1>1. Becomes(r, m)
    BY OwnChange
  <1>2. UNCHANGED <<salons, salon_seq, services, service_seq, salon_services, cascaded, writer>>
    BY DEF tables
  <1>3. DataOK'
    BY <1>2, InvSplit DEF DataOK, Joined
  <1>4. WriterOK'
    BY <1>1, <1>2, WriterStays, InvSplit DEF WriterOK
  <1>5. \A q \in Req : Rely(q)
    BY <1>2, RelySteady DEF Steady
  <1> QED
    BY <1>1, <1>3, <1>4, <1>5, Assembled

-----------------------------------------------------------------------------
(* The steps of a registration                                             *)

\* What is known of a request.
LEMMA Known ==
  ASSUME RegistryInv, NEW r \in Req
  PROVE  /\ req \in [Req -> Request] /\ req[r] \in Request /\ req[r].form \in Forms \cup {<<>>}
         /\ DataOK /\ WriterOK /\ RequestOK(r) /\ OnForm(r) /\ Entered(r) /\ StillSo(r)
         /\ req[r].own \in SUBSET Row /\ req[r].browser \in Browsers /\ req[r].session \in 0 .. MaxSalons
         /\ \A row \in req[r].own : Joined(row)
         /\ req[r].pc \notin Registering => req[r].own = {} /\ writer # r
         /\ MaxSalons \in Nat /\ MaxServices \in Nat /\ service_seq \in Nat /\ salon_seq \in Nat
  <1>1. req \in [Req -> Request] /\ DataOK /\ WriterOK /\ RequestOK(r)
    BY InvSplit
  <1>2. req[r] \in Request
    BY <1>1
  <1>3. MaxSalons \in Nat /\ MaxServices \in Nat
    BY BoundsAssumption
  <1>4. service_seq \in Nat /\ salon_seq \in Nat
    BY <1>1, <1>3 DEF DataOK, ServiceIds, SalonIds
  <1>5. req[r].pc \notin Registering => req[r].own = {} /\ writer # r
    BY <1>1, NoAssumption DEF WriterOK
  <1> QED
    BY <1>1, <1>2, <1>3, <1>4, <1>5 DEF Request, RequestOK

\* A registration that has arrived is on an element of its form.
LEMMA OnElement ==
  ASSUME RegistryInv, NEW r \in Req, req[r].pc \in Registering
  PROVE  /\ req[r].form \in Forms /\ DOMAIN req[r].form = 1 .. Len(req[r].form) /\ Len(req[r].form) \in Nat
         /\ req[r].i \in DOMAIN req[r].form /\ req[r].i \in Nat
         /\ Wanted(r) \in Names /\ Wanted(r) # NoName
  <1>1. req[r].i \in DOMAIN req[r].form /\ req[r].form \in Forms \cup {<<>>}
    BY Known DEF OnForm
  <1>2. req[r].form # <<>>
    BY <1>1
  <1>3. req[r].form \in Forms
    BY <1>1, <1>2
  <1> QED
    BY <1>1, <1>3, FormFacts, NoAssumption DEF Wanted

LEMMA NewRequest ==
  /\ New \in Request /\ New.pc = "none" /\ New.form = <<>> /\ New.own = {} /\ New.i = 1 /\ ~New.raced /\ New.alone
  /\ New.rating = 0
  <1> DEFINE it == CHOOSE b \in Browsers : TRUE
  <1>1. it \in Browsers
    BY SomeAssumption
  <1> HIDE DEF it
  <1>2. 0 \in 0 .. MaxSalons /\ 0 \in 0 .. MaxServices
    BY BoundsAssumption
  <1>3. New = [pc |-> "none", browser |-> it, session |-> 0, salon |-> 0, form |-> <<>>, rating |-> 0, i |-> 1,
               service |-> 0, row |-> NoSalon, own |-> {}, alone |-> TRUE, raced |-> FALSE]
    BY DEF New, it
  <1> QED
    BY <1>1, <1>2, <1>3 DEF Request, Places

LEMMA RegisterRequestKeeps ==
  ASSUME RegistryInv, NEW r \in Req, NEW b \in Browsers, RegisterRequest(r, b) PROVE RegistryInv'
  <1>1. PICK f \in Forms : Arrive(r, b, [New EXCEPT !.pc = "insert", !.form = f])
    BY DEF RegisterRequest
  <1> DEFINE m == [[New EXCEPT !.pc = "insert", !.form = f] EXCEPT !.browser = b, !.session = verified[b]]
  <1>2. verified[b] \in 0 .. MaxSalons /\ MaxSalons \in Nat /\ MaxServices \in Nat
    BY Known DEF DataOK
  <1>3. /\ m \in Request /\ m.pc = "insert" /\ m.form = f /\ m.own = {} /\ m.i = 1 /\ ~m.raced
    BY <1>2, NewRequest DEF Request, Places, Registering
  <1>4. req' = [req EXCEPT ![r] = m] /\ At(r, "none") /\ UNCHANGED <<tables, writer, verified>>
    BY <1>1 DEF Arrive
  <1> HIDE DEF m
  <1>5. req'[r] = m /\ writer # r /\ req[r].own = {}
    BY <1>3, <1>4, Known DEF At, Registering
  <1>6. DOMAIN f = 1 .. Len(f) /\ Len(f) \in Nat \ {0}
    BY FormFacts
  <1>7. OnForm(r)'
    BY <1>3, <1>5, <1>6 DEF OnForm, Registering
  <1>8. Entered(r)'
    BY <1>3, <1>5, <1>6 DEF Entered
  <1>9. StillSo(r)'
    BY <1>3, <1>5 DEF StillSo
  <1>10. RequestOK(r)'
    BY <1>3, <1>5, <1>7, <1>8, <1>9 DEF RequestOK
  <1> QED
    BY <1>3, <1>4, <1>5, <1>10, Known, LocalStep DEF DataOK

LEMMA InsertSalonKeeps ==
  ASSUME RegistryInv, NEW r \in Req, InsertSalon(r) PROVE RegistryInv'
  <1> DEFINE m == [req[r] EXCEPT !.pc = "select", !.salon = salon_seq + 1]
  <1>1. /\ At(r, "insert") /\ salon_seq' = salon_seq + 1 /\ salon_seq < MaxSalons
        /\ salons' = [salons EXCEPT ![salon_seq + 1] = NewSalon]
        /\ UNCHANGED <<services, service_seq, salon_services, cascaded, writer, verified>>
    BY DEF InsertSalon
  <1>2. salon_seq + 1 \in SalonIds /\ salon_seq + 1 \in 0 .. MaxSalons /\ req[r] \in Request
    BY <1>1, Known DEF SalonIds, DataOK
  <1>3. /\ m \in Request /\ m.pc = "select" /\ m.salon = salon_seq + 1 /\ m.own = req[r].own
        /\ m.form = req[r].form /\ m.i = req[r].i /\ m.raced = req[r].raced
    BY <1>2 DEF Request, Places, Registering
  <1>4. req' = [req EXCEPT ![r] = m]
    BY <1>1, Known DEF InsertSalon
  <1> HIDE DEF m
  <1>5. Becomes(r, m) /\ req'[r] = m
    BY <1>3, <1>4, OwnChange, Known
  <1>6. NewSalon # NoSalon /\ NewSalon \in Salon
    BY DEF NewSalon, NoSalon, Salon
  <1>7. \A s \in SalonIds : salons'[s] = IF s = salon_seq + 1 THEN NewSalon ELSE salons[s]
    BY <1>1, Known DEF DataOK
  <1>8. Steady
    BY <1>1, <1>6, <1>7 DEF Steady
  <1>9. DataOK'
    <2>1. salons' \in [SalonIds -> {NoSalon} \cup Salon]
      BY <1>1, <1>6, Known DEF DataOK
    <2>2. \A row \in salon_services : row.salon \in SalonIds
      BY Known DEF DataOK, Row
    <2>3. \A row \in salon_services : Joined(row)'
      BY <1>1, <1>8, <2>2, Known DEF Joined, DataOK, Steady
    <2> QED
      BY <1>1, <1>2, <2>1, <2>3, Known DEF DataOK
  <1>10. WriterOK'
    <2>1. writer = r => m.pc \in Registering
      BY <1>3 DEF Registering
    <2>2. m.own # {} \/ m.pc = "commit" => writer = r
      BY <1>3, Known DEF WriterOK
    <2> QED
      BY <1>1, <1>5, <2>1, <2>2, WriterStays
  <1>11. RequestOK(r)'
    <2>1. req[r].i \in DOMAIN req[r].form /\ req[r].i = 1 /\ DOMAIN req[r].form \subseteq Nat \ {0}
      BY <1>1, OnElement, Known DEF OnForm, At, Registering
    <2>2. OnForm(r)' /\ Entered(r)'
      BY <1>2, <1>3, <1>5, <2>1 DEF OnForm, Entered, Registering
    <2>3. StillSo(r)'
      BY <1>2, <1>3, <1>5, <1>6, <1>7 DEF StillSo
    <2>4. \A row \in m.own : Joined(row)'
      <3>1. \A row \in m.own : row.salon \in SalonIds /\ Joined(row)
        BY <1>3, Known DEF Row
      <3> QED
        BY <1>8, <3>1 DEF Joined, Steady
    <2> QED
      BY <1>5, <2>2, <2>3, <2>4 DEF RequestOK
  <1>12. \A q \in Req : Rely(q)
    BY <1>1, <1>8, RelySteady
  <1> QED
    BY <1>5, <1>9, <1>10, <1>11, <1>12, Assembled

LEMMA SelectServiceKeeps ==
  ASSUME RegistryInv, NEW r \in Req, SelectService(r) PROVE RegistryInv'
  <1> DEFINE found == Named(Wanted(r))
             it == CHOOSE i \in found : TRUE
  <1>1. /\ At(r, "select") /\ UNCHANGED <<tables, writer, verified>> /\ req[r].pc \in Registering
        /\ req[r].pc \in Registering \ {"insert"} /\ req[r].salon \in SalonIds
    BY Known DEF SelectService, At, Registering, OnForm
  <1>2. Wanted(r) # NoName
    BY <1>1, OnElement
  <1>3. UNCHANGED <<salons, services, service_seq, salon_services, cascaded, writer>>
    BY <1>1 DEF tables
  <1>4. CASE found = {}
    <2> DEFINE m == [req[r] EXCEPT !.pc = "service"]
    <2>1. /\ m \in Request /\ m.pc = "service" /\ m.own = req[r].own /\ m.raced = req[r].raced
          /\ m.form = req[r].form /\ m.i = req[r].i /\ m.salon = req[r].salon
      BY Known DEF Request, Places, Registering
    <2>2. req' = [req EXCEPT ![r] = m]
      BY <1>4, Known DEF SelectService
    <2> HIDE DEF m
    <2>3. req'[r] = m
      BY <2>1, <2>2, Known
    <2>4. OnForm(r)'
      BY <1>1, <2>1, <2>3, Known DEF OnForm, Registering
    <2>5. Entered(r)'
      BY <1>1, <1>3, <2>1, <2>3, Known DEF Entered, At, Registering
    <2>6. StillSo(r)'
      <3>1. Named(Wanted(r))' = {}
        BY <1>3, <1>4, <2>1, <2>3 DEF Named, Wanted
      <3> QED
        BY <1>1, <1>3, <2>1, <2>3, <3>1, Known DEF StillSo, Registering, At
    <2>7. RequestOK(r)'
      BY <1>3, <2>1, <2>3, <2>4, <2>5, <2>6, Known DEF RequestOK, Joined
    <2>8. writer = r => m.pc \in Registering
      BY <2>1 DEF Registering
    <2> QED
      BY <1>1, <2>1, <2>2, <2>7, <2>8, Known, LocalStep DEF DataOK
  <1>5. CASE found # {}
    <2> DEFINE m == [req[r] EXCEPT !.pc = "link", !.service = it]
    <2>1. it \in found
      BY <1>5
    <2> HIDE DEF it
    <2>2. it \in ServiceIds /\ services[it] = Wanted(r)
      BY <2>1 DEF Named
    <2>3. it \in 1 .. service_seq /\ it \in 0 .. MaxServices
      BY <1>2, <2>2, Known DEF DataOK, ServiceIds
    <2>4. /\ m \in Request /\ m.pc = "link" /\ m.own = req[r].own /\ m.raced = req[r].raced
          /\ m.form = req[r].form /\ m.i = req[r].i /\ m.salon = req[r].salon /\ m.service = it
      BY <2>3, Known DEF Request, Places, Registering
    <2>5. req' = [req EXCEPT ![r] = m]
      BY <1>5, Known DEF SelectService, it
    <2> HIDE DEF m
    <2>6. req'[r] = m
      BY <2>4, <2>5, Known
    <2>7. OnForm(r)'
      <3>1. Wanted(r)' = Wanted(r)
        BY <2>4, <2>6 DEF Wanted
      <3> QED
        BY <1>1, <1>3, <2>2, <2>3, <2>4, <2>6, <3>1, Known DEF OnForm, Registering
    <2>8. Entered(r)'
      BY <1>1, <1>3, <2>4, <2>6, Known DEF Entered, At, Registering
    <2>9. StillSo(r)'
      BY <1>1, <1>2, <1>3, <2>2, <2>4, <2>6, Known DEF StillSo, Registering, At
    <2>10. RequestOK(r)'
      BY <1>3, <2>4, <2>6, <2>7, <2>8, <2>9, Known DEF RequestOK, Joined
    <2>11. writer = r => m.pc \in Registering
      BY <2>4 DEF Registering
    <2> QED
      BY <1>1, <2>4, <2>5, <2>10, <2>11, Known, LocalStep DEF DataOK
  <1> QED
    BY <1>4, <1>5

\* An exception ends a registration that something came in between of, and
\* what it has not committed is gone.
LEMMA FailKeeps ==
  ASSUME RegistryInv, NEW r \in Req, Fail(r), req[r].pc \in Registering, Unlocked(r), req[r].raced
  PROVE  RegistryInv'
  <1> DEFINE m == [req[r] EXCEPT !.pc = "failed", !.own = {}]
  <1>1. /\ m \in Request /\ m.pc = "failed" /\ m.own = {} /\ m.raced /\ m.form = req[r].form
    <2>1. req[r] \in Request
      BY Known
    <2> QED
      BY <2>1 DEF Request, Places, Outcomes
  <1>2. req' = [req EXCEPT ![r] = m]
    BY Known DEF Fail
  <1>3. writer' = NoReq /\ UNCHANGED <<salons, salon_seq, services, service_seq, salon_services, cascaded, verified>>
    BY DEF Fail, Unlocked, tables
  <1> HIDE DEF m
  <1>4. Becomes(r, m) /\ req'[r] = m
    BY <1>1, <1>2, OwnChange, Known
  <1>5. DataOK'
    BY <1>3, Known DEF DataOK, Joined
  <1>6. WriterOK'
    BY <1>1, <1>3, <1>4, WriterLeaves
  <1>7. OnForm(r)' /\ Entered(r)' /\ StillSo(r)' /\ \A row \in m.own : Joined(row)'
    BY <1>1, <1>4 DEF OnForm, Entered, StillSo, Registering
  <1>8. \A q \in Req : Rely(q)
    BY <1>3, RelySteady DEF Steady
  <1> QED
    BY <1>4, <1>5, <1>6, <1>7, <1>8, Assembled DEF RequestOK

\* A new service gets a number that no row refers to yet.
LEMMA AddServiceKeeps ==
  ASSUME RegistryInv, NEW r \in Req, At(r, "service"), Unlocked(r), AddService(r)
  PROVE  RegistryInv'
  <1> DEFINE new == service_seq + 1
             m   == [req[r] EXCEPT !.pc = "link", !.own = {}, !.service = new]
  <1>1. /\ service_seq < MaxServices /\ service_seq' = new /\ writer' = NoReq
        /\ services' = [services EXCEPT ![new] = Wanted(r)]
        /\ salon_services' = salon_services \cup req[r].own
        /\ UNCHANGED <<salons, salon_seq, cascaded, verified>>
    BY DEF AddService
  <1>2. /\ new \in ServiceIds /\ new \in 0 .. MaxServices /\ new \in 1 .. service_seq' /\ new > service_seq
        /\ service_seq \in Nat
    BY <1>1, Known DEF ServiceIds, DataOK
  <1>3. /\ m \in Request /\ m.pc = "link" /\ m.own = {} /\ m.raced = req[r].raced
        /\ m.form = req[r].form /\ m.i = req[r].i /\ m.salon = req[r].salon /\ m.service = new
    BY <1>2, Known DEF Request, Places, Registering
  <1>4. req' = Raced(r, [req EXCEPT ![r] = m])
    BY <1>1, Known DEF AddService
  <1> HIDE DEF m, new
  <1>5. Becomes(r, m) /\ \A q \in Req \ {r} : req[q].pc \in Registering => req'[q].raced
    BY <1>3, <1>4, RacedChange
  <1>6. req'[r] = m /\ req[r].pc \in Registering /\ req[r].pc \in Registering \ {"insert"} /\ req[r].pc = "service"
    BY <1>5 DEF Becomes, At, Registering
  <1>7. /\ Wanted(r) \in Names /\ Wanted(r) # NoName
        /\ services[new] = NoName /\ services'[new] = Wanted(r)
        /\ \A i \in ServiceIds : i # new => services'[i] = services[i]
    BY <1>1, <1>2, <1>6, OnElement, Known DEF DataOK
  <1>8. ASSUME NEW row \in Row, Joined(row) PROVE Joined(row)'
    <2>1. row.service \in ServiceIds /\ services[row.service] # NoName
      BY <1>8, NoAssumption DEF Row, Joined
    <2> QED
      BY <1>1, <1>7, <1>8, <2>1 DEF Joined
  <1>9. DataOK'
    <2>1. services' \in [ServiceIds -> Names \cup {NoName}]
      BY <1>1, <1>2, <1>7, Known DEF DataOK
    <2>2. \A i \in ServiceIds : i > service_seq' => services'[i] = NoName
      BY <1>1, <1>2, <1>7, Known DEF DataOK, ServiceIds, new
    <2>3. \A row \in salon_services' : row \in Row /\ Joined(row)
      BY <1>1, Known DEF DataOK
    <2>4. \A row \in salon_services' : Joined(row)'
      BY <1>8, <2>3
    <2> QED
      BY <1>1, <1>2, <2>1, <2>2, <2>3, <2>4, Known DEF DataOK
  <1>10. WriterOK'
    BY <1>1, <1>3, <1>5, WriterLeaves
  <1>11. RequestOK(r)'
    <2>1. OnForm(r)'
      <3>1. Wanted(r)' = Wanted(r)
        BY <1>3, <1>6 DEF Wanted
      <3> QED
        BY <1>2, <1>3, <1>6, <1>7, <3>1, Known DEF OnForm, Registering
    <2>2. Entered(r)'
      <3>1. \A row \in salon_services \cup cascaded \cup req[r].own : row \in salon_services' \cup cascaded' \cup m.own
        BY <1>1
      <3> QED
        BY <1>3, <1>6, <3>1, Known DEF Entered, Registering
    <2>3. StillSo(r)'
      BY <1>1, <1>3, <1>6, <1>7, Known DEF StillSo, Registering
    <2> QED
      BY <1>3, <1>6, <2>1, <2>2, <2>3 DEF RequestOK
  <1>12. ASSUME NEW q \in Req \ {r} PROVE Rely(q)
    <2>1. req[q].own = {}
      BY Known, NoAssumption DEF WriterOK, Unlocked
    <2>2. \A i \in 1 .. service_seq : services'[i] = services[i]
      BY <1>2, <1>7, Known DEF ServiceIds, DataOK
    <2>3. service_seq' \in Nat /\ service_seq <= service_seq'
      BY <1>1, <1>2 DEF new
    <2> QED
      BY <1>1, <1>5, <2>1, <2>2, <2>3 DEF Rely
  <1> QED
    BY <1>5, <1>9, <1>10, <1>11, <1>12, Assembled

LEMMA InsertServiceKeeps ==
  ASSUME RegistryInv, NEW r \in Req, InsertService(r) PROVE RegistryInv'
  <1>1. At(r, "service") /\ Unlocked(r) /\ req[r].pc \in Registering
    BY DEF InsertService, At, Registering
  <1>2. CASE Named(Wanted(r)) # {}
    <2>1. req[r].raced
      BY <1>1, <1>2, Known DEF StillSo, At
    <2> QED
      BY <1>1, <1>2, <2>1, FailKeeps DEF InsertService
  <1>3. CASE Named(Wanted(r)) = {}
    BY <1>1, <1>3, AddServiceKeeps DEF InsertService
  <1> QED
    BY <1>2, <1>3

\* A row is added to the transaction for the element of the form.
LEMMA LinkedKeeps ==
  ASSUME RegistryInv, NEW r \in Req, InsertLink(r),
         salons[req[r].salon] # NoSalon, services[req[r].service] # NoName
  PROVE  RegistryInv'
  <1> DEFINE me == req[r]
             last == me.i = Len(me.form)
             row == [salon |-> me.salon, service |-> me.service, name |-> Wanted(r)]
             m == [me EXCEPT !.own = @ \cup {row}, !.i = IF last THEN @ ELSE @ + 1,
                             !.pc = IF last THEN "commit" ELSE "select"]
  <1>1. /\ me.pc = "link" /\ me.pc \in Registering /\ Unlocked(r) /\ writer' = r
        /\ UNCHANGED <<salons, salon_seq, services, service_seq, salon_services, cascaded, verified>>
    BY DEF InsertLink, At, Registering, tables
  <1>2. /\ me.salon \in SalonIds /\ me.service \in 1 .. service_seq /\ services[me.service] = Wanted(r)
        /\ me.i \in DOMAIN me.form /\ DOMAIN me.form = 1 .. Len(me.form) /\ Len(me.form) \in Nat
        /\ me.i \in Nat /\ Wanted(r) \in Names
    BY <1>1, OnElement, Known DEF OnForm, Registering
  <1>3. row \in Row /\ row.salon = me.salon /\ row.name = Wanted(r) /\ Joined(row)
    <2>1. me.service \in ServiceIds
      BY <1>2, Known DEF DataOK, ServiceIds
    <2> QED
      BY <1>2, <2>1 DEF Row, Joined
  <1> HIDE DEF row
  <1>4. /\ m \in Request /\ m.own = me.own \cup {row} /\ m.i = (IF last THEN me.i ELSE me.i + 1)
        /\ m.pc = (IF last THEN "commit" ELSE "select")
        /\ m.form = me.form /\ m.salon = me.salon /\ m.raced = me.raced
    <2>1. me.own \cup {row} \in SUBSET Row /\ (IF last THEN me.i ELSE me.i + 1) \in Nat
          /\ (IF last THEN "commit" ELSE "select") \in Places
      BY <1>2, <1>3, Known DEF Places, Registering
    <2> QED
      BY <2>1, Known DEF Request
  <1>5. req' = [req EXCEPT ![r] = m]
    BY Known DEF InsertLink, row
  <1> HIDE DEF m
  <1>6. Becomes(r, m) /\ req'[r] = m
    BY <1>4, <1>5, OwnChange, Known
  <1>7. DataOK'
    BY <1>1, Known DEF DataOK, Joined
  <1>8. WriterOK'
    <2>1. ASSUME NEW q \in Req \ {r} PROVE req'[q].own = {} /\ req'[q].pc # "commit"
      <3>1. writer # q
        BY <1>1, NoAssumption DEF Unlocked
      <3>2. req[q].own = {} /\ req[q].pc # "commit"
        BY <3>1, Known DEF WriterOK
      <3> QED
        BY <1>6, <3>2 DEF Becomes, Alike
    <2> QED
      BY <1>1, <1>4, <1>6, <2>1 DEF WriterOK, Registering
  <1>9. m.pc \in Registering \ {"insert"} /\ m.pc \notin {"link", "service"} /\ m.pc \in {"commit", "select"}
    BY <1>4 DEF Registering
  <1>10. OnForm(r)'
    <2>1. m.i \in DOMAIN m.form
      BY <1>2, <1>4
    <2> QED
      BY <1>2, <1>4, <1>6, <1>9, <2>1 DEF OnForm
  <1>11. Entered(r)'
    <2> SUFFICES ASSUME NEW k \in DOMAIN me.form, k < m.i \/ m.pc = "commit"
                 PROVE \E x \in salon_services \cup cascaded \cup m.own : x.salon = me.salon /\ x.name = me.form[k]
      BY <1>1, <1>4, <1>6, <1>9 DEF Entered
    <2>1. k \in Nat /\ (k < me.i \/ k = me.i)
      BY <1>2, <1>4
    <2>2. CASE k = me.i
      BY <1>3, <1>4, <2>2 DEF Wanted
    <2>3. CASE k < me.i
      <3>1. PICK x \in salon_services \cup cascaded \cup me.own : x.salon = me.salon /\ x.name = me.form[k]
        BY <1>1, <2>3, Known DEF Entered
      <3> QED
        BY <1>4, <3>1
    <2> QED
      BY <2>1, <2>2, <2>3
  <1>12. StillSo(r)'
    BY <1>1, <1>4, <1>6, <1>9 DEF StillSo
  <1>13. \A x \in m.own : Joined(x)'
    BY <1>1, <1>3, <1>4, Known DEF Joined
  <1>14. RequestOK(r)'
    BY <1>6, <1>10, <1>11, <1>12, <1>13 DEF RequestOK
  <1>15. \A q \in Req : Rely(q)
    BY <1>1, RelySteady DEF Steady
  <1> QED
    BY <1>6, <1>7, <1>8, <1>14, <1>15, Assembled

LEMMA InsertLinkKeeps ==
  ASSUME RegistryInv, NEW r \in Req, InsertLink(r) PROVE RegistryInv'
  <1>1. CASE salons[req[r].salon] = NoSalon \/ services[req[r].service] = NoName
    <2>1. Fail(r) /\ Unlocked(r) /\ req[r].pc = "link" /\ req[r].pc \in Registering \ {"insert"}
      BY <1>1 DEF InsertLink, At, Registering
    <2>2. req[r].raced
      BY <1>1, <2>1, Known DEF StillSo
    <2> QED
      BY <2>1, <2>2, FailKeeps
  <1> QED
    BY <1>1, LinkedKeeps

LEMMA CommitKeeps ==
  ASSUME RegistryInv, NEW r \in Req, Commit(r) PROVE RegistryInv'
  <1> DEFINE m == [req[r] EXCEPT !.pc = "ok", !.own = {}]
  <1>1. /\ req[r].pc = "commit" /\ req[r].pc \in Registering /\ writer' = NoReq
        /\ salon_services' = salon_services \cup req[r].own
        /\ UNCHANGED <<salons, salon_seq, services, service_seq, cascaded>>
        /\ verified' = [verified EXCEPT ![req[r].browser] = req[r].session]
    BY DEF Commit, At, Answer, Registering
  <1>2. /\ m \in Request /\ m.pc = "ok" /\ m.own = {} /\ m.form = req[r].form /\ m.salon = req[r].salon
    BY Known DEF Request, Places, Outcomes
  <1>3. req' = [req EXCEPT ![r] = m]
    BY Known DEF Commit, Answer
  <1> HIDE DEF m
  <1>4. Becomes(r, m) /\ req'[r] = m
    BY <1>2, <1>3, OwnChange, Known
  <1>5. DataOK'
    <2>1. verified' \in [Browsers -> 0 .. MaxSalons]
      BY <1>1, Known DEF DataOK
    <2> QED
      BY <1>1, <2>1, Known DEF DataOK, Joined
  <1>6. OnForm(r)' /\ StillSo(r)' /\ \A row \in m.own : Joined(row)'
    BY <1>2, <1>4 DEF OnForm, StillSo, Registering
  <1>7. Entered(r)'
    <2>1. \A row \in salon_services \cup cascaded \cup req[r].own : row \in salon_services' \cup cascaded' \cup m.own
      BY <1>1
    <2> QED
      BY <1>1, <1>2, <1>4, <2>1, Known DEF Entered
  <1>8. \A q \in Req : Rely(q)
    BY <1>1, RelySteady DEF Steady
  <1>9. WriterOK'
    <2>1. writer = r
      BY <1>1, Known DEF WriterOK
    <2> QED
      BY <1>1, <1>2, <1>4, <2>1, WriterLeaves
  <1> QED
    BY <1>4, <1>5, <1>6, <1>7, <1>8, <1>9, Assembled DEF RequestOK

-----------------------------------------------------------------------------
(* Ratings, switches, time-outs and deletions                              *)

\* A request that is no registration changes only its own record and cookie.
LEMMA VisitKeeps ==
  ASSUME RegistryInv, NEW r \in Req, NEW m \in Request, req' = [req EXCEPT ![r] = m],
         req[r].pc \notin Registering, UNCHANGED <<tables, writer>>,
         verified' \in [Browsers -> 0 .. MaxSalons], m.own = {}, m.form = <<>>, m.salon \in SalonIds,
         m.pc \notin Registering
  PROVE  RegistryInv'
  <1>1. req'[r] = m /\ req[r].own = {} /\ writer # r
    BY Known
  <1>2. OnForm(r)' /\ Entered(r)' /\ StillSo(r)' /\ \A row \in m.own : Joined(row)'
    BY <1>1 DEF OnForm, Entered, StillSo, Registering
  <1> QED
    BY <1>1, <1>2, LocalStep DEF RequestOK, Registering

LEMMA VisitRequestKeeps ==
  ASSUME RegistryInv, NEW r \in Req, NEW b \in Browsers, RateRequest(r, b) \/ ToggleRequest(r, b)
  PROVE  RegistryInv'
  <1>1. verified[b] \in 0 .. MaxSalons /\ MaxSalons \in Nat /\ salon_seq \in 1 .. MaxSalons
    BY Known DEF DataOK, SalonIds
  <1>2. ASSUME NEW s \in 1 .. salon_seq, NEW request \in Request, request.own = {}, request.form = <<>>,
               request.salon = s, request.pc \notin Registering, Arrive(r, b, request)
        PROVE RegistryInv'
    <2> DEFINE m == [request EXCEPT !.browser = b, !.session = verified[b]]
    <2>1. s \in SalonIds
      BY <1>1 DEF SalonIds
    <2>2. m \in Request /\ m.own = {} /\ m.form = <<>> /\ m.salon \in SalonIds /\ m.pc \notin Registering
      BY <1>1, <1>2, <2>1 DEF Request
    <2>3. req' = [req EXCEPT ![r] = m] /\ req[r].pc \notin Registering /\ UNCHANGED <<tables, writer, verified>>
      BY <1>2 DEF Arrive, At, Registering
    <2> HIDE DEF m
    <2>4. verified' \in [Browsers -> 0 .. MaxSalons]
      BY <2>3, Known DEF DataOK
    <2> QED
      BY <2>2, <2>3, <2>4, VisitKeeps
  <1>3. ASSUME NEW s \in 1 .. salon_seq, NEW v \in Ratings,
               Arrive(r, b, [New EXCEPT !.pc = "rateSelect", !.salon = s, !.rating = v])
        PROVE RegistryInv'
    <2> DEFINE request == [New EXCEPT !.pc = "rateSelect", !.salon = s, !.rating = v]
    <2>1. s \in 0 .. MaxSalons
      BY <1>1
    <2>2. /\ request \in Request /\ request.own = {} /\ request.form = <<>> /\ request.salon = s
          /\ request.pc = "rateSelect"
      BY <2>1, NewRequest DEF Request, Places
    <2> HIDE DEF request
    <2> QED
      BY <1>2, <1>3, <2>2 DEF Registering, request
  <1>4. ASSUME NEW s \in 1 .. salon_seq, Arrive(r, b, [New EXCEPT !.pc = "toggleSelect", !.salon = s])
        PROVE RegistryInv'
    <2> DEFINE request == [New EXCEPT !.pc = "toggleSelect", !.salon = s]
    <2>1. s \in 0 .. MaxSalons
      BY <1>1
    <2>2. /\ request \in Request /\ request.own = {} /\ request.form = <<>> /\ request.salon = s
          /\ request.pc = "toggleSelect"
      BY <2>1, NewRequest DEF Request, Places
    <2> HIDE DEF request
    <2> QED
      BY <1>2, <1>4, <2>2 DEF Registering, request
  <1> QED
    BY <1>3, <1>4 DEF RateRequest, ToggleRequest

\* A salon as it was read is one there may be.
LEMMA RowRead ==
  ASSUME RegistryInv, NEW r \in Req, req[r].pc \in {"rateSelect", "rate", "toggleSelect", "toggle"}
  PROVE  /\ req[r].form = <<>> /\ req[r].salon \in SalonIds /\ salons[req[r].salon] \in Salon \cup {NoSalon}
         /\ req[r].pc \notin Registering /\ req[r].own = {} /\ writer # r
  <1>1. req[r].pc \notin Registering
    BY DEF Registering
  <1> QED
    BY <1>1, Known DEF OnForm, DataOK

LEMMA RefusedKeeps ==
  ASSUME RegistryInv, NEW r \in Req, req[r].pc \in {"rateSelect", "toggleSelect"},
         Answer(r, "refused", req[r].session), UNCHANGED <<tables, writer>>
  PROVE  RegistryInv'
  <1> DEFINE m == [req[r] EXCEPT !.pc = "refused", !.own = {}]
  <1>1. /\ m \in Request /\ m.pc = "refused" /\ m.own = {} /\ m.form = req[r].form /\ m.salon = req[r].salon
    BY Known DEF Request, Places, Outcomes
  <1>2. req' = [req EXCEPT ![r] = m]
    BY Known DEF Answer
  <1> HIDE DEF m
  <1>3. verified' \in [Browsers -> 0 .. MaxSalons]
    BY Known DEF DataOK, Answer
  <1>4. m.pc \notin Registering
    BY <1>1 DEF Registering
  <1> QED
    BY <1>1, <1>2, <1>3, <1>4, RowRead, VisitKeeps

LEMMA RateSelectKeeps ==
  ASSUME RegistryInv, NEW r \in Req, RateSelect(r) PROVE RegistryInv'
  <1>1. req[r].pc = "rateSelect" /\ UNCHANGED <<tables, writer>>
    BY DEF RateSelect, At
  <1>2. CASE salons[req[r].salon] = NoSalon
    BY <1>1, <1>2, RefusedKeeps DEF RateSelect
  <1>3. CASE salons[req[r].salon] # NoSalon
    <2> DEFINE m == [req[r] EXCEPT !.pc = "rate", !.row = salons[req[r].salon]]
    <2>1. /\ m \in Request /\ m.pc = "rate" /\ m.own = req[r].own /\ m.form = req[r].form
          /\ m.salon = req[r].salon
      BY <1>1, RowRead, Known DEF Request, Places
    <2>2. req' = [req EXCEPT ![r] = m] /\ verified' = verified
      BY <1>3, Known DEF RateSelect
    <2> HIDE DEF m
    <2>3. m.pc \notin Registering /\ verified' \in [Browsers -> 0 .. MaxSalons]
      BY <2>1, <2>2, Known DEF Registering, DataOK
    <2> QED
      BY <1>1, <2>1, <2>2, <2>3, RowRead, VisitKeeps
  <1> QED
    BY <1>2, <1>3

LEMMA ToggleSelectKeeps ==
  ASSUME RegistryInv, NEW r \in Req, ToggleSelect(r) PROVE RegistryInv'
  <1>1. req[r].pc = "toggleSelect" /\ UNCHANGED <<tables, writer>>
    BY DEF ToggleSelect, At
  <1>2. CASE Answer(r, "refused", req[r].session)
    BY <1>1, <1>2, RefusedKeeps
  <1>3. CASE /\ req' = [req EXCEPT ![r].pc = "toggle", ![r].row = salons[req[r].salon],
                                  ![r].session = req[r].salon]
             /\ UNCHANGED verified
    <2> DEFINE m == [req[r] EXCEPT !.pc = "toggle", !.row = salons[req[r].salon], !.session = req[r].salon]
    <2>1. req[r].salon \in 0 .. MaxSalons
      BY Known DEF Request
    <2>2. /\ m \in Request /\ m.pc = "toggle" /\ m.own = req[r].own /\ m.form = req[r].form
          /\ m.salon = req[r].salon
      BY <1>1, <2>1, RowRead, Known DEF Request, Places
    <2>3. req' = [req EXCEPT ![r] = m] /\ verified' = verified
      BY <1>3, Known
    <2> HIDE DEF m
    <2>4. m.pc \notin Registering /\ verified' \in [Browsers -> 0 .. MaxSalons]
      BY <2>2, <2>3, Known DEF Registering, DataOK
    <2> QED
      BY <1>1, <2>2, <2>3, <2>4, RowRead, VisitKeeps
  <1> QED
    BY <1>2, <1>3 DEF ToggleSelect

\* An UPDATE of a salon that is there keeps it there, one of a salon that is
\* gone does nothing.
LEMMA UpdateKeeps ==
  ASSUME RegistryInv, NEW r \in Req, req[r].pc \in {"rate", "toggle"}, NEW row,
         salons[req[r].salon] # NoSalon => row \in Salon, Update(r, row)
  PROVE  RegistryInv'
  <1>1. /\ salons' = [salons EXCEPT ![req[r].salon] = IF @ = NoSalon THEN NoSalon ELSE row]
        /\ req' = Done(r) /\ verified' = [verified EXCEPT ![req[r].browser] = req[r].session]
        /\ UNCHANGED <<salon_seq, services, service_seq, salon_services, cascaded, writer>>
    BY DEF Update
  <1>2. PICK m \in Request : /\ Becomes(r, m) /\ m.pc = "ok" /\ m.own = req[r].own /\ m.form = req[r].form
                             /\ m.raced = req[r].raced
    BY <1>1, DoneChange
  <1>3. /\ req[r].form = <<>> /\ req[r].salon \in SalonIds /\ req[r].own = {} /\ writer # r
        /\ salons[req[r].salon] \in Salon \cup {NoSalon}
    BY RowRead
  <1>4. NoSalon \notin Salon
    BY DEF NoSalon, Salon
  <1>5. /\ salons' \in [SalonIds -> {NoSalon} \cup Salon]
        /\ \A s \in SalonIds : salons'[s] = NoSalon <=> salons[s] = NoSalon
    BY <1>1, <1>3, <1>4, Known DEF DataOK
  <1>6. Steady
    BY <1>1, <1>5 DEF Steady
  <1>7. DataOK'
    <2>1. verified' \in [Browsers -> 0 .. MaxSalons]
      BY <1>1, Known DEF DataOK
    <2>2. \A x \in salon_services : x.salon \in SalonIds /\ Joined(x)
      BY Known DEF DataOK, Row
    <2>3. \A x \in salon_services' : Joined(x)'
      BY <1>1, <1>6, <2>2 DEF Joined, Steady
    <2> QED
      BY <1>1, <1>5, <2>1, <2>3, Known DEF DataOK
  <1>8. WriterOK'
    BY <1>1, <1>2, <1>3, WriterStays
  <1>9. RequestOK(r)'
    <2>1. req'[r] = m
      BY <1>2 DEF Becomes
    <2>2. OnForm(r)' /\ Entered(r)' /\ StillSo(r)' /\ \A x \in m.own : Joined(x)'
      BY <1>2, <1>3, <2>1 DEF OnForm, Entered, StillSo, Registering
    <2> QED
      BY <2>1, <2>2 DEF RequestOK
  <1>10. \A q \in Req : Rely(q)
    BY <1>1, <1>6, RelySteady
  <1> QED
    BY <1>2, <1>7, <1>8, <1>9, <1>10, Assembled

LEMMA RateUpdateKeeps ==
  ASSUME RegistryInv, NEW r \in Req, RateUpdate(r) PROVE RegistryInv'
  <1> DEFINE total == req[r].row.total + req[r].rating
             count == req[r].row.count + 1
             row == [salons[req[r].salon] EXCEPT !.total = total, !.count = count]
  <1>1. req[r].pc = "rate" /\ Update(r, row)
    BY DEF RateUpdate, At
  <1>2. req[r].row \in Salon \cup {NoSalon} /\ req[r].rating \in Ratings \cup {0}
    BY Known DEF Request
  <1>3. req[r].row.total \in Nat /\ req[r].row.count \in Nat
    BY <1>2 DEF Salon, NoSalon
  <1>4. req[r].rating \in Nat
    BY <1>2, RatingsAssumption
  <1>5. total \in Nat /\ count \in Nat
    BY <1>3, <1>4
  <1> HIDE DEF total, count
  <1>6. salons[req[r].salon] # NoSalon => row \in Salon
    BY <1>1, <1>5, RowRead DEF Salon
  <1> QED
    BY <1>1, <1>6, UpdateKeeps

LEMMA ToggleUpdateKeeps ==
  ASSUME RegistryInv, NEW r \in Req, ToggleUpdate(r) PROVE RegistryInv'
  <1> DEFINE status == Flipped(req[r].row.status)
             row == [salons[req[r].salon] EXCEPT !.status = status]
  <1>1. req[r].pc = "toggle" /\ Update(r, row)
    BY DEF ToggleUpdate, At
  <1>2. status \in {"ON", "OFF"}
    BY DEF Flipped
  <1> HIDE DEF status
  <1>3. salons[req[r].salon] # NoSalon => row \in Salon
    BY <1>1, <1>2, RowRead DEF Salon
  <1> QED
    BY <1>1, <1>3, UpdateKeeps

LEMMA TimedOutKeeps ==
  ASSUME RegistryInv, NEW r \in Req, TimedOut(r) PROVE RegistryInv'
  <1> DEFINE m == [req[r] EXCEPT !.pc = "failed", !.raced = TRUE]
  <1>1. /\ m \in Request /\ m.pc = "failed" /\ m.own = req[r].own /\ m.raced
    BY Known DEF Request, Places, Outcomes
  <1>2. req' = [req EXCEPT ![r] = m] /\ UNCHANGED <<tables, writer, verified>> /\ writer # r
    BY Known DEF TimedOut, Unlocked
  <1> HIDE DEF m
  <1>3. req'[r] = m /\ m.own = {}
    BY <1>1, <1>2, Known DEF WriterOK
  <1>4. OnForm(r)' /\ Entered(r)' /\ StillSo(r)' /\ \A x \in m.own : Joined(x)'
    BY <1>1, <1>3 DEF OnForm, Entered, StillSo, Registering
  <1> QED
    BY <1>1, <1>2, <1>3, <1>4, Known, LocalStep DEF RequestOK, DataOK

\* Nothing is deleted while a transaction is open; the rows that refer to what
\* is deleted go with it.
LEMMA CascadeKeeps ==
  ASSUME RegistryInv, NEW gone, gone \subseteq salon_services, Cascade(gone),
         salons' \in [SalonIds -> {NoSalon} \cup Salon],
         \A i \in ServiceIds : services'[i] \in {services[i], NoName},
         services' \in [ServiceIds -> Names \cup {NoName}],
         \A row \in salon_services \ gone : Joined(row)'
  PROVE  RegistryInv'
  <1>1. /\ writer = NoReq /\ salon_services' = salon_services \ gone /\ cascaded' = cascaded \cup gone
        /\ req' = Raced(NoReq, req) /\ UNCHANGED <<salon_seq, service_seq, writer, verified>>
    BY DEF Cascade
  <1>2. DataOK /\ WriterOK /\ \A r \in Req : RequestOK(r)
    BY InvSplit
  <1>3. /\ req' \in [Req -> Request]
        /\ \A q \in Req : Alike(q) /\ (req[q].pc \in Registering => req'[q].raced)
    BY <1>1, RacedAll
  <1>4. \A q \in Req : req[q].own = {} /\ req[q].pc # "commit"
    BY <1>1, <1>2, NoAssumption DEF WriterOK
  <1>5. DataOK'
    BY <1>1, <1>2 DEF DataOK
  <1>6. WriterOK'
    BY <1>1, <1>3, <1>4 DEF WriterOK, Alike
  <1>7. ASSUME NEW q \in Req PROVE RequestOK(q)'
    <2>1. service_seq \in Nat /\ \A i \in 1 .. service_seq : i \in ServiceIds
      BY <1>2, Known DEF DataOK, ServiceIds
    <2>2. Rely(q)
      BY <1>1, <1>3, <1>4, <2>1 DEF Rely
    <2> QED
      BY <1>3, <2>2, OtherRequests
  <1> QED
    BY <1>3, <1>5, <1>6, <1>7, InvSplitAfter

LEMMA DeleteSalonKeeps ==
  ASSUME RegistryInv, NEW s \in SalonIds, DeleteSalon(s) PROVE RegistryInv'
  <1> DEFINE gone == {row \in salon_services : row.salon = s}
  <1>1. Cascade(gone) /\ salons' = [salons EXCEPT ![s] = NoSalon] /\ services' = services
    BY DEF DeleteSalon
  <1>2. DataOK
    BY InvSplit
  <1>3. \A row \in salon_services \ gone : Joined(row)'
    <2>1. \A row \in salon_services : row.salon \in SalonIds /\ Joined(row)
      BY <1>2 DEF DataOK, Row
    <2> QED
      BY <1>1, <1>2, <2>1 DEF Joined, DataOK
  <1>4. salons' \in [SalonIds -> {NoSalon} \cup Salon] /\ services' \in [ServiceIds -> Names \cup {NoName}]
    BY <1>1, <1>2 DEF DataOK
  <1> QED
    BY <1>1, <1>3, <1>4, CascadeKeeps

LEMMA DeleteServiceKeeps ==
  ASSUME RegistryInv, NEW i \in ServiceIds, DeleteService(i) PROVE RegistryInv'
  <1> DEFINE gone == {row \in salon_services : row.service = i}
  <1>1. Cascade(gone) /\ services' = [services EXCEPT ![i] = NoName] /\ salons' = salons
    BY DEF DeleteService
  <1>2. DataOK
    BY InvSplit
  <1>3. \A row \in salon_services \ gone : Joined(row)'
    <2>1. \A row \in salon_services : row.service \in ServiceIds /\ Joined(row)
      BY <1>2 DEF DataOK, Row
    <2> QED
      BY <1>1, <1>2, <2>1 DEF Joined, DataOK
  <1>4. /\ salons' \in [SalonIds -> {NoSalon} \cup Salon] /\ services' \in [ServiceIds -> Names \cup {NoName}]
        /\ \A k \in ServiceIds : services'[k] \in {services[k], NoName}
    BY <1>1, <1>2 DEF DataOK
  <1> QED
    BY <1>1, <1>3, <1>4, CascadeKeeps

LEMMA RegistryInit == Init => RegistryInv
  <1> SUFFICES ASSUME Init PROVE RegistryInv
    OBVIOUS
  <1> DEFINE it == CHOOSE n \in Names : TRUE
  <1>1. it \in Names
    BY SomeAssumption
  <1> HIDE DEF it
  <1>2. 1 \in SalonIds /\ 1 \in ServiceIds /\ 0 \in 0 .. MaxSalons
    BY BoundsAssumption DEF SalonIds, ServiceIds
  <1>3. /\ salons = [s \in SalonIds |-> IF s = 1 THEN NewSalon ELSE NoSalon] /\ salon_seq = 1
        /\ services = [i \in ServiceIds |-> IF i = 1 THEN it ELSE NoName] /\ service_seq = 1
        /\ salon_services = {[salon |-> 1, service |-> 1, name |-> services[1]]}
        /\ cascaded = {} /\ writer = NoReq /\ verified = [b \in Browsers |-> 0]
        /\ req = [r \in Req |-> New]
    BY DEF Init, it
  <1>4. NewSalon # NoSalon /\ NewSalon \in Salon
    BY DEF NewSalon, NoSalon, Salon
  <1>5. services[1] = it /\ salons[1] = NewSalon
    BY <1>2, <1>3
  <1>6. DataOK
    <2>1. salon_services \subseteq Row
      BY <1>1, <1>2, <1>3, <1>5 DEF Row
    <2>2. \A row \in salon_services : Joined(row)
      BY <1>3, <1>4, <1>5 DEF Joined
    <2>3. \A i \in ServiceIds : i > 1 => i # 1
      BY BoundsAssumption DEF ServiceIds
    <2>4. services \in [ServiceIds -> Names \cup {NoName}] /\ salons \in [SalonIds -> {NoSalon} \cup Salon]
      BY <1>1, <1>3, <1>4
    <2> QED
      BY <1>2, <1>3, <2>1, <2>2, <2>3, <2>4 DEF DataOK
  <1>7. WriterOK
    BY <1>3, NewRequest DEF WriterOK
  <1>8. req \in [Req -> Request]
    BY <1>3, NewRequest
  <1>9. ASSUME NEW r \in Req PROVE RequestOK(r)
    <2>1. req[r] = New
      BY <1>3
    <2> QED
      BY <2>1, NewRequest DEF RequestOK, OnForm, Entered, StillSo, Registering
  <1> QED
    BY <1>6, <1>7, <1>8, <1>9, InvSplit

LEMMA RegistryStep == RegistryInv /\ [Next]_vars => RegistryInv'
  <1> SUFFICES ASSUME RegistryInv, [Next]_vars PROVE RegistryInv'
    OBVIOUS
  <1>1. ASSUME NEW r \in Req, Step(r) PROVE RegistryInv'
    BY <1>1, InsertSalonKeeps, SelectServiceKeeps, InsertServiceKeeps, InsertLinkKeeps, CommitKeeps,
       RateSelectKeeps, RateUpdateKeeps, ToggleSelectKeeps, ToggleUpdateKeeps DEF Step
  <1>2. ASSUME UNCHANGED vars PROVE RegistryInv'
    <2>1. UNCHANGED <<salons, salon_seq, services, service_seq, salon_services, cascaded, writer, verified, req>>
      BY <1>2 DEF vars, tables
    <2>2. DataOK /\ WriterOK /\ req \in [Req -> Request] /\ \A r \in Req : RequestOK(r)
      BY InvSplit
    <2>3. DataOK' /\ WriterOK'
      BY <2>1, <2>2 DEF DataOK, WriterOK, Joined
    <2>4. \A q \in Req : RequestOK(q)'
      BY <2>1, RelySteady, AlikeSame, OtherRequests DEF Steady
    <2> QED
      BY <2>1, <2>2, <2>3, <2>4, InvSplitAfter
  <1> QED
    BY <1>1, <1>2, TimedOutKeeps, RegisterRequestKeeps, VisitRequestKeeps, DeleteSalonKeeps, DeleteServiceKeeps
    DEF Next

-----------------------------------------------------------------------------
(* Ratings and switches: what is counted                                   *)

\* A request that is neither a rating nor a switch that was carried out.
Uncounted(q) == req[q].pc = "ok" => req[q].form # <<>> /\ req[q].rating = 0

SameVisit(q) ==
  LET x == req[q]
      y == req'[q] IN
  /\ y.pc = x.pc /\ y.salon = x.salon /\ y.form = x.form /\ y.rating = x.rating
  /\ y.row = x.row /\ y.alone = x.alone

Settled(q) == SameVisit(q) \/ (Uncounted(q) /\ Uncounted(q)')

\* What SoloUpdatesCount says of one salon.
SoloAt(s) ==
  salons[s] # NoSalon =>
    /\ Counted(s, salons[s].total, salons[s].count)
    /\ (\A r \in Toggled(s) : req[r].alone) =>
         (salons[s].status = "ON") = (Cardinality(Toggled(s)) % 2 = 0)

LEMMA UpdatesSplit ==
  UpdatesInv <=> /\ \A r \in Req : Visit(r)
                 /\ \A s \in SalonIds : IsFiniteSet(Toggled(s)) /\ SoloAt(s)
  BY DEF UpdatesInv, SoloUpdatesCount, SoloAt

LEMMA UpdatesSplitAfter ==
  ASSUME \A r \in Req : Visit(r)', \A s \in SalonIds : IsFiniteSet(Toggled(s))' /\ SoloAt(s)'
  PROVE  UpdatesInv'
  BY DEF UpdatesInv, SoloUpdatesCount, SoloAt

LEMMA StarsSame ==
  ASSUME NEW rs, \A q \in rs : req'[q].rating = req[q].rating
  PROVE  Stars(rs)' = Stars(rs)
  BY DEF Stars

LEMMA StarsFinite ==
  ASSUME NEW rs, IsFiniteSet(rs)
  PROVE  IsFiniteSet(Stars(rs)) /\ Cardinality(Stars(rs)) \in Nat
  <1>1. IsFiniteSet(rs \X (1 .. 5))
    <2>1. IsFiniteSet(1 .. 5)
      <3>1. 1 \in Int /\ 5 \in Int
        OBVIOUS
      <3> QED
        BY <3>1, FS_Interval
    <2> QED
      BY <2>1, FS_Product
  <1>2. Stars(rs) \in SUBSET (rs \X (1 .. 5))
    BY DEF Stars
  <1> QED
    BY <1>1, <1>2, FS_Subset, FS_CardinalityType

\* A rating of v adds v stars.
LEMMA StarsGrow ==
  ASSUME NEW rs, IsFiniteSet(rs), NEW r, r \notin rs, req[r].rating \in 1 .. 5
  PROVE  Cardinality(Stars(rs \cup {r})) = Cardinality(Stars(rs)) + req[r].rating
  <1> DEFINE v == req[r].rating
             more == {r} \X (1 .. v)
  <1>1. v \in 1 .. 5 /\ v \in Nat
    OBVIOUS
  <1> HIDE DEF v
  <1>2. IsFiniteSet({r}) /\ Cardinality({r}) = 1
    BY FS_Singleton
  <1>3. IsFiniteSet(1 .. v) /\ Cardinality(1 .. v) = v
    BY <1>1, FS_Interval
  <1>4. IsFiniteSet(more) /\ Cardinality(more) = v
    <2>1. IsFiniteSet(more) /\ Cardinality(more) = Cardinality({r}) * Cardinality(1 .. v)
      BY <1>2, <1>3, FS_Product
    <2> QED
      BY <1>1, <1>2, <1>3, <2>1
  <1>5. Stars(rs \cup {r}) = Stars(rs) \cup more
    <2>1. ASSUME NEW star \in Stars(rs \cup {r}) PROVE star \in Stars(rs) \cup more
      BY <1>1 DEF Stars, v
    <2>2. ASSUME NEW star \in Stars(rs) \cup more PROVE star \in Stars(rs \cup {r})
      BY <1>1 DEF Stars, v
    <2> QED
      BY <2>1, <2>2
  <1>6. Stars(rs) \cap more = {}
    BY DEF Stars
  <1>7. IsFiniteSet(Stars(rs)) /\ Cardinality(Stars(rs)) \in Nat
    BY StarsFinite
  <1>8. Cardinality(Stars(rs) \cap more) = 0
    BY <1>6, FS_EmptySet
  <1> HIDE DEF more
  <1>9. Cardinality(Stars(rs) \cup more) = Cardinality(Stars(rs)) + v - 0
    BY <1>4, <1>7, <1>8, FS_Union
  <1>10. Cardinality(Stars(rs \cup {r})) = Cardinality(Stars(rs)) + v
    <2>1. Cardinality(Stars(rs \cup {r})) = Cardinality(Stars(rs) \cup more)
      BY <1>5, Zenon
    <2> QED
      BY <1>1, <1>7, <1>9, <2>1
  <1> QED
    BY <1>10 DEF v

LEMMA StarsNone == Stars({}) = {} /\ Cardinality(Stars({})) = 0
  BY FS_EmptySet DEF Stars

\* Totals that counted once count for ever: ratings that come later and
\* overlap another one may be missing.
LEMMA CountedStays ==
  ASSUME NEW s, NEW total, NEW count, Counted(s, total, count),
         \A q \in Rated(s) : q \in Rated(s)' /\ req'[q].rating = req[q].rating,
         \A q \in Rated(s)' : req'[q].alone => q \in Rated(s) /\ req[q].alone
  PROVE  Counted(s, total, count)'
  <1>1. PICK kept \in SUBSET Rated(s) :
          /\ {r \in Rated(s) : req[r].alone} \subseteq kept
          /\ IsFiniteSet(kept) /\ count = Cardinality(kept) /\ total = Cardinality(Stars(kept))
    BY DEF Counted
  <1>2. Stars(kept)' = Stars(kept)
    BY StarsSame
  <1>3. kept \in SUBSET Rated(s)'
    OBVIOUS
  <1>4. {r \in Rated(s)' : req'[r].alone} \subseteq kept
    BY <1>1
  <1> QED
    BY <1>1, <1>2, <1>3, <1>4 DEF Counted

\* The sets of requests that count, when none is added.
LEMMA SettledSame ==
  ASSUME \A q \in Req : Settled(q), NEW s
  PROVE  /\ Rated(s)' = Rated(s) /\ Toggled(s)' = Toggled(s)
         /\ \A q \in Rated(s) \cup Toggled(s) : SameVisit(q)
  <1>1. \A q \in Rated(s) \cup Toggled(s) : q \in Req /\ SameVisit(q)
    BY DEF Settled, Uncounted, Rated, Toggled
  <1>2. \A q \in Rated(s)' \cup Toggled(s)' : q \in Req /\ SameVisit(q)
    BY DEF Settled, Uncounted, Rated, Toggled
  <1> QED
    BY <1>1, <1>2 DEF SameVisit, Rated, Toggled

LEMMA SettledCounted ==
  ASSUME \A q \in Req : Settled(q), NEW s, NEW total, NEW count, Counted(s, total, count)
  PROVE  Counted(s, total, count)'
  <1>1. /\ Rated(s)' = Rated(s)
        /\ \A q \in Rated(s) : req'[q].rating = req[q].rating /\ req'[q].alone = req[q].alone
    BY SettledSame DEF SameVisit
  <1> QED
    BY <1>1, CountedStays

-----------------------------------------------------------------------------
(* Steps that count nothing                                                *)

\* Salons keep their row, are deleted, or are new.
SalonsFrame ==
  /\ salon_seq \in Nat /\ salon_seq' \in Nat /\ salon_seq <= salon_seq'
  /\ \A s \in SalonIds :
       salons'[s] \in {salons[s], NoSalon} \/ (s > salon_seq /\ salons'[s] = NewSalon)

LEMMA SalonsSame ==
  ASSUME RegistryInv, UNCHANGED <<salons, salon_seq>>
  PROVE  SalonsFrame
  <1>1. salon_seq \in Nat
    BY InvSplit, BoundsAssumption DEF DataOK, SalonIds
  <1> QED
    BY <1>1 DEF SalonsFrame

LEMMA SoloStays ==
  ASSUME UpdatesInv, SalonsFrame, \A q \in Req : Settled(q), NEW s \in SalonIds
  PROVE  IsFiniteSet(Toggled(s))' /\ SoloAt(s)'
  <1>1. /\ Rated(s)' = Rated(s) /\ Toggled(s)' = Toggled(s)
        /\ \A q \in Rated(s) \cup Toggled(s) : SameVisit(q)
    BY SettledSame
  <1>2. IsFiniteSet(Toggled(s)) /\ SoloAt(s)
    BY UpdatesSplit
  <1>3. IsFiniteSet(Toggled(s))'
    BY <1>1, <1>2, Zenon
  <1>4. CASE salons'[s] = NoSalon
    BY <1>3, <1>4 DEF SoloAt
  <1>5. CASE salons'[s] = salons[s] /\ salons[s] # NoSalon
    <2>1. PICK total, count, status :
            total = salons[s].total /\ count = salons[s].count /\ status = salons[s].status
      OBVIOUS
    <2>2. Counted(s, total, count)'
      BY <1>2, <1>5, <2>1, SettledCounted DEF SoloAt
    <2>3. (\A r \in Toggled(s) : req[r].alone) => (status = "ON") = (Cardinality(Toggled(s)) % 2 = 0)
      BY <1>2, <1>5, <2>1 DEF SoloAt
    <2>4. (\A r \in Toggled(s)' : req'[r].alone) => \A r \in Toggled(s) : req[r].alone
      BY <1>1 DEF SameVisit
    <2>5. Cardinality(Toggled(s)') = Cardinality(Toggled(s))
      BY <1>1, Zenon
    <2>6. (\A r \in Toggled(s)' : req'[r].alone) => (status = "ON") = (Cardinality(Toggled(s)') % 2 = 0)
      BY <2>3, <2>4, <2>5
    <2>7. total = salons'[s].total /\ count = salons'[s].count /\ status = salons'[s].status
      BY <1>5, <2>1
    <2> QED
      BY <1>3, <2>2, <2>6, <2>7 DEF SoloAt
  <1>6. CASE s > salon_seq /\ salons'[s] = NewSalon
    <2>1. \A q \in Req : req[q].salon # s
      <3>1. \A q \in Req : req[q].salon <= salon_seq
        BY UpdatesSplit DEF Visit
      <3>2. salon_seq \in Nat /\ s \in Int
        BY DEF SalonsFrame, SalonIds
      <3>3. ~(s <= salon_seq)
        BY <1>6, <3>2
      <3> QED
        BY <3>1, <3>3
    <2>2. Rated(s)' = {} /\ Toggled(s)' = {}
      BY <1>1, <2>1 DEF Rated, Toggled
    <2>3. salons'[s].total = 0 /\ salons'[s].count = 0 /\ salons'[s].status = "ON"
      BY <1>6 DEF NewSalon
    <2>4. Counted(s, 0, 0)'
      <3>1. Stars({})' = {}
        BY DEF Stars
      <3>2. IsFiniteSet({}) /\ Cardinality({}) = 0
        BY FS_EmptySet
      <3> QED
        BY <2>2, <3>1, <3>2 DEF Counted
    <2>5. Cardinality(Toggled(s)') % 2 = 0
      BY <2>2, FS_EmptySet
    <2> QED
      BY <1>3, <2>3, <2>4, <2>5 DEF SoloAt
  <1> QED
    BY <1>4, <1>5, <1>6 DEF SalonsFrame

LEMMA VisitStays ==
  ASSUME RegistryInv, UpdatesInv, SalonsFrame, \A q \in Req : Settled(q), NEW r \in Req, SameVisit(r)
  PROVE  Visit(r)'
  <1>1. PICK pc, salon, rating, row, alone :
          /\ pc = req[r].pc /\ salon = req[r].salon /\ rating = req[r].rating
          /\ row = req[r].row /\ alone = req[r].alone
    OBVIOUS
  <1>2. /\ pc = req'[r].pc /\ salon = req'[r].salon /\ rating = req'[r].rating
        /\ row = req'[r].row /\ alone = req'[r].alone
    BY <1>1 DEF SameVisit
  <1>3. Visit(r) /\ OnForm(r) /\ salon \in 0 .. MaxSalons
    BY <1>1, UpdatesSplit, Known DEF Request
  <1>4. salon <= salon_seq'
    BY <1>1, <1>3, Known DEF Visit, SalonsFrame
  <1>5. pc = "rate" => Counted(salon, row.total, row.count)'
    <2>1. PICK total, count : total = row.total /\ count = row.count
      OBVIOUS
    <2>2. pc = "rate" => Counted(salon, total, count)'
      BY <1>1, <1>3, <2>1, SettledCounted DEF Visit
    <2> QED
      BY <2>1, <2>2
  <1>6. ASSUME pc = "toggle", alone, salons'[salon] # NoSalon PROVE row.status = salons'[salon].status
    <2>1. salon \in SalonIds /\ salon <= salon_seq
      BY <1>1, <1>3, <1>6 DEF OnForm, Visit
    <2>2. salons'[salon] = salons[salon]
      BY <1>6, <2>1 DEF SalonsFrame, SalonIds
    <2> QED
      BY <1>1, <1>3, <1>6, <2>2 DEF Visit
  <1>7. /\ pc \in {"rateSelect", "rate"} => rating # 0
        /\ pc \in Registering \cup {"toggleSelect", "toggle"} => rating = 0
    BY <1>1, <1>3 DEF Visit
  <1> QED
    BY <1>2, <1>4, <1>5, <1>6, <1>7 DEF Visit

\* A step of r that does not carry out a rating or a switch.
LEMMA UpdatesFrame ==
  ASSUME RegistryInv, UpdatesInv, SalonsFrame, NEW r \in Req, \A q \in Req \ {r} : SameVisit(q),
         Uncounted(r), Uncounted(r)', Visit(r)'
  PROVE  UpdatesInv'
  <1>1. \A q \in Req : Settled(q)
    BY DEF Settled
  <1>2. \A q \in Req \ {r} : Visit(q)'
    BY <1>1, VisitStays
  <1>3. \A q \in Req : Visit(q)'
    BY <1>2
  <1>4. \A s \in SalonIds : IsFiniteSet(Toggled(s))' /\ SoloAt(s)'
    BY <1>1, SoloStays
  <1> QED
    BY <1>3, <1>4, UpdatesSplitAfter

\* A step of no request.
LEMMA UpdatesIdle ==
  ASSUME RegistryInv, UpdatesInv, SalonsFrame, \A q \in Req : SameVisit(q)
  PROVE  UpdatesInv'
  <1>1. \A q \in Req : Settled(q)
    BY DEF Settled
  <1>2. \A q \in Req : Visit(q)'
    BY <1>1, VisitStays
  <1>3. \A s \in SalonIds : IsFiniteSet(Toggled(s))' /\ SoloAt(s)'
    BY <1>1, SoloStays
  <1> QED
    BY <1>2, <1>3, UpdatesSplitAfter

\* A registration goes on or ends.
LEMMA RegistrationFrame ==
  ASSUME RegistryInv, UpdatesInv, SalonsFrame, NEW r \in Req, \A q \in Req \ {r} : SameVisit(q),
         req[r].pc \in Registering, req'[r].pc \in Registering \cup {"ok", "failed"},
         req'[r].form = req[r].form, req'[r].rating = req[r].rating, req'[r].salon <= salon_seq'
  PROVE  UpdatesInv'
  <1>1. req[r].form # <<>>
    BY OnElement, FormFacts
  <1>2. req[r].rating = 0
    BY UpdatesSplit DEF Visit
  <1>3. Uncounted(r) /\ Uncounted(r)'
    BY <1>1, <1>2 DEF Uncounted, Registering
  <1>4. Visit(r)'
    BY <1>2 DEF Visit, Registering
  <1> QED
    BY <1>3, <1>4, UpdatesFrame

LEMMA OthersSame ==
  ASSUME RegistryInv, NEW r \in Req, NEW m \in Request, req' = [req EXCEPT ![r] = m]
  PROVE  req'[r] = m /\ \A q \in Req \ {r} : SameVisit(q)
  <1>1. req'[r] = m /\ \A q \in Req \ {r} : req'[q] = req[q]
    BY Known
  <1> QED
    BY <1>1 DEF SameVisit

LEMMA RacedVisit ==
  ASSUME NEW q \in Req, req[q] \in Request, req'[q] \in {req[q], [req[q] EXCEPT !.raced = TRUE]}
  PROVE  SameVisit(q)
  <1>1. CASE req'[q] = req[q]
    BY <1>1 DEF SameVisit
  <1>2. CASE req'[q] = [req[q] EXCEPT !.raced = TRUE]
    BY <1>2 DEF SameVisit, Request
  <1> QED
    BY <1>1, <1>2

LEMMA RacedSame ==
  ASSUME RegistryInv, NEW r, NEW m, r \in Req => m \in Request,
         req' = Raced(r, [req EXCEPT ![r] = m])
  PROVE  /\ r \in Req => req'[r] = m
         /\ \A q \in Req \ {r} : SameVisit(q)
  <1>1. req \in [Req -> Request] /\ \A q \in Req : req[q] \in Request
    BY InvSplit
  <1>2. r \in Req => req'[r] = m
    BY <1>1 DEF Raced
  <1>3. \A q \in Req \ {r} : req'[q] \in {req[q], [req[q] EXCEPT !.raced = TRUE]}
    BY <1>1 DEF Raced
  <1> QED
    BY <1>1, <1>2, <1>3, RacedVisit

-----------------------------------------------------------------------------
(* Ratings and switches: the updates                                       *)

LEMMA DoneVisit ==
  ASSUME RegistryInv, NEW r \in Req, req' = Done(r)
  PROVE  /\ req'[r].pc = "ok" /\ req'[r].form = req[r].form /\ req'[r].rating = req[r].rating
         /\ req'[r].salon = req[r].salon /\ (req'[r].alone => req[r].alone /\ Overlapping(r) = {})
         /\ \A q \in Overlapping(r) : ~req'[q].alone
         /\ \A q \in Req \ {r} : q \notin Overlapping(r) => SameVisit(q)
         /\ \A q \in Req \ {r} : /\ req'[q].pc = req[q].pc /\ req'[q].salon = req[q].salon
                                 /\ req'[q].form = req[q].form /\ req'[q].rating = req[q].rating
                                 /\ req'[q].row = req[q].row
  <1>1. \A q \in Req : req[q] \in Request
    BY InvSplit
  <1>2. req'[r] = [req[r] EXCEPT !.pc = "ok", !.alone = @ /\ Overlapping(r) = {}]
    BY DEF Done
  <1>3. /\ req'[r].pc = "ok" /\ req'[r].form = req[r].form /\ req'[r].rating = req[r].rating
        /\ req'[r].salon = req[r].salon /\ req'[r].alone = (req[r].alone /\ Overlapping(r) = {})
    BY <1>1, <1>2 DEF Request
  <1>4. ASSUME NEW q \in Overlapping(r)
        PROVE  /\ q \in Req \ {r} /\ ~req'[q].alone
               /\ req'[q].pc = req[q].pc /\ req'[q].salon = req[q].salon /\ req'[q].form = req[q].form
               /\ req'[q].rating = req[q].rating /\ req'[q].row = req[q].row
    <2>1. q \in Req \ {r}
      BY DEF Overlapping
    <2>2. req'[q] = [req[q] EXCEPT !.alone = FALSE]
      BY <2>1 DEF Done
    <2> QED
      BY <1>1, <2>1, <2>2 DEF Request
  <1>5. \A q \in Req \ {r} : q \notin Overlapping(r) => req'[q] = req[q]
    BY DEF Done
  <1>6. \A q \in Req \ {r} : q \notin Overlapping(r) => SameVisit(q)
    BY <1>5 DEF SameVisit
  <1>7. \A q \in Req \ {r} : /\ req'[q].pc = req[q].pc /\ req'[q].salon = req[q].salon
                             /\ req'[q].form = req[q].form /\ req'[q].rating = req[q].rating
                             /\ req'[q].row = req[q].row
    BY <1>4, <1>5
  <1> QED
    BY <1>3, <1>4, <1>6, <1>7

\* Whoever counts already did not overlap this update.
LEMMA DoneCounts ==
  ASSUME RegistryInv, NEW r \in Req, req[r].pc \in {"rate", "toggle"}, req' = Done(r), NEW s
  PROVE  /\ r \notin Rated(s) \cup Toggled(s)
         /\ \A q \in Rated(s) \cup Toggled(s) : SameVisit(q)
         /\ Rated(s)' = Rated(s) \cup {x \in {r} : req[r].rating # 0 /\ req[r].salon = s}
         /\ Toggled(s)' = Toggled(s) \cup {x \in {r} : req[r].rating = 0 /\ req[r].salon = s}
  <1>1. r \notin Rated(s) \cup Toggled(s)
    BY DEF Rated, Toggled
  <1>2. ASSUME NEW q \in Rated(s) \cup Toggled(s) PROVE SameVisit(q)
    <2>1. q \in Req \ {r} /\ req[q].pc = "ok"
      BY <1>1 DEF Rated, Toggled
    <2>2. q \notin Overlapping(r)
      BY <2>1 DEF Overlapping
    <2> QED
      BY <2>1, <2>2, DoneVisit
  <1>3. req[r].form = <<>>
    BY RowRead
  <1>4. Rated(s)' = Rated(s) \cup {x \in {r} : req[r].rating # 0 /\ req[r].salon = s}
    BY DoneVisit DEF Rated
  <1>5. Toggled(s)' = Toggled(s) \cup {x \in {r} : req[r].rating = 0 /\ req[r].salon = s}
    BY <1>3, DoneVisit DEF Toggled
  <1> QED
    BY <1>1, <1>2, <1>4, <1>5

\* What an update does to the table: one row, and none when the salon is gone.
LEMMA UpdateRow ==
  ASSUME RegistryInv, NEW r \in Req, req[r].pc \in {"rate", "toggle"}, NEW row, Update(r, row)
  PROVE  /\ req' = Done(r) /\ salon_seq' = salon_seq /\ req[r].salon \in SalonIds
         /\ \A s \in SalonIds \ {req[r].salon} : salons'[s] = salons[s]
         /\ salons[req[r].salon] = NoSalon => salons'[req[r].salon] = NoSalon
         /\ salons[req[r].salon] # NoSalon => salons'[req[r].salon] = row
  <1>1. req[r].salon \in SalonIds /\ salons \in [SalonIds -> {NoSalon} \cup Salon]
    BY RowRead, Known DEF DataOK
  <1> QED
    BY <1>1 DEF Update

\* A rating adds itself to totals that counted, and to nothing else.
LEMMA RateAdds ==
  ASSUME RegistryInv, UpdatesInv, NEW r \in Req, req[r].pc = "rate", req' = Done(r),
         NEW s, s = req[r].salon, NEW total, NEW count,
         total = req[r].row.total + req[r].rating, count = req[r].row.count + 1
  PROVE  Counted(s, total, count)'
  <1>1. Visit(r)
    BY UpdatesSplit
  <1>2. PICK kept \in SUBSET Rated(s) :
          /\ {q \in Rated(s) : req[q].alone} \subseteq kept
          /\ IsFiniteSet(kept) /\ req[r].row.count = Cardinality(kept)
          /\ req[r].row.total = Cardinality(Stars(kept))
    BY <1>1 DEF Visit, Counted
  <1>3. req[r].rating \in 1 .. 5
    <2>1. req[r].rating \in Ratings \cup {0} /\ req[r].rating # 0
      BY <1>1, Known DEF Request, Visit
    <2> QED
      BY <2>1, RatingsAssumption
  <1>4. /\ r \notin Rated(s) /\ Rated(s)' = Rated(s) \cup {r}
        /\ \A q \in Rated(s) : SameVisit(q)
    <2>1. req[r].rating # 0
      BY <1>3
    <2> QED
      BY <2>1, DoneCounts
  <1>5. r \notin kept
    BY <1>4
  <1>6. Cardinality(kept \cup {r}) = count /\ IsFiniteSet(kept \cup {r})
    BY <1>2, <1>5, FS_AddElement
  <1>7. Cardinality(Stars(kept \cup {r})) = total
    BY <1>2, <1>3, <1>5, StarsGrow
  <1>8. Stars(kept \cup {r})' = Stars(kept \cup {r})
    <2>1. \A q \in kept \cup {r} : req'[q].rating = req[q].rating
      BY <1>2, <1>4, DoneVisit DEF SameVisit
    <2> QED
      BY <2>1, StarsSame
  <1>9. Cardinality(Stars(kept \cup {r})') = total
    BY <1>7, <1>8, Zenon
  <1>10. kept \cup {r} \in SUBSET Rated(s)'
    BY <1>2, <1>4
  <1>11. {q \in Rated(s)' : req'[q].alone} \subseteq kept \cup {r}
    BY <1>2, <1>4 DEF SameVisit
  <1> QED
    BY <1>6, <1>9, <1>10, <1>11 DEF Counted

LEMMA RateUpdateUpdates ==
  ASSUME RegistryInv, UpdatesInv, NEW r \in Req, RateUpdate(r) PROVE UpdatesInv'
  <1>1. PICK S, total, count : S = req[r].salon /\ total = req[r].row.total + req[r].rating
                               /\ count = req[r].row.count + 1
    OBVIOUS
  <1>2. req[r].pc = "rate" /\ Update(r, [salons[S] EXCEPT !.total = total, !.count = count])
    BY <1>1 DEF RateUpdate, At
  <1>3. /\ req' = Done(r) /\ salon_seq' = salon_seq /\ S \in SalonIds
        /\ \A s \in SalonIds \ {S} : salons'[s] = salons[s]
        /\ salons[S] = NoSalon => salons'[S] = NoSalon
        /\ salons[S] # NoSalon => salons'[S] = [salons[S] EXCEPT !.total = total, !.count = count]
    BY <1>1, <1>2, UpdateRow
  <1>4. salons[S] \in {NoSalon} \cup Salon
    BY <1>3, Known DEF DataOK
  <1>5. salons'[S] # NoSalon => /\ salons[S] # NoSalon /\ salons'[S].total = total
                                /\ salons'[S].count = count /\ salons'[S].status = salons[S].status
    BY <1>3, <1>4 DEF Salon
  <1>6. req[r].rating # 0
    BY <1>2, UpdatesSplit DEF Visit
  <1>7. ASSUME NEW s
        PROVE  /\ \A q \in Rated(s) \cup Toggled(s) : SameVisit(q)
               /\ Toggled(s)' = Toggled(s)
               /\ Rated(s)' = Rated(s) \cup {x \in {r} : s = S}
    BY <1>1, <1>2, <1>3, <1>6, DoneCounts
  <1>8. ASSUME NEW s, s # S \/ Overlapping(r) # {}, NEW t, NEW c, Counted(s, t, c) PROVE Counted(s, t, c)'
    <2>1. \A q \in Rated(s) : q \in Rated(s)' /\ req'[q].rating = req[q].rating
      BY <1>7 DEF SameVisit
    <2>2. \A q \in Rated(s)' : req'[q].alone => q \in Rated(s) /\ req[q].alone
      <3>1. s = S => ~req'[r].alone
        BY <1>3, <1>8, DoneVisit
      <3> QED
        BY <1>7, <3>1 DEF SameVisit
    <2> QED
      BY <1>8, <2>1, <2>2, CountedStays
  <1>9. Counted(S, total, count)'
    BY <1>1, <1>2, <1>3, RateAdds
  <1>10. ASSUME NEW s \in SalonIds PROVE IsFiniteSet(Toggled(s))' /\ SoloAt(s)'
    <2>1. IsFiniteSet(Toggled(s)) /\ SoloAt(s)
      BY UpdatesSplit
    <2>2. IsFiniteSet(Toggled(s))' /\ Cardinality(Toggled(s))' = Cardinality(Toggled(s))
      BY <1>7, <2>1, Zenon
    <2>3. (\A q \in Toggled(s)' : req'[q].alone) => \A q \in Toggled(s) : req[q].alone
      BY <1>7 DEF SameVisit
    <2>4. CASE s # S
      <3>1. PICK t, c : t = salons[s].total /\ c = salons[s].count
        OBVIOUS
      <3>2. salons'[s] = salons[s] /\ t = salons'[s].total /\ c = salons'[s].count
        BY <1>3, <2>4, <3>1
      <3>3. salons[s] # NoSalon => Counted(s, t, c)'
        BY <1>8, <2>1, <2>4, <3>1 DEF SoloAt
      <3> QED
        BY <2>1, <2>2, <2>3, <3>2, <3>3 DEF SoloAt
    <2>5. CASE s = S
      BY <1>5, <1>9, <2>1, <2>2, <2>3, <2>5 DEF SoloAt
    <2> QED
      BY <2>4, <2>5
  <1>11. ASSUME NEW q \in Req PROVE Visit(q)'
    <2>1. Visit(q) /\ OnForm(q) /\ Visit(r)
      BY UpdatesSplit, Known
    <2>2. CASE q = r
      BY <1>3, <2>1, <2>2, DoneVisit DEF Visit, Registering
    <2>3. CASE q # r
      <3>1. PICK pc, s, rating, row : pc = req[q].pc /\ s = req[q].salon /\ rating = req[q].rating /\ row = req[q].row
        OBVIOUS
      <3>2. pc = req'[q].pc /\ s = req'[q].salon /\ rating = req'[q].rating /\ row = req'[q].row
        BY <1>3, <2>3, <3>1, DoneVisit
      <3>3. pc = "rate" => Counted(s, row.total, row.count)'
        <4>1. PICK t, c : t = row.total /\ c = row.count
          OBVIOUS
        <4>2. pc = "rate" /\ s = S => q \in Overlapping(r)
          BY <1>1, <1>2, <2>3, <3>1 DEF Overlapping
        <4>3. pc = "rate" => Counted(s, t, c)'
          BY <1>8, <2>1, <3>1, <4>1, <4>2 DEF Visit
        <4> QED
          BY <4>1, <4>3
      <3>4. ASSUME pc = "toggle", req'[q].alone, salons'[s] # NoSalon PROVE row.status = salons'[s].status
        <4>1. s \in SalonIds
          BY <2>1, <3>1, <3>4 DEF OnForm
        <4>2. req[q].alone
          <5>1. q \notin Overlapping(r)
            BY <1>2, <3>1, <3>4 DEF Overlapping
          <5> QED
            BY <1>3, <2>3, <3>4, <5>1, DoneVisit DEF SameVisit
        <4>3. salons[s] # NoSalon /\ salons'[s].status = salons[s].status
          BY <1>3, <1>5, <3>4, <4>1
        <4> QED
          BY <2>1, <3>1, <3>4, <4>2, <4>3 DEF Visit
      <3>5. /\ s <= salon_seq' /\ (pc \in {"rateSelect", "rate"} => rating # 0)
            /\ (pc \in Registering \cup {"toggleSelect", "toggle"} => rating = 0)
        BY <1>3, <2>1, <3>1 DEF Visit
      <3> QED
        BY <3>2, <3>3, <3>4, <3>5 DEF Visit
    <2> QED
      BY <2>2, <2>3
  <1> QED
    BY <1>10, <1>11, UpdatesSplitAfter

LEMMA Parity == ASSUME NEW n \in Nat PROVE ((n + 1) % 2 = 0) <=> ~(n % 2 = 0)
  OBVIOUS

\* A switch that no other overlaps turns the status it has read, which is the
\* current one.
LEMMA ToggleUpdateUpdates ==
  ASSUME RegistryInv, UpdatesInv, NEW r \in Req, ToggleUpdate(r) PROVE UpdatesInv'
  <1>1. PICK S, status : S = req[r].salon /\ status = Flipped(req[r].row.status)
    OBVIOUS
  <1>2. req[r].pc = "toggle" /\ Update(r, [salons[S] EXCEPT !.status = status])
    BY <1>1 DEF ToggleUpdate, At
  <1>3. /\ req' = Done(r) /\ salon_seq' = salon_seq /\ S \in SalonIds
        /\ \A s \in SalonIds \ {S} : salons'[s] = salons[s]
        /\ salons[S] = NoSalon => salons'[S] = NoSalon
        /\ salons[S] # NoSalon => salons'[S] = [salons[S] EXCEPT !.status = status]
    BY <1>1, <1>2, UpdateRow
  <1>4. salons[S] \in {NoSalon} \cup Salon
    BY <1>3, Known DEF DataOK
  <1>5. salons'[S] # NoSalon => /\ salons[S] \in Salon /\ salons[S] # NoSalon
                                /\ salons'[S].total = salons[S].total
                                /\ salons'[S].count = salons[S].count /\ salons'[S].status = status
    BY <1>3, <1>4 DEF Salon
  <1>6. req[r].rating = 0
    BY <1>2, UpdatesSplit DEF Visit
  <1>7. ASSUME NEW s
        PROVE  /\ \A q \in Rated(s) \cup Toggled(s) : SameVisit(q)
               /\ Rated(s)' = Rated(s) /\ r \notin Toggled(s)
               /\ Toggled(s)' = Toggled(s) \cup {x \in {r} : s = S}
    <2>1. /\ r \notin Rated(s) \cup Toggled(s)
          /\ \A q \in Rated(s) \cup Toggled(s) : SameVisit(q)
          /\ Rated(s)' = Rated(s) \cup {x \in {r} : req[r].rating # 0 /\ req[r].salon = s}
          /\ Toggled(s)' = Toggled(s) \cup {x \in {r} : req[r].rating = 0 /\ req[r].salon = s}
      BY <1>2, <1>3, DoneCounts
    <2>2. Rated(s)' = Rated(s)
      BY <1>6, <2>1
    <2>3. Toggled(s)' = Toggled(s) \cup {x \in {r} : s = S}
      BY <1>1, <1>6, <2>1
    <2> QED
      BY <2>1, <2>2, <2>3
  <1>8. ASSUME NEW s, NEW t, NEW c, Counted(s, t, c) PROVE Counted(s, t, c)'
    BY <1>7, <1>8, CountedStays DEF SameVisit
  <1>9. ASSUME NEW s \in SalonIds PROVE IsFiniteSet(Toggled(s))' /\ SoloAt(s)'
    <2>1. IsFiniteSet(Toggled(s)) /\ SoloAt(s)
      BY UpdatesSplit
    <2>2. PICK t, c : t = salons[s].total /\ c = salons[s].count
      OBVIOUS
    <2>3. salons'[s] # NoSalon => t = salons'[s].total /\ c = salons'[s].count /\ Counted(s, t, c)'
      <3>1. salons'[s] # NoSalon => t = salons'[s].total /\ c = salons'[s].count /\ salons[s] # NoSalon
        BY <1>3, <1>5, <2>2
      <3> QED
        BY <1>8, <2>1, <2>2, <3>1 DEF SoloAt
    <2>4. CASE s # S
      <3>1. Toggled(s)' = Toggled(s)
        BY <1>7, <2>4
      <3>2. IsFiniteSet(Toggled(s))' /\ Cardinality(Toggled(s))' = Cardinality(Toggled(s))
        BY <2>1, <3>1, Zenon
      <3>3. (\A q \in Toggled(s)' : req'[q].alone) => \A q \in Toggled(s) : req[q].alone
        BY <1>7 DEF SameVisit
      <3>4. salons'[s] = salons[s]
        BY <1>3, <2>4
      <3> QED
        BY <2>1, <2>3, <3>2, <3>3, <3>4 DEF SoloAt
    <2>5. CASE s = S
      <3>1. Toggled(s)' = Toggled(s) \cup {r}
        BY <1>7, <2>5
      <3>2. /\ IsFiniteSet(Toggled(s) \cup {r}) /\ Cardinality(Toggled(s)) \in Nat
            /\ Cardinality(Toggled(s) \cup {r}) = Cardinality(Toggled(s)) + 1
        BY <1>7, <2>1, FS_AddElement, FS_CardinalityType
      <3>3. IsFiniteSet(Toggled(s))' /\ Cardinality(Toggled(s)') = Cardinality(Toggled(s)) + 1
        <4>1. IsFiniteSet(Toggled(s)') /\ Cardinality(Toggled(s)') = Cardinality(Toggled(s) \cup {r})
          BY <3>1, <3>2, Zenon
        <4> QED
          BY <3>2, <4>1
      <3>4. ASSUME salons'[s] # NoSalon, \A q \in Toggled(s)' : req'[q].alone
            PROVE  (salons'[s].status = "ON") = (Cardinality(Toggled(s)') % 2 = 0)
        <4>1. req[r].alone /\ req'[r].alone
          BY <1>3, <3>1, <3>4, DoneVisit
        <4>2. \A q \in Toggled(s) : req[q].alone
          BY <1>7, <3>1, <3>4 DEF SameVisit
        <4>3. salons[s] # NoSalon /\ salons[s].status \in {"ON", "OFF"} /\ salons'[s].status = status
          BY <1>5, <2>5, <3>4 DEF Salon
        <4>4. (salons[s].status = "ON") = (Cardinality(Toggled(s)) % 2 = 0)
          BY <2>1, <4>2, <4>3 DEF SoloAt
        <4>5. req[r].row.status = salons[s].status
          BY <1>1, <1>2, <2>5, <4>1, <4>3, UpdatesSplit DEF Visit
        <4>6. (status = "ON") <=> ~(salons[s].status = "ON")
          BY <1>1, <4>3, <4>5 DEF Flipped
        <4>7. (Cardinality(Toggled(s)') % 2 = 0) <=> ~(Cardinality(Toggled(s)) % 2 = 0)
          BY <3>2, <3>3, Parity
        <4>8. (salons[s].status = "ON") <=> (Cardinality(Toggled(s)) % 2 = 0)
          BY <4>4
        <4>9. (salons'[s].status = "ON") <=> (Cardinality(Toggled(s)') % 2 = 0)
          BY <4>3, <4>6, <4>7, <4>8
        <4> QED
          BY <4>9
      <3> QED
        BY <2>3, <3>3, <3>4 DEF SoloAt
    <2> QED
      BY <2>4, <2>5
  <1>10. ASSUME NEW q \in Req PROVE Visit(q)'
    <2>1. Visit(q) /\ OnForm(q) /\ Visit(r)
      BY UpdatesSplit, Known
    <2>2. CASE q = r
      BY <1>3, <2>1, <2>2, DoneVisit DEF Visit, Registering
    <2>3. CASE q # r
      <3>1. PICK pc, s, rating, row : pc = req[q].pc /\ s = req[q].salon /\ rating = req[q].rating /\ row = req[q].row
        OBVIOUS
      <3>2. pc = req'[q].pc /\ s = req'[q].salon /\ rating = req'[q].rating /\ row = req'[q].row
        BY <1>3, <2>3, <3>1, DoneVisit
      <3>3. pc = "rate" => Counted(s, row.total, row.count)'
        <4>1. PICK t, c : t = row.total /\ c = row.count
          OBVIOUS
        <4>2. pc = "rate" => Counted(s, t, c)'
          BY <1>8, <2>1, <3>1, <4>1 DEF Visit
        <4> QED
          BY <4>1, <4>2
      <3>4. ASSUME pc = "toggle", req'[q].alone, salons'[s] # NoSalon PROVE row.status = salons'[s].status
        <4>1. s \in SalonIds
          BY <2>1, <3>1, <3>4 DEF OnForm
        <4>2. q \notin Overlapping(r)
          BY <1>3, <3>4, DoneVisit
        <4>3. s # S /\ req[q].alone
          <5>1. s # S
            BY <1>1, <1>2, <2>3, <3>1, <3>4, <4>2 DEF Overlapping
          <5> QED
            BY <1>3, <2>3, <3>4, <4>2, <5>1, DoneVisit DEF SameVisit
        <4>4. salons'[s] = salons[s]
          BY <1>3, <4>1, <4>3
        <4> QED
          BY <2>1, <3>1, <3>4, <4>3, <4>4 DEF Visit
      <3>5. /\ s <= salon_seq' /\ (pc \in {"rateSelect", "rate"} => rating # 0)
            /\ (pc \in Registering \cup {"toggleSelect", "toggle"} => rating = 0)
        BY <1>3, <2>1, <3>1 DEF Visit
      <3> QED
        BY <3>2, <3>3, <3>4, <3>5 DEF Visit
    <2> QED
      BY <2>2, <2>3
  <1> QED
    BY <1>9, <1>10, UpdatesSplitAfter

-----------------------------------------------------------------------------
(* The other steps                                                         *)

LEMMA ArriveUpdates ==
  ASSUME RegistryInv, UpdatesInv, NEW r \in Req, NEW b \in Browsers,
         RegisterRequest(r, b) \/ RateRequest(r, b) \/ ToggleRequest(r, b)
  PROVE  UpdatesInv'
  <1>1. verified[b] \in 0 .. MaxSalons /\ MaxSalons \in Nat /\ salon_seq \in 1 .. MaxSalons /\ salon_seq \in Nat
    BY Known DEF DataOK, SalonIds
  <1>2. ASSUME NEW request \in Request, Arrive(r, b, request), request.salon <= salon_seq,
               \/ request.pc = "rateSelect" /\ request.rating # 0
               \/ request.pc \in {"insert", "toggleSelect"} /\ request.rating = 0
        PROVE UpdatesInv'
    <2> DEFINE m == [request EXCEPT !.browser = b, !.session = verified[b]]
    <2>1. /\ m \in Request /\ m.pc = request.pc /\ m.salon = request.salon /\ m.rating = request.rating
      BY <1>1 DEF Request
    <2>2. req' = [req EXCEPT ![r] = m] /\ req[r].pc = "none" /\ UNCHANGED <<tables, writer, verified>>
      BY <1>2 DEF Arrive, At
    <2> HIDE DEF m
    <2>3. req'[r] = m /\ \A q \in Req \ {r} : SameVisit(q)
      BY <2>1, <2>2, OthersSame
    <2>4. UNCHANGED <<salons, salon_seq>>
      BY <2>2 DEF tables
    <2>5. Uncounted(r) /\ Uncounted(r)'
      BY <1>2, <2>1, <2>2, <2>3 DEF Uncounted
    <2>6. Visit(r)'
      BY <1>2, <2>1, <2>3, <2>4 DEF Visit, Registering
    <2> QED
      BY <2>3, <2>4, <2>5, <2>6, SalonsSame, UpdatesFrame
  <1>3. ASSUME NEW f \in Forms, Arrive(r, b, [New EXCEPT !.pc = "insert", !.form = f]) PROVE UpdatesInv'
    <2> DEFINE request == [New EXCEPT !.pc = "insert", !.form = f]
    <2>1. New.salon = 0
      BY DEF New
    <2>2. /\ request \in Request /\ request.salon = New.salon /\ request.pc = "insert"
          /\ request.rating = New.rating
      BY <1>1, NewRequest DEF Request, Places, Registering
    <2> HIDE DEF request
    <2>3. request.salon <= salon_seq /\ request.rating = 0
      BY <1>1, <2>1, <2>2, NewRequest
    <2> QED
      BY <1>2, <1>3, <2>2, <2>3 DEF request
  <1>4. ASSUME NEW s \in 1 .. salon_seq, NEW v \in Ratings,
               Arrive(r, b, [New EXCEPT !.pc = "rateSelect", !.salon = s, !.rating = v])
        PROVE UpdatesInv'
    <2> DEFINE request == [New EXCEPT !.pc = "rateSelect", !.salon = s, !.rating = v]
    <2>1. v # 0 /\ s \in 0 .. MaxSalons /\ s <= salon_seq
      BY <1>1, RatingsAssumption
    <2>2. request \in Request /\ request.salon = s /\ request.pc = "rateSelect" /\ request.rating = v
      BY <2>1, NewRequest DEF Request, Places
    <2> HIDE DEF request
    <2> QED
      BY <1>2, <1>4, <2>1, <2>2 DEF request
  <1>5. ASSUME NEW s \in 1 .. salon_seq, Arrive(r, b, [New EXCEPT !.pc = "toggleSelect", !.salon = s])
        PROVE UpdatesInv'
    <2> DEFINE request == [New EXCEPT !.pc = "toggleSelect", !.salon = s]
    <2>1. s \in 0 .. MaxSalons /\ s <= salon_seq
      BY <1>1
    <2>2. request \in Request /\ request.salon = s /\ request.pc = "toggleSelect" /\ request.rating = 0
      BY <2>1, NewRequest DEF Request, Places
    <2> HIDE DEF request
    <2> QED
      BY <1>2, <1>5, <2>1, <2>2 DEF request
  <1> QED
    BY <1>3, <1>4, <1>5 DEF RegisterRequest, RateRequest, ToggleRequest

LEMMA InsertSalonUpdates ==
  ASSUME RegistryInv, UpdatesInv, NEW r \in Req, InsertSalon(r) PROVE UpdatesInv'
  <1> DEFINE m == [req[r] EXCEPT !.pc = "select", !.salon = salon_seq + 1]
  <1>1. /\ At(r, "insert") /\ salon_seq' = salon_seq + 1 /\ salon_seq < MaxSalons
        /\ salons' = [salons EXCEPT ![salon_seq + 1] = NewSalon]
    BY DEF InsertSalon
  <1>2. salon_seq + 1 \in 0 .. MaxSalons /\ req[r] \in Request /\ salon_seq \in Nat
    BY <1>1, Known DEF SalonIds, DataOK
  <1>3. /\ m \in Request /\ m.pc = "select" /\ m.salon = salon_seq + 1
        /\ m.form = req[r].form /\ m.rating = req[r].rating
    BY <1>2 DEF Request, Places, Registering
  <1>4. req' = [req EXCEPT ![r] = m]
    BY <1>1, Known DEF InsertSalon
  <1> HIDE DEF m
  <1>5. req'[r] = m /\ \A q \in Req \ {r} : SameVisit(q)
    BY <1>3, <1>4, OthersSame
  <1>6. SalonsFrame
    BY <1>1, <1>2, Known DEF SalonsFrame, DataOK
  <1>7. req[r].pc \in Registering /\ m.pc \in Registering /\ m.salon <= salon_seq'
    BY <1>1, <1>2, <1>3 DEF At, Registering
  <1> QED
    BY <1>3, <1>5, <1>6, <1>7, RegistrationFrame

\* A statement of a registration other than the first.
LEMMA StatementUpdates ==
  ASSUME RegistryInv, UpdatesInv, NEW r \in Req, req[r].pc \in Registering, NEW m \in Request,
         m.pc \in Registering \cup {"ok", "failed"}, m.form = req[r].form, m.rating = req[r].rating,
         m.salon = req[r].salon, UNCHANGED <<salons, salon_seq>>,
         req' = [req EXCEPT ![r] = m] \/ req' = Raced(r, [req EXCEPT ![r] = m])
  PROVE  UpdatesInv'
  <1>1. req'[r] = m /\ \A q \in Req \ {r} : SameVisit(q)
    BY OthersSame, RacedSame
  <1>2. req'[r].salon <= salon_seq'
    BY <1>1, UpdatesSplit DEF Visit
  <1> QED
    BY <1>1, <1>2, SalonsSame, RegistrationFrame

LEMMA SelectServiceUpdates ==
  ASSUME RegistryInv, UpdatesInv, NEW r \in Req, SelectService(r) PROVE UpdatesInv'
  <1> DEFINE found == Named(Wanted(r))
             it == CHOOSE i \in found : TRUE
  <1>1. req[r].pc \in Registering /\ UNCHANGED <<salons, salon_seq>>
    BY DEF SelectService, At, Registering, tables
  <1>2. CASE found = {}
    <2> DEFINE m == [req[r] EXCEPT !.pc = "service"]
    <2>1. /\ m \in Request /\ m.pc \in Registering /\ m.form = req[r].form /\ m.rating = req[r].rating
          /\ m.salon = req[r].salon
      BY Known DEF Request, Places, Registering
    <2>2. req' = [req EXCEPT ![r] = m]
      BY <1>2, Known DEF SelectService
    <2> HIDE DEF m
    <2> QED
      BY <1>1, <2>1, <2>2, StatementUpdates
  <1>3. CASE found # {}
    <2> DEFINE m == [req[r] EXCEPT !.pc = "link", !.service = it]
    <2>1. it \in 0 .. MaxServices
      BY <1>3, Known DEF Named, ServiceIds
    <2> HIDE DEF it
    <2>2. /\ m \in Request /\ m.pc \in Registering /\ m.form = req[r].form /\ m.rating = req[r].rating
          /\ m.salon = req[r].salon
      BY <2>1, Known DEF Request, Places, Registering
    <2>3. req' = [req EXCEPT ![r] = m]
      BY <1>3, Known DEF SelectService, it
    <2> HIDE DEF m
    <2> QED
      BY <1>1, <2>2, <2>3, StatementUpdates
  <1> QED
    BY <1>2, <1>3

LEMMA FailUpdates ==
  ASSUME RegistryInv, UpdatesInv, NEW r \in Req, Fail(r), req[r].pc \in Registering PROVE UpdatesInv'
  <1> DEFINE m == [req[r] EXCEPT !.pc = "failed", !.own = {}]
  <1>1. /\ m \in Request /\ m.pc = "failed" /\ m.form = req[r].form /\ m.rating = req[r].rating
        /\ m.salon = req[r].salon
    BY Known DEF Request, Places, Outcomes
  <1>2. req' = [req EXCEPT ![r] = m] /\ UNCHANGED <<salons, salon_seq>>
    BY Known DEF Fail, tables
  <1> HIDE DEF m
  <1> QED
    BY <1>1, <1>2, StatementUpdates

LEMMA InsertServiceUpdates ==
  ASSUME RegistryInv, UpdatesInv, NEW r \in Req, InsertService(r) PROVE UpdatesInv'
  <1>1. req[r].pc \in Registering
    BY DEF InsertService, At, Registering
  <1>2. CASE Named(Wanted(r)) # {}
    BY <1>1, <1>2, FailUpdates DEF InsertService
  <1>3. CASE Named(Wanted(r)) = {}
    <2> DEFINE m == [req[r] EXCEPT !.pc = "link", !.own = {}, !.service = service_seq + 1]
    <2>1. AddService(r)
      BY <1>3 DEF InsertService
    <2>2. service_seq + 1 \in 0 .. MaxServices
      BY <2>1, Known DEF AddService
    <2>3. /\ m \in Request /\ m.pc \in Registering /\ m.form = req[r].form /\ m.rating = req[r].rating
          /\ m.salon = req[r].salon
      BY <2>2, Known DEF Request, Places, Registering
    <2>4. req' = Raced(r, [req EXCEPT ![r] = m]) /\ UNCHANGED <<salons, salon_seq>>
      BY <2>1, Known DEF AddService
    <2> HIDE DEF m
    <2> QED
      BY <1>1, <2>3, <2>4, StatementUpdates
  <1> QED
    BY <1>2, <1>3

LEMMA InsertLinkUpdates ==
  ASSUME RegistryInv, UpdatesInv, NEW r \in Req, InsertLink(r) PROVE UpdatesInv'
  <1> DEFINE me == req[r]
             last == me.i = Len(me.form)
             row == [salon |-> me.salon, service |-> me.service, name |-> Wanted(r)]
             m == [me EXCEPT !.own = @ \cup {row}, !.i = IF last THEN @ ELSE @ + 1,
                             !.pc = IF last THEN "commit" ELSE "select"]
  <1>1. req[r].pc \in Registering /\ req[r].pc \in Registering \ {"insert"} /\ req[r].pc = "link"
    BY DEF InsertLink, At, Registering
  <1>2. CASE salons[me.salon] = NoSalon \/ services[me.service] = NoName
    BY <1>1, <1>2, FailUpdates DEF InsertLink
  <1>3. CASE ~(salons[me.salon] = NoSalon \/ services[me.service] = NoName)
    <2>1. me.i \in Nat /\ Wanted(r) \in Names /\ me.salon \in SalonIds /\ me.service \in 1 .. service_seq
      BY <1>1, OnElement, Known DEF OnForm
    <2>2. me.service \in ServiceIds
      BY <2>1, Known DEF DataOK, ServiceIds
    <2>3. row \in Row
      BY <2>1, <2>2 DEF Row
    <2> HIDE DEF row
    <2>4. me.own \cup {row} \in SUBSET Row /\ (IF last THEN me.i ELSE me.i + 1) \in Nat
          /\ (IF last THEN "commit" ELSE "select") \in Registering
      BY <2>1, <2>3, Known DEF Registering
    <2>5. /\ m \in Request /\ m.pc \in Registering /\ m.form = req[r].form /\ m.rating = req[r].rating
          /\ m.salon = req[r].salon
      BY <2>4, Known DEF Request, Places
    <2>6. req' = [req EXCEPT ![r] = m] /\ UNCHANGED <<salons, salon_seq>>
      BY <1>3, Known DEF InsertLink, row, tables
    <2> HIDE DEF m
    <2> QED
      BY <1>1, <2>5, <2>6, StatementUpdates
  <1> QED
    BY <1>2, <1>3

LEMMA CommitUpdates ==
  ASSUME RegistryInv, UpdatesInv, NEW r \in Req, Commit(r) PROVE UpdatesInv'
  <1> DEFINE m == [req[r] EXCEPT !.pc = "ok", !.own = {}]
  <1>1. req[r].pc \in Registering
    BY DEF Commit, At, Registering
  <1>2. /\ m \in Request /\ m.pc = "ok" /\ m.form = req[r].form /\ m.rating = req[r].rating
        /\ m.salon = req[r].salon
    BY Known DEF Request, Places, Outcomes
  <1>3. req' = [req EXCEPT ![r] = m] /\ UNCHANGED <<salons, salon_seq>>
    BY Known DEF Commit, Answer
  <1> HIDE DEF m
  <1> QED
    BY <1>1, <1>2, <1>3, StatementUpdates

\* A request that is carried out neither before nor after a step of its own.
LEMMA UndoneUpdates ==
  ASSUME RegistryInv, UpdatesInv, NEW r \in Req, NEW m \in Request, req' = [req EXCEPT ![r] = m],
         UNCHANGED <<salons, salon_seq>>, req[r].pc # "ok", m.pc \in {"refused", "failed"},
         m.salon = req[r].salon
  PROVE  UpdatesInv'
  <1>1. req'[r] = m /\ \A q \in Req \ {r} : SameVisit(q)
    BY OthersSame
  <1>2. Uncounted(r) /\ Uncounted(r)'
    BY <1>1 DEF Uncounted
  <1>3. Visit(r)'
    <2>1. Visit(r)
      BY UpdatesSplit
    <2> QED
      BY <1>1, <2>1 DEF Visit, Registering
  <1> QED
    BY <1>1, <1>2, <1>3, SalonsSame, UpdatesFrame

LEMMA RefusedUpdates ==
  ASSUME RegistryInv, UpdatesInv, NEW r \in Req, req[r].pc \in {"rateSelect", "toggleSelect"},
         Answer(r, "refused", req[r].session), UNCHANGED <<tables, writer>>
  PROVE  UpdatesInv'
  <1> DEFINE m == [req[r] EXCEPT !.pc = "refused", !.own = {}]
  <1>1. m \in Request /\ m.pc = "refused" /\ m.salon = req[r].salon
    BY Known DEF Request, Places, Outcomes
  <1>2. req' = [req EXCEPT ![r] = m] /\ UNCHANGED <<salons, salon_seq>>
    BY Known DEF Answer, tables
  <1> HIDE DEF m
  <1> QED
    BY <1>1, <1>2, UndoneUpdates

\* What is read counts, for what is in the table does.
LEMMA RateSelectUpdates ==
  ASSUME RegistryInv, UpdatesInv, NEW r \in Req, RateSelect(r) PROVE UpdatesInv'
  <1>1. req[r].pc = "rateSelect" /\ UNCHANGED <<tables, writer>> /\ UNCHANGED <<salons, salon_seq>>
    BY DEF RateSelect, At, tables
  <1>2. CASE salons[req[r].salon] = NoSalon
    BY <1>1, <1>2, RefusedUpdates DEF RateSelect
  <1>3. CASE salons[req[r].salon] # NoSalon
    <2> DEFINE m == [req[r] EXCEPT !.pc = "rate", !.row = salons[req[r].salon]]
    <2>1. PICK s, total, count : s = req[r].salon /\ total = salons[s].total /\ count = salons[s].count
      OBVIOUS
    <2>2. /\ m \in Request /\ m.pc = "rate" /\ m.salon = s /\ m.rating = req[r].rating
          /\ m.row.total = total /\ m.row.count = count
      BY <1>1, <2>1, RowRead, Known DEF Request, Places
    <2>3. req' = [req EXCEPT ![r] = m]
      BY <1>3, Known DEF RateSelect
    <2> HIDE DEF m
    <2>4. req'[r] = m /\ \A q \in Req \ {r} : SameVisit(q)
      BY <2>2, <2>3, OthersSame
    <2>5. Uncounted(r) /\ Uncounted(r)'
      BY <1>1, <2>2, <2>4 DEF Uncounted
    <2>6. \A q \in Req : Settled(q)
      BY <2>4, <2>5 DEF Settled
    <2>7. s \in SalonIds /\ Visit(r)
      BY <1>1, <2>1, RowRead, UpdatesSplit
    <2>8. Counted(s, total, count)'
      BY <1>3, <2>1, <2>6, <2>7, SettledCounted, UpdatesSplit DEF SoloAt
    <2>9. Visit(r)'
      BY <1>1, <2>1, <2>2, <2>4, <2>7, <2>8 DEF Visit, Registering
    <2> QED
      BY <1>1, <2>4, <2>5, <2>9, SalonsSame, UpdatesFrame
  <1> QED
    BY <1>2, <1>3

LEMMA ToggleSelectUpdates ==
  ASSUME RegistryInv, UpdatesInv, NEW r \in Req, ToggleSelect(r) PROVE UpdatesInv'
  <1>1. req[r].pc = "toggleSelect" /\ UNCHANGED <<tables, writer>> /\ UNCHANGED <<salons, salon_seq>>
    BY DEF ToggleSelect, At, tables
  <1>2. CASE Answer(r, "refused", req[r].session)
    BY <1>1, <1>2, RefusedUpdates
  <1>3. CASE req' = [req EXCEPT ![r].pc = "toggle", ![r].row = salons[req[r].salon],
                               ![r].session = req[r].salon]
    <2> DEFINE m == [req[r] EXCEPT !.pc = "toggle", !.row = salons[req[r].salon], !.session = req[r].salon]
    <2>1. req[r].salon \in 0 .. MaxSalons
      BY Known DEF Request
    <2>2. /\ m \in Request /\ m.pc = "toggle" /\ m.salon = req[r].salon /\ m.rating = req[r].rating
          /\ m.row = salons[req[r].salon]
      BY <1>1, <2>1, RowRead, Known DEF Request, Places
    <2>3. req' = [req EXCEPT ![r] = m]
      BY <1>3, Known
    <2> HIDE DEF m
    <2>4. req'[r] = m /\ \A q \in Req \ {r} : SameVisit(q)
      BY <2>2, <2>3, OthersSame
    <2>5. Uncounted(r) /\ Uncounted(r)'
      BY <1>1, <2>2, <2>4 DEF Uncounted
    <2>6. Visit(r)
      BY UpdatesSplit
    <2>7. Visit(r)'
      BY <1>1, <2>2, <2>4, <2>6 DEF Visit, Registering
    <2> QED
      BY <1>1, <2>4, <2>5, <2>7, SalonsSame, UpdatesFrame
  <1> QED
    BY <1>2, <1>3 DEF ToggleSelect

LEMMA TimedOutUpdates ==
  ASSUME RegistryInv, UpdatesInv, NEW r \in Req, TimedOut(r) PROVE UpdatesInv'
  <1> DEFINE m == [req[r] EXCEPT !.pc = "failed", !.raced = TRUE]
  <1>1. m \in Request /\ m.pc = "failed" /\ m.salon = req[r].salon
    BY Known DEF Request, Places, Outcomes
  <1>2. req' = [req EXCEPT ![r] = m] /\ UNCHANGED <<salons, salon_seq>> /\ req[r].pc # "ok"
    BY Known DEF TimedOut, tables
  <1> HIDE DEF m
  <1> QED
    BY <1>1, <1>2, UndoneUpdates

LEMMA DeletionUpdates ==
  ASSUME RegistryInv, UpdatesInv,
         (\E s \in SalonIds : DeleteSalon(s)) \/ (\E i \in ServiceIds : DeleteService(i))
  PROVE  UpdatesInv'
  <1>1. req' = Raced(NoReq, req) /\ salon_seq' = salon_seq
    BY DEF DeleteSalon, DeleteService, Cascade
  <1>2. \A s \in SalonIds : salons'[s] \in {salons[s], NoSalon}
    <2>1. DataOK
      BY InvSplit
    <2>2. salons' = salons \/ \E s \in SalonIds : salons' = [salons EXCEPT ![s] = NoSalon]
      BY DEF DeleteSalon, DeleteService
    <2> QED
      BY <2>1, <2>2 DEF DataOK
  <1>3. ASSUME NEW q \in Req PROVE SameVisit(q)
    <2>1. req[q] \in Request /\ req'[q] \in {req[q], [req[q] EXCEPT !.raced = TRUE]}
      BY <1>1, Known DEF Raced
    <2> QED
      BY <2>1, RacedVisit
  <1>4. salon_seq \in Nat
    BY InvSplit, BoundsAssumption DEF DataOK, SalonIds
  <1>5. SalonsFrame
    BY <1>1, <1>2, <1>4 DEF SalonsFrame
  <1> QED
    BY <1>3, <1>5, UpdatesIdle

LEMMA UpdatesInit == Init => UpdatesInv
  <1> SUFFICES ASSUME Init PROVE UpdatesInv
    OBVIOUS
  <1>1. \A r \in Req : req[r].pc = "none" /\ req[r].salon = 0
    BY DEF Init, New
  <1>2. salon_seq = 1 /\ \A s \in SalonIds : salons[s] \in {NewSalon, NoSalon}
    BY DEF Init
  <1>3. \A r \in Req : Visit(r)
    BY <1>1, <1>2 DEF Visit, Registering
  <1>4. ASSUME NEW s \in SalonIds PROVE IsFiniteSet(Toggled(s)) /\ SoloAt(s)
    <2>1. Rated(s) = {} /\ Toggled(s) = {}
      BY <1>1 DEF Rated, Toggled
    <2>2. Counted(s, 0, 0)
      BY <2>1, StarsNone, FS_EmptySet DEF Counted
    <2>3. IsFiniteSet(Toggled(s)) /\ Cardinality(Toggled(s)) % 2 = 0
      BY <2>1, FS_EmptySet
    <2> QED
      BY <1>2, <2>2, <2>3 DEF SoloAt, NewSalon
  <1> QED
    BY <1>3, <1>4, UpdatesSplit

LEMMA UpdatesStep == RegistryInv /\ UpdatesInv /\ [Next]_vars => UpdatesInv'
  <1> SUFFICES ASSUME RegistryInv, UpdatesInv, [Next]_vars PROVE UpdatesInv'
    OBVIOUS
  <1>1. ASSUME NEW r \in Req, Step(r) PROVE UpdatesInv'
    BY <1>1, InsertSalonUpdates, SelectServiceUpdates, InsertServiceUpdates, InsertLinkUpdates,
       CommitUpdates, RateSelectUpdates, RateUpdateUpdates, ToggleSelectUpdates, ToggleUpdateUpdates DEF Step
  <1>2. ASSUME UNCHANGED vars PROVE UpdatesInv'
    <2>1. UNCHANGED <<salons, salon_seq, req>>
      BY <1>2 DEF vars, tables
    <2> QED
      BY <2>1, SalonsSame, UpdatesIdle DEF SameVisit
  <1> QED
    BY <1>1, <1>2, TimedOutUpdates, ArriveUpdates, DeletionUpdates DEF Next

-----------------------------------------------------------------------------

(* Statements and commits of any number of handlers, interleaved in any     *)
(* way with deletions, keep what register_salon relies on between them      *)
(* (app.py:862 to 895).                                                    *)
THEOREM RegistrySound == Spec => []RegistryInv
  BY RegistryInit, RegistryStep, PTL DEF Spec

(* Types; no deleted salon comes back by an UPDATE, and no request keeps the *)
(* lock when it is done.                                                   *)
THEOREM RegistryTypes == Spec => []TypeOK
  <1>1. RegistryInv => TypeOK
    BY DEF RegistryInv
  <1> QED
    BY <1>1, RegistrySound, PTL

(* Every row of salon_services joins a salon with a service its form named, *)
(* and a registration that is answered with success has entered all of them *)
(* (app.py:895).                                                           *)
THEOREM FormsAreEntered == Spec => []LinksMatchForm
  <1>1. ASSUME RegistryInv PROVE LinksMatchForm
    <2>1. \A row \in salon_services : Joined(row)
      BY <1>1, InvSplit DEF DataOK
    <2>2. ASSUME NEW r \in Registered, NEW i \in DOMAIN req[r].form
          PROVE \E row \in salon_services \cup cascaded : row.salon = req[r].salon /\ row.name = req[r].form[i]
      <3>1. r \in Req /\ req[r].pc = "ok"
        BY DEF Registered
      <3>2. Entered(r) /\ req[r].own = {}
        BY <1>1, <3>1, Known DEF Registering
      <3> QED
        BY <3>1, <3>2 DEF Entered
    <2> QED
      BY <2>1, <2>2 DEF LinksMatchForm, Joined
  <1> QED
    BY <1>1, RegistrySound, PTL

(* A registration fails half-way (app.py:867) only when another one or a     *)
(* deletion came in between, never by its own commits.                     *)
THEOREM AloneIsWhole == Spec => []AloneRegistersWhole
  <1>1. ASSUME RegistryInv PROVE AloneRegistersWhole
    BY <1>1, Known DEF AloneRegistersWhole, StillSo
  <1> QED
    BY <1>1, RegistrySound, PTL

(* What ratings and switches under way have read and will write back loses  *)
(* no update that overlaps no other (app.py:999 to 1006, 1014 to 1036).     *)
THEOREM UpdatesSound == Spec => []UpdatesInv
  BY UpdatesInit, UpdatesStep, RegistrySound, PTL DEF Spec

(* Whatever ratings, switches, registrations and deletions overlap, the     *)
(* totals of a salon are those of a set of the ratings it was given, with   *)
(* every one that overlapped no other, and its status has been turned once  *)
(* for every switch when none of them overlapped another.                  *)
THEOREM UpdatesAreCounted == Spec => []SoloUpdatesCount
  <1>1. UpdatesInv => SoloUpdatesCount
    BY DEF UpdatesInv
  <1> QED
    BY <1>1, UpdatesSound, PTL
=============================================================================

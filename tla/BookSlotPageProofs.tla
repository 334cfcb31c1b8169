-------------------------- MODULE BookSlotPageProofs --------------------------
(***************************************************************************)
(* The booking page, for any buttons, dates, services and bookings.        *)
(***************************************************************************)
EXTENDS BookSlotPage, SequenceTheorems, WellFoundedInduction, TLAPS

\* A button that the page leaves enabled asks for slots that the server
\* computes to be the same, that all end by closing time, and that the server
\* does not refuse for its own closing-time test.
THEOREM EnabledButtonsAccepted ==
    ASSUME NEW start \in Minutes, NEW n \in Nat \ {0},
           ~ButtonBeyondClosing(start, n)
    PROVE  /\ getRequiredSlots(start, n) = generate_required_slots(start, n)
           /\ \A i \in 1 .. n :
                 generate_required_slots(start, n)[i] + SlotMinutes
                     <= ClosingTime
           /\ ~ExceedsClosing(start)
  <1>1. start + (n - 1) * 30 + 30 <= 1320
    <2>1. getRequiredSlots(start, n)[n] = start + (n - 1) * 30
      BY DEF getRequiredSlots, SlotMinutes
    <2>2. getRequiredSlots(start, n)[n] + 30 <= 1320
      <3>1. start + (n - 1) * 30 \in Int
        BY DEF Minutes, DayMinutes
      <3>2. ~(getRequiredSlots(start, n)[n] + 30 > 1320)
        BY DEF ButtonBeyondClosing, lastSlotMinutes, SlotMinutes, ClosingTime
      <3>3. QED
        BY <2>1, <3>1, <3>2
    <2>3. QED
      BY <2>1, <2>2
  <1>2. \A i \in 1 .. n : start + (i - 1) * 30 \in 0 .. 1290
    BY <1>1 DEF Minutes, DayMinutes
  <1>3. \A i \in 1 .. n :
            Clock(start + (i - 1) * SlotMinutes) = start + (i - 1) * SlotMinutes
    BY <1>2 DEF Clock, DayMinutes, SlotMinutes
  <1>4. getRequiredSlots(start, n) = generate_required_slots(start, n)
    BY <1>3 DEF getRequiredSlots, generate_required_slots
  <1>5. \A i \in 1 .. n :
            generate_required_slots(start, n)[i] + SlotMinutes <= ClosingTime
    BY <1>2, <1>3 DEF generate_required_slots, SlotMinutes, ClosingTime
  <1>6. ~ExceedsClosing(start)
    <2>1. start \in 0 .. 1290
      BY <1>1 DEF Minutes, DayMinutes
    <2>2. (start + 30) % 1440 = start + 30
      BY <2>1
    <2>3. QED
      BY <2>1, <2>2 DEF ExceedsClosing, end_time, Clock, DayMinutes,
                        SlotMinutes, ClosingTime
  <1>7. QED
    BY <1>4, <1>5, <1>6

\* Of the numbers without a property there is a least one.
LEMMA Least ==
  ASSUME NEW S \in SUBSET Nat, S # {}
  PROVE  \E n \in S : \A k \in S : n <= k
  <1>1. PICK n \in S : \A k \in S : ~(<<k, n>> \in OpToRel(<, Nat))
    BY NatLessThanWellFounded, WFMin
  <1>2. \A k \in S : ~(k < n)
    BY <1>1 DEF OpToRel
  <1> QED
    BY <1>2

-----------------------------------------------------------------------------
(* The array without a slot                                                *)

\* What the first i elements leave, f being what the ones before i leave.
Next1(s, b, f, i) == IF i = 0 THEN <<>> ELSE IF s[i] = b THEN f[i - 1] ELSE Append(f[i - 1], s[i])

Filters(T, s, b, n) == \E f \in [0 .. n -> Seq(T)] : \A i \in 0 .. n : f[i] = Next1(s, b, f, i)

LEMMA FiltersExist ==
  ASSUME NEW T, NEW s \in Seq(T), NEW b
  PROVE  Filters(T, s, b, Len(s))
  <1> DEFINE Bad == {n \in 0 .. Len(s) : ~Filters(T, s, b, n)}
  <1>1. SUFFICES ASSUME Bad # {} PROVE FALSE
    BY DEF Bad
  <1>2. Len(s) \in Nat /\ Bad \in SUBSET Nat
    OBVIOUS
  <1>3. PICK n \in Bad : \A k \in Bad : n <= k
    BY <1>1, <1>2, Least
  <1>4. n \in 0 .. Len(s) /\ ~Filters(T, s, b, n)
    OBVIOUS
  <1>5. CASE n = 0
    <2> DEFINE f == [i \in 0 .. 0 |-> <<>>]
    <2>1. f \in [0 .. 0 -> Seq(T)] /\ \A i \in 0 .. 0 : f[i] = Next1(s, b, f, i)
      BY DEF Next1
    <2> QED
      BY <1>4, <1>5, <2>1 DEF Filters
  <1>6. CASE n # 0
    <2>1. n - 1 \in 0 .. Len(s) /\ n \in 1 .. Len(s) /\ n - 1 \notin Bad
      BY <1>2, <1>3, <1>4, <1>6
    <2>2. PICK f \in [0 .. n - 1 -> Seq(T)] : \A i \in 0 .. n - 1 : f[i] = Next1(s, b, f, i)
      BY <2>1 DEF Filters
    <2> DEFINE last == IF s[n] = b THEN f[n - 1] ELSE Append(f[n - 1], s[n])
               g == [i \in 0 .. n |-> IF i = n THEN last ELSE f[i]]
    <2>3. last \in Seq(T)
      <3>1. s[n] \in T /\ f[n - 1] \in Seq(T)
        BY <2>1
      <3> QED
        BY <3>1
    <2> HIDE DEF last
    <2>4. g \in [0 .. n -> Seq(T)]
      BY <2>1, <2>3
    <2>5. ASSUME NEW i \in 0 .. n PROVE g[i] = Next1(s, b, g, i)
      <3>1. CASE i = n
        <4>1. g[n] = last /\ g[n - 1] = f[n - 1]
          BY <2>1
        <4> QED
          BY <1>6, <3>1, <4>1 DEF Next1, last
      <3>2. CASE i # n
        <4>1. i \in 0 .. n - 1 /\ g[i] = f[i] /\ (i # 0 => g[i - 1] = f[i - 1])
          BY <2>1, <3>2
        <4> QED
          BY <2>2, <4>1 DEF Next1
      <3> QED
        BY <3>1, <3>2
    <2> QED
      BY <1>4, <2>4, <2>5 DEF Filters
  <1> QED
    BY <1>5, <1>6

LEMMA SlotsInAppend ==
  ASSUME NEW T, NEW t \in Seq(T), NEW x \in T
  PROVE  SlotsIn(Append(t, x)) = SlotsIn(t) \cup {x}
  <1> DEFINE u == Append(t, x)
  <1>1. /\ DOMAIN t = 1 .. Len(t) /\ DOMAIN u = 1 .. Len(t) + 1 /\ Len(t) \in Nat
        /\ u[Len(t) + 1] = x /\ \A i \in 1 .. Len(t) : u[i] = t[i]
    OBVIOUS
  <1> HIDE DEF u
  <1>2. DOMAIN u = DOMAIN t \cup {Len(t) + 1}
    BY <1>1
  <1>3. {u[i] : i \in DOMAIN u} = {t[i] : i \in DOMAIN t} \cup {x}
    BY <1>1, <1>2
  <1> QED
    BY <1>3 DEF SlotsIn, u

LEMMA WithoutFilters ==
  ASSUME NEW T, NEW s \in Seq(T), NEW b
  PROVE  \E f \in [0 .. Len(s) -> Seq(T)] :
           /\ \A i \in 0 .. Len(s) : f[i] = Next1(s, b, f, i)
           /\ Without(s, b) = f[Len(s)]
  <1> DEFINE Eq(f) == f = [i \in 0 .. Len(s) |-> IF i = 0 THEN <<>>
                             ELSE IF s[i] = b THEN f[i - 1] ELSE Append(f[i - 1], s[i])]
             k == CHOOSE f : Eq(f)
  <1>1. PICK f \in [0 .. Len(s) -> Seq(T)] : \A i \in 0 .. Len(s) : f[i] = Next1(s, b, f, i)
    BY FiltersExist DEF Filters
  <1>2. Eq(f)
    BY <1>1 DEF Next1
  <1>3. Eq(k)
    BY <1>2
  <1>4. Without(s, b) = k[Len(s)]
    BY DEF Without
  <1> HIDE DEF k
  <1>5. \A i \in 0 .. Len(s) : k[i] = Next1(s, b, k, i)
    BY <1>3 DEF Next1
  <1>6. ASSUME NEW i \in 0 .. Len(s) PROVE k[i] \in Seq(T)
    <2> DEFINE Bad == {n \in 0 .. Len(s) : k[n] \notin Seq(T)}
    <2>1. SUFFICES ASSUME Bad # {} PROVE FALSE
      BY <1>6
    <2>2. Len(s) \in Nat /\ Bad \in SUBSET Nat
      OBVIOUS
    <2>3. PICK n \in Bad : \A j \in Bad : n <= j
      BY <2>1, <2>2, Least
    <2>4. n # 0
      <3>1. 0 \in 0 .. Len(s)
        OBVIOUS
      <3>2. k[0] = <<>>
        BY <1>5, <3>1 DEF Next1
      <3>3. <<>> \in Seq(T)
        OBVIOUS
      <3> QED
        BY <2>3, <3>2, <3>3
    <2>5. n \in 1 .. Len(s) /\ n - 1 \in 0 .. Len(s) /\ n - 1 \notin Bad
      BY <2>2, <2>3, <2>4
    <2>6. k[n - 1] \in Seq(T) /\ s[n] \in T
      BY <2>5
    <2>7. Next1(s, b, k, n) \in Seq(T)
      BY <2>4, <2>6 DEF Next1
    <2> QED
      BY <1>5, <2>5, <2>7
  <1>7. k \in [0 .. Len(s) -> Seq(T)]
    <2>1. k = [i \in 0 .. Len(s) |-> k[i]]
      BY <1>3
    <2> QED
      BY <1>6, <2>1
  <1> QED
    BY <1>4, <1>5, <1>7

\* What is left is a sequence of the same type, of every element but b.
LEMMA WithoutLeaves ==
  ASSUME NEW T, NEW s \in Seq(T), NEW b
  PROVE  Without(s, b) \in Seq(T) /\ SlotsIn(Without(s, b)) = SlotsIn(s) \ {b}
  <1>1. PICK f \in [0 .. Len(s) -> Seq(T)] :
          /\ \A i \in 0 .. Len(s) : f[i] = Next1(s, b, f, i)
          /\ Without(s, b) = f[Len(s)]
    BY WithoutFilters
  <1> DEFINE First(n) == {s[i] : i \in 1 .. n}
             Bad == {n \in 0 .. Len(s) : SlotsIn(f[n]) # First(n) \ {b}}
  <1>2. Len(s) \in Nat /\ Len(s) \in 0 .. Len(s) /\ DOMAIN s = 1 .. Len(s) /\ Bad \in SUBSET Nat
    OBVIOUS
  <1>3. Bad = {}
    <2>1. SUFFICES ASSUME Bad # {} PROVE FALSE
      OBVIOUS
    <2>2. PICK n \in Bad : \A j \in Bad : n <= j
      BY <1>2, <2>1, Least
    <2>3. n # 0
      <3>1. SlotsIn(f[0]) = {}
        BY <1>1, <1>2 DEF Next1, SlotsIn
      <3>2. First(0) = {}
        OBVIOUS
      <3> QED
        BY <3>1, <3>2
    <2>4. n \in 1 .. Len(s) /\ n - 1 \in 0 .. Len(s) /\ n - 1 \notin Bad
      BY <1>2, <2>2, <2>3
    <2>5. SlotsIn(f[n - 1]) = First(n - 1) \ {b}
      BY <2>4
    <2>6. First(n) = First(n - 1) \cup {s[n]}
      <3>1. 1 .. n = (1 .. n - 1) \cup {n}
        BY <2>4
      <3> QED
        BY <3>1
    <2>7. s[n] \in T /\ f[n - 1] \in Seq(T) /\ n \in 0 .. Len(s)
      BY <1>1, <2>4
    <2> HIDE DEF First
    <2>8. CASE s[n] = b
      <3>1. f[n] = f[n - 1]
        BY <1>1, <2>3, <2>7, <2>8 DEF Next1
      <3> QED
        BY <2>5, <2>6, <2>8, <3>1
    <2>9. CASE s[n] # b
      <3>1. f[n] = Append(f[n - 1], s[n])
        BY <1>1, <2>3, <2>7, <2>9 DEF Next1
      <3>2. SlotsIn(f[n]) = SlotsIn(f[n - 1]) \cup {s[n]}
        BY <2>7, <3>1, SlotsInAppend
      <3> QED
        BY <2>5, <2>6, <2>9, <3>2
    <2> QED
      BY <2>8, <2>9
  <1>4. SlotsIn(f[Len(s)]) = First(Len(s)) \ {b}
    BY <1>2, <1>3
  <1>5. First(Len(s)) = SlotsIn(s)
    BY <1>2 DEF SlotsIn
  <1> QED
    BY <1>1, <1>2, <1>4, <1>5

-----------------------------------------------------------------------------
(* The buttons                                                             *)

LEMMA ButtonsAreTimes == Buttons \subseteq Minutes /\ \A b \in Buttons : b \in Nat
  <1>1. ButtonTimes \subseteq Minutes
    BY DEF ButtonTimes, Minutes, DayMinutes
  <1>2. Minutes \subseteq Nat
    BY DEF Minutes, DayMinutes
  <1> QED
    BY <1>1, <1>2, PageAssumption

\* Buttons are only taken out of the selection, and the field only emptied.
LEMMA UpdateOnlyClears ==
  ASSUME TypeOK, NEW d, NEW n, NEW counts, NEW w, UpdateSlotButtons(d, n, counts, w)
  PROVE  /\ disabled' = Unclickable(d, n, counts, w) /\ disabled' \subseteq Buttons
         /\ selected' \subseteq selected /\ slot_time' \in {<<>>, slot_time}
         /\ selected = {} => selected' = {} /\ slot_time' = slot_time
  <1>1. Unclickable(d, n, counts, w) \subseteq Buttons
    BY DEF Unclickable
  <1>2. selected = {} => FirstSelected = {}
    BY DEF FirstSelected
  <1> QED
    BY <1>1, <1>2 DEF UpdateSlotButtons

\* The slots a button asks for are among those of the page.
LEMMA SlotsOfButton ==
  ASSUME NEW b \in Buttons, NEW n \in 1 .. MaxServices, NEW i \in 1 .. n
  PROVE  getRequiredSlots(b, n)[i] = b + (i - 1) * 30 /\ getRequiredSlots(b, n)[i] \in PageSlots
  <1>1. MaxServices \in Nat \ {0} /\ b \in Nat
    BY ButtonsAreTimes, PageAssumption
  <1>2. i - 1 \in 0 .. MaxServices - 1
    BY <1>1
  <1>3. getRequiredSlots(b, n)[i] = b + (i - 1) * SlotMinutes
    BY DEF getRequiredSlots
  <1>4. b + (i - 1) * SlotMinutes \in PageSlots
    BY <1>2 DEF PageSlots
  <1> QED
    BY <1>3, <1>4 DEF SlotMinutes

\* What is enabled after an update fits the services that are ticked.
LEMMA EnabledIsOffered ==
  ASSUME TypeOK, services' \in 0 .. MaxServices, services' > 0,
         bookedSlots' \in [PageSlots -> 0 .. MaxBooked], workerCount' \in 0 .. MaxWorkers,
         UpdateSlotButtons(date, services', bookedSlots', workerCount'), NEW b \in Buttons, b \notin disabled'
  PROVE  Offered(b)'
  <1>1. b \notin Unclickable(date, services', bookedSlots', workerCount')
    BY UpdateOnlyClears
  <1>2. ServiceCount(services') = services'
    BY DEF ServiceCount
  <1>3. /\ ~ButtonBeyondClosing(b, services')
        /\ \A i \in 1 .. services' : ~(bookedSlots'[getRequiredSlots(b, services')[i]] >= workerCount')
    BY <1>1, <1>2 DEF Unclickable
  <1>4. ASSUME NEW i \in 1 .. services' PROVE bookedSlots'[getRequiredSlots(b, services')[i]] < workerCount'
    <2> DEFINE slot == getRequiredSlots(b, services')[i]
    <2>1. MaxServices \in Nat /\ MaxBooked \in Nat /\ MaxWorkers \in Nat
      BY PageAssumption
    <2>2. slot \in PageSlots
      BY <2>1, SlotsOfButton
    <2> HIDE DEF slot
    <2>3. bookedSlots'[slot] \in Nat /\ workerCount' \in Nat
      BY <2>1, <2>2
    <2>4. ~(bookedSlots'[slot] >= workerCount')
      BY <1>3 DEF slot
    <2>5. bookedSlots'[slot] < workerCount'
      BY <2>3, <2>4
    <2> QED
      BY <2>5 DEF slot
  <1> QED
    BY <1>3, <1>4 DEF Offered

-----------------------------------------------------------------------------
(* The answers on their way                                                *)

LEMMA RemoveAtFacts ==
  ASSUME NEW T, NEW s \in Seq(T), NEW i \in DOMAIN s
  PROVE  RemoveAt(s, i) \in Seq(T) /\ Len(RemoveAt(s, i)) = Len(s) - 1
  <1>1. i \in 1 .. Len(s) /\ Len(s) \in Nat
    OBVIOUS
  <1>2. SubSeq(s, 1, i - 1) \in Seq(T) /\ Len(SubSeq(s, 1, i - 1)) = i - 1
    BY <1>1
  <1>3. SubSeq(s, i + 1, Len(s)) \in Seq(T) /\ Len(SubSeq(s, i + 1, Len(s))) = Len(s) - i
    BY <1>1
  <1>4. ASSUME NEW a \in Seq(T), NEW b \in Seq(T) PROVE a \o b \in Seq(T) /\ Len(a \o b) = Len(a) + Len(b)
    OBVIOUS
  <1>5. Len(SubSeq(s, 1, i - 1)) + Len(SubSeq(s, i + 1, Len(s))) = Len(s) - 1
    BY <1>1, <1>2, <1>3
  <1> HIDE DEF RemoveAt
  <1>6. RemoveAt(s, i) = SubSeq(s, 1, i - 1) \o SubSeq(s, i + 1, Len(s))
    BY Zenon DEF RemoveAt
  <1> QED
    BY <1>2, <1>3, <1>4, <1>5, <1>6

\* A step that leaves the page alone but for the answers on their way.
LEMMA PageSame ==
  ASSUME PageInv, posted = NoPost, TypeOK',
         UNCHANGED <<date, services, selected, disabled, selectedSlots, slot_time, bookedSlots, workerCount, posted,
                     steady>>,
         fetches' = <<>> \/ (fetches # <<>> /\ Len(fetches') = Len(fetches))
  PROVE  PageInv'
  <1>1. SelectionListed' /\ AsSubmitted'
    BY DEF PageInv, SelectionListed, AsSubmitted
  <1>2. Settled'
    BY DEF PageInv, Settled, Offered
  <1> QED
    BY <1>1, <1>2 DEF PageInv

LEMMA AnswerFetchKeeps ==
  ASSUME PageInv, NEW i \in DOMAIN fetches, AnswerFetch(i) PROVE PageInv'
  <1> DEFINE answer == [status |-> "answered", date |-> fetches[i].date, booked |-> booked[fetches[i].date],
                        workers |-> workers]
  <1>1. TypeOK /\ fetches \in Seq(Fetch) /\ i \in 1 .. Len(fetches)
    BY DEF PageInv, TypeOK
  <1>2. fetches[i] \in Fetch
    BY <1>1
  <1>3. fetches[i].date \in Dates
    BY <1>2 DEF Fetch
  <1>4. answer \in Fetch
    BY <1>1, <1>3 DEF Fetch, TypeOK
  <1>5. fetches' = [fetches EXCEPT ![i] = answer]
    BY DEF AnswerFetch
  <1> HIDE DEF answer
  <1>6. fetches' \in Seq(Fetch) /\ Len(fetches') = Len(fetches) /\ fetches # <<>>
    BY <1>1, <1>4, <1>5
  <1>7. TypeOK'
    BY <1>1, <1>6 DEF AnswerFetch, TypeOK, server
  <1> QED
    BY <1>6, <1>7, PageSame DEF AnswerFetch

LEMMA FailFetchKeeps ==
  ASSUME PageInv, NEW i \in DOMAIN fetches, FailFetch(i) PROVE PageInv'
  <1>1. TypeOK /\ fetches \in Seq(Fetch) /\ i \in 1 .. Len(fetches) /\ MaxFetches \in Nat
    BY PageAssumption DEF PageInv, TypeOK
  <1>2. fetches' \in Seq(Fetch) /\ Len(fetches') = Len(fetches) - 1
    BY <1>1, RemoveAtFacts DEF FailFetch
  <1>3. TypeOK'
    BY <1>1, <1>2 DEF FailFetch, TypeOK, server
  <1>4. SelectionListed' /\ AsSubmitted'
    BY DEF PageInv, SelectionListed, AsSubmitted, FailFetch
  <1>5. Settled'
    <2>1. steady => fetches' = <<>>
      BY <1>1, <1>2 DEF PageInv, Settled
    <2> QED
      BY <2>1 DEF PageInv, Settled, Offered, FailFetch
  <1> QED
    BY <1>3, <1>4, <1>5 DEF PageInv

LEMMA LoadSlotStatusKeeps ==
  ASSUME PageInv, NEW i \in DOMAIN fetches, LoadSlotStatus(i) PROVE PageInv'
  <1>1. TypeOK /\ fetches \in Seq(Fetch) /\ i \in 1 .. Len(fetches) /\ MaxFetches \in Nat /\ MaxWorkers \in Nat
    BY PageAssumption DEF PageInv, TypeOK
  <1>2. fetches' \in Seq(Fetch) /\ Len(fetches') = Len(fetches) - 1 /\ Len(fetches) \in Nat \ {0}
    BY <1>1, RemoveAtFacts DEF LoadSlotStatus
  <1>3. fetches[i] \in Fetch /\ fetches[i].status = "answered"
    BY <1>1 DEF LoadSlotStatus
  <1>4. /\ fetches[i].booked \in [PageSlots -> 0 .. MaxBooked] /\ fetches[i].workers \in 1 .. MaxWorkers
    BY <1>3 DEF Fetch
  <1>5. /\ bookedSlots' = fetches[i].booked /\ workerCount' = fetches[i].workers
        /\ UpdateSlotButtons(date, services, fetches[i].booked, fetches[i].workers)
        /\ posted = NoPost
        /\ UNCHANGED <<date, services, selectedSlots, server, posted, steady>>
    BY DEF LoadSlotStatus
  <1>6. /\ disabled' \subseteq Buttons /\ selected' \subseteq selected /\ slot_time' \in {<<>>, slot_time}
        /\ selected = {} => selected' = {} /\ slot_time' = slot_time
    BY <1>1, <1>5, UpdateOnlyClears
  <1>7. bookedSlots' \in [PageSlots -> 0 .. MaxBooked] /\ workerCount' \in 0 .. MaxWorkers
    BY <1>1, <1>4, <1>5
  <1>8. TypeOK'
    <2>1. Len(fetches') <= MaxFetches
      <3>1. Len(fetches) <= MaxFetches
        BY <1>1 DEF TypeOK
      <3> QED
        BY <1>1, <1>2, <3>1
    <2>2. selected' \subseteq Buttons /\ slot_time' \in Seq(Buttons)
      <3>1. selected \subseteq Buttons /\ slot_time \in Seq(Buttons)
        BY <1>1 DEF TypeOK
      <3>2. <<>> \in Seq(Buttons)
        OBVIOUS
      <3> QED
        BY <1>6, <3>1, <3>2
    <2>3. UNCHANGED <<date, services, selectedSlots, booked, workers, now, posted, steady>>
      BY <1>5 DEF server
    <2> QED
      BY <1>1, <1>2, <1>6, <1>7, <2>1, <2>2, <2>3, Zenon DEF TypeOK
  <1>9. SelectionListed' /\ AsSubmitted'
    BY <1>5, <1>6 DEF PageInv, SelectionListed, AsSubmitted
  <1>10. Settled'
    <2> SUFFICES ASSUME steady PROVE Settled'
      BY <1>5 DEF Settled
    <2>1. fetches # <<>>
      BY <1>2
    <2>2. selectedSlots = <<>> /\ Len(fetches) = 1 /\ slot_time = selectedSlots /\ date = Today
      BY <2>1 DEF PageInv, Settled
    <2>3. fetches' = <<>>
      BY <1>2, <2>2
    <2>4. SlotsIn(selectedSlots) = {} /\ selected = {}
      BY <2>2 DEF PageInv, Settled, SlotsIn
    <2>5. services' > 0 => \A b \in Buttons \ disabled' : Offered(b)'
      <3>1. services' \in 0 .. MaxServices
        BY <1>1, <1>5 DEF TypeOK
      <3>2. UpdateSlotButtons(date, services', bookedSlots', workerCount')
        BY <1>5
      <3> QED
        BY <1>1, <1>7, <3>1, <3>2, EnabledIsOffered
    <2> QED
      BY <1>5, <1>6, <2>2, <2>3, <2>4, <2>5 DEF Settled
  <1> QED
    BY <1>8, <1>9, <1>10 DEF PageInv

-----------------------------------------------------------------------------
(* The customer                                                            *)

LEMMA ChangeServicesKeeps ==
  ASSUME PageInv, NEW n \in 0 .. MaxServices, ChangeServices(n) PROVE PageInv'
  <1>1. TypeOK /\ SelectionListed
    BY DEF PageInv
  <1>2. /\ services' = n /\ posted = NoPost /\ (steady' <=> steady /\ selectedSlots = <<>>) /\ steady' \in BOOLEAN
        /\ UNCHANGED <<date, selectedSlots, bookedSlots, workerCount, fetches, server, posted>>
    BY <1>1 DEF ChangeServices, TypeOK
  <1>3. /\ disabled' \subseteq Buttons /\ selected' \subseteq selected /\ slot_time' \in {<<>>, slot_time}
        /\ selected = {} => selected' = {} /\ slot_time' = slot_time
    <2>1. CASE date = NoDate
      BY <1>1, <2>1 DEF ChangeServices, TypeOK
    <2>2. CASE date # NoDate
      BY <1>1, <2>2, UpdateOnlyClears DEF ChangeServices
    <2> QED
      BY <2>1, <2>2
  <1>4. TypeOK'
    <2>1. selected' \subseteq Buttons /\ slot_time' \in Seq(Buttons)
      <3>1. selected \subseteq Buttons /\ slot_time \in Seq(Buttons)
        BY <1>1 DEF TypeOK
      <3>2. <<>> \in Seq(Buttons)
        OBVIOUS
      <3> QED
        BY <1>3, <3>1, <3>2
    <2>2. UNCHANGED <<date, selectedSlots, bookedSlots, workerCount, fetches, booked, workers, now, posted>>
      BY <1>2 DEF server
    <2>3. services' \in 0 .. MaxServices /\ steady' \in BOOLEAN
      BY <1>2
    <2> QED
      BY <1>1, <1>3, <2>1, <2>2, <2>3, Zenon DEF TypeOK
  <1>5. SelectionListed' /\ AsSubmitted'
    BY <1>1, <1>2, <1>3 DEF SelectionListed, AsSubmitted
  <1>6. Settled'
    <2> SUFFICES ASSUME steady' PROVE Settled'
      BY DEF Settled
    <2>1. steady /\ selectedSlots = <<>>
      BY <1>2
    <2>2. slot_time = selectedSlots /\ date = Today /\ selected = SlotsIn(selectedSlots)
          /\ (fetches # <<>> => Len(fetches) = 1 /\ workerCount = 0)
      BY <2>1 DEF PageInv, Settled
    <2>3. SlotsIn(selectedSlots) = {} /\ selected = {}
      BY <2>1, <2>2 DEF SlotsIn
    <2>4. services' > 0 => \A b \in Buttons \ disabled' : Offered(b)'
      <3>1. date # NoDate
        BY <2>2, PageAssumption
      <3>2. UpdateSlotButtons(date, services', bookedSlots', workerCount')
        BY <1>2, <3>1 DEF ChangeServices
      <3>3. /\ services' \in 0 .. MaxServices /\ bookedSlots' \in [PageSlots -> 0 .. MaxBooked]
            /\ workerCount' \in 0 .. MaxWorkers
        BY <1>1, <1>2 DEF TypeOK
      <3> QED
        BY <1>1, <3>2, <3>3, EnabledIsOffered
    <2> QED
      BY <1>2, <1>3, <2>1, <2>2, <2>3, <2>4 DEF Settled
  <1> QED
    BY <1>4, <1>5, <1>6 DEF PageInv

LEMMA ChangeDateKeeps ==
  ASSUME PageInv, NEW d \in Dates \cup {NoDate}, ChangeDate(d) PROVE PageInv'
  <1>1. TypeOK /\ fetches \in Seq(Fetch) /\ MaxFetches \in Nat
    BY PageAssumption DEF PageInv, TypeOK
  <1>2. fetches' \in Seq(Fetch) /\ Len(fetches') <= MaxFetches
    <2>1. CASE d = NoDate /\ fetches' = fetches
      BY <1>1, <2>1 DEF TypeOK
    <2>2. CASE d # NoDate /\ Len(fetches) < MaxFetches /\ fetches' = Append(fetches, [status |-> "sent", date |-> d])
      <3>1. [status |-> "sent", date |-> d] \in Fetch
        BY <2>2 DEF Fetch
      <3> HIDE DEF Fetch
      <3> QED
        BY <1>1, <2>2, <3>1
    <2> QED
      BY <2>1, <2>2 DEF ChangeDate
  <1>3. TypeOK'
    <2>1. /\ date' = d /\ selected' = {} /\ slot_time' = <<>> /\ steady' = FALSE
          /\ UNCHANGED <<services, disabled, selectedSlots, bookedSlots, workerCount, booked, workers, now, posted>>
      BY DEF ChangeDate, server
    <2>2. slot_time' \in Seq(Buttons) /\ selected' \subseteq Buttons /\ steady' \in BOOLEAN
      <3>1. <<>> \in Seq(Buttons) /\ {} \subseteq Buttons /\ FALSE \in BOOLEAN
        OBVIOUS
      <3> QED
        BY <2>1, <3>1, Zenon
    <2> QED
      BY <1>1, <1>2, <2>1, <2>2, Zenon DEF TypeOK
  <1>4. SelectionListed' /\ Settled' /\ AsSubmitted'
    BY DEF ChangeDate, SelectionListed, Settled, AsSubmitted
  <1> QED
    BY <1>3, <1>4 DEF PageInv

\* A button that a steady customer can click means the answer has come.
LEMMA ClickAfterLoad ==
  ASSUME PageInv, steady, services > 0, NEW b \in Buttons, b \notin disabled
  PROVE  fetches = <<>>
  <1>1. TypeOK /\ Offered(b)
    BY DEF PageInv, Settled
  <1>2. services \in 1 .. MaxServices /\ 1 \in 1 .. services /\ MaxBooked \in Nat /\ MaxWorkers \in Nat
    BY <1>1, PageAssumption DEF TypeOK
  <1> DEFINE slot == getRequiredSlots(b, services)[1]
  <1>3. slot \in PageSlots
    BY <1>2, SlotsOfButton
  <1>4. bookedSlots[slot] < workerCount
    BY <1>1, <1>2 DEF Offered
  <1> HIDE DEF slot
  <1>5. bookedSlots[slot] \in Nat /\ workerCount \in Nat
    BY <1>1, <1>2, <1>3 DEF TypeOK
  <1>6. workerCount # 0
    BY <1>4, <1>5
  <1> QED
    BY <1>6 DEF PageInv, Settled

LEMMA DeselectKeeps ==
  ASSUME PageInv, NEW b \in Buttons, Deselect(b) PROVE PageInv'
  <1>1. TypeOK /\ SelectionListed /\ selectedSlots \in Seq(Buttons)
    BY DEF PageInv, TypeOK
  <1>2. selectedSlots' \in Seq(Buttons) /\ SlotsIn(selectedSlots') = SlotsIn(selectedSlots) \ {b}
    BY <1>1, WithoutLeaves DEF Deselect
  <1>3. /\ selected' = selected \ {b} /\ slot_time' = selectedSlots' /\ services > 0 /\ b \notin disabled
        /\ posted = NoPost
        /\ UNCHANGED <<date, services, disabled, bookedSlots, workerCount, fetches, server, posted, steady>>
    BY DEF Deselect
  <1>4. TypeOK'
    BY <1>1, <1>2, <1>3 DEF TypeOK, server
  <1>5. SelectionListed' /\ AsSubmitted'
    <2>1. SlotsIn(selectedSlots)' = SlotsIn(selectedSlots')
      BY DEF SlotsIn
    <2> QED
      BY <1>1, <1>2, <1>3, <2>1 DEF SelectionListed, AsSubmitted
  <1>6. Settled'
    <2> SUFFICES ASSUME steady PROVE Settled'
      BY <1>3 DEF Settled
    <2>1. fetches = <<>>
      BY <1>3, ClickAfterLoad
    <2>2. SlotsIn(selectedSlots)' = SlotsIn(selectedSlots')
      BY DEF SlotsIn
    <2>3. services > 0 => \A c \in Buttons \ disabled : Offered(c)'
      BY <1>3 DEF PageInv, Settled, Offered
    <2> QED
      BY <1>2, <1>3, <2>1, <2>2, <2>3 DEF PageInv, Settled
  <1> QED
    BY <1>4, <1>5, <1>6 DEF PageInv

LEMMA SelectKeeps ==
  ASSUME PageInv, NEW b \in Buttons, Select(b) PROVE PageInv'
  <1>1. TypeOK /\ SelectionListed /\ selectedSlots \in Seq(Buttons)
    BY DEF PageInv, TypeOK
  <1>2. selectedSlots' \in Seq(Buttons) /\ SlotsIn(selectedSlots') = SlotsIn(selectedSlots) \cup {b}
    BY <1>1, SlotsInAppend DEF Select
  <1>3. /\ selected' = selected \cup {b} /\ slot_time' = selectedSlots' /\ services > 0 /\ b \notin disabled
        /\ posted = NoPost
        /\ UNCHANGED <<date, services, disabled, bookedSlots, workerCount, fetches, server, posted, steady>>
    BY DEF Select
  <1>4. TypeOK'
    BY <1>1, <1>2, <1>3 DEF TypeOK, server
  <1>5. SelectionListed' /\ AsSubmitted'
    <2>1. SlotsIn(selectedSlots)' = SlotsIn(selectedSlots')
      BY DEF SlotsIn
    <2> QED
      BY <1>1, <1>2, <1>3, <2>1 DEF SelectionListed, AsSubmitted
  <1>6. Settled'
    <2> SUFFICES ASSUME steady PROVE Settled'
      BY <1>3 DEF Settled
    <2>1. fetches = <<>>
      BY <1>3, ClickAfterLoad
    <2>2. SlotsIn(selectedSlots)' = SlotsIn(selectedSlots')
      BY DEF SlotsIn
    <2>3. services > 0 => \A c \in Buttons \ disabled : Offered(c)'
      BY <1>3 DEF PageInv, Settled, Offered
    <2> QED
      BY <1>2, <1>3, <2>1, <2>2, <2>3 DEF PageInv, Settled
  <1> QED
    BY <1>4, <1>5, <1>6 DEF PageInv

LEMMA SubmitKeeps ==
  ASSUME PageInv, Submit PROVE PageInv'
  <1>1. TypeOK /\ services > 0 /\ posted' = [slot_time |-> slot_time, services |-> services]
        /\ UNCHANGED <<page, server, steady>>
    BY DEF PageInv, Submit
  <1>2. services \in 1 .. MaxServices
    BY <1>1, PageAssumption DEF TypeOK
  <1>3. posted' \in Post
    BY <1>1, <1>2 DEF Post, TypeOK
  <1>4. UNCHANGED <<date, services, selected, disabled, selectedSlots, slot_time, bookedSlots, workerCount, fetches>>
    BY <1>1 DEF page
  <1>5. TypeOK'
    BY <1>1, <1>3, <1>4 DEF TypeOK, server
  <1>6. SelectionListed' /\ Settled' /\ AsSubmitted'
    BY <1>1, <1>4 DEF PageInv, SelectionListed, Settled, AsSubmitted, Offered
  <1> QED
    BY <1>5, <1>6 DEF PageInv

\* A fresh page.
LEMMA FreshTypes ==
  /\ NoneBooked \in [PageSlots -> 0 .. MaxBooked] /\ 0 \in 0 .. MaxServices /\ 0 \in 0 .. MaxWorkers
  /\ <<>> \in Seq(Buttons) /\ FirstFetch \in Seq(Fetch) /\ Len(FirstFetch) = 1 /\ 1 <= MaxFetches
  /\ Today \in Dates
  <1>1. MaxBooked \in Nat /\ MaxServices \in Nat /\ MaxWorkers \in Nat /\ MaxFetches \in Nat \ {0} /\ Today \in Dates
    BY PageAssumption
  <1>2. [status |-> "sent", date |-> Today] \in Fetch
    BY <1>1 DEF Fetch
  <1>3. FirstFetch \in Seq(Fetch) /\ Len(FirstFetch) = 1
    BY <1>2 DEF FirstFetch
  <1>4. NoneBooked \in [PageSlots -> 0 .. MaxBooked]
    BY <1>1 DEF NoneBooked
  <1> QED
    BY <1>1, <1>3, <1>4

LEMMA ReloadKeeps ==
  ASSUME PageInv, Reload PROVE PageInv'
  <1>1. TypeOK'
    BY FreshTypes DEF PageInv, Reload, TypeOK, server
  <1>2. SelectionListed' /\ AsSubmitted'
    BY DEF Reload, SelectionListed, AsSubmitted
  <1>3. Settled'
    <2>1. SlotsIn(<<>>) = {}
      BY DEF SlotsIn
    <2>2. SlotsIn(selectedSlots)' = SlotsIn(selectedSlots')
      BY DEF SlotsIn
    <2> QED
      BY <2>1, <2>2, FreshTypes DEF Reload, Settled
  <1> QED
    BY <1>1, <1>2, <1>3 DEF PageInv

-----------------------------------------------------------------------------
(* The others                                                              *)

LEMMA OthersKeep ==
  ASSUME PageInv, posted = NoPost, UNCHANGED <<page, posted, steady>>, TypeOK'
  PROVE  PageInv'
  <1>1. UNCHANGED <<date, services, selected, disabled, selectedSlots, slot_time, bookedSlots, workerCount, fetches>>
    BY DEF page
  <1> QED
    BY <1>1, PageSame

LEMMA OthersBookKeeps ==
  ASSUME PageInv, NEW d \in Dates, NEW s \in OthersSlots, OthersBook(d, s) PROVE PageInv'
  <1>1. PICK n \in 0 .. MaxBooked : booked' = [booked EXCEPT ![d][s] = n]
    BY DEF OthersBook
  <1>2. booked' \in [Dates -> [PageSlots -> 0 .. MaxBooked]]
    BY <1>1 DEF PageInv, TypeOK
  <1>3. UNCHANGED <<date, services, selected, disabled, selectedSlots, slot_time, bookedSlots, workerCount, fetches,
                    workers, now, posted, steady>>
    BY DEF OthersBook, page
  <1>4. TypeOK'
    BY <1>2, <1>3 DEF PageInv, TypeOK
  <1> QED
    BY <1>4, OthersKeep DEF OthersBook

LEMMA OwnerChangesWorkersKeeps ==
  ASSUME PageInv, NEW n \in 1 .. MaxWorkers, OwnerChangesWorkers(n) PROVE PageInv'
  <1>1. TypeOK'
    BY DEF OwnerChangesWorkers, PageInv, TypeOK, page
  <1> QED
    BY <1>1, OthersKeep DEF OwnerChangesWorkers

LEMMA TickKeeps ==
  ASSUME PageInv, Tick PROVE PageInv'
  <1>1. TypeOK'
    BY DEF Tick, PageInv, TypeOK, page
  <1> QED
    BY <1>1, OthersKeep DEF Tick

LEMMA PageInit == Init => PageInv
  <1> SUFFICES ASSUME Init PROVE PageInv
    OBVIOUS
  <1>1. 1 \in 1 .. MaxWorkers
    BY PageAssumption
  <1>2. booked \in [Dates -> [PageSlots -> 0 .. MaxBooked]]
    BY FreshTypes DEF Init
  <1>3. TypeOK
    BY <1>1, <1>2, FreshTypes DEF Init, TypeOK
  <1>4. SlotsIn(<<>>) = {}
    BY DEF SlotsIn
  <1>5. SelectionListed /\ AsSubmitted /\ Settled
    BY <1>4, FreshTypes DEF Init, SelectionListed, AsSubmitted, Settled
  <1> QED
    BY <1>3, <1>5 DEF PageInv

LEMMA PageStep == PageInv /\ [Next]_vars => PageInv'
  <1> SUFFICES ASSUME PageInv, [Next]_vars PROVE PageInv'
    OBVIOUS
  <1>1. CASE UNCHANGED vars
    <2>1. UNCHANGED <<date, services, selected, disabled, selectedSlots, slot_time, bookedSlots, workerCount, fetches,
                      booked, workers, now, posted, steady>>
      BY <1>1 DEF vars, page, server
    <2>2. TypeOK' /\ SelectionListed' /\ Settled' /\ AsSubmitted'
      BY <2>1 DEF PageInv, TypeOK, SelectionListed, Settled, AsSubmitted, Offered
    <2> QED
      BY <2>2 DEF PageInv
  <1>2. CASE Next
    BY <1>2, AnswerFetchKeeps, LoadSlotStatusKeeps, FailFetchKeeps, ChangeServicesKeeps, ChangeDateKeeps, SelectKeeps,
       DeselectKeeps, SubmitKeeps, ReloadKeeps, OthersBookKeeps, OwnerChangesWorkersKeeps, TickKeeps DEF Next
  <1> QED
    BY <1>1, <1>2

-----------------------------------------------------------------------------

(* Whatever order clicks, dates, services and answers come in, the page     *)
(* keeps its inductive invariant (book_slot.js).                           *)
THEOREM PageSound == Spec => []PageInv
  BY PageInit, PageStep, PTL DEF Spec

(* Types; no form is posted without a service (book_slot.js).               *)
THEOREM PageTypes == Spec => []TypeOK
  <1>1. PageInv => TypeOK
    BY DEF PageInv
  <1> QED
    BY <1>1, PageSound, PTL

(* The highlighted buttons are in the array, and the hidden field is empty   *)
(* or the whole array.                                                     *)
THEOREM SelectionIsListed == Spec => []SelectionListed
  <1>1. PageInv => SelectionListed
    BY DEF PageInv
  <1> QED
    BY <1>1, PageSound, PTL

(* What is highlighted is posted or the form names several slots: no order  *)
(* of events has a form name one slot while another is highlighted.        *)
THEOREM PostsNoOther == Spec => []NeverOtherThanShown
  <1>1. ASSUME PageInv PROVE NeverOtherThanShown
    <2> SUFFICES ASSUME posted # NoPost, Len(posted.slot_time) = 1
                 PROVE  selected \subseteq SlotsIn(posted.slot_time)
      BY DEF NeverOtherThanShown
    <2>1. posted.slot_time = slot_time
      BY <1>1 DEF PageInv, AsSubmitted
    <2>2. slot_time # <<>>
      BY <2>1
    <2>3. slot_time = selectedSlots /\ selected \subseteq SlotsIn(selectedSlots)
      BY <1>1, <2>2 DEF PageInv, SelectionListed
    <2> QED
      BY <2>1, <2>3
  <1> QED
    BY <1>1, PageSound, PTL

(* A customer who ticks services first and leaves the date alone posts the   *)
(* buttons that are highlighted, none of them disabled.                     *)
THEOREM PostsWhatItShows == Spec => []PostsWhatIsShown
  <1>1. ASSUME PageInv PROVE PostsWhatIsShown
    BY <1>1 DEF PageInv, Settled, AsSubmitted, PostsWhatIsShown
  <1> QED
    BY <1>1, PageSound, PTL

(* What such a customer posts while the details are current passes the       *)
(* server's tests, whatever the number of services, workers and bookings.   *)
THEOREM ServerAgrees == Spec => []PageAgreesWithServer
  <1>1. ASSUME PageInv, posted # NoPost, steady, Len(posted.slot_time) = 1, bookedSlots = booked[Today],
               workerCount = workers
        PROVE  LET start          == posted.slot_time[1]
                   required_slots == generate_required_slots(start, posted.services)
               IN  /\ ~ExceedsClosing(start)
                   /\ \A i \in DOMAIN required_slots :
                        /\ booked[Today][required_slots[i]] < workers
                        /\ required_slots[i] + SlotMinutes <= ClosingTime
    <2> DEFINE start == slot_time[1]
    <2>1. /\ posted.slot_time = slot_time /\ posted.services = services /\ services > 0
          /\ TypeOK /\ SlotsIn(slot_time) = selected /\ selected \cap disabled = {}
          /\ \A b \in Buttons \ disabled : Offered(b)
      BY <1>1 DEF PageInv, AsSubmitted, Settled
    <2>2. slot_time \in Seq(Buttons) /\ Len(slot_time) = 1
      BY <1>1, <2>1 DEF TypeOK
    <2>3. start \in Buttons /\ start \in SlotsIn(slot_time)
      BY <2>2 DEF SlotsIn
    <2> HIDE DEF start
    <2>4. Offered(start) /\ start \in Minutes
      BY <2>1, <2>3, ButtonsAreTimes
    <2>5. services \in Nat \ {0}
      BY <2>1, PageAssumption DEF TypeOK
    <2>6. /\ getRequiredSlots(start, services) = generate_required_slots(start, services)
          /\ \A i \in 1 .. services : generate_required_slots(start, services)[i] + SlotMinutes <= ClosingTime
          /\ ~ExceedsClosing(start)
      BY <2>4, <2>5, EnabledButtonsAccepted DEF Offered
    <2>7. DOMAIN generate_required_slots(start, services) = 1 .. services
      BY DEF generate_required_slots
    <2> QED
      BY <1>1, <2>1, <2>4, <2>6, <2>7 DEF Offered, start
  <1>2. PageInv => PageAgreesWithServer
    BY <1>1 DEF PageAgreesWithServer
  <1> QED
    BY <1>2, PageSound, PTL
=============================================================================

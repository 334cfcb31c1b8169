----------------------------- MODULE BookingHolds -----------------------------
(***************************************************************************)
(* What Booking implements: SlotHolds, when a browser sends one request at *)
(* a time and gets every response.  What a browser holds is then the       *)
(* pending booking of the session it has, or is about to have when the     *)
(* response of a finished handler arrives.                                 *)
(***************************************************************************)
EXTENDS Booking

\* Responses on their way to b that replace its cookie.
NewCookies(b) ==
    {t \in Threads : req[t].pc = "reply" /\ req[t].browser = b /\ req[t].modified}

EffectiveSession(b) ==
    IF NewCookies(b) = {} THEN cookie[b]
    ELSE req[CHOOSE t \in NewCookies(b) : TRUE].session

SlotsOf(pending) ==
    IF pending = NoBooking THEN {}
    ELSE {<<pending.salon, pending.date, pending.slots[i]>> :
             i \in DOMAIN pending.slots}

\* The slots that the configured start times can reach.
ReachableSlots ==
    {<<s, d, Clock(m + i * SlotMinutes)>> :
        s \in SalonIds, d \in Dates, m \in Starts, i \in 0 .. MaxServices - 1}

HeldNow == [b \in Browsers |-> SlotsOf(EffectiveSession(b).pending)]
SoldNow == [x \in ReachableSlots |-> booked_count(x[1], x[2], x[3])]

Holds == INSTANCE SlotHolds WITH
    Customers <- Browsers,
    Slots     <- ReachableSlots,
    holds     <- HeldNow,
    sold      <- SoldNow

\* Booking, with its threads, cookies and tables, implements SlotHolds when a
\* browser sends one request at a time and gets every response.
ImplementsSlotHolds == Holds!Spec

-----------------------------------------------------------------------------
(* The invariant of sequential browsers, beside IInv                       *)

OneRequest ==
    \A t, u \in Threads :
        req[t].pc # "idle" /\ req[u].pc # "idle" /\ req[t].browser = req[u].browser
            => t = u

\* A handler works on what its browser still has.
CopiesCurrent ==
    \A t \in Threads :
        req[t].pc \notin {"idle", "reply"} => req[t].session = cookie[req[t].browser]

\* Slots that generate_required_slots has made from a form.
Offered(slots) ==
    \E m \in Starts, n \in 0 .. MaxServices : slots = generate_required_slots(m, n)

PendingOffered(session) ==
    session.pending # NoBooking => Offered(session.pending.slots)

SlotsOffered ==
    /\ \A b \in Browsers : PendingOffered(cookie[b])
    /\ \A t \in Threads : req[t].pc # "idle" => PendingOffered(req[t].session)
    /\ \A r \in slot_data : Offered(r.slots)

\* A browser has one request in flight at most, made with the cookie that it
\* still has, so nothing but that request's answer changes what it holds; and
\* every slot held or sold is one that the server derived from a form.
SequentialInv ==
    /\ OneRequest
    /\ CopiesCurrent
    /\ SlotsOffered
    /\ IsFiniteSet(slot_data)
=============================================================================

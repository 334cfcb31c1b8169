----------------------------- MODULE BookSlotPage -----------------------------
(***************************************************************************)
(* The booking page (static/javascript/book_slot.js, book_slot.html): the  *)
(* checkboxes, the date, the slot buttons, the hidden slot_time field and  *)
(* the answers of /get-booked-slots, which arrive in any order.            *)
(*                                                                         *)
(* The page keeps the selection three times: as the "selected" class of    *)
(* the buttons, in the array selectedSlots, and in the hidden field that   *)
(* the form posts.  slot_time is the sequence whose elements the field     *)
(* joins with commas, <<>> for the empty field.                            *)
(***************************************************************************)
EXTENDS SlotTimes, FiniteSets, SequencesExt

CONSTANTS
    Buttons,        \* the buttons of the page, by start time
    OthersSlots,    \* slots that other customers book and cancel
    Dates,          \* dates that may be in the date field
    Today,          \* the only date between the field's min and max
    NoDate,         \* the empty date field
    Times,          \* clock readings of today
    MaxServices,    \* services the salon offers
    MaxWorkers,     \* bound on worker_count
    MaxBooked,      \* bound on the bookings of a slot
    MaxFetches,     \* bound on requests for slot details in flight
    NoPost

ASSUME PageAssumption ==
    /\ Buttons \subseteq ButtonTimes
    /\ Today \in Dates /\ NoDate \notin Dates
    /\ Times \subseteq Minutes
    /\ MaxServices \in Nat \ {0}
    /\ MaxWorkers \in Nat \ {0}
    /\ MaxBooked \in Nat
    /\ MaxFetches \in Nat \ {0}

VARIABLES
    date,             \* dateInput.value
    services,         \* number of checked services
    selected,         \* buttons with the class "selected"
    disabled,         \* disabled buttons
    selectedSlots,    \* the array selectedSlots
    slot_time,        \* the hidden field
    bookedSlots,      \* bookings per slot, as last loaded
    workerCount,      \* workers, as last loaded; 0 before that
    fetches,          \* requests for slot details in flight, as they were sent
    booked,           \* the server's paid bookings per date and slot
    workers,          \* the salon's worker_count
    now,              \* the time of day
    posted,           \* the form on its way to the server
    steady            \* history: since the page was loaded, the customer left the
                      \*   date alone and ticked services before choosing slots

page == <<date, services, selected, disabled, selectedSlots, slot_time,
          bookedSlots, workerCount, fetches>>
server == <<booked, workers, now>>
vars == <<page, server, posted, steady>>

\* The slots a booking from one of the buttons may need.
PageSlots == {b + i * SlotMinutes : b \in Buttons, i \in 0 .. MaxServices - 1}

NoneBooked == [s \in PageSlots |-> 0]

Fetch ==
    [status : {"sent"}, date : Dates]
    \cup [status : {"answered"}, date : Dates,
          booked : [PageSlots -> 0 .. MaxBooked], workers : 1 .. MaxWorkers]

\* What a post carries.
Post == [slot_time : Seq(Buttons), services : 1 .. MaxServices]

\* Types of the page's variables; in particular a form that is posted has at
\* least one service (the page's submit handler refuses others).
TypeOK ==
    /\ date \in Dates \cup {NoDate}
    /\ services \in 0 .. MaxServices
    /\ selected \subseteq Buttons
    /\ disabled \subseteq Buttons
    /\ selectedSlots \in Seq(Buttons)
    /\ slot_time \in Seq(Buttons)
    /\ bookedSlots \in [PageSlots -> 0 .. MaxBooked]
    /\ workerCount \in 0 .. MaxWorkers
    /\ fetches \in Seq(Fetch) /\ Len(fetches) <= MaxFetches
    /\ booked \in [Dates -> [PageSlots -> 0 .. MaxBooked]]
    /\ workers \in 1 .. MaxWorkers
    /\ now \in Times
    /\ posted \in Post \cup {NoPost}
    /\ steady \in BOOLEAN

\* The request for today's details that the page sends when it is loaded.
FirstFetch == <<[status |-> "sent", date |-> Today]>>

Init ==
    /\ date = Today
    /\ services = 0
    /\ selected = {}
    /\ disabled = {}
    /\ selectedSlots = <<>>
    /\ slot_time = <<>>
    /\ bookedSlots = NoneBooked
    /\ workerCount = 0
    /\ fetches = FirstFetch
    /\ booked = [d \in Dates |-> NoneBooked]
    /\ workers = 1
    /\ now \in {m \in Times : \A n \in Times : m <= n}
    /\ posted = NoPost
    /\ steady = TRUE

-----------------------------------------------------------------------------
(* The buttons *)

ServiceCount(n) == IF n = 0 THEN 1 ELSE n

\* Mutant of Unclickable: a comparison that is off by one.
UnclickableOffByOne(d, n, counts, w) ==
    {b \in Buttons :
        \/ d = Today /\ b <= now
        \/ ButtonBeyondClosing(b, ServiceCount(n))
        \/ \E i \in 1 .. ServiceCount(n) :
              counts[getRequiredSlots(b, ServiceCount(n))[i]] > w}

\* The buttons that updateSlotButtons disables.
Unclickable(d, n, counts, w) ==
    {b \in Buttons :
        \/ d = Today /\ b <= now
        \/ ButtonBeyondClosing(b, ServiceCount(n))
        \/ \E i \in 1 .. ServiceCount(n) :
              counts[getRequiredSlots(b, ServiceCount(n))[i]] >= w}

\* The button that querySelector(".slot-btn.selected") finds: the first one.
FirstSelected == {b \in selected : \A c \in selected : b <= c}

\* updateSlotButtons.  When the first selected button got disabled its class
\* and the hidden field are cleared; selectedSlots is not.
UpdateSlotButtons(d, n, counts, w) ==
    LET off == Unclickable(d, n, counts, w)
    IN  /\ disabled' = off
        /\ selected' = selected \ (FirstSelected \cap off)
        /\ slot_time' = IF FirstSelected \cap off = {} THEN slot_time ELSE <<>>

-----------------------------------------------------------------------------
(* Loading the slot details *)

\* get_booked_slots answers with what the tables hold (its two queries are one
\* step).
AnswerFetch(i) ==
    /\ posted = NoPost
    /\ fetches[i].status = "sent"
    /\ fetches' = [fetches EXCEPT ![i] =
                      [status |-> "answered", date |-> fetches[i].date,
                       booked |-> booked[fetches[i].date],
                       workers |-> workers]]
    /\ UNCHANGED <<date, services, selected, disabled, selectedSlots,
                   slot_time, bookedSlots, workerCount, server, posted, steady>>

\* An answer reaches the page, whatever date it is about.
LoadSlotStatus(i) ==
    /\ posted = NoPost
    /\ fetches[i].status = "answered"
    /\ bookedSlots' = fetches[i].booked
    /\ workerCount' = fetches[i].workers
    /\ UpdateSlotButtons(date, services, fetches[i].booked, fetches[i].workers)
    /\ fetches' = RemoveAt(fetches, i)
    /\ UNCHANGED <<date, services, selectedSlots, server, posted, steady>>

\* The request fails; an alert, and the page stays as it was.
FailFetch(i) ==
    /\ posted = NoPost
    /\ fetches' = RemoveAt(fetches, i)
    /\ UNCHANGED <<date, services, selected, disabled, selectedSlots,
                   slot_time, bookedSlots, workerCount, server, posted, steady>>

-----------------------------------------------------------------------------
(* The customer *)

\* A checkbox changes.  The buttons are updated only while there is a date.
ChangeServices(n) ==
    /\ posted = NoPost
    /\ n \in {services - 1, services + 1}
    /\ services' = n
    /\ IF date = NoDate
       THEN UNCHANGED <<disabled, selected, slot_time>>
       ELSE UpdateSlotButtons(date, n, bookedSlots, workerCount)
    /\ steady' = (steady /\ selectedSlots = <<>>)
    /\ UNCHANGED <<date, selectedSlots, bookedSlots, workerCount, fetches,
                   server, posted>>

\* Mutant of ChangeDate: the array is emptied instead of the highlighting.
ChangeDateKeepsHighlight(d) ==
    /\ posted = NoPost
    /\ d # date
    /\ date' = d
    /\ selectedSlots' = <<>>
    /\ slot_time' = <<>>
    /\ steady' = FALSE
    /\ UNCHANGED <<services, selected, disabled, bookedSlots, workerCount,
                   fetches, server, posted>>

\* The date changes: the highlighting and the hidden field are cleared, and
\* the details of the new date are requested.
ChangeDate(d) ==
    /\ posted = NoPost
    /\ d # date
    /\ date' = d
    /\ selected' = {}
    /\ slot_time' = <<>>
    /\ \/ d = NoDate /\ UNCHANGED fetches
       \/ /\ d # NoDate
          /\ Len(fetches) < MaxFetches
          /\ fetches' = Append(fetches, [status |-> "sent", date |-> d])
    /\ steady' = FALSE
    /\ UNCHANGED <<services, disabled, selectedSlots, bookedSlots,
                   workerCount, server, posted>>

\* selectedSlots.filter(t => t !== b)
Without(s, b) ==
    LET kept[i \in 0 .. Len(s)] ==
          IF i = 0 THEN <<>>
          ELSE IF s[i] = b THEN kept[i - 1] ELSE Append(kept[i - 1], s[i])
    IN  kept[Len(s)]

\* Mutant of Deselect: the array keeps the slot.
DeselectKeepsSlot(b) ==
    /\ posted = NoPost
    /\ services > 0 /\ b \notin disabled
    /\ b \in selected
    /\ selected' = selected \ {b}
    /\ slot_time' = selectedSlots
    /\ UNCHANGED <<date, services, disabled, selectedSlots, bookedSlots,
                   workerCount, fetches, server, posted, steady>>

\* A click on an enabled button that is highlighted.
Deselect(b) ==
    /\ posted = NoPost
    /\ services > 0 /\ b \notin disabled
    /\ b \in selected
    /\ selected' = selected \ {b}
    /\ selectedSlots' = Without(selectedSlots, b)
    /\ slot_time' = selectedSlots'
    /\ UNCHANGED <<date, services, disabled, bookedSlots, workerCount,
                   fetches, server, posted, steady>>

\* A click on an enabled button that is not; beyond the limit it is refused.
Select(b) ==
    /\ posted = NoPost
    /\ services > 0 /\ b \notin disabled
    /\ b \notin selected
    /\ Len(selectedSlots) < services
    /\ selected' = selected \cup {b}
    /\ selectedSlots' = Append(selectedSlots, b)
    /\ slot_time' = selectedSlots'
    /\ UNCHANGED <<date, services, disabled, bookedSlots, workerCount,
                   fetches, server, posted, steady>>

\* Mutant of Submit: the number of services is not checked.
SubmitWithoutServices ==
    /\ posted = NoPost
    /\ date = Today
    /\ slot_time # <<>>
    /\ posted' = [slot_time |-> slot_time, services |-> services]
    /\ UNCHANGED <<page, server, steady>>

\* The form is submitted.  The browser checks that the date is in range.
Submit ==
    /\ posted = NoPost
    /\ date = Today
    /\ services > 0
    /\ slot_time # <<>>
    /\ posted' = [slot_time |-> slot_time, services |-> services]
    /\ UNCHANGED <<page, server, steady>>

\* The server's redirect, or a visit from the list of salons, loads the page
\* anew.
Reload ==
    /\ date' = Today
    /\ services' = 0
    /\ selected' = {}
    /\ disabled' = {}
    /\ selectedSlots' = <<>>
    /\ slot_time' = <<>>
    /\ bookedSlots' = NoneBooked
    /\ workerCount' = 0
    /\ fetches' = FirstFetch
    /\ posted' = NoPost
    /\ steady' = TRUE
    /\ UNCHANGED server

-----------------------------------------------------------------------------
(* Other customers, the owner and the clock.  While a form is on its way the *)
(* page reads nothing of them, so they wait.                               *)

OthersBook(d, s) ==
    /\ posted = NoPost
    /\ booked' \in {[booked EXCEPT ![d][s] = n] :
                       n \in {booked[d][s] - 1, booked[d][s] + 1}
                             \cap 0 .. MaxBooked}
    /\ UNCHANGED <<page, workers, now, posted, steady>>

OwnerChangesWorkers(n) ==
    /\ posted = NoPost
    /\ workers' = n
    /\ UNCHANGED <<page, booked, now, posted, steady>>

Tick ==
    /\ posted = NoPost
    /\ \E m \in Times : m > now /\ now' = m
    /\ UNCHANGED <<page, booked, workers, posted, steady>>

Next ==
    \/ \E i \in DOMAIN fetches :
          AnswerFetch(i) \/ LoadSlotStatus(i) \/ FailFetch(i)
    \/ \E n \in 0 .. MaxServices : ChangeServices(n)
    \/ \E d \in Dates \cup {NoDate} : ChangeDate(d)
    \/ \E b \in Buttons : Select(b) \/ Deselect(b)
    \/ Submit
    \/ Reload
    \/ \E d \in Dates, s \in OthersSlots : OthersBook(d, s)
    \/ \E n \in 1 .. MaxWorkers : OwnerChangesWorkers(n)
    \/ Tick

Spec == Init /\ [][Next]_vars

-----------------------------------------------------------------------------
(* Properties *)

SlotsIn(seq) == {seq[i] : i \in DOMAIN seq}

\* The three copies of the selection, whatever the customer does and whenever
\* answers arrive: a highlighted button is in the array selectedSlots, and the
\* hidden field is either empty or the whole array.
SelectionListed ==
    /\ selected \subseteq SlotsIn(selectedSlots)
    /\ slot_time \in {<<>>, selectedSlots}

\* selectedSlots outlives a change of date and a button that got disabled, and
\* its leftovers are posted with later choices or, with nothing highlighted,
\* by themselves; but never does a form name one slot while another one is
\* highlighted.
NeverOtherThanShown ==
    posted # NoPost /\ Len(posted.slot_time) = 1 =>
        selected \subseteq SlotsIn(posted.slot_time)

\* For a customer who leaves the date alone and ticks services before choosing
\* slots, the form posts exactly the highlighted buttons and none of them is
\* disabled.
PostsWhatIsShown ==
    posted # NoPost /\ steady =>
        /\ SlotsIn(posted.slot_time) = selected
        /\ selected \cap disabled = {}

\* For such a customer the page and the server agree: when the details that
\* the page loaded are still what the tables hold, the server's availability
\* and closing-time tests accept a posted slot, and the booking ends by
\* closing time.
PageAgreesWithServer ==
    posted # NoPost /\ steady /\ Len(posted.slot_time) = 1
    /\ bookedSlots = booked[Today] /\ workerCount = workers
    => LET start          == posted.slot_time[1]
           required_slots == generate_required_slots(start, posted.services)
       IN  /\ ~ExceedsClosing(start)
           /\ \A i \in DOMAIN required_slots :
                 /\ booked[Today][required_slots[i]] < workers
                 /\ required_slots[i] + SlotMinutes <= ClosingTime

-----------------------------------------------------------------------------
(* The inductive invariant *)

\* A button that the loaded details let the customer choose.
Offered(b) ==
    /\ ~ButtonBeyondClosing(b, services)
    /\ \A i \in 1 .. services : bookedSlots[getRequiredSlots(b, services)[i]] < workerCount

\* For a customer who leaves the date alone and ticks services first: nothing
\* can be chosen before the only answer has come, and from then on the three
\* copies of the selection are one.
Settled ==
    steady =>
        /\ date = Today
        /\ fetches # <<>> => Len(fetches) = 1 /\ workerCount = 0 /\ selectedSlots = <<>>
        /\ services > 0 => \A b \in Buttons \ disabled : Offered(b)
        /\ slot_time = selectedSlots
        /\ SlotsIn(selectedSlots) = selected /\ selected \cap disabled = {}

\* While a form is on its way the page stays as it was submitted.
AsSubmitted ==
    posted # NoPost =>
        /\ posted = [slot_time |-> slot_time, services |-> services]
        /\ services > 0

(* The copies of the selection are related, and settle for such a customer. *)
PageInv == TypeOK /\ SelectionListed /\ Settled /\ AsSubmitted
==============================================================================

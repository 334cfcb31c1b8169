------------------------------ MODULE SlotTimes ------------------------------
(***************************************************************************)
(* The slot arithmetic of the booking form, as the server (app.py) and the *)
(* page (static/javascript/book_slot.js) each compute it.                  *)
(*                                                                         *)
(* A time of day is its number of minutes since midnight.  The program     *)
(* keeps times as zero-padded "HH:MM" strings, whose lexicographic order   *)
(* is the order of the minutes; strftime drops the date, so the server's   *)
(* formatting is a reduction modulo one day, whereas the page pads whatever*)
(* number of hours it is given and so never wraps.                         *)
(***************************************************************************)
EXTENDS Integers, Sequences

DayMinutes  == 24 * 60
SlotMinutes == 30
ClosingTime == 22 * 60

Minutes == 0 .. (DayMinutes - 1)

\* strftime("%H:%M") of a datetime that lies m minutes after a midnight.
Clock(m) == m % DayMinutes

-----------------------------------------------------------------------------
(* The server. *)

\* One 30-minute slot per selected service, starting with the chosen one.
generate_required_slots(start_time, service_count) ==
    [i \in 1 .. service_count |-> Clock(start_time + (i - 1) * SlotMinutes)]

\* end_time is computed from the first slot only.
end_time(start_time) == Clock(start_time + SlotMinutes)

\* The server's test for "Selected services exceed salon closing time".
ExceedsClosing(start_time) == end_time(start_time) > ClosingTime

-----------------------------------------------------------------------------
(* The page. *)

\* The buttons of book_slot.html: 07:00, 07:30, ... 20:30, 21:00.
ButtonTimes == {h * 60 + m : h \in 7 .. 21, m \in {0, 30}} \ {21 * 60 + 30}

\* minutesToTime does not wrap, so a label is its number of minutes.
getRequiredSlots(startTime, serviceCount) ==
    [i \in 1 .. serviceCount |-> startTime + (i - 1) * SlotMinutes]

lastSlotMinutes(startTime, serviceCount) ==
    getRequiredSlots(startTime, serviceCount)[serviceCount] + SlotMinutes

\* The page disables a button whose last required slot ends after closing.
ButtonBeyondClosing(startTime, serviceCount) ==
    lastSlotMinutes(startTime, serviceCount) > ClosingTime
=============================================================================

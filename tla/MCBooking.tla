------------------------------ MODULE MCBooking ------------------------------
(* Booking on small instances.                                             *)
EXTENDS BookingHolds, TLC

Symmetry ==
    Permutations(Browsers) \cup Permutations(Threads)
    \cup Permutations(Names) \cup Permutations(OrderIds)
=============================================================================

------------------------------ MODULE SlotHolds ------------------------------
(***************************************************************************)
(* What booking promises about the slots of the salons, without threads,   *)
(* cookies or tables.  A customer holds a set of slots while the booking   *)
(* is unpaid; a hold is granted only when each of its slots is sold fewer  *)
(* times than the salon has workers, but a hold reserves nothing: it turns *)
(* into a sale when it is paid, whatever was sold in between.              *)
(***************************************************************************)
EXTENDS Integers, FiniteSets

CONSTANTS
    Customers,    \* whoever can hold an unpaid booking
    Slots,        \* 30-minute slots of the salons
    MaxWorkers    \* the most workers a salon has

\* What the theorems assume of them.
SlotHoldsAssumption == IsFiniteSet(Customers) /\ MaxWorkers \in Nat \ {0}

VARIABLES
    holds,    \* the slots of each customer's unpaid booking
    sold      \* how often each slot is sold

vars == <<holds, sold>>

\* Types of holds and sales.
TypeOK ==
    /\ holds \in [Customers -> SUBSET Slots]
    /\ sold \in [Slots -> Nat]

Init ==
    /\ holds = [c \in Customers |-> {}]
    /\ sold = [x \in Slots |-> 0]

\* A booking is accepted; it replaces the customer's earlier unpaid one.
Hold(c, S) ==
    /\ \A x \in S : sold[x] < MaxWorkers
    /\ holds' = [holds EXCEPT ![c] = S]
    /\ UNCHANGED sold

\* Logging in or out forgets the unpaid booking.
Drop(c) ==
    /\ holds' = [holds EXCEPT ![c] = {}]
    /\ UNCHANGED sold

\* The unpaid booking is paid for.
Buy(c) ==
    /\ sold' = [x \in Slots |->
                   IF x \in holds[c] THEN sold[x] + 1 ELSE sold[x]]
    /\ holds' = [holds EXCEPT ![c] = {}]

\* Bookings are deleted, alone or with their user or salon.
Release ==
    /\ sold' \in [Slots -> Nat]
    /\ \A x \in Slots : sold'[x] <= sold[x]
    /\ UNCHANGED holds

Next ==
    \/ \E c \in Customers : \/ \E S \in SUBSET Slots : Hold(c, S)
                            \/ Drop(c)
                            \/ Buy(c)
    \/ Release

Spec == Init /\ [][Next]_vars

-----------------------------------------------------------------------------

Holders(x) == {c \in Customers : x \in holds[c]}

\* Sales and holds of a slot together: a hold is granted below the number of
\* workers, and by then every other customer may already hold the slot too.
ClaimsBounded ==
    \A x \in Slots :
        sold[x] + Cardinality(Holders(x))
            <= MaxWorkers - 1 + Cardinality(Customers)

\* No slot is sold more than Cardinality(Customers) - 1 times beyond the
\* number of workers.
SalesBounded ==
    \A x \in Slots : sold[x] <= MaxWorkers - 1 + Cardinality(Customers)
=============================================================================

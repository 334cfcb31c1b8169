--------------------------- MODULE SlotHoldsProofs ---------------------------
(***************************************************************************)
(* SlotHolds keeps its promise for every set of customers and every number *)
(* of workers: the sum of the sales and the holds of a slot is bounded,    *)
(* and with it the sales alone.                                            *)
(***************************************************************************)
EXTENDS SlotHolds, FiniteSetTheorems, TLAPS

\* There are never more holders of a slot than customers, and their number is
\* a natural number.
LEMMA HoldersFinite ==
    ASSUME NEW x, SlotHoldsAssumption
    PROVE  /\ IsFiniteSet(Holders(x))
           /\ Cardinality(Holders(x)) \in Nat
           /\ Cardinality(Customers) \in Nat
           /\ Cardinality(Holders(x)) <= Cardinality(Customers)
  <1>1. Holders(x) \in SUBSET Customers
    BY DEF Holders
  <1>2. QED
    BY <1>1, FS_Subset, FS_CardinalityType DEF SlotHoldsAssumption

\* A change that only takes holders of a slot away does not raise their number.
LEMMA HoldersShrink ==
    ASSUME NEW x, SlotHoldsAssumption, Holders(x)' \subseteq Holders(x)
    PROVE  /\ Cardinality(Holders(x)') \in Nat
           /\ Cardinality(Holders(x)') <= Cardinality(Holders(x))
  BY HoldersFinite, FS_Subset, FS_CardinalityType

\* SlotHolds is type correct.
THEOREM TypeCorrect == Spec => []TypeOK
  <1>1. Init => TypeOK
    BY DEF Init, TypeOK
  <1>2. TypeOK /\ [Next]_vars => TypeOK'
    BY DEF TypeOK, Next, vars, Hold, Drop, Buy, Release
  <1>3. QED
    BY <1>1, <1>2, PTL DEF Spec

\* The sales of a slot and the unpaid bookings that contain it add up to at
\* most (workers - 1) + (customers): the inductive invariant.
THEOREM ClaimsAlwaysBounded ==
    ASSUME SlotHoldsAssumption
    PROVE  Spec => []ClaimsBounded
  <1>1. Init => ClaimsBounded
    <2> SUFFICES ASSUME Init, NEW x \in Slots
                 PROVE  sold[x] + Cardinality(Holders(x))
                            <= MaxWorkers - 1 + Cardinality(Customers)
      BY DEF ClaimsBounded
    <2>1. sold[x] = 0
      BY DEF Init
    <2>2. QED
      BY <2>1, HoldersFinite DEF SlotHoldsAssumption
  <1>2. ASSUME TypeOK, ClaimsBounded, [Next]_vars
        PROVE  ClaimsBounded'
    <2> SUFFICES ASSUME NEW x \in Slots
                 PROVE  sold'[x] + Cardinality(Holders(x)')
                            <= MaxWorkers - 1 + Cardinality(Customers)
      BY DEF ClaimsBounded
    <2>0. /\ sold[x] + Cardinality(Holders(x))
                 <= MaxWorkers - 1 + Cardinality(Customers)
          /\ sold[x] \in Nat
          /\ Cardinality(Holders(x)) \in Nat
          /\ Cardinality(Customers) \in Nat
      BY <1>2, HoldersFinite DEF ClaimsBounded, TypeOK
    <2>1. ASSUME NEW c \in Customers, NEW S \in SUBSET Slots, Hold(c, S)
          PROVE  sold'[x] + Cardinality(Holders(x)')
                     <= MaxWorkers - 1 + Cardinality(Customers)
      <3>1. CASE x \in S
        <4>1. sold'[x] <= MaxWorkers - 1
          BY <2>1, <2>0, <3>1 DEF SlotHoldsAssumption, Hold
        <4>2. /\ Cardinality(Holders(x)') \in Nat
              /\ Cardinality(Holders(x)') <= Cardinality(Customers)
          <5>1. Holders(x)' \in SUBSET Customers
            BY DEF Holders
          <5>2. QED
            BY <5>1, FS_Subset, FS_CardinalityType DEF SlotHoldsAssumption
        <4>3. sold'[x] \in Nat
          BY <2>1, <2>0 DEF Hold
        <4>4. QED
          BY <4>1, <4>2, <4>3, <2>0 DEF SlotHoldsAssumption
      <3>2. CASE x \notin S
        <4>1. Holders(x)' \subseteq Holders(x)
          BY <1>2, <2>1, <3>2 DEF Hold, Holders, TypeOK
        <4>2. sold'[x] = sold[x]
          BY <2>1 DEF Hold
        <4>3. QED
          BY <4>1, <4>2, <2>0, HoldersShrink DEF SlotHoldsAssumption
      <3>3. QED
        BY <3>1, <3>2
    <2>2. ASSUME NEW c \in Customers, Drop(c)
          PROVE  sold'[x] + Cardinality(Holders(x)')
                     <= MaxWorkers - 1 + Cardinality(Customers)
      <3>1. Holders(x)' \subseteq Holders(x)
        BY <1>2, <2>2 DEF Drop, Holders, TypeOK
      <3>2. sold'[x] = sold[x]
        BY <2>2 DEF Drop
      <3>3. QED
        BY <3>1, <3>2, <2>0, HoldersShrink DEF SlotHoldsAssumption
    <2>3. ASSUME NEW c \in Customers, Buy(c)
          PROVE  sold'[x] + Cardinality(Holders(x)')
                     <= MaxWorkers - 1 + Cardinality(Customers)
      <3>1. CASE x \in holds[c]
        <4>1. Holders(x)' = Holders(x) \ {c}
          BY <1>2, <2>3 DEF Buy, Holders, TypeOK
        <4>2. c \in Holders(x)
          BY <3>1 DEF Holders
        <4>3. Cardinality(Holders(x)') = Cardinality(Holders(x)) - 1
          BY <4>1, <4>2, HoldersFinite, FS_RemoveElement
        <4>4. sold'[x] = sold[x] + 1
          BY <2>3, <3>1 DEF Buy
        <4>5. QED
          BY <4>3, <4>4, <2>0 DEF SlotHoldsAssumption
      <3>2. CASE x \notin holds[c]
        <4>1. Holders(x)' \subseteq Holders(x)
          BY <1>2, <2>3 DEF Buy, Holders, TypeOK
        <4>2. sold'[x] = sold[x]
          BY <2>3, <3>2 DEF Buy
        <4>3. QED
          BY <4>1, <4>2, <2>0, HoldersShrink DEF SlotHoldsAssumption
      <3>3. QED
        BY <3>1, <3>2
    <2>4. ASSUME Release
          PROVE  sold'[x] + Cardinality(Holders(x)')
                     <= MaxWorkers - 1 + Cardinality(Customers)
      <3>1. Holders(x)' = Holders(x)
        BY <2>4 DEF Release, Holders
      <3>2. sold'[x] \in Nat /\ sold'[x] <= sold[x]
        BY <1>2, <2>4 DEF Release, TypeOK
      <3>3. QED
        BY <3>1, <3>2, <2>0 DEF SlotHoldsAssumption
    <2>5. ASSUME UNCHANGED vars
          PROVE  sold'[x] + Cardinality(Holders(x)')
                     <= MaxWorkers - 1 + Cardinality(Customers)
      BY <2>5, <2>0 DEF vars, Holders
    <2>6. QED
      BY <1>2, <2>1, <2>2, <2>3, <2>4, <2>5 DEF Next
  <1>3. QED
    BY <1>1, <1>2, TypeCorrect, PTL DEF Spec

\* Whatever the number of customers and workers, a slot is never sold more than
\* (customers - 1) times beyond the workers.
THEOREM SalesAlwaysBounded ==
    ASSUME SlotHoldsAssumption
    PROVE  Spec => []SalesBounded
  <1>1. ASSUME TypeOK, ClaimsBounded
        PROVE  SalesBounded
    <2> SUFFICES ASSUME NEW x \in Slots
                 PROVE  sold[x] <= MaxWorkers - 1 + Cardinality(Customers)
      BY DEF SalesBounded
    <2>1. sold[x] \in Nat
      BY <1>1 DEF TypeOK
    <2>2. QED
      BY <1>1, <2>1, HoldersFinite DEF SlotHoldsAssumption, ClaimsBounded
  <1>2. QED
    BY <1>1, TypeCorrect, ClaimsAlwaysBounded, PTL
=============================================================================

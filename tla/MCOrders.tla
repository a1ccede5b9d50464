------------------------------ MODULE MCOrders ------------------------------
(* Instances of Orders for TLC. *)
EXTENDS Orders, TLC

CONSTANTS o1, o2, l1, l2, l3, p1, p2

\* o1 has two units of l1, and l2, whose stock is not tracked; o2 has one unit of l3.
MCOrderOf == [l \in Line |-> IF l = l3 THEN o2 ELSE o1]
MCQuantity == [l \in Line |-> IF l = l1 THEN 2 ELSE 1]
MCPaidFor == [p \in Payment |-> IF o2 \in Order /\ p = p2 THEN o2 ELSE o1]
MCCaptured == [p \in Payment |-> IF p = p1 THEN 2 ELSE 1]
MCFirst == [o \in Order |-> IF o = o2 THEN p2 ELSE p1]

Symmetry == Permutations(Refund) \cup Permutations(Parcel)

=============================================================================

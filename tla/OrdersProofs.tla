---------------------------- MODULE OrdersProofs ----------------------------
(***************************************************************************)
(* Proofs about Orders, for any orders, payments, refunds and parcels and  *)
(* any finite set of lines, in three layers, each resting on the one       *)
(* before:                                                                 *)
(*   IInv       what the rows say: the types, and two facts that tie       *)
(*              fulfilment to cancellation (a cancelled order has nothing  *)
(*              fulfilled, and a parcel carries units);                    *)
(*   RefundInv  the ledgers of refunds, sums over the refund rows;         *)
(*   StockInv   the ledgers of the inventory level, sums over the lines    *)
(*              and the refunds, where no order can be deleted.            *)
(***************************************************************************)
EXTENDS Orders, Sums

RefundShape ==
  [status: {"NONE", "PENDING", "SUCCEEDED", "FAILED"}, payment: Payment \cup {None},
   amount: Nat, units: [Line -> Nat], restock: SUBSET Line]

Columns ==
  /\ order \in [Order -> {"OPEN", "CANCELLED", "GONE"}]
  /\ completed \in [Order -> {"no", "whole", "override"}]
  /\ refunded \in [Order -> Nat]
  /\ fulfilled \in [Line -> Nat]
  /\ \A l \in Line : fulfilled[l] <= Quantity[l]
  /\ reservation \in [Line -> {"NONE", "CONVERTED", "RELEASED"}]
  /\ shipment \in [Parcel -> [order: Order \cup {None}, status: ShipmentStatus]]
  /\ told \subseteq Parcel
  /\ paidBack \in [Payment -> Nat]
  /\ refund \in [Refund -> RefundShape]
  /\ \A r \in Refund : refund[r].status # "NONE" => refund[r].payment \in Payment

CancelledHasNothing ==
  \A o \in Order : order[o] = "CANCELLED" =>
    \A l \in Line : OrderOf[l] = o => fulfilled[l] = 0 /\ reservation[l] # "CONVERTED"

ParcelsCarryUnits ==
  \A f \in Parcel : shipment[f].order # None =>
    \E l \in Line : OrderOf[l] = shipment[f].order /\ fulfilled[l] > 0

IInv ==
  /\ Columns
  /\ CancelledHasNothing
  /\ ParcelsCarryUnits
  /\ WholeIsDelivered
  /\ ShopperIsTold
  /\ OrderShowsItsRefunds

-----------------------------------------------------------------------------
(* The initial state and every step.                                       *)

\* Placed orders start with nothing fulfilled, cancelled or paid back.
LEMMA InitEstablishes == Init => IInv
<1> SUFFICES ASSUME Init PROVE IInv
  OBVIOUS
<1> USE OrderAssumption, PaymentAssumption
<1>1. Columns
  BY DEF Init, Columns, NoShipment, NoRefund, RefundShape, ShipmentStatus
<1>2. CancelledHasNothing /\ ParcelsCarryUnits
  BY DEF Init, CancelledHasNothing, ParcelsCarryUnits, NoShipment
<1>3. WholeIsDelivered /\ ShopperIsTold /\ OrderShowsItsRefunds
  BY DEF Init, WholeIsDelivered, ShopperIsTold, OrderShowsItsRefunds, NoShipment, Dispatched
<1>. QED
  BY <1>1, <1>2, <1>3 DEF IInv

\* Fulfilling: only an open order that is not complete gets a parcel, and the parcel
\* carries at least one unit.
LEMMA FulfilKeeps ==
  ASSUME IInv, NEW o \in Order, NEW units \in Chosen(o), NEW f \in Parcel,
         NEW status \in ShipmentStatus, FulfilOrder(o, units, f, status)
  PROVE  IInv'
<1> USE OrderAssumption, PaymentAssumption DEF IInv, Columns, FulfilOrder, ShipStock, Chosen, LinesOf, Left, refundVars
<1>1. units \in [Line -> Nat]
  BY DEF Chosen
<1>2. \A l \in Line : fulfilled'[l] = fulfilled[l] + units[l] /\ fulfilled'[l] <= Quantity[l]
  BY <1>1
<1>3. \A l \in Line : OrderOf[l] # o => fulfilled'[l] = fulfilled[l]
  BY <1>1
<1>4. Columns'
  BY <1>1, <1>2
<1>5. CancelledHasNothing'
  BY <1>3, <1>4 DEF CancelledHasNothing
<1>6. ParcelsCarryUnits'
  BY <1>1, <1>2, <1>4 DEF ParcelsCarryUnits
<1>7. WholeIsDelivered'
  BY <1>3, <1>4 DEF WholeIsDelivered, Fulfilled, ParcelsOf
<1>8. ShopperIsTold'
  BY <1>4 DEF ShopperIsTold
<1>9. OrderShowsItsRefunds'
  BY DEF OrderShowsItsRefunds
<1>. QED
  BY <1>4, <1>5, <1>6, <1>7, <1>8, <1>9

\* A parcel that moves along its journey keeps its order and its units.
LEMMA UpdateFulfilmentKeeps ==
  ASSUME IInv, NEW f \in Parcel, NEW status \in ShipmentStatus, UpdateFulfilment(f, status)
  PROVE  IInv'
<1> USE OrderAssumption, PaymentAssumption DEF IInv, Columns, UpdateFulfilment, stockVars, refundVars
<1>1. Columns'
  OBVIOUS
<1>2. CancelledHasNothing' /\ OrderShowsItsRefunds'
  BY DEF CancelledHasNothing, OrderShowsItsRefunds
<1>3. ParcelsCarryUnits'
  BY DEF ParcelsCarryUnits
<1>4. WholeIsDelivered'
  BY DEF WholeIsDelivered, Fulfilled, LinesOf, ParcelsOf
<1>5. ShopperIsTold'
  BY DEF ShopperIsTold
<1>. QED
  BY <1>1, <1>2, <1>3, <1>4, <1>5

\* Completing: without an override every unit is shipped and every parcel delivered.
LEMMA CompleteKeeps ==
  ASSUME IInv, NEW o \in Order, NEW override \in BOOLEAN, CompleteOrder(o, override)
  PROVE  IInv'
<1> USE OrderAssumption, PaymentAssumption DEF IInv, Columns, CompleteOrder, stockVars, parcelVars, refundVars
<1>1. Columns'
  OBVIOUS
<1>2. CancelledHasNothing' /\ OrderShowsItsRefunds' /\ ParcelsCarryUnits' /\ ShopperIsTold'
  BY DEF CancelledHasNothing, OrderShowsItsRefunds, ParcelsCarryUnits, ShopperIsTold
<1>3. WholeIsDelivered'
  BY DEF WholeIsDelivered, Blocked, Fulfilled, LinesOf, ParcelsOf
<1>. QED
  BY <1>1, <1>2, <1>3

\* Cancelling: nothing is fulfilled, and every reservation is given back.
LEMMA CancelKeeps ==
  ASSUME IInv, NEW o \in Order, CancelOrder(o)
  PROVE  IInv'
<1> USE OrderAssumption, PaymentAssumption
     DEF IInv, Columns, CancelOrder, ReturnStock, HeldLines, LinesOf, parcelVars, refundVars
<1>1. Columns'
  OBVIOUS
<1>2. CancelledHasNothing'
  BY DEF CancelledHasNothing
<1>3. OrderShowsItsRefunds' /\ ParcelsCarryUnits' /\ ShopperIsTold'
  BY DEF OrderShowsItsRefunds, ParcelsCarryUnits, ShopperIsTold
<1>4. WholeIsDelivered'
  BY DEF WholeIsDelivered, Fulfilled, ParcelsOf
<1>. QED
  BY <1>1, <1>2, <1>3, <1>4

\* Deleting a demo order takes its parcels and refunds with it.
LEMMA DeleteKeeps ==
  ASSUME IInv, NEW o \in Order, DeleteDemoOrder(o)
  PROVE  IInv'
<1> USE OrderAssumption, PaymentAssumption
     DEF IInv, Columns, DeleteDemoOrder, LinesOf, ParcelsOf
<1>1. Columns'
  <2>1. \A r \in Refund : refund'[r] = NoRefund \/ refund'[r] = refund[r]
    OBVIOUS
  <2>2. NoRefund \in RefundShape /\ NoRefund.status = "NONE"
    BY DEF NoRefund, RefundShape
  <2>3. refund' \in [Refund -> RefundShape]
        /\ \A r \in Refund : refund'[r].status # "NONE" => refund'[r].payment \in Payment
    BY <2>1, <2>2
  <2>4. shipment' \in [Parcel -> [order: Order \cup {None}, status: ShipmentStatus]]
        /\ told' \subseteq Parcel
    BY DEF NoShipment, ShipmentStatus
  <2>. QED
    BY <2>3, <2>4
<1>2. CancelledHasNothing'
  BY DEF CancelledHasNothing
<1>3. OrderShowsItsRefunds'
  BY DEF OrderShowsItsRefunds
<1>4. \A f \in Parcel : shipment'[f].order # None =>
        shipment'[f] = shipment[f] /\ shipment[f].order # o
  BY DEF NoShipment
<1>5. ParcelsCarryUnits' /\ ShopperIsTold'
  BY <1>4 DEF ParcelsCarryUnits, ShopperIsTold, Dispatched
<1>6. WholeIsDelivered'
  BY <1>4 DEF WholeIsDelivered, Fulfilled, NoShipment
<1>. QED
  BY <1>1, <1>2, <1>3, <1>5, <1>6

-----------------------------------------------------------------------------
(* Refunds.                                                                *)

\* Settling a refund, whoever does it, pays back on the payment and, if it is the
\* order's own, shows the same amount on the order.
LEMMA SettleKeeps ==
  ASSUME IInv, NEW r \in Refund, NEW ok \in BOOLEAN, SettleRefund(r, ok),
         UNCHANGED <<order, completed, fulfilled, parcelVars>>
  PROVE  IInv'
<1> USE OrderAssumption, PaymentAssumption
     DEF IInv, Columns, stockVars, parcelVars, refundVars
<1>1. /\ reservation' = reservation
      /\ refund' \in [Refund -> RefundShape]
      /\ \A s \in Refund : refund'[s].status # "NONE" => refund'[s].payment \in Payment
  <2>1. CASE refund[r].status # "PENDING" \/ (ok /\ ~Fits(r))
    BY <2>1 DEF SettleRefund
  <2>2. CASE ~(refund[r].status # "PENDING" \/ (ok /\ ~Fits(r)))
    <3> DEFINE new == IF ok THEN "SUCCEEDED" ELSE "FAILED"
    <3>1. /\ refund' = [refund EXCEPT ![r].status = new]
          /\ reservation' = reservation
      BY <2>2 DEF SettleRefund
    <3>2. refund[r].payment \in Payment
      BY <2>2
    <3>3. new \in {"SUCCEEDED", "FAILED"} /\ refund[r] \in RefundShape
      OBVIOUS
    <3> HIDE DEF new
    <3>4. /\ [refund[r] EXCEPT !.status = new] \in RefundShape
          /\ [refund[r] EXCEPT !.status = new].payment = refund[r].payment
      BY <3>3 DEF RefundShape
    <3>5. \A s \in Refund :
            refund'[s] = IF s = r THEN [refund[r] EXCEPT !.status = new] ELSE refund[s]
      BY <3>1
    <3>. QED
      BY <3>1, <3>2, <3>4, <3>5
  <2>. QED
    BY <2>1, <2>2
<1>2. /\ paidBack' \in [Payment -> Nat]
      /\ refunded' \in [Order -> Nat]
      /\ OrderShowsItsRefunds'
  <2>1. CASE paidBack' = paidBack /\ refunded' = refunded
    BY <2>1 DEF OrderShowsItsRefunds
  <2>2. CASE ~(paidBack' = paidBack /\ refunded' = refunded)
    <3> DEFINE p == refund[r].payment
    <3> DEFINE a == refund[r].amount
    <3>1. /\ p \in Payment /\ a \in Nat
          /\ paidBack' = [paidBack EXCEPT ![p] = @ + a]
          /\ refunded' = [o \in Order |-> IF First[o] = p THEN refunded[o] + a ELSE refunded[o]]
      BY <2>2 DEF SettleRefund, OrderRefunded, RefundShape
    <3>2. \A o \in Order : First[o] \in Payment
      OBVIOUS
    <3> HIDE DEF p, a
    <3>3. paidBack' \in [Payment -> Nat] /\ refunded' \in [Order -> Nat]
      BY <3>1
    <3>. QED
      BY <3>1, <3>2, <3>3 DEF OrderShowsItsRefunds
  <2>. QED
    BY <2>1, <2>2
<1>3. Columns'
  BY <1>1, <1>2
<1>4. CancelledHasNothing' /\ ParcelsCarryUnits' /\ ShopperIsTold'
  BY <1>1 DEF CancelledHasNothing, ParcelsCarryUnits, ShopperIsTold
<1>5. WholeIsDelivered'
  BY DEF WholeIsDelivered, Fulfilled, LinesOf, ParcelsOf
<1>. QED
  BY <1>2, <1>3, <1>4, <1>5

\* Asking for a refund writes its row; no amount moves yet.
LEMMA RequestKeeps ==
  ASSUME IInv, NEW r \in Refund, NEW p \in Payment, NEW amount \in 1..Captured[p],
         NEW units \in Chosen(PaidFor[p]), NEW restock \in SUBSET LinesOf(PaidFor[p]),
         RequestRefund(r, p, amount, units, restock)
  PROVE  IInv'
<1> USE OrderAssumption, PaymentAssumption
     DEF IInv, Columns, RequestRefund, stockVars, parcelVars
<1>1. amount \in Nat /\ units \in [Line -> Nat] /\ restock \in SUBSET Line
  BY DEF Chosen, LinesOf
<1>2. Columns'
  <2>1. refund' \in [Refund -> RefundShape]
        /\ \A s \in Refund : refund'[s].status # "NONE" => refund'[s].payment \in Payment
    BY <1>1 DEF RefundShape
  <2>. QED
    BY <2>1
<1>3. CancelledHasNothing' /\ ParcelsCarryUnits' /\ ShopperIsTold' /\ OrderShowsItsRefunds'
  BY DEF CancelledHasNothing, ParcelsCarryUnits, ShopperIsTold, OrderShowsItsRefunds
<1>4. WholeIsDelivered'
  BY DEF WholeIsDelivered, Fulfilled, LinesOf, ParcelsOf
<1>. QED
  BY <1>2, <1>3, <1>4

\* Nothing the invariant speaks of changes.
LEMMA StutterKeeps ==
  ASSUME IInv, UNCHANGED <<order, completed, fulfilled, stockVars, parcelVars, refundVars>>
  PROVE  IInv'
BY DEF IInv, Columns, CancelledHasNothing, ParcelsCarryUnits, WholeIsDelivered, ShopperIsTold,
       OrderShowsItsRefunds, Fulfilled, LinesOf, ParcelsOf, stockVars, parcelVars, refundVars

-----------------------------------------------------------------------------
(* The theorems.                                                           *)

\* The invariant holds in every reachable state.
THEOREM Invariance == Spec => []IInv
<1>1. ASSUME IInv, [Next]_vars PROVE IInv'
  <2> USE <1>1
  <2>1. ASSUME NEW o \in Order, OrderStep(o) PROVE IInv'
    BY <2>1, FulfilKeeps, CompleteKeeps, CancelKeeps, DeleteKeeps DEF OrderStep
  <2>2. ASSUME NEW f \in Parcel, NEW status \in ShipmentStatus, UpdateFulfilment(f, status)
        PROVE IInv'
    BY <2>2, UpdateFulfilmentKeeps
  <2>3. ASSUME NEW r \in Refund, RefundStep(r) PROVE IInv'
    <3>1. CASE \E p \in Payment : \E amount \in 1..Captured[p], units \in Chosen(PaidFor[p]) :
                 \E restock \in SUBSET LinesOf(PaidFor[p]) :
                   RequestRefund(r, p, amount, units, restock)
      BY <3>1, RequestKeeps
    <3>2. CASE \E how \in {"made", "refused"} : ProviderAnswers(r, how)
      BY <3>2, StutterKeeps DEF ProviderAnswers
    <3>3. CASE RefundAnswered(r)
      BY <3>3, SettleKeeps DEF RefundAnswered
    <3>4. CASE RefundUnconfirmed(r)
      BY <3>4, StutterKeeps DEF RefundUnconfirmed
    <3>5. CASE ResolvePendingRefund(r)
      BY <3>5, SettleKeeps DEF ResolvePendingRefund
    <3>. QED
      BY <2>3, <3>1, <3>2, <3>3, <3>4, <3>5 DEF RefundStep
  <2>4. CASE UNCHANGED vars
    BY <2>4, StutterKeeps DEF vars
  <2>. QED
    BY <1>1, <2>1, <2>2, <2>3, <2>4 DEF Next
<1>. QED
  BY <1>1, InitEstablishes, PTL DEF Spec

\* However fulfilment, cancellation and deletion are interleaved, a cancelled order has
\* no parcel under way and holds no stock.
THEOREM CancelledOrdersShipNothing == Spec => []CancelledIsUntouched
<1>1. IInv => CancelledIsUntouched
  BY OrderAssumption
     DEF IInv, Columns, CancelledIsUntouched, CancelledHasNothing, ParcelsCarryUnits,
         HeldLines, LinesOf, ParcelsOf
<1>. QED
  BY <1>1, Invariance, PTL

\* An order completed without an override stays entirely delivered.
THEOREM WholeOrdersAreDelivered == Spec => []WholeIsDelivered
<1>1. IInv => WholeIsDelivered
  BY DEF IInv
<1>. QED
  BY <1>1, Invariance, PTL

\* No parcel leaves without the shopper's email being queued.
THEOREM ShoppersAreTold == Spec => []ShopperIsTold
<1>1. IInv => ShopperIsTold
  BY DEF IInv
<1>. QED
  BY <1>1, Invariance, PTL

\* The order's refunded amount is its own payment's, whatever else is refunded.
THEOREM OrdersShowTheirRefunds == Spec => []OrderShowsItsRefunds
<1>1. IInv => OrderShowsItsRefunds
  BY DEF IInv
<1>. QED
  BY <1>1, Invariance, PTL

-----------------------------------------------------------------------------
(* The sums over refunds.                                                  *)

Used == {r \in Refund : refund[r].status # "NONE"}

Succeeded(p) == {r \in Refund : refund[r].payment = p /\ refund[r].status = "SUCCEEDED"}
PaidOut(p) == SumFunctionOnSet(Amounts, Succeeded(p))
Asked(p) == SumFunctionOnSet(Amounts, Pending(p))

\* The ledgers of refunds: finitely many refunds, and what RefundsAddUp and
\* OnlyShippedUnitsReturn say of them.
RefundInv ==
  /\ IsFiniteSet(Used)
  /\ returned \in [Line -> Nat]
  /\ RefundsAddUp
  /\ OnlyShippedUnitsReturn

\* What one refund row adds to each of the sums.
PendingPart(row, p) ==
  IF row.payment = p /\ row.status = "PENDING" THEN row.amount ELSE 0
PaidPart(row, p) ==
  IF row.payment = p /\ row.status = "SUCCEEDED" THEN row.amount ELSE 0
FlightPart(row, l) == IF row.status = "PENDING" THEN row.units[l] ELSE 0
ShelfPart(row, l) ==
  IF row.status \in {"PENDING", "SUCCEEDED"} /\ l \in row.restock THEN row.units[l] ELSE 0

\* The sums are of natural numbers, over finitely many refunds.
LEMMA RefundSumsAreNat ==
  ASSUME Columns, IsFiniteSet(Used)
  PROVE  /\ \A l \in Line : InFlight(l) \in Nat /\ Restocked(l) \in Nat
         /\ \A p \in Payment : PaidOut(p) \in Nat /\ Asked(p) \in Nat
<1>1. ASSUME NEW f, \A r \in Refund : f[r] \in Nat, NEW S \in SUBSET Used
      PROVE  SumFunctionOnSet(f, S) \in Nat
  <2>1. IsFiniteSet(S) /\ \A r \in S : f[r] \in Nat
    BY <1>1, FS_Subset DEF Used
  <2> QED
    BY <2>1, SumIsNat
<1>2. ASSUME NEW l \in Line PROVE InFlight(l) \in Nat /\ Restocked(l) \in Nat
  <2>1. \A r \in Refund : UnitsOf(l)[r] \in Nat
    BY DEF UnitsOf, Columns, RefundShape
  <2>2. /\ {r \in Refund : refund[r].status = "PENDING"} \in SUBSET Used
        /\ {r \in Refund : refund[r].status \in {"PENDING", "SUCCEEDED"}
                            /\ l \in refund[r].restock} \in SUBSET Used
    BY DEF Used
  <2> QED
    BY <1>1, <2>1, <2>2 DEF InFlight, Restocked
<1>3. ASSUME NEW p \in Payment PROVE PaidOut(p) \in Nat /\ Asked(p) \in Nat
  <2>1. \A r \in Refund : Amounts[r] \in Nat
    BY DEF Amounts, Columns, RefundShape
  <2>2. Succeeded(p) \in SUBSET Used /\ Pending(p) \in SUBSET Used
    BY DEF Used, Succeeded, Pending
  <2> QED
    BY <1>1, <2>1, <2>2 DEF PaidOut, Asked
<1> QED
  BY <1>2, <1>3

Finite == IsFiniteSet(Used)
SumsAreNat ==
  /\ \A l \in Line : InFlight(l) \in Nat /\ Restocked(l) \in Nat
  /\ \A p \in Payment : Asked(p) \in Nat

\* The same, as a fact about any state.
LEMMA SumsStayNat == Columns /\ Finite => SumsAreNat
BY RefundSumsAreNat DEF SumsAreNat, Finite

\* When one row changes, each sum changes by what that row adds.
LEMMA OneRefundChanges ==
  ASSUME Columns, Columns', IsFiniteSet(Used), NEW r \in Refund,
         \A s \in Refund \ {r} : refund'[s] = refund[s]
  PROVE  /\ IsFiniteSet(Used')
         /\ \A l \in Line :
              /\ InFlight(l)' = InFlight(l) - FlightPart(refund[r], l) + FlightPart(refund'[r], l)
              /\ Restocked(l)' = Restocked(l) - ShelfPart(refund[r], l) + ShelfPart(refund'[r], l)
         /\ \A p \in Payment :
              /\ PaidOut(p)' = PaidOut(p) - PaidPart(refund[r], p) + PaidPart(refund'[r], p)
              /\ Asked(p)' = Asked(p) - PendingPart(refund[r], p) + PendingPart(refund'[r], p)
<1> DEFINE U == Used \cup {r}
<1>1. IsFiniteSet(U) /\ IsFiniteSet(Used')
  <2>1. IsFiniteSet(U)
    BY FS_AddElement
  <2>2. Used' \subseteq U
    BY DEF Used
  <2> QED
    BY <2>1, <2>2, FS_Subset
<1>2. ASSUME NEW f, NEW g, \A s \in Refund : f[s] \in Int /\ g[s] \in Int,
             \A s \in Refund \ {r} : g[s] = f[s],
             NEW S, NEW T, S \subseteq Refund, T \subseteq Refund, S \subseteq U, T \subseteq U,
             S \ {r} = T \ {r}
      PROVE  SumFunctionOnSet(g, T) = SumFunctionOnSet(f, S)
                - (IF r \in S THEN f[r] ELSE 0) + (IF r \in T THEN g[r] ELSE 0)
  <2>1. IsFiniteSet(S) /\ IsFiniteSet(T)
    BY <1>1, <1>2, FS_Subset
  <2>2. /\ \A x \in S : f[x] \in Int
        /\ \A x \in T : g[x] \in Int
        /\ \A x \in S \ {r} : g[x] = f[x]
    BY <1>2
  <2> HIDE DEF U
  <2> QED
    BY <1>2, <2>1, <2>2, SumMoves
<1>3. ASSUME NEW l \in Line
      PROVE  /\ InFlight(l)' = InFlight(l) - FlightPart(refund[r], l) + FlightPart(refund'[r], l)
             /\ Restocked(l)' = Restocked(l) - ShelfPart(refund[r], l) + ShelfPart(refund'[r], l)
  <2>1. PICK u, v : u = UnitsOf(l) /\ v = UnitsOf(l)'
    OBVIOUS
  <2>2. \A s \in Refund : u[s] = refund[s].units[l] /\ v[s] = refund'[s].units[l]
    BY <2>1 DEF UnitsOf
  <2>3. /\ \A s \in Refund : u[s] \in Int /\ v[s] \in Int
        /\ \A s \in Refund \ {r} : v[s] = u[s]
    BY <2>2 DEF Columns, RefundShape
  <2>4. ASSUME NEW S, NEW T, S = {s \in Refund : refund[s].status = "PENDING"},
               T = {s \in Refund : refund'[s].status = "PENDING"}
        PROVE  SumFunctionOnSet(v, T) = SumFunctionOnSet(u, S)
                 - FlightPart(refund[r], l) + FlightPart(refund'[r], l)
    <3>1. /\ S \subseteq Refund /\ T \subseteq Refund /\ S \subseteq U /\ T \subseteq U
          /\ S \ {r} = T \ {r}
      BY <2>4 DEF Used
    <3>2. /\ (IF r \in S THEN u[r] ELSE 0) = FlightPart(refund[r], l)
          /\ (IF r \in T THEN v[r] ELSE 0) = FlightPart(refund'[r], l)
      BY <2>2, <2>4 DEF FlightPart
    <3> HIDE DEF U
    <3> QED
      BY <1>2, <2>3, <3>1, <3>2
  <2>5. ASSUME NEW S, NEW T,
               S = {s \in Refund : refund[s].status \in {"PENDING", "SUCCEEDED"}
                                    /\ l \in refund[s].restock},
               T = {s \in Refund : refund'[s].status \in {"PENDING", "SUCCEEDED"}
                                    /\ l \in refund'[s].restock}
        PROVE  SumFunctionOnSet(v, T) = SumFunctionOnSet(u, S)
                 - ShelfPart(refund[r], l) + ShelfPart(refund'[r], l)
    <3>1. /\ S \subseteq Refund /\ T \subseteq Refund /\ S \subseteq U /\ T \subseteq U
          /\ S \ {r} = T \ {r}
      BY <2>5 DEF Used
    <3>2. /\ (IF r \in S THEN u[r] ELSE 0) = ShelfPart(refund[r], l)
          /\ (IF r \in T THEN v[r] ELSE 0) = ShelfPart(refund'[r], l)
      BY <2>2, <2>5 DEF ShelfPart
    <3> HIDE DEF U
    <3> QED
      BY <1>2, <2>3, <3>1, <3>2
  <2> QED
    BY <2>1, <2>4, <2>5 DEF InFlight, Restocked
<1>4. ASSUME NEW p \in Payment
      PROVE  /\ PaidOut(p)' = PaidOut(p) - PaidPart(refund[r], p) + PaidPart(refund'[r], p)
             /\ Asked(p)' = Asked(p) - PendingPart(refund[r], p) + PendingPart(refund'[r], p)
  <2>1. PICK a, b : a = Amounts /\ b = Amounts'
    OBVIOUS
  <2>2. \A s \in Refund : a[s] = refund[s].amount /\ b[s] = refund'[s].amount
    BY <2>1 DEF Amounts
  <2>3. /\ \A s \in Refund : a[s] \in Int /\ b[s] \in Int
        /\ \A s \in Refund \ {r} : b[s] = a[s]
    BY <2>2 DEF Columns, RefundShape
  <2>4. ASSUME NEW S, NEW T, S = Succeeded(p), T = Succeeded(p)'
        PROVE  SumFunctionOnSet(b, T) = SumFunctionOnSet(a, S)
                 - PaidPart(refund[r], p) + PaidPart(refund'[r], p)
    <3>1. /\ S \subseteq Refund /\ T \subseteq Refund /\ S \subseteq U /\ T \subseteq U
          /\ S \ {r} = T \ {r}
      BY <2>4 DEF Used, Succeeded
    <3>2. /\ (IF r \in S THEN a[r] ELSE 0) = PaidPart(refund[r], p)
          /\ (IF r \in T THEN b[r] ELSE 0) = PaidPart(refund'[r], p)
      BY <2>2, <2>4 DEF PaidPart, Succeeded
    <3> HIDE DEF U
    <3> QED
      BY <1>2, <2>3, <3>1, <3>2
  <2>5. ASSUME NEW S, NEW T, S = Pending(p), T = Pending(p)'
        PROVE  SumFunctionOnSet(b, T) = SumFunctionOnSet(a, S)
                 - PendingPart(refund[r], p) + PendingPart(refund'[r], p)
    <3>1. /\ S \subseteq Refund /\ T \subseteq Refund /\ S \subseteq U /\ T \subseteq U
          /\ S \ {r} = T \ {r}
      BY <2>5 DEF Used, Pending
    <3>2. /\ (IF r \in S THEN a[r] ELSE 0) = PendingPart(refund[r], p)
          /\ (IF r \in T THEN b[r] ELSE 0) = PendingPart(refund'[r], p)
      BY <2>2, <2>5 DEF PendingPart, Pending
    <3> HIDE DEF U
    <3> QED
      BY <1>2, <2>3, <3>1, <3>2
  <2> QED
    BY <2>1, <2>4, <2>5 DEF PaidOut, Asked
<1> HIDE DEF U
<1> QED
  BY <1>1, <1>3, <1>4

\* The same with every sum named.
BooksBalance ==
  /\ IsFiniteSet(Used)
  /\ returned \in [Line -> Nat]
  /\ \A p \in Payment :
       /\ order[PaidFor[p]] # "GONE" => paidBack[p] = PaidOut(p)
       /\ paidBack[p] + Asked(p) <= Captured[p]
  /\ \A l \in Line : returned[l] + InFlight(l) <= Quantity[l]
  /\ \A l \in Line : Restocked(l) <= fulfilled[l]

\* The invariant in terms of the sums alone.
LEMMA BooksAreThose == RefundInv <=> BooksBalance
BY DEF RefundInv, RefundsAddUp, OnlyShippedUnitsReturn, BooksBalance, PaidOut, Asked, Succeeded

\* A step that leaves refunds and payments alone, ships nothing back and revives no order.
LEMMA RefundsRest ==
  ASSUME RefundInv, Columns, Columns', UNCHANGED refundVars,
         \A l \in Line : fulfilled[l] <= fulfilled'[l],
         \A o \in Order : order'[o] # "GONE" => order[o] # "GONE"
  PROVE  RefundInv'
<1>1. /\ Used' = Used /\ paidBack' = paidBack /\ returned' = returned
      /\ \A l \in Line : InFlight(l)' = InFlight(l) /\ Restocked(l)' = Restocked(l)
      /\ \A p \in Payment : PaidOut(p)' = PaidOut(p) /\ Asked(p)' = Asked(p)
  BY DEF Used, InFlight, Restocked, PaidOut, Asked, Succeeded, Pending, UnitsOf, Amounts, refundVars
<1>2. BooksBalance
  BY BooksAreThose
<1>3. /\ \A l \in Line : Restocked(l) \in Nat /\ fulfilled[l] \in Nat /\ fulfilled'[l] \in Nat
      /\ \A p \in Payment : PaidFor[p] \in Order
  BY <1>2, PaymentAssumption, RefundSumsAreNat DEF BooksBalance, Columns
<1>4. BooksBalance'
  BY <1>1, <1>2, <1>3 DEF BooksBalance
<1> QED
  BY <1>4, BooksAreThose, PTL


\* A refund asked for fits beside those that were: that is what its guards count.
LEMMA RequestsFit ==
  ASSUME RefundInv, Columns, Columns', NEW r \in Refund, NEW p \in Payment,
         NEW amount \in 1..Captured[p], NEW units \in Chosen(PaidFor[p]),
         NEW restock \in SUBSET LinesOf(PaidFor[p]),
         RequestRefund(r, p, amount, units, restock)
  PROVE  RefundInv'
<1> USE PaymentAssumption
<1>1. PICK row : row = [status |-> "PENDING", payment |-> p, amount |-> amount,
                        units |-> units, restock |-> restock]
  OBVIOUS
<1>2. refund[r] = NoRefund /\ refund'[r] = row /\ \A s \in Refund \ {r} : refund'[s] = refund[s]
  BY <1>1 DEF RequestRefund, Columns
<1>3. /\ amount \in Nat /\ \A l \in Line : units[l] \in Nat
      /\ \A k \in Payment : paidBack[k] \in Nat /\ Captured[k] \in Nat
      /\ returned' = returned /\ paidBack' = paidBack /\ order' = order /\ fulfilled' = fulfilled
  BY DEF Chosen, RequestRefund, Columns
<1>4. BooksBalance
  BY BooksAreThose
<1>5. /\ \A l \in Line : InFlight(l) \in Nat /\ Restocked(l) \in Nat
      /\ \A k \in Payment : PaidOut(k) \in Nat /\ Asked(k) \in Nat
  BY <1>4, RefundSumsAreNat DEF BooksBalance
<1>6. /\ IsFiniteSet(Used')
      /\ \A l \in Line :
           /\ InFlight(l)' = InFlight(l) - FlightPart(refund[r], l) + FlightPart(row, l)
           /\ Restocked(l)' = Restocked(l) - ShelfPart(refund[r], l) + ShelfPart(row, l)
      /\ \A k \in Payment :
           /\ PaidOut(k)' = PaidOut(k) - PaidPart(refund[r], k) + PaidPart(row, k)
           /\ Asked(k)' = Asked(k) - PendingPart(refund[r], k) + PendingPart(row, k)
  BY <1>2, <1>4, OneRefundChanges DEF BooksBalance
<1>7. ASSUME NEW l \in Line
      PROVE  /\ InFlight(l)' = InFlight(l) + units[l]
             /\ Restocked(l)' = Restocked(l) + (IF l \in restock THEN units[l] ELSE 0)
  <2>1. /\ FlightPart(refund[r], l) = 0 /\ FlightPart(row, l) = units[l]
        /\ ShelfPart(refund[r], l) = 0
        /\ ShelfPart(row, l) = IF l \in restock THEN units[l] ELSE 0
    BY <1>1, <1>2 DEF FlightPart, ShelfPart, NoRefund
  <2> QED
    BY <1>3, <1>5, <1>6, <2>1
<1>8. ASSUME NEW k \in Payment
      PROVE  PaidOut(k)' = PaidOut(k) /\ Asked(k)' = Asked(k) + (IF k = p THEN amount ELSE 0)
  <2>1. /\ PaidPart(refund[r], k) = 0 /\ PaidPart(row, k) = 0
        /\ PendingPart(refund[r], k) = 0
        /\ PendingPart(row, k) = IF k = p THEN amount ELSE 0
    BY <1>1, <1>2 DEF PaidPart, PendingPart, NoRefund
  <2> QED
    BY <1>3, <1>5, <1>6, <2>1
<1>9. amount <= Captured[p] - paidBack[p] - Asked(p)
  BY DEF RequestRefund, Remaining, Asked
<1>10. /\ \A l \in Line : units[l] <= Quantity[l] - returned[l] - InFlight(l)
       /\ \A l \in restock : units[l] <= fulfilled[l] - Restocked(l)
  BY DEF RequestRefund
<1>11. \A l \in Line : /\ Quantity[l] \in Nat /\ returned[l] \in Int /\ fulfilled[l] \in Nat
  BY <1>4, OrderAssumption DEF Columns, BooksBalance
<1>12. BooksBalance'
  <2>1. \A k \in Payment : paidBack[k] + Asked(k)' <= Captured[k]
    BY <1>3, <1>4, <1>5, <1>8, <1>9 DEF BooksBalance
  <2>2. \A l \in Line : returned[l] + InFlight(l)' <= Quantity[l]
    BY <1>3, <1>4, <1>5, <1>7, <1>10, <1>11 DEF BooksBalance
  <2>3. \A l \in Line : Restocked(l)' <= fulfilled[l]
    BY <1>3, <1>4, <1>5, <1>7, <1>10, <1>11 DEF BooksBalance
  <2> QED
    BY <1>3, <1>4, <1>6, <1>8, <2>1, <2>2, <2>3 DEF BooksBalance
<1> QED
  BY <1>12, BooksAreThose, PTL


\* Settling a refund moves what it asked for to what was paid, or drops it.
LEMMA SettleFits ==
  ASSUME RefundInv, Columns, Columns', NEW r \in Refund, NEW ok \in BOOLEAN,
         SettleRefund(r, ok), UNCHANGED <<order, fulfilled>>
  PROVE  RefundInv'
<1> USE PaymentAssumption
<1>1. CASE refund[r].status # "PENDING" \/ (ok /\ ~Fits(r))
  <2>1. UNCHANGED refundVars
    BY <1>1 DEF SettleRefund
  <2> QED
    BY <2>1, RefundsRest DEF Columns
<1>2. CASE refund[r].status = "PENDING" /\ (ok => Fits(r))
  <2> DEFINE p == refund[r].payment
             a == refund[r].amount
             u == refund[r].units
             s == refund[r].restock
             new == IF ok THEN "SUCCEEDED" ELSE "FAILED"
  <2>1. PICK row : row = [refund[r] EXCEPT !.status = new]
    OBVIOUS
  <2>2. /\ refund'[r] = row /\ \A q \in Refund \ {r} : refund'[q] = refund[q]
        /\ refund[r] \in RefundShape /\ p \in Payment
    BY <1>2, <2>1 DEF SettleRefund, Columns
  <2>3. /\ row.status = new /\ row.payment = p /\ row.amount = a /\ row.units = u
        /\ row.restock = s /\ a \in Nat /\ \A l \in Line : u[l] \in Nat
    BY <2>1, <2>2 DEF RefundShape
  <2>4. \A k \in Payment : paidBack'[k] = paidBack[k] + (IF ok /\ k = p THEN a ELSE 0)
    BY <1>2, <2>2 DEF SettleRefund, Columns
  <2>5. BooksBalance
    BY BooksAreThose
  <2>6. /\ \A l \in Line : InFlight(l) \in Nat /\ Restocked(l) \in Nat
        /\ \A k \in Payment : PaidOut(k) \in Nat /\ Asked(k) \in Nat
    BY <2>5, RefundSumsAreNat DEF BooksBalance
  <2>7. /\ IsFiniteSet(Used')
        /\ \A l \in Line :
             /\ InFlight(l)' = InFlight(l) - FlightPart(refund[r], l) + FlightPart(row, l)
             /\ Restocked(l)' = Restocked(l) - ShelfPart(refund[r], l) + ShelfPart(row, l)
        /\ \A k \in Payment :
             /\ PaidOut(k)' = PaidOut(k) - PaidPart(refund[r], k) + PaidPart(row, k)
             /\ Asked(k)' = Asked(k) - PendingPart(refund[r], k) + PendingPart(row, k)
    BY <2>2, <2>5, OneRefundChanges DEF BooksBalance
  <2>8. ASSUME NEW l \in Line
        PROVE  /\ InFlight(l)' = InFlight(l) - u[l]
               /\ Restocked(l)' <= Restocked(l)
               /\ returned'[l] = returned[l] + (IF ok THEN u[l] ELSE 0)
    <3>1. /\ FlightPart(refund[r], l) = u[l] /\ FlightPart(row, l) = 0
          /\ ShelfPart(refund[r], l) = (IF l \in s THEN u[l] ELSE 0)
          /\ ShelfPart(row, l) = IF ok /\ l \in s THEN u[l] ELSE 0
      BY <1>2, <2>3 DEF FlightPart, ShelfPart
    <3>2. u[l] \in Nat
      BY <2>3
    <3>3. returned'[l] = returned[l] + (IF ok THEN u[l] ELSE 0)
      BY <1>2, <2>5, <3>2 DEF SettleRefund, BooksBalance
    <3>4. Restocked(l) \in Nat /\ InFlight(l) \in Nat
      BY <2>6
    <3>5. /\ InFlight(l)' = InFlight(l) - FlightPart(refund[r], l) + FlightPart(row, l)
          /\ Restocked(l)' = Restocked(l) - ShelfPart(refund[r], l) + ShelfPart(row, l)
      BY <2>7
    <3> HIDE DEF u, s
    <3>6. InFlight(l)' = InFlight(l) - u[l]
      BY <3>1, <3>2, <3>4, <3>5
    <3>7. Restocked(l)' <= Restocked(l)
      BY <3>1, <3>2, <3>4, <3>5
    <3> QED
      BY <3>3, <3>6, <3>7
  <2>9. ASSUME NEW k \in Payment
        PROVE  /\ PaidOut(k)' = PaidOut(k) + (IF ok /\ k = p THEN a ELSE 0)
               /\ Asked(k)' = Asked(k) - (IF k = p THEN a ELSE 0)
    <3>1. /\ PaidPart(refund[r], k) = 0 /\ PaidPart(row, k) = IF ok /\ k = p THEN a ELSE 0
          /\ PendingPart(refund[r], k) = IF k = p THEN a ELSE 0
          /\ PendingPart(row, k) = 0
      BY <1>2, <2>3 DEF PaidPart, PendingPart
    <3>2. a \in Nat
      BY <2>3
    <3> HIDE DEF a, p
    <3> QED
      BY <2>6, <2>7, <3>1, <3>2
  <2>10. /\ \A l \in Line : u[l] \in Nat /\ Quantity[l] \in Nat /\ returned[l] \in Nat
         /\ \A k \in Payment : paidBack[k] \in Nat /\ Captured[k] \in Nat /\ a \in Nat
         /\ \A l \in Line : fulfilled[l] \in Nat
    BY <2>3, <2>5, OrderAssumption DEF BooksBalance, Columns
  <2>11. BooksBalance'
    <3>1. \A k \in Payment : paidBack'[k] + Asked(k)' <= Captured[k]
      <4> HIDE DEF a, p
      <4> QED
        BY <2>4, <2>5, <2>6, <2>9, <2>10 DEF BooksBalance
    <3>2. \A k \in Payment : order'[PaidFor[k]] # "GONE" => paidBack'[k] = PaidOut(k)'
      <4> HIDE DEF a, p
      <4> QED
        BY <2>4, <2>5, <2>9 DEF BooksBalance
    <3>3. \A l \in Line : returned'[l] + InFlight(l)' <= Quantity[l]
      <4> HIDE DEF u
      <4> QED
        BY <2>5, <2>6, <2>8, <2>10 DEF BooksBalance
    <3>4. \A l \in Line : Restocked(l)' <= fulfilled'[l]
      <4>1. \A l \in Line : Restocked(l)' <= Restocked(l) /\ Restocked(l) <= fulfilled[l]
        BY <2>5, <2>8 DEF BooksBalance
      <4>2. \A l \in Line : Restocked(l)' \in Int
        <5>1. \A l \in Line : FlightPart(row, l) \in Int /\ ShelfPart(refund[r], l) \in Int
                               /\ ShelfPart(row, l) \in Int
          BY <2>3 DEF FlightPart, ShelfPart
        <5> QED
          BY <2>6, <2>7, <5>1
      <4> QED
        BY <2>6, <2>10, <4>1, <4>2
    <3>5. returned' \in [Line -> Nat]
      <4>1. CASE ok
        <5>1. returned' = [l \in Line |-> returned[l] + u[l]]
          BY <1>2, <4>1 DEF SettleRefund
        <5> HIDE DEF u
        <5> QED
          BY <2>10, <5>1
      <4>2. CASE ~ok
        BY <1>2, <2>5, <4>2 DEF SettleRefund, BooksBalance
      <4> QED
        BY <4>1, <4>2
    <3> HIDE DEF p, a, u, s, new
    <3> QED
      BY <2>7, <3>1, <3>2, <3>3, <3>4, <3>5 DEF BooksBalance
  <2> QED
    BY <2>11, BooksAreThose, PTL
<1> QED
  BY <1>1, <1>2


\* Deleting a demo order takes its refunds out of every sum.
LEMMA DeleteKeepsBooks ==
  ASSUME RefundInv, Columns, Columns', NEW o \in Order, DeleteDemoOrder(o)
  PROVE  RefundInv'
<1> USE PaymentAssumption
<1>1. /\ paidBack' = paidBack /\ returned' = returned /\ fulfilled' = fulfilled
      /\ \A r \in Refund : refund'[r] = IF r \in RefundsOf(o) THEN NoRefund ELSE refund[r]
      /\ \A k \in Order : order'[k] = IF k = o THEN "GONE" ELSE order[k]
  BY DEF DeleteDemoOrder, Columns
<1>2. BooksBalance
  BY BooksAreThose
<1>3. Used' \subseteq Used /\ IsFiniteSet(Used')
  <2>1. Used' \subseteq Used
    BY <1>1 DEF Used, NoRefund
  <2> QED
    BY <1>2, <2>1, FS_Subset DEF BooksBalance
<1>4. ASSUME NEW f, NEW g, \A r \in Refund : f[r] \in Nat,
             \A r \in Refund : refund'[r] = refund[r] => g[r] = f[r],
             NEW S, NEW T, S \subseteq Used, T \subseteq S, T \subseteq Used'
      PROVE  SumFunctionOnSet(g, T) <= SumFunctionOnSet(f, S)
  <2>1. IsFiniteSet(S)
    BY <1>2, <1>4, FS_Subset DEF BooksBalance
  <2>2. \A r \in T : refund'[r] = refund[r]
    BY <1>1, <1>4 DEF Used, NoRefund
  <2>3. (\A r \in S : f[r] \in Nat) /\ (\A r \in T : g[r] = f[r])
    BY <1>4, <2>2 DEF Used
  <2> QED
    BY <1>4, <2>1, <2>3, SumOfLess
<1>5. ASSUME NEW l \in Line
      PROVE  InFlight(l)' <= InFlight(l) /\ Restocked(l)' <= Restocked(l)
  <2>1. PICK u, v : u = UnitsOf(l) /\ v = UnitsOf(l)'
    OBVIOUS
  <2>2. /\ \A r \in Refund : u[r] \in Nat
        /\ \A r \in Refund : refund'[r] = refund[r] => v[r] = u[r]
    BY <2>1 DEF UnitsOf, Columns, RefundShape
  <2>3. ASSUME NEW S, NEW T, S = {r \in Refund : refund[r].status = "PENDING"},
               T = {r \in Refund : refund'[r].status = "PENDING"}
        PROVE  SumFunctionOnSet(v, T) <= SumFunctionOnSet(u, S)
    <3>1. S \subseteq Used /\ T \subseteq S /\ T \subseteq Used'
      BY <1>1, <2>3 DEF Used, NoRefund
    <3> QED
      BY <1>4, <2>2, <3>1
  <2>4. ASSUME NEW S, NEW T,
               S = {r \in Refund : refund[r].status \in {"PENDING", "SUCCEEDED"}
                                    /\ l \in refund[r].restock},
               T = {r \in Refund : refund'[r].status \in {"PENDING", "SUCCEEDED"}
                                    /\ l \in refund'[r].restock}
        PROVE  SumFunctionOnSet(v, T) <= SumFunctionOnSet(u, S)
    <3>1. S \subseteq Used /\ T \subseteq S /\ T \subseteq Used'
      BY <1>1, <2>4 DEF Used, NoRefund
    <3> QED
      BY <1>4, <2>2, <3>1
  <2> QED
    BY <2>1, <2>3, <2>4 DEF InFlight, Restocked
<1>6. \A r \in Refund : Amounts[r] \in Nat /\ (refund'[r] = refund[r] => Amounts'[r] = Amounts[r])
  BY DEF Amounts, Columns, RefundShape
<1>7. ASSUME NEW p \in Payment PROVE Asked(p)' <= Asked(p)
  <2>1. Pending(p) \subseteq Used /\ Pending(p)' \subseteq Pending(p) /\ Pending(p)' \subseteq Used'
    BY <1>1 DEF Pending, Used, NoRefund
  <2>2. PICK a, b : a = Amounts /\ b = Amounts'
    OBVIOUS
  <2>3. PICK S, T : S = Pending(p) /\ T = Pending(p)'
    OBVIOUS
  <2>4. SumFunctionOnSet(b, T) <= SumFunctionOnSet(a, S)
    BY <1>4, <1>6, <2>1, <2>2, <2>3
  <2> QED
    BY <2>2, <2>3, <2>4 DEF Asked
<1>8. ASSUME NEW p \in Payment, PaidFor[p] # o PROVE PaidOut(p)' = PaidOut(p)
  <2>1. PICK a, b : a = Amounts /\ b = Amounts'
    OBVIOUS
  <2>2. PICK S, T : S = Succeeded(p) /\ T = Succeeded(p)'
    OBVIOUS
  <2>3. S = T
    BY <1>1, <1>8, <2>2, OrderAssumption DEF Succeeded, RefundsOf, NoRefund
  <2>4. \A r \in S : a[r] = b[r]
    BY <1>1, <1>6, <1>8, <2>1, <2>2 DEF Succeeded, RefundsOf
  <2>5. IsFiniteSet(S)
    <3>1. S \subseteq Used
      BY <2>2 DEF Succeeded, Used
    <3> QED
      BY <1>2, <3>1, FS_Subset DEF BooksBalance
  <2>6. SumFunctionOnSet(a, S) = SumFunctionOnSet(b, T)
    BY <2>3, <2>4, <2>5, SumOfSame
  <2> QED
    BY <2>1, <2>2, <2>6 DEF PaidOut
<1>9. /\ \A l \in Line : /\ InFlight(l) \in Nat /\ InFlight(l)' \in Nat
                         /\ Restocked(l) \in Nat /\ Restocked(l)' \in Nat
      /\ \A p \in Payment : Asked(p) \in Nat /\ Asked(p)' \in Nat
  <2>1. /\ \A l \in Line : InFlight(l) \in Nat /\ Restocked(l) \in Nat
        /\ \A p \in Payment : Asked(p) \in Nat
    BY <1>2, RefundSumsAreNat DEF BooksBalance
  <2>2. SumsAreNat'
    <3>1. Finite'
      BY <1>3 DEF Finite
    <3> QED
      BY <3>1, SumsStayNat, PTL
  <2> QED
    BY <2>1, <2>2 DEF SumsAreNat
<1>10. /\ \A p \in Payment : paidBack[p] \in Nat /\ Captured[p] \in Nat /\ PaidFor[p] \in Order
       /\ \A l \in Line : returned[l] \in Nat /\ Quantity[l] \in Nat /\ fulfilled[l] \in Nat
  BY <1>2, OrderAssumption DEF BooksBalance, Columns
<1>11. BooksBalance'
  <2>1. \A p \in Payment : paidBack[p] + Asked(p)' <= Captured[p]
    BY <1>2, <1>7, <1>9, <1>10 DEF BooksBalance
  <2>2. \A l \in Line : returned[l] + InFlight(l)' <= Quantity[l] /\ Restocked(l)' <= fulfilled[l]
    BY <1>2, <1>5, <1>9, <1>10 DEF BooksBalance
  <2> QED
    BY <1>1, <1>2, <1>3, <1>8, <1>10, <2>1, <2>2 DEF BooksBalance
<1> QED
  BY <1>11, BooksAreThose, PTL


\* Nothing is refunded at first.
LEMMA InitBalances == Init => RefundInv
<1> SUFFICES ASSUME Init PROVE RefundInv
  OBVIOUS
<1> USE PaymentAssumption, OrderAssumption
<1>1. Used = {} /\ IsFiniteSet(Used)
  BY FS_EmptySet DEF Used, Init, NoRefund
<1>2. ASSUME NEW l \in Line PROVE InFlight(l) = 0 /\ Restocked(l) = 0
  <2>1. /\ {r \in Refund : refund[r].status = "PENDING"} = {}
        /\ {r \in Refund : refund[r].status \in {"PENDING", "SUCCEEDED"}
                            /\ l \in refund[r].restock} = {}
    BY DEF Init, NoRefund
  <2> QED
    BY <2>1, SumOfNone DEF InFlight, Restocked
<1>3. ASSUME NEW p \in Payment PROVE PaidOut(p) = 0 /\ Asked(p) = 0
  <2>1. Succeeded(p) = {} /\ Pending(p) = {}
    BY DEF Init, NoRefund, Succeeded, Pending
  <2> QED
    BY <2>1, SumOfNone DEF PaidOut, Asked
<1>4. BooksBalance
  <2>1. /\ returned \in [Line -> Nat]
        /\ \A l \in Line : returned[l] = 0 /\ fulfilled[l] = 0 /\ Quantity[l] \in Nat
        /\ \A p \in Payment : paidBack[p] = 0 /\ Captured[p] \in Nat
    BY DEF Init
  <2> QED
    BY <1>1, <1>2, <1>3, <2>1 DEF BooksBalance
<1> QED
  BY <1>4, BooksAreThose

\* The ledgers of refunds hold in every reachable state.
THEOREM RefundsBalance == Spec => []RefundInv
<1>1. ASSUME IInv, IInv', RefundInv, [Next]_vars PROVE RefundInv'
  <2> USE <1>1
  <2>1. Columns /\ Columns'
    BY DEF IInv
  <2>2. ASSUME NEW o \in Order, OrderStep(o) PROVE RefundInv'
    <3>1. ASSUME NEW units \in Chosen(o), NEW f \in Parcel, NEW status \in ShipmentStatus,
                 FulfilOrder(o, units, f, status)
          PROVE  RefundInv'
      <4>1. \A l \in Line : fulfilled'[l] = fulfilled[l] + units[l]
        BY <3>1 DEF FulfilOrder
      <4>2. \A l \in Line : fulfilled[l] \in Nat /\ units[l] \in Nat
        BY <2>1 DEF Columns, Chosen
      <4>3. \A l \in Line : fulfilled[l] <= fulfilled'[l]
        BY <4>1, <4>2
      <4>. QED
        BY <2>1, <3>1, <4>3, RefundsRest DEF FulfilOrder
    <3>2. ASSUME NEW override \in BOOLEAN, CompleteOrder(o, override) PROVE RefundInv'
      BY <2>1, <3>2, RefundsRest DEF CompleteOrder, Columns
    <3>3. CASE CancelOrder(o)
      <4>1. \A k \in Order : order'[k] # "GONE" => order[k] # "GONE"
        BY <2>1, <3>3 DEF CancelOrder, Columns
      <4>2. \A l \in Line : fulfilled[l] <= fulfilled'[l]
        BY <2>1, <3>3 DEF CancelOrder, Columns
      <4>. QED
        BY <2>1, <3>3, <4>1, <4>2, RefundsRest DEF CancelOrder
    <3>4. CASE DeleteDemoOrder(o)
      BY <2>1, <3>4, DeleteKeepsBooks
    <3>. QED
      BY <2>2, <3>1, <3>2, <3>3, <3>4 DEF OrderStep
  <2>3. ASSUME UNCHANGED <<order, fulfilled, refundVars>> PROVE RefundInv'
    BY <2>1, <2>3, RefundsRest DEF Columns
  <2>4. ASSUME NEW f \in Parcel, NEW status \in ShipmentStatus, UpdateFulfilment(f, status)
        PROVE RefundInv'
    BY <2>3, <2>4 DEF UpdateFulfilment
  <2>5. ASSUME NEW r \in Refund, RefundStep(r) PROVE RefundInv'
    <3>1. CASE \E p \in Payment : \E amount \in 1..Captured[p], units \in Chosen(PaidFor[p]) :
                 \E restock \in SUBSET LinesOf(PaidFor[p]) :
                   RequestRefund(r, p, amount, units, restock)
      BY <2>1, <3>1, RequestsFit
    <3>2. CASE \E how \in {"made", "refused"} : ProviderAnswers(r, how)
      BY <2>3, <3>2 DEF ProviderAnswers
    <3>3. CASE RefundAnswered(r)
      BY <2>1, <3>3, SettleFits DEF RefundAnswered
    <3>4. CASE RefundUnconfirmed(r)
      BY <2>3, <3>4 DEF RefundUnconfirmed
    <3>5. CASE ResolvePendingRefund(r)
      BY <2>1, <3>5, SettleFits DEF ResolvePendingRefund
    <3>. QED
      BY <2>5, <3>1, <3>2, <3>3, <3>4, <3>5 DEF RefundStep
  <2>6. CASE UNCHANGED vars
    BY <2>3, <2>6 DEF vars
  <2>. QED
    BY <1>1, <2>2, <2>4, <2>5, <2>6 DEF Next
<1>. QED
  BY <1>1, InitBalances, Invariance, PTL DEF Spec

\* What a payment and a line say was paid back or returned is what their refunds add up
\* to, and refunds in flight fit into what is left, however many run at once.
THEOREM RefundsFit == Spec => []RefundsAddUp
<1>1. RefundInv => RefundsAddUp
  BY DEF RefundInv
<1>. QED
  BY <1>1, RefundsBalance, PTL

\* No refund puts back on sale what was never shipped.
THEOREM OnlyShippedUnitsComeBack == Spec => []OnlyShippedUnitsReturn
<1>1. RefundInv => OnlyShippedUnitsReturn
  BY DEF RefundInv
<1>. QED
  BY <1>1, RefundsBalance, PTL

\* A refund still pending fits into what is left of its payment and its lines.
PendingFits ==
  \A r \in Refund : refund[r].status = "PENDING" => Fits(r)

\* The check settleRefund makes before it records a refund never turns one away: what the
\* provider paid back can always be recorded.
THEOREM RefundsCanBeRecorded == Spec => []PendingFits
<1>1. IInv /\ RefundInv => PendingFits
  <2> SUFFICES ASSUME IInv, RefundInv, NEW r \in Refund, refund[r].status = "PENDING"
               PROVE  Fits(r)
    BY DEF PendingFits
  <2> DEFINE p == refund[r].payment
  <2>1. /\ Columns /\ BooksBalance /\ p \in Payment /\ refund[r] \in RefundShape
    BY BooksAreThose DEF IInv, Columns
  <2>2. ASSUME NEW f, \A s \in Refund : f[s] \in Nat,
               NEW S, S \subseteq Used, S \subseteq Refund, r \in S
        PROVE  f[r] <= SumFunctionOnSet(f, S)
    <3>1. IsFiniteSet(S) /\ IsFiniteSet(S \ {r})
      BY <2>1, <2>2, FS_Subset DEF BooksBalance
    <3>2. \A s \in S : f[s] \in Nat /\ f[s] \in Int
      BY <2>2
    <3>3. SumFunctionOnSet(f, S) = f[r] + SumFunctionOnSet(f, S \ {r})
      BY <2>2, <3>1, <3>2, SumWithout
    <3>4. SumFunctionOnSet(f, S \ {r}) \in Nat
      BY <3>1, <3>2, SumIsNat
    <3>. QED
      BY <2>2, <3>3, <3>4
  <2>3. refund[r].amount <= Asked(p)
    <3>1. \A s \in Refund : Amounts[s] \in Nat /\ Amounts[r] = refund[r].amount
      BY <2>1 DEF Amounts, Columns, RefundShape
    <3>2. Pending(p) \subseteq Used /\ Pending(p) \subseteq Refund /\ r \in Pending(p)
      BY DEF Pending, Used
    <3>3. Amounts[r] <= SumFunctionOnSet(Amounts, Pending(p))
      BY <2>2, <3>1, <3>2
    <3>. QED
      BY <3>1, <3>3 DEF Asked
  <2>4. ASSUME NEW l \in Line PROVE refund[r].units[l] <= InFlight(l)
    <3>1. \A s \in Refund : UnitsOf(l)[s] \in Nat /\ UnitsOf(l)[r] = refund[r].units[l]
      BY <2>1 DEF UnitsOf, Columns, RefundShape
    <3>2. PICK S : S = {s \in Refund : refund[s].status = "PENDING"}
      OBVIOUS
    <3>3. S \subseteq Used /\ S \subseteq Refund /\ r \in S
      BY <3>2 DEF Used
    <3>4. UnitsOf(l)[r] <= SumFunctionOnSet(UnitsOf(l), S)
      BY <2>2, <3>1, <3>3
    <3>. QED
      BY <3>1, <3>2, <3>4 DEF InFlight
  <2>5. /\ paidBack[p] \in Nat /\ Captured[p] \in Nat /\ Asked(p) \in Nat /\ refund[r].amount \in Nat
        /\ paidBack[p] + Asked(p) <= Captured[p]
    BY <2>1, PaymentAssumption, RefundSumsAreNat DEF Columns, RefundShape, BooksBalance
  <2>6. \A l \in Line : /\ returned[l] \in Nat /\ Quantity[l] \in Nat /\ InFlight(l) \in Nat
                        /\ refund[r].units[l] \in Nat /\ returned[l] + InFlight(l) <= Quantity[l]
    BY <2>1, OrderAssumption, RefundSumsAreNat DEF RefundShape, BooksBalance
  <2>. QED
    BY <2>3, <2>4, <2>5, <2>6 DEF Fits
<1>. QED
  BY <1>1, Invariance, RefundsBalance, PTL

-----------------------------------------------------------------------------
(* Stock.                                                                  *)

Owed == [l \in Line |-> Left(l)]
Held == {l \in Line : reservation[l] = "CONVERTED"}
Settled == {r \in Refund : refund[r].status = "SUCCEEDED"}

\* Units one refund puts back on sale.
ReturnedBy == [r \in Refund |-> SumFunctionOnSet(refund[r].units, refund[r].restock \cap Tracked)]

\* Exactly the tracked lines of open orders hold a reservation: no order is deleted.
OpenLinesHold ==
  \A l \in Line : reservation[l] = "CONVERTED" <=> l \in Tracked /\ order[OrderOf[l]] = "OPEN"

StockColumns ==
  /\ available \in Int
  /\ reserved \in Nat
  /\ call \in [Refund -> {"none", "waiting", "over"}]
  /\ provider \in [Refund -> {"none", "asked", "made", "refused"}]

StockInv ==
  /\ OpenLinesHold
  /\ ReservedIsOwed
  /\ StockIsConserved

\* The invariant with its sums named.
Level ==
  /\ OpenLinesHold
  /\ reserved = Elsewhere + SumFunctionOnSet(Owed, Held)
  /\ available + reserved + SumFunctionOnSet(fulfilled, Tracked)
       = InStock + Elsewhere + SumFunctionOnSet(Quantity, Tracked)
         + SumFunctionOnSet(ReturnedBy, Settled)

\* The names change nothing.
LEMMA LevelIsThat == StockInv <=> Level
BY DEF StockInv, Level, ReservedIsOwed, StockIsConserved, Owed, Held, Settled, ReturnedBy

\* The sums over lines and refunds are integers.
LEMMA StockSumsAreInt ==
  ASSUME Columns, IsFiniteSet(Used)
  PROVE  /\ \A S \in SUBSET Line :
              /\ IsFiniteSet(S)
              /\ SumFunctionOnSet(Quantity, S) \in Nat
              /\ SumFunctionOnSet(fulfilled, S) \in Nat
              /\ SumFunctionOnSet(Owed, S) \in Nat
         /\ \A r \in Refund : ReturnedBy[r] \in Nat
         /\ SumFunctionOnSet(ReturnedBy, Settled) \in Nat
         /\ \A o \in Order : \A u \in Chosen(o), S \in SUBSET Line : SumFunctionOnSet(u, S) \in Nat
<1> USE OrderAssumption
<1>1. ASSUME NEW f, \A l \in Line : f[l] \in Nat, NEW S \in SUBSET Line
      PROVE  IsFiniteSet(S) /\ SumFunctionOnSet(f, S) \in Nat
  <2>1. IsFiniteSet(S) /\ \A l \in S : f[l] \in Nat
    BY <1>1, FS_Subset
  <2> QED
    BY <2>1, SumIsNat
<1>2. /\ \A l \in Line : Quantity[l] \in Nat /\ fulfilled[l] \in Nat /\ Owed[l] \in Nat
      /\ \A o \in Order : \A u \in Chosen(o) : \A l \in Line : u[l] \in Nat
  BY DEF Columns, Owed, Left, Chosen
<1>3. \A r \in Refund : ReturnedBy[r] \in Nat
  <2> SUFFICES ASSUME NEW r \in Refund PROVE ReturnedBy[r] \in Nat
    OBVIOUS
  <2>1. \A l \in Line : refund[r].units[l] \in Nat
    BY DEF Columns, RefundShape
  <2>2. SumFunctionOnSet(refund[r].units, refund[r].restock \cap Tracked) \in Nat
    <3>1. refund[r].restock \cap Tracked \in SUBSET Line
      OBVIOUS
    <3> QED
      BY <1>1, <2>1, <3>1
  <2> QED
    BY <2>2 DEF ReturnedBy
<1>4. SumFunctionOnSet(ReturnedBy, Settled) \in Nat
  <2>1. Settled \subseteq Used /\ \A r \in Settled : ReturnedBy[r] \in Nat
    BY <1>3 DEF Settled, Used
  <2>2. IsFiniteSet(Settled)
    BY <2>1, FS_Subset
  <2> QED
    BY <2>1, <2>2, SumIsNat
<1>5. \A S \in SUBSET Line : /\ IsFiniteSet(S)
                             /\ SumFunctionOnSet(Quantity, S) \in Nat
                             /\ SumFunctionOnSet(fulfilled, S) \in Nat
                             /\ SumFunctionOnSet(Owed, S) \in Nat
  BY <1>1, <1>2
<1>6. \A o \in Order : \A u \in Chosen(o), S \in SUBSET Line : SumFunctionOnSet(u, S) \in Nat
  BY <1>1, <1>2
<1> QED
  BY <1>3, <1>4, <1>5, <1>6

\* Shipping takes units of held lines from what is reserved and from what is owed alike.
LEMMA FulfilShips ==
  ASSUME StockInv, Columns, Columns', StockColumns, IsFiniteSet(Used), NEW o \in Order,
         NEW units \in Chosen(o), NEW f \in Parcel, NEW status \in ShipmentStatus,
         FulfilOrder(o, units, f, status)
  PROVE  StockInv'
<1> USE OrderAssumption, StockAssumption
<1>1. Level
  BY LevelIsThat
<1>2. /\ reservation' = reservation /\ order' = order /\ refund' = refund /\ available' = available
      /\ reserved' = reserved - SumFunctionOnSet(units, Held)
      /\ fulfilled' = [l \in Line |-> fulfilled[l] + units[l]]
      /\ order[o] = "OPEN"
  BY DEF FulfilOrder, ShipStock, refundVars, Held
<1>3. /\ Held' = Held /\ Settled' = Settled /\ ReturnedBy' = ReturnedBy /\ OpenLinesHold'
  BY <1>1, <1>2 DEF Held, Settled, ReturnedBy, OpenLinesHold, Level
<1>4. /\ Held \in SUBSET Line /\ Tracked \in SUBSET Line /\ Held \subseteq Tracked
      /\ \A l \in Tracked \ Held : units[l] = 0
  BY <1>1, <1>2 DEF Held, Level, OpenLinesHold, Chosen, LinesOf
<1>5. \A l \in Line : /\ units[l] \in Nat /\ fulfilled[l] \in Nat /\ fulfilled'[l] = fulfilled[l] + units[l]
                      /\ Owed[l] = Quantity[l] - fulfilled[l] /\ Owed'[l] = Quantity[l] - fulfilled'[l]
                      /\ Quantity[l] \in Nat
  BY <1>2 DEF Columns, Chosen, Owed, Left
<1>6. IsFiniteSet(Held) /\ IsFiniteSet(Tracked)
  BY <1>4, FS_Subset
<1>7. SumFunctionOnSet(Owed, Held) = SumFunctionOnSet(Owed', Held) + SumFunctionOnSet(units, Held)
  <2>1. \A l \in Held : Owed'[l] \in Int /\ units[l] \in Int /\ Owed[l] = Owed'[l] + units[l]
    BY <1>4, <1>5
  <2> QED
    BY <1>6, <2>1, SumOfSums
<1>8. SumFunctionOnSet(fulfilled', Tracked)
        = SumFunctionOnSet(fulfilled, Tracked) + SumFunctionOnSet(units, Tracked)
  <2>1. \A l \in Tracked : /\ fulfilled[l] \in Int /\ units[l] \in Int
                           /\ fulfilled'[l] = fulfilled[l] + units[l]
    BY <1>4, <1>5
  <2> QED
    BY <1>6, <2>1, SumOfSums
<1>9. SumFunctionOnSet(units, Tracked) = SumFunctionOnSet(units, Held)
  <2>1. \A l \in Held : units[l] \in Int
    BY <1>4, <1>5
  <2> QED
    BY <1>4, <1>6, <2>1, SumOverPart
<1>10. /\ SumFunctionOnSet(units, Held) \in Nat /\ SumFunctionOnSet(fulfilled, Tracked) \in Nat
       /\ SumFunctionOnSet(Owed, Held) \in Nat /\ SumFunctionOnSet(Quantity, Tracked) \in Nat
       /\ SumFunctionOnSet(ReturnedBy, Settled) \in Nat
  BY <1>4, StockSumsAreInt
<1>11. SumFunctionOnSet(Owed', Held) \in Int
  <2>1. \A l \in Held : Owed'[l] \in Int
    BY <1>4, <1>5
  <2> QED
    BY <1>6, <2>1, SumIsInt
<1>12. reserved' = Elsewhere + SumFunctionOnSet(Owed', Held)
  BY <1>1, <1>2, <1>7, <1>10, <1>11 DEF Level
<1>13. available' + reserved' + SumFunctionOnSet(fulfilled', Tracked)
         = InStock + Elsewhere + SumFunctionOnSet(Quantity, Tracked)
           + SumFunctionOnSet(ReturnedBy, Settled)
  BY <1>1, <1>2, <1>8, <1>9, <1>10 DEF Level, StockColumns
<1>14. Level'
  BY <1>3, <1>12, <1>13 DEF Level
<1> QED
  BY <1>14, LevelIsThat, PTL

\* Cancelling puts back what the order holds; none of it was shipped.
LEMMA CancelPutsBack ==
  ASSUME StockInv, Columns, Columns', StockColumns, IsFiniteSet(Used), NEW o \in Order, CancelOrder(o)
  PROVE  StockInv'
<1> USE OrderAssumption, StockAssumption
<1> DEFINE H == HeldLines(o)
<1>1. Level
  BY LevelIsThat
<1>2. /\ available' = available + SumFunctionOnSet(Quantity, H)
      /\ reserved' = reserved - SumFunctionOnSet(Quantity, H)
      /\ \A l \in Line : reservation'[l] = IF l \in H THEN "RELEASED" ELSE reservation[l]
      /\ \A k \in Order : order'[k] = IF k = o THEN "CANCELLED" ELSE order[k]
      /\ fulfilled' = fulfilled /\ refund' = refund
      /\ \A l \in LinesOf(o) : fulfilled[l] = 0
  BY DEF CancelOrder, ReturnStock, PutBack, refundVars, Columns
<1>3. H \in SUBSET Line /\ Held' = Held \ H /\ H \subseteq Held /\ Held \in SUBSET Line
      /\ Held' \in SUBSET Line
  BY <1>2 DEF Held, HeldLines, LinesOf
<1>4. OpenLinesHold'
  BY <1>1, <1>2 DEF Level, OpenLinesHold, HeldLines, LinesOf
<1>5. Owed' = Owed /\ Settled' = Settled /\ ReturnedBy' = ReturnedBy
  BY <1>2 DEF Owed, Left, Settled, ReturnedBy
<1>6. SumFunctionOnSet(Owed, Held) = SumFunctionOnSet(Owed, Held') + SumFunctionOnSet(Owed, H)
  <2>1. /\ IsFiniteSet(H) /\ IsFiniteSet(Held') /\ Held' \cap H = {} /\ Held' \cup H = Held
        /\ \A l \in Held' \cup H : Owed[l] \in Int
    <3>1. IsFiniteSet(H) /\ IsFiniteSet(Held') /\ Held' \cap H = {} /\ Held' \cup H = Held
      BY <1>3, FS_Subset
    <3>2. \A l \in Line : Owed[l] \in Int
      BY DEF Owed, Left, Columns
    <3> QED
      BY <1>3, <3>1, <3>2
  <2> HIDE DEF H
  <2>2. SumFunctionOnSet(Owed, Held' \cup H) = SumFunctionOnSet(Owed, Held') + SumFunctionOnSet(Owed, H)
    BY <2>1, SumOverUnion
  <2> QED
    BY <2>1, <2>2
<1>7. SumFunctionOnSet(Owed, H) = SumFunctionOnSet(Quantity, H)
  <2>1. \A l \in H : Owed[l] = Quantity[l]
    BY <1>2, <1>3 DEF Owed, Left, HeldLines, LinesOf
  <2>2. IsFiniteSet(H)
    BY <1>3, FS_Subset
  <2> HIDE DEF H
  <2> QED
    BY <2>1, <2>2, SumOfSame
<1>8. /\ SumFunctionOnSet(Quantity, H) \in Nat /\ SumFunctionOnSet(fulfilled, Tracked) \in Nat
      /\ SumFunctionOnSet(Owed, Held) \in Nat /\ SumFunctionOnSet(Owed, Held') \in Nat
      /\ SumFunctionOnSet(Quantity, Tracked) \in Nat
      /\ SumFunctionOnSet(ReturnedBy, Settled) \in Nat
  BY <1>3, StockSumsAreInt
<1> HIDE DEF H
<1>9. reserved' = Elsewhere + SumFunctionOnSet(Owed, Held')
  BY <1>1, <1>2, <1>6, <1>7, <1>8 DEF Level
<1>10. available' + reserved' + SumFunctionOnSet(fulfilled, Tracked)
         = InStock + Elsewhere + SumFunctionOnSet(Quantity, Tracked)
           + SumFunctionOnSet(ReturnedBy, Settled)
  BY <1>1, <1>2, <1>8 DEF Level, StockColumns
<1>11. Level'
  BY <1>2, <1>4, <1>5, <1>9, <1>10 DEF Level
<1> QED
  BY <1>11, LevelIsThat, PTL


\* Nothing the level or its lines hold changes, nor what settled refunds gave back.
LEMMA LevelRests ==
  ASSUME StockInv, Columns, UNCHANGED <<available, reserved, reservation, order, fulfilled>>,
         IsFiniteSet(Settled), Settled' = Settled,
         \A r \in Settled : refund'[r] = refund[r]
  PROVE  StockInv'
<1>1. Level
  BY LevelIsThat
<1>2. PICK a, b, S : a = ReturnedBy /\ b = ReturnedBy' /\ S = Settled
  OBVIOUS
<1>3. \A r \in S : a[r] = b[r]
  BY <1>2 DEF ReturnedBy, Settled
<1>4. SumFunctionOnSet(a, S) = SumFunctionOnSet(b, S)
  BY <1>2, <1>3, SumOfSame
<1>5. SumFunctionOnSet(ReturnedBy, Settled)' = SumFunctionOnSet(ReturnedBy, Settled)
  BY <1>2, <1>4
<1>6. OpenLinesHold' /\ Held' = Held /\ Owed' = Owed
  BY <1>1 DEF Level, OpenLinesHold, Held, Owed, Left
<1>7. Level'
  BY <1>1, <1>5, <1>6 DEF Level
<1> QED
  BY <1>7, LevelIsThat, PTL

\* A refund that succeeds puts on sale what it gives back.
LEMMA SettleRestocks ==
  ASSUME StockInv, Columns, Columns', StockColumns, IsFiniteSet(Used), NEW r \in Refund,
         NEW ok \in BOOLEAN, SettleRefund(r, ok), UNCHANGED <<order, fulfilled>>
  PROVE  StockInv'
<1> USE OrderAssumption, StockAssumption
<1>0. IsFiniteSet(Settled)
  <2>1. Settled \subseteq Used
    BY DEF Settled, Used
  <2> QED
    BY <2>1, FS_Subset
<1>1. CASE refund[r].status # "PENDING" \/ (ok /\ ~Fits(r))
  BY <1>0, <1>1, LevelRests DEF SettleRefund, refundVars, stockVars, Settled
<1>2. CASE refund[r].status = "PENDING" /\ ~ok
  <2>1. /\ refund' = [refund EXCEPT ![r].status = "FAILED"]
        /\ UNCHANGED <<available, reserved, reservation>>
    BY <1>2 DEF SettleRefund
  <2>2. /\ refund'[r].status = "FAILED"
        /\ \A q \in Refund \ {r} : refund'[q] = refund[q]
    BY <2>1 DEF Columns, RefundShape
  <2>3. Settled' = Settled /\ \A q \in Settled : refund'[q] = refund[q]
    BY <1>2, <2>2 DEF Settled
  <2> QED
    BY <1>0, <2>1, <2>3, LevelRests
<1>3. CASE refund[r].status = "PENDING" /\ ok /\ Fits(r)
  <2>1. /\ refund' = [refund EXCEPT ![r].status = "SUCCEEDED"]
        /\ available' = available + SumFunctionOnSet(refund[r].units, refund[r].restock \cap Tracked)
        /\ UNCHANGED <<reserved, reservation>>
    BY <1>3 DEF SettleRefund, Restock
  <2>2. /\ refund'[r].status = "SUCCEEDED" /\ refund'[r].units = refund[r].units
        /\ refund'[r].restock = refund[r].restock
        /\ \A q \in Refund \ {r} : refund'[q] = refund[q]
    BY <2>1 DEF Columns, RefundShape
  <2>3. Settled' = Settled \cup {r} /\ r \notin Settled
    BY <1>3, <2>2 DEF Settled
  <2>4. PICK a, b, S, T : a = ReturnedBy /\ b = ReturnedBy' /\ S = Settled /\ T = Settled'
    OBVIOUS
  <2>5. \A q \in Refund : a[q] = b[q]
    BY <2>2, <2>4 DEF ReturnedBy
  <2>6. \A q \in Refund : a[q] \in Int /\ b[q] \in Int
    BY <2>4, <2>5, StockSumsAreInt
  <2>7. a[r] = SumFunctionOnSet(refund[r].units, refund[r].restock \cap Tracked)
    BY <2>4 DEF ReturnedBy
  <2>8. SumFunctionOnSet(b, T) = SumFunctionOnSet(a, S) + a[r]
    <3>1. S \subseteq Refund /\ IsFiniteSet(S) /\ r \notin S /\ T = S \cup {r}
      BY <1>0, <2>3, <2>4 DEF Settled
    <3>2. IsFiniteSet(T)
      BY <3>1, FS_AddElement
    <3>3. SumFunctionOnSet(b, T) = SumFunctionOnSet(a, T)
      BY <2>5, <3>1, <3>2, SumOfSame
    <3>4. SumFunctionOnSet(a, S \cup {r}) = SumFunctionOnSet(a, S) + a[r]
      BY <2>6, <3>1, SumWith
    <3> QED
      BY <3>1, <3>3, <3>4
  <2>9. Level
    BY LevelIsThat
  <2>10. OpenLinesHold' /\ Held' = Held /\ Owed' = Owed
    BY <2>1, <2>9 DEF Level, OpenLinesHold, Held, Owed, Left
  <2>11. /\ SumFunctionOnSet(fulfilled, Tracked) \in Nat /\ a[r] \in Nat
         /\ SumFunctionOnSet(Quantity, Tracked) \in Nat
         /\ SumFunctionOnSet(a, S) \in Nat
    BY <2>4, StockSumsAreInt
  <2>12. available' + reserved' + SumFunctionOnSet(fulfilled, Tracked)
           = InStock + Elsewhere + SumFunctionOnSet(Quantity, Tracked) + SumFunctionOnSet(b, T)
    <3>1. available + reserved + SumFunctionOnSet(fulfilled, Tracked)
            = InStock + Elsewhere + SumFunctionOnSet(Quantity, Tracked) + SumFunctionOnSet(a, S)
      BY <2>4, <2>9 DEF Level
    <3>2. available' = available + a[r] /\ reserved' = reserved
      BY <2>1, <2>7
    <3> QED
      BY <2>8, <2>11, <3>1, <3>2 DEF StockColumns
  <2>13. Level'
    BY <2>1, <2>4, <2>9, <2>10, <2>12 DEF Level
  <2> QED
    BY <2>13, LevelIsThat, PTL
<1> QED
  BY <1>1, <1>2, <1>3

\* At first every tracked line of every order is reserved.
LEMMA InitLevel == Init => StockInv /\ StockColumns
<1> SUFFICES ASSUME Init PROVE StockInv /\ StockColumns
  OBVIOUS
<1> USE OrderAssumption, StockAssumption
<1>0. Columns /\ IsFiniteSet(Used)
  <2>1. IInv /\ RefundInv
    BY InitEstablishes, InitBalances
  <2> QED
    BY <2>1 DEF IInv, RefundInv
<1>1. Held = Tracked /\ OpenLinesHold /\ Settled = {}
  BY DEF Init, Held, OpenLinesHold, Settled, NoRefund
<1>2. \A l \in Tracked : Owed[l] = Quantity[l] /\ fulfilled[l] = 0
  BY DEF Init, Owed, Left
<1>3. Tracked \in SUBSET Line /\ IsFiniteSet(Tracked)
  BY FS_Subset
<1>4. SumFunctionOnSet(Owed, Held) = SumFunctionOnSet(Quantity, Tracked)
  BY <1>1, <1>2, <1>3, SumOfSame
<1>5. SumFunctionOnSet(fulfilled, Tracked) = 0
  <2>1. {} \subseteq Tracked /\ \A l \in {} : fulfilled[l] \in Int
    OBVIOUS
  <2>2. SumFunctionOnSet(fulfilled, Tracked) = SumFunctionOnSet(fulfilled, {})
    BY <1>2, <1>3, <2>1, SumOverPart
  <2> QED
    BY <2>2, SumOfNone
<1>6. SumFunctionOnSet(ReturnedBy, Settled) = 0
  BY <1>1, SumOfNone
<1>7. SumFunctionOnSet(Quantity, Tracked) \in Nat
  BY <1>0, <1>3, StockSumsAreInt
<1>8. reserved = Elsewhere + SumFunctionOnSet(Quantity, Tracked) /\ available = InStock
  BY DEF Init
<1>9. Level
  BY <1>1, <1>4, <1>5, <1>6, <1>7, <1>8 DEF Level
<1>10. StockColumns
  <2>1. /\ call \in [Refund -> {"none", "waiting", "over"}]
        /\ provider \in [Refund -> {"none", "asked", "made", "refused"}]
    BY DEF Init
  <2> QED
    BY <1>7, <1>8, <2>1 DEF StockColumns
<1> QED
  BY <1>9, <1>10, LevelIsThat


\* The columns of the level and of the calls keep their types, whatever is deleted.
LEMMA ColumnsStay ==
  ASSUME Columns, Columns', RefundInv, StockColumns, [Next]_vars
  PROVE  StockColumns'
<1> USE OrderAssumption, StockAssumption
<1>1. IsFiniteSet(Used)
  BY DEF RefundInv
<1>2. ASSUME UNCHANGED <<available, reserved, callVars>> PROVE StockColumns'
  BY <1>2 DEF StockColumns, callVars
<1>3. ASSUME NEW o \in Order, OrderStep(o) PROVE StockColumns'
  <2>1. ASSUME NEW units \in Chosen(o), NEW f \in Parcel, NEW status \in ShipmentStatus,
               FulfilOrder(o, units, f, status)
        PROVE  StockColumns'
    <3>1. /\ reserved' = reserved - SumFunctionOnSet(units, Held) /\ reserved' >= 0
          /\ available' = available /\ UNCHANGED callVars
      BY <2>1 DEF FulfilOrder, ShipStock, Held
    <3>2. SumFunctionOnSet(units, Held) \in Nat
      <4>1. Held \in SUBSET Line
        BY DEF Held
      <4>. QED
        BY <1>1, <4>1, StockSumsAreInt
    <3>. QED
      BY <3>1, <3>2 DEF StockColumns, callVars
  <2>2. ASSUME NEW override \in BOOLEAN, CompleteOrder(o, override) PROVE StockColumns'
    BY <1>2, <2>2 DEF CompleteOrder, stockVars
  <2>3. ASSUME PutBack(o), UNCHANGED callVars PROVE StockColumns'
    <3>1. HeldLines(o) \in SUBSET Line
      BY DEF HeldLines, LinesOf
    <3>2. SumFunctionOnSet(Quantity, HeldLines(o)) \in Nat
      BY <1>1, <3>1, StockSumsAreInt
    <3>. QED
      BY <2>3, <3>2 DEF PutBack, StockColumns, callVars
  <2>4. CASE CancelOrder(o)
    BY <2>3, <2>4 DEF CancelOrder, ReturnStock
  <2>5. CASE DeleteDemoOrder(o)
    BY <1>2, <2>3, <2>5 DEF DeleteDemoOrder
  <2>. QED
    BY <1>3, <2>1, <2>2, <2>4, <2>5 DEF OrderStep
<1>4. ASSUME NEW f \in Parcel, NEW status \in ShipmentStatus, UpdateFulfilment(f, status)
      PROVE StockColumns'
  BY <1>2, <1>4 DEF UpdateFulfilment, stockVars
<1>5. ASSUME NEW r \in Refund, RefundStep(r) PROVE StockColumns'
  <2>1. ASSUME NEW ok \in BOOLEAN, SettleRefund(r, ok)
        PROVE  available' \in Int /\ reserved' \in Nat
    <3>1. ReturnedBy[r] \in Nat
      BY <1>1, StockSumsAreInt
    <3>2. SumFunctionOnSet(refund[r].units, refund[r].restock \cap Tracked) \in Nat
      BY <3>1 DEF ReturnedBy
    <3>3. reserved' = reserved
      BY <2>1 DEF SettleRefund, stockVars
    <3>4. \/ available' = available
          \/ available' = available
                + SumFunctionOnSet(refund[r].units, refund[r].restock \cap Tracked)
      BY <2>1 DEF SettleRefund, stockVars, Restock
    <3>. QED
      BY <3>2, <3>3, <3>4 DEF StockColumns
  <2>2. CASE \E p \in Payment : \E amount \in 1..Captured[p], units \in Chosen(PaidFor[p]) :
               \E restock \in SUBSET LinesOf(PaidFor[p]) :
                 RequestRefund(r, p, amount, units, restock)
    BY <2>2 DEF RequestRefund, StockColumns, stockVars
  <2>3. CASE \E how \in {"made", "refused"} : ProviderAnswers(r, how)
    BY <2>3 DEF ProviderAnswers, StockColumns, stockVars
  <2>4. CASE RefundAnswered(r)
    <3>1. available' \in Int /\ reserved' \in Nat
      BY <2>1, <2>4 DEF RefundAnswered
    <3>2. /\ call' \in [Refund -> {"none", "waiting", "over"}]
          /\ provider' \in [Refund -> {"none", "asked", "made", "refused"}]
      BY <2>4 DEF RefundAnswered, StockColumns
    <3>. QED
      BY <3>1, <3>2 DEF StockColumns
  <2>5. CASE RefundUnconfirmed(r)
    BY <2>5 DEF RefundUnconfirmed, StockColumns, stockVars
  <2>6. CASE ResolvePendingRefund(r)
    <3>1. available' \in Int /\ reserved' \in Nat
      BY <2>1, <2>6 DEF ResolvePendingRefund
    <3>. QED
      BY <2>6, <3>1 DEF ResolvePendingRefund, StockColumns, callVars
  <2>. QED
    BY <1>5, <2>2, <2>3, <2>4, <2>5, <2>6 DEF RefundStep
<1>6. CASE UNCHANGED vars
  BY <1>2, <1>6 DEF vars, stockVars
<1>. QED
  BY <1>3, <1>4, <1>5, <1>6 DEF Next

\* Every column of the model holds what the schema lets it hold.
THEOREM TypeCorrectness == Spec => []TypeOK
<1>1. ASSUME IInv, IInv', RefundInv, StockColumns, [Next]_vars PROVE StockColumns'
  BY <1>1, ColumnsStay DEF IInv
<1>2. Init => StockColumns
  BY InitLevel
<1>3. Spec => []StockColumns
  BY <1>1, <1>2, Invariance, RefundsBalance, PTL DEF Spec
<1>4. IInv /\ RefundInv /\ StockColumns => TypeOK
  <2> SUFFICES ASSUME IInv, RefundInv, StockColumns PROVE TypeOK
    OBVIOUS
  <2>1. Columns /\ BooksBalance
    BY BooksAreThose DEF IInv
  <2>2. \A l \in Line : returned[l] <= Quantity[l]
    <3>1. \A l \in Line : returned[l] + InFlight(l) <= Quantity[l] /\ InFlight(l) \in Nat
                           /\ returned[l] \in Nat /\ Quantity[l] \in Nat
      BY <2>1, OrderAssumption, RefundSumsAreNat DEF BooksBalance
    <3>. QED
      BY <3>1
  <2>. QED
    BY <2>1, <2>2 DEF TypeOK, Columns, BooksBalance, StockColumns, RefundShape
<1>. QED
  BY <1>3, <1>4, Invariance, RefundsBalance, PTL

\* Where orders cannot be deleted, every step keeps the level's books.
LEMMA StockBalances ==
  ASSUME ~DemoDeletion, Columns, Columns', RefundInv, StockColumns, StockInv, [Next]_vars
  PROVE  StockInv'
<1>1. IsFiniteSet(Used)
  BY DEF RefundInv
<1>2. IsFiniteSet(Settled)
  <2>1. Settled \subseteq Used
    BY DEF Settled, Used
  <2> QED
    BY <1>1, <2>1, FS_Subset
<1>3. ASSUME UNCHANGED <<available, reserved, reservation, order, fulfilled, refund>>
      PROVE  StockInv'
  BY <1>2, <1>3, LevelRests DEF Settled
<1>4. ASSUME NEW o \in Order, OrderStep(o) PROVE StockInv'
  <2>1. CASE \E units \in Chosen(o), f \in Parcel, status \in ShipmentStatus :
               FulfilOrder(o, units, f, status)
    BY <1>1, <2>1, FulfilShips
  <2>2. CASE \E override \in BOOLEAN : CompleteOrder(o, override)
    BY <1>3, <2>2 DEF CompleteOrder, stockVars, refundVars
  <2>3. CASE CancelOrder(o)
    BY <1>1, <2>3, CancelPutsBack
  <2>4. ~DeleteDemoOrder(o)
    BY DEF DeleteDemoOrder
  <2>. QED
    BY <1>4, <2>1, <2>2, <2>3, <2>4 DEF OrderStep
<1>5. ASSUME NEW f \in Parcel, NEW status \in ShipmentStatus, UpdateFulfilment(f, status)
      PROVE StockInv'
  BY <1>3, <1>5 DEF UpdateFulfilment, stockVars, refundVars
<1>6. ASSUME NEW r \in Refund, RefundStep(r) PROVE StockInv'
  <2>1. ASSUME NEW p \in Payment, NEW amount \in 1..Captured[p], NEW units \in Chosen(PaidFor[p]),
               NEW restock \in SUBSET LinesOf(PaidFor[p]),
               RequestRefund(r, p, amount, units, restock)
        PROVE  StockInv'
    <3>1. /\ refund[r].status = "NONE" /\ refund'[r].status = "PENDING"
          /\ \A q \in Refund \ {r} : refund'[q] = refund[q]
      BY <2>1 DEF RequestRefund, NoRefund, Columns
    <3>2. Settled' = Settled /\ \A q \in Settled : refund'[q] = refund[q]
      BY <3>1 DEF Settled
    <3>. QED
      BY <1>2, <2>1, <3>2, LevelRests DEF RequestRefund, stockVars
  <2>2. CASE \E how \in {"made", "refused"} : ProviderAnswers(r, how)
    BY <1>3, <2>2 DEF ProviderAnswers, stockVars, refundVars
  <2>3. CASE RefundAnswered(r)
    BY <1>1, <2>3, SettleRestocks DEF RefundAnswered
  <2>4. CASE RefundUnconfirmed(r)
    BY <1>3, <2>4 DEF RefundUnconfirmed, stockVars, refundVars
  <2>5. CASE ResolvePendingRefund(r)
    BY <1>1, <2>5, SettleRestocks DEF ResolvePendingRefund
  <2>. QED
    BY <1>6, <2>1, <2>2, <2>3, <2>4, <2>5 DEF RefundStep
<1>7. CASE UNCHANGED vars
  BY <1>3, <1>7 DEF vars, stockVars, refundVars
<1>. QED
  BY <1>4, <1>5, <1>6, <1>7 DEF Next

\* Where orders cannot be deleted, the level's books hold in every reachable state.
THEOREM LevelsBalance ==
  ASSUME ~DemoDeletion PROVE Spec => []StockInv
<1>1. ASSUME IInv, IInv', RefundInv, TypeOK, StockInv, [Next]_vars PROVE StockInv'
  <2>1. StockColumns
    BY <1>1 DEF TypeOK, StockColumns
  <2>. QED
    BY <1>1, <2>1, StockBalances DEF IInv
<1>2. Init => StockInv
  BY InitLevel
<1>. QED
  BY <1>1, <1>2, Invariance, RefundsBalance, TypeCorrectness, PTL DEF Spec

\* What the level reserves is what checkouts in payment hold and open orders have still
\* to ship, as long as no demo order is deleted: with deletion it is not so.
THEOREM ReservedUnitsAreOwed ==
  ASSUME ~DemoDeletion PROVE Spec => []ReservedIsOwed
<1>1. StockInv => ReservedIsOwed
  BY DEF StockInv
<1>. QED
  BY <1>1, LevelsBalance, PTL

\* Fulfilment, cancellation and refunds neither make nor lose a unit.
THEOREM UnitsAreConserved ==
  ASSUME ~DemoDeletion PROVE Spec => []StockIsConserved
<1>1. StockInv => StockIsConserved
  BY DEF StockInv
<1>. QED
  BY <1>1, LevelsBalance, PTL

=============================================================================

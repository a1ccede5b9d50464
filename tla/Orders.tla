------------------------------- MODULE Orders -------------------------------
(***************************************************************************)
(* What a merchant does to paid orders: fulfil, follow a shipment, cancel, *)
(* complete, refund, settle a refund by hand, delete a demo order:         *)
(* packages/commerce/src/orders/{manage,operations,lifecycle}.ts with the  *)
(* stock moves of checkout/stock.ts.                                       *)
(*                                                                         *)
(* Every one of these transactions locks its order row first, so each is   *)
(* one action.  A refund is three: the transaction that asks for it, the   *)
(* provider call outside any transaction, and the one that settles it.     *)
(*                                                                         *)
(* All lines draw on one inventory level, which also holds the units of    *)
(* checkouts in payment.                                                   *)
(***************************************************************************)
EXTENDS Integers, FiniteSetsExt, Functions

CONSTANTS
  Order,         \* placed orders
  Line,          \* their lines
  OrderOf,       \* OrderOf[l]: the order of line l
  Quantity,      \* Quantity[l]: units ordered
  Tracked,       \* lines whose variant's stock is tracked: they have a reservation
  Payment,       \* captured payments attached to the orders
  PaidFor,       \* PaidFor[p]: the order payment p is attached to
  Captured,      \* Captured[p]: Payment.capturedAmount
  First,         \* First[o]: the payment captured first, the order's own
  Refund,        \* refund rows, and the calls made for them
  Parcel,        \* fulfilment rows
  InStock,       \* units on sale at the start
  Elsewhere,     \* units of the level held by checkouts in payment
  DemoDeletion,  \* demoOrderDeletionEnabled; no payment is LIVE then
  None           \* no order, no payment

ASSUME OrderAssumption ==
  /\ IsFiniteSet(Line)
  /\ OrderOf \in [Line -> Order]
  /\ Quantity \in [Line -> Nat \ {0}]
  /\ Tracked \subseteq Line
  /\ None \notin Order \cup Payment

ASSUME PaymentAssumption ==
  /\ PaidFor \in [Payment -> Order]
  /\ Captured \in [Payment -> Nat]
  /\ First \in [Order -> Payment]
  /\ \A o \in Order : PaidFor[First[o]] = o

ASSUME StockAssumption ==
  /\ InStock \in Nat
  /\ Elsewhere \in Nat
  /\ DemoDeletion \in BOOLEAN

VARIABLES
  order,        \* Order.status; "GONE" once deleted
  completed,    \* whether the order is complete: "whole", or by "override"
  refunded,     \* Order.refundedAmount
  fulfilled,    \* OrderLine.fulfilledQuantity
  returned,     \* OrderLine.refundedQuantity
  reservation,  \* InventoryReservation.status of a line
  shipment,     \* Fulfilment: its order and shipmentStatus
  told,         \* fulfilments whose "on its way" email is queued
  paidBack,     \* Payment.refundedAmount
  refund,       \* Refund and its RefundLines
  call,         \* where refundOrder's provider call for a refund has got to
  provider,     \* what the provider has of a refund
  available,    \* InventoryLevel.available
  reserved      \* InventoryLevel.reserved

stockVars == <<available, reserved, reservation>>
parcelVars == <<shipment, told>>
refundVars == <<refund, paidBack, refunded, returned>>
callVars == <<call, provider>>
vars == <<order, completed, fulfilled, stockVars, parcelVars, refundVars, callVars>>

ShipmentStatus == {"READY", "SHIPPED", "DELIVERED"}
NoShipment == [order |-> None, status |-> "READY"]
NoRefund == [status |-> "NONE", payment |-> None, amount |-> 0,
             units |-> [l \in Line |-> 0], restock |-> {}]

LinesOf(o) == {l \in Line : OrderOf[l] = o}
ParcelsOf(o) == {f \in Parcel : shipment[f].order = o}
RefundsOf(o) == {r \in Refund : refund[r].payment \in {p \in Payment : PaidFor[p] = o}}

\* Units a merchant may choose of an order's lines, none of any other order's.
MostUnits == Max({Quantity[l] : l \in Line})
Chosen(o) == {u \in [Line -> 0..MostUnits] : \A l \in Line \ LinesOf(o) : u[l] = 0}

Init ==
  /\ order = [o \in Order |-> "OPEN"]
  /\ completed = [o \in Order |-> "no"]
  /\ refunded = [o \in Order |-> 0]
  /\ fulfilled = [l \in Line |-> 0]
  /\ returned = [l \in Line |-> 0]
  /\ reservation = [l \in Line |-> IF l \in Tracked THEN "CONVERTED" ELSE "NONE"]
  /\ shipment = [f \in Parcel |-> NoShipment]
  /\ told = {}
  /\ paidBack = [p \in Payment |-> 0]
  /\ refund = [r \in Refund |-> NoRefund]
  /\ call = [r \in Refund |-> "none"]
  /\ provider = [r \in Refund |-> "none"]
  /\ available = InStock
  /\ reserved = Elsewhere + SumFunctionOnSet(Quantity, Tracked)

-----------------------------------------------------------------------------
(* Fulfilment, its journey and completion.                                 *)

Dispatched(status) == status # "READY"

\* Reserved units of these lines leave the building.
ShipStock(units) ==
  LET held == {l \in Line : reservation[l] = "CONVERTED"} IN
  /\ reserved' = reserved - SumFunctionOnSet(units, held)
  /\ reserved' >= 0  \* the level's CHECK
  /\ UNCHANGED <<available, reservation>>

MutantLeft(l) == Quantity[l]  \* what was fulfilled before is forgotten
Left(l) == Quantity[l] - fulfilled[l]

FulfilOrder(o, units, f, status) ==
  /\ order[o] = "OPEN"
  /\ completed[o] = "no"
  /\ \E l \in Line : units[l] > 0
  /\ \A l \in Line : units[l] <= Left(l)
  /\ shipment[f].order = None
  /\ fulfilled' = [l \in Line |-> fulfilled[l] + units[l]]
  /\ ShipStock(units)
  /\ shipment' = [shipment EXCEPT ![f] = [order |-> o, status |-> status]]
  /\ told' = IF Dispatched(status) THEN told \cup {f} ELSE told
  /\ UNCHANGED <<order, completed, refundVars, callVars>>

MutantUpdateFulfilment(f, status) ==  \* only the step to SHIPPED tells the shopper
  LET o == shipment[f].order IN
  /\ o # None
  /\ order[o] # "CANCELLED"
  /\ completed[o] = "no"
  /\ shipment' = [shipment EXCEPT ![f].status = status]
  /\ told' = IF ~Dispatched(shipment[f].status) /\ status = "SHIPPED"
             THEN told \cup {f} ELSE told
  /\ UNCHANGED <<order, completed, fulfilled, stockVars, refundVars, callVars>>

\* Any status of the journey, forwards or back; a second email is a duplicate key.
UpdateFulfilment(f, status) ==
  LET o == shipment[f].order IN
  /\ o # None
  /\ order[o] # "CANCELLED"
  /\ completed[o] = "no"
  /\ shipment' = [shipment EXCEPT ![f].status = status]
  /\ told' = IF ~Dispatched(shipment[f].status) /\ Dispatched(status)
             THEN told \cup {f} ELSE told
  /\ UNCHANGED <<order, completed, fulfilled, stockVars, refundVars, callVars>>

Fulfilled(o) == \A l \in LinesOf(o) : fulfilled[l] = Quantity[l]

MutantBlocked(o) == ~Fulfilled(o)  \* where the parcels are does not matter

\* completionBlockers; payment is settled from the start.
Blocked(o) ==
  \/ ~Fulfilled(o)
  \/ \E f \in ParcelsOf(o) : shipment[f].status # "DELIVERED"

CompleteOrder(o, override) ==
  /\ order[o] = "OPEN"
  /\ completed[o] = "no"
  /\ Blocked(o) => override
  /\ completed' = [completed EXCEPT ![o] = IF Blocked(o) THEN "override" ELSE "whole"]
  /\ UNCHANGED <<order, fulfilled, stockVars, parcelVars, refundVars, callVars>>

-----------------------------------------------------------------------------
(* Cancelling and deleting.                                                *)

HeldLines(o) == {l \in LinesOf(o) : reservation[l] = "CONVERTED"}

\* cancelOrderStock's moves, with the whole quantity of every reservation of the order.
PutBack(o) ==
  LET units == SumFunctionOnSet(Quantity, HeldLines(o)) IN
  /\ available' = available + units
  /\ reserved' = reserved - units
  /\ reserved' >= 0

MutantReturnStock(o) ==  \* the reservations stay CONVERTED
  PutBack(o) /\ UNCHANGED reservation

ReturnStock(o) ==
  /\ PutBack(o)
  /\ reservation' = [l \in Line |-> IF l \in HeldLines(o) THEN "RELEASED" ELSE reservation[l]]

MutantCancelOrder(o) ==  \* fulfilled lines are not looked at
  /\ order[o] = "OPEN"
  /\ completed[o] = "no"
  /\ ReturnStock(o)
  /\ order' = [order EXCEPT ![o] = "CANCELLED"]
  /\ UNCHANGED <<completed, fulfilled, parcelVars, refundVars, callVars>>

\* The refund a cancellation may ask for is a RequestRefund of its own, afterwards.
CancelOrder(o) ==
  /\ order[o] = "OPEN"
  /\ completed[o] = "no"
  /\ \A l \in LinesOf(o) : fulfilled[l] = 0
  /\ ReturnStock(o)
  /\ order' = [order EXCEPT ![o] = "CANCELLED"]
  /\ UNCHANGED <<completed, fulfilled, parcelVars, refundVars, callVars>>

\* The order's rows are purged; its payments stay, detached.
DeleteDemoOrder(o) ==
  /\ DemoDeletion
  /\ order[o] # "GONE"
  /\ IF order[o] = "OPEN" THEN PutBack(o) ELSE UNCHANGED <<available, reserved>>
  /\ reservation' = [l \in Line |-> IF l \in LinesOf(o) THEN "NONE" ELSE reservation[l]]
  /\ order' = [order EXCEPT ![o] = "GONE"]
  /\ shipment' = [f \in Parcel |-> IF f \in ParcelsOf(o) THEN NoShipment ELSE shipment[f]]
  /\ told' = told \ ParcelsOf(o)
  /\ refund' = [r \in Refund |-> IF r \in RefundsOf(o) THEN NoRefund ELSE refund[r]]
  /\ UNCHANGED <<completed, fulfilled, paidBack, refunded, returned, callVars>>

-----------------------------------------------------------------------------
(* Refunds.                                                                *)

Amounts == [r \in Refund |-> refund[r].amount]
UnitsOf(l) == [r \in Refund |-> refund[r].units[l]]

Pending(p) == {r \in Refund : refund[r].payment = p /\ refund[r].status = "PENDING"}

MutantRemaining(p) == Captured[p] - paidBack[p]  \* refunds in flight do not count

Remaining(p) ==
  Captured[p] - paidBack[p] - SumFunctionOnSet(Amounts, Pending(p))

InFlight(l) ==
  SumFunctionOnSet(UnitsOf(l), {r \in Refund : refund[r].status = "PENDING"})

MutantRestocked(l) ==  \* only what is already back on the shelf counts
  SumFunctionOnSet(UnitsOf(l),
      {r \in Refund : refund[r].status = "SUCCEEDED" /\ l \in refund[r].restock})

Restocked(l) ==
  SumFunctionOnSet(UnitsOf(l),
      {r \in Refund : refund[r].status \in {"PENDING", "SUCCEEDED"} /\ l \in refund[r].restock})

\* refundOrder up to its first commit; the request is then on its way.
RequestRefund(r, p, amount, units, restock) ==
  /\ refund[r] = NoRefund /\ call[r] = "none"
  /\ order[PaidFor[p]] # "GONE"
  /\ amount <= Remaining(p)
  /\ \A l \in Line : units[l] <= Quantity[l] - returned[l] - InFlight(l)
  /\ \A l \in restock : units[l] > 0 /\ units[l] <= fulfilled[l] - Restocked(l)
  /\ refund' = [refund EXCEPT ![r] =
       [status |-> "PENDING", payment |-> p, amount |-> amount,
        units |-> units, restock |-> restock]]
  /\ call' = [call EXCEPT ![r] = "waiting"]
  /\ provider' = [provider EXCEPT ![r] = "asked"]
  /\ UNCHANGED <<order, completed, fulfilled, stockVars, parcelVars,
                 paidBack, refunded, returned>>

\* The provider makes the refund or refuses it, also after Storevia gave up waiting;
\* a connection that cannot be opened is a refusal too.
ProviderAnswers(r, how) ==
  /\ provider[r] = "asked"
  /\ provider' = [provider EXCEPT ![r] = how]
  /\ UNCHANGED <<order, completed, fulfilled, stockVars, parcelVars, refundVars, call>>

Fits(r) ==
  LET row == refund[r] IN
  /\ paidBack[row.payment] + row.amount <= Captured[row.payment]
  /\ \A l \in Line : returned[l] + row.units[l] <= Quantity[l]

MutantOrderRefunded(p, amount) ==  \* any payment's refund shows on the order
  refunded' = [refunded EXCEPT ![PaidFor[p]] = @ + amount]

\* Only refunds of the order's own payment show on the order.
OrderRefunded(p, amount) ==
  refunded' = [o \in Order |-> IF First[o] = p THEN refunded[o] + amount ELSE refunded[o]]

MutantRestock(row) ==  \* every refunded unit goes back on sale
  available' = available + SumFunctionOnSet(row.units, Tracked)

Restock(row) ==
  available' = available + SumFunctionOnSet(row.units, row.restock \cap Tracked)

MutantSettleRefund(r, ok) ==  \* a refund that is settled already is settled again
  IF refund[r].status = "NONE" \/ (ok /\ ~Fits(r))
  THEN UNCHANGED <<refundVars, stockVars>>
  ELSE LET row == refund[r] IN
       /\ refund' = [refund EXCEPT ![r].status = IF ok THEN "SUCCEEDED" ELSE "FAILED"]
       /\ IF ok
          THEN /\ paidBack' = [paidBack EXCEPT ![row.payment] = @ + row.amount]
               /\ OrderRefunded(row.payment, row.amount)
               /\ returned' = [l \in Line |-> returned[l] + row.units[l]]
               /\ Restock(row)
          ELSE UNCHANGED <<paidBack, refunded, returned, available>>
       /\ UNCHANGED <<reserved, reservation>>

\* Only a PENDING refund changes; one that does not fit any more rolls back.
SettleRefund(r, ok) ==
  IF refund[r].status # "PENDING" \/ (ok /\ ~Fits(r))
  THEN UNCHANGED <<refundVars, stockVars>>
  ELSE LET row == refund[r] IN
       /\ refund' = [refund EXCEPT ![r].status = IF ok THEN "SUCCEEDED" ELSE "FAILED"]
       /\ IF ok
          THEN /\ paidBack' = [paidBack EXCEPT ![row.payment] = @ + row.amount]
               /\ OrderRefunded(row.payment, row.amount)
               /\ returned' = [l \in Line |-> returned[l] + row.units[l]]
               /\ Restock(row)
          ELSE UNCHANGED <<paidBack, refunded, returned, available>>
       /\ UNCHANGED <<reserved, reservation>>

\* refundOrder gets the provider's answer.
RefundAnswered(r) ==
  /\ call[r] = "waiting"
  /\ provider[r] \in {"made", "refused"}
  /\ SettleRefund(r, provider[r] = "made")
  /\ call' = [call EXCEPT ![r] = "over"]
  /\ UNCHANGED <<order, completed, fulfilled, parcelVars, provider>>

\* A timeout, a lost answer or the end of the process: the refund stays PENDING.
RefundUnconfirmed(r) ==
  /\ call[r] = "waiting"
  /\ call' = [call EXCEPT ![r] = "over"]
  /\ UNCHANGED <<order, completed, fulfilled, stockVars, parcelVars, refundVars, provider>>

\* A member of staff settles a pending refund as the provider's dashboard shows it now.
ResolvePendingRefund(r) ==
  /\ refund[r].status = "PENDING"
  /\ SettleRefund(r, provider[r] = "made")
  /\ UNCHANGED <<order, completed, fulfilled, parcelVars, callVars>>

-----------------------------------------------------------------------------
OrderStep(o) ==
  \/ \E units \in Chosen(o), f \in Parcel, status \in ShipmentStatus :
       FulfilOrder(o, units, f, status)
  \/ \E override \in BOOLEAN : CompleteOrder(o, override)
  \/ CancelOrder(o)
  \/ DeleteDemoOrder(o)

RefundStep(r) ==
  \/ \E p \in Payment : \E amount \in 1..Captured[p], units \in Chosen(PaidFor[p]) :
       \E restock \in SUBSET LinesOf(PaidFor[p]) :
         RequestRefund(r, p, amount, units, restock)
  \/ \E how \in {"made", "refused"} : ProviderAnswers(r, how)
  \/ RefundAnswered(r)
  \/ RefundUnconfirmed(r)
  \/ ResolvePendingRefund(r)

Next ==
  \/ \E o \in Order : OrderStep(o)
  \/ \E f \in Parcel, status \in ShipmentStatus : UpdateFulfilment(f, status)
  \/ \E r \in Refund : RefundStep(r)

Spec == Init /\ [][Next]_vars

-----------------------------------------------------------------------------
(* Properties.                                                             *)

\* Every column holds what the schema lets it hold; the CHECKs of migration
\* 20261201000000 bound both line quantities by what was ordered.
TypeOK ==
  /\ order \in [Order -> {"OPEN", "CANCELLED", "GONE"}]
  /\ completed \in [Order -> {"no", "whole", "override"}]
  /\ refunded \in [Order -> Nat]
  /\ fulfilled \in [Line -> Nat] /\ returned \in [Line -> Nat]
  /\ \A l \in Line : fulfilled[l] <= Quantity[l] /\ returned[l] <= Quantity[l]
  /\ reservation \in [Line -> {"NONE", "CONVERTED", "RELEASED"}]
  /\ shipment \in [Parcel -> [order: Order \cup {None}, status: ShipmentStatus]]
  /\ told \subseteq Parcel
  /\ paidBack \in [Payment -> Nat]
  /\ refund \in [Refund ->
       [status: {"NONE", "PENDING", "SUCCEEDED", "FAILED"}, payment: Payment \cup {None},
        amount: Nat, units: [Line -> Nat], restock: SUBSET Line]]
  /\ call \in [Refund -> {"none", "waiting", "over"}]
  /\ provider \in [Refund -> {"none", "asked", "made", "refused"}]
  /\ available \in Int
  /\ reserved \in Nat

\* The level's reserved units are exactly what checkouts in payment hold and what
\* orders that hold a reservation have still to ship: every unit promised to an order
\* can be shipped, and none is counted for an order that gave it back.  operations.ts
\* says of a deleted demo order that "units still held for the order go back on sale",
\* and no others.
ReservedIsOwed ==
  reserved = Elsewhere
             + SumFunctionOnSet([l \in Line |-> Left(l)],
                   {l \in Line : reservation[l] = "CONVERTED"})

\* Units are neither made nor lost: on sale, reserved, and shipped without coming back
\* add up to what there was.
StockIsConserved ==
  available + reserved + SumFunctionOnSet(fulfilled, Tracked)
    = InStock + Elsewhere + SumFunctionOnSet(Quantity, Tracked)
      + SumFunctionOnSet([r \in Refund |->
            SumFunctionOnSet(refund[r].units, refund[r].restock \cap Tracked)],
            {r \in Refund : refund[r].status = "SUCCEEDED"})

\* A cancelled order never has a parcel under way and holds no stock, however fulfilment
\* and cancellation are interleaved.
CancelledIsUntouched ==
  \A o \in Order : order[o] = "CANCELLED" =>
    /\ ParcelsOf(o) = {}
    /\ HeldLines(o) = {}

\* An order completed without an override has every unit with the shopper, and
\* nothing done afterwards changes that.
WholeIsDelivered ==
  \A o \in Order : completed[o] = "whole" =>
    /\ Fulfilled(o)
    /\ \A f \in ParcelsOf(o) : shipment[f].status = "DELIVERED"

\* Whenever a parcel has left, its shopper's email is queued, whichever operation
\* dispatched it.
ShopperIsTold ==
  \A f \in Parcel : shipment[f].order # None /\ Dispatched(shipment[f].status) => f \in told

\* What a payment says was paid back is what its order's settled refunds add up to,
\* each counted once whoever settled it, and every refund still pending fits into what
\* is left: a refund the provider makes can always be recorded.
RefundsAddUp ==
  /\ \A p \in Payment :
       /\ order[PaidFor[p]] # "GONE" =>
            paidBack[p] = SumFunctionOnSet(Amounts,
              {r \in Refund : refund[r].payment = p /\ refund[r].status = "SUCCEEDED"})
       /\ paidBack[p] + SumFunctionOnSet(Amounts, Pending(p)) <= Captured[p]
  /\ \A l \in Line : returned[l] + InFlight(l) <= Quantity[l]

\* The order shows what was paid back of its own payment, not of an extra capture, so
\* its payment status follows from what the shopper paid for it.
OrderShowsItsRefunds ==
  \A o \in Order : refunded[o] = paidBack[First[o]]

\* Units put back on sale by refunds, settled or pending, were shipped before.
OnlyShippedUnitsReturn ==
  \A l \in Line : Restocked(l) <= fulfilled[l]

\* manage.ts has staff settle "a refund the provider didn't confirm, after checking the
\* provider's dashboard": a refund the provider makes is never recorded as failed.
NoRefundIsLost ==
  \A r \in Refund : provider[r] = "made" => refund[r].status # "FAILED"

=============================================================================

CONSTANTS
  o1 = o1
  o2 = o2
  l1 = l1
  l2 = l2
  l3 = l3
  p1 = p1
  p2 = p2
  Order = {o1, o2}
  Line = {l1, l2, l3}
  Tracked = {l1, l3}
  Payment = {p1, p2}
  Refund = {r1}
  Parcel = {f1, f2, f3}
  OrderOf <- MCOrderOf
  Quantity <- MCQuantity
  PaidFor <- MCPaidFor
  Captured <- MCCaptured
  First <- MCFirst
  InStock = 1
  Elsewhere = 1
  DemoDeletion = FALSE
  None = None
\* Everything this small store can do with its orders is done at some point.
CHECK_DEADLOCK FALSE
SYMMETRY Symmetry
SPECIFICATION Spec
INVARIANTS
  TypeOK
  ReservedIsOwed
  StockIsConserved
  CancelledIsUntouched
  WholeIsDelivered
  ShopperIsTold

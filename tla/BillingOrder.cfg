CONSTANTS
  Ref = {s1}
  Manual = {}
  MaxChanges = 4
  NoRow = NoRow

SPECIFICATION BillingSpec

INVARIANT DeliveryConverges

CHECK_DEADLOCK FALSE

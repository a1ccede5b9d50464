CONSTANTS
  Checkout = {c1, c2}
  Cart = {k1}
  Payment = {p1, p2}
  q1 = q1
  q2 = q2
  Quote <- MCQuote
  Units <- MCUnits
  Total <- MCTotal
  Discounted <- MCDiscounted
  OnHand = 1
  Oversell = FALSE
  UsageLimit = 1
  Outcome = {"captured", "mispaid", "failed", "closed"}
  MaxCalls = 1
  None = None
\* The rows of this small store run out.
CHECK_DEADLOCK FALSE
SYMMETRY Symmetry
SPECIFICATION Spec
ACTION_CONSTRAINT InScope
INVARIANTS
  TypeOK
  HoldsWhilePaying
  OneOrderPerCheckout
  DiscountLedger
  OversellIsFlagged
  StockLedger
PROPERTIES
  MoneyIsKept
  TimelyCaptureIsWhole
  ExtraCaptureIsAttached
  TransitionsAreAllowed
  PromiseKept

CONSTANTS
  Checkout = {c1}
  Cart = {k1}
  Payment = {p1, p2}
  q1 = q1
  q2 = q2
  Quote <- MCOneQuote
  Units <- MCUnits
  Total <- MCTotal
  Discounted <- MCDiscounted
  OnHand = 1
  Oversell = FALSE
  UsageLimit = 1
  Outcome = {"captured", "closed"}
  MaxCalls = 0
  None = None
\* The rows of this small store run out.
CHECK_DEADLOCK FALSE
SPECIFICATION FairSpec
PROPERTIES
  StockComesBack
  CaptureIsRecorded

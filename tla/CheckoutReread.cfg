CONSTANTS
  Checkout = {c1}
  Cart = {k1}
  Payment = {p1, p2}
  q1 = q1
  q2 = q2
  Quote <- MCQuote
  Units <- MCUnits
  Total <- MCTotal
  Discounted <- MCDiscounted
  OnHand = 1
  Oversell = FALSE
  UsageLimit = 1
  Outcome = {"captured", "mispaid", "failed", "closed"}
  MaxCalls = 1
  None = None
SYMMETRY Symmetry
SPECIFICATION Spec
PROPERTY PaidAttemptIsNotCancelled

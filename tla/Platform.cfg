CONSTANTS
  Tag = {t1}
  Dispatcher = {d1, d2}
  Request = {r1}
  Overlap = 2
  ReadLimit = 2
  Timeout = 3
  MaxRows = 3
  MaxTick = 2
  Absent = Absent
  Tab = {b1, b2}
  Document = {x1, x2}
  MaxVersion = 3
  MaxRevision = 4
  NoTask = NoTask
  Editor = {e1, e2, e3}
  Text = {own, starter}
  OwnText = {own}
  NoText = NoText
  MaxPolicyRevision = 4
  Person = {owner, admin, p1, p2}
  Founder = owner
  Early = {admin}
  Invitation = {i1, i2}
  Seats = 3
  None = None
  Ref = {s1, s2}
  Manual = {m1}
  MaxChanges = 3
  NoRow = NoRow
  Transaction = {q1, q2}
  Items = 2
  Locations = 2
  Online = {1}
  Baskets <- PricedBaskets
  NoQuote = NoQuote
\* The bounds of this small platform are used up.
CHECK_DEADLOCK FALSE
SYMMETRY Symmetry
SPECIFICATION Spec
INVARIANTS
  TypeOK
  OnlyLateRowsAreMissed
  RevisionNamesOneDocument
  LiveIsThePublished
  OnlyOwnTextIsLive
  SeatsAreNotOversold
  OwnerStays
  DeadlocksNeedAMissingLevel
  QuoteAddsUp
PROPERTIES
  SuspendedInviteNobody
  OlderNeverWins
  ExpiredIsFinal

CONSTANTS
  Worker = {w1, w2}
  MaxAttempts = 2
  MaxSlot = 2
  MaxFaults = 2
  Nobody = Nobody
  Notification = {n1, n2}
  Wordless = {n2}
  Sender = {s1, s2}
  Limit = 2
  Tries = 2
  MaxMishaps = 2
  MaxRequeues = 1
  Nothing = Nothing
SPECIFICATION Spec
CHECK_DEADLOCK FALSE
INVARIANTS TypeOK RunningIsTheLease RepeatsAreMishaps
PROPERTIES SlotsAreKept SlotsMoveOn EmailsSettle

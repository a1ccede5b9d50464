CONSTANTS
  Tab = {b1, b2}
  Document = {x1, x2}
  MaxVersion = 3
  MaxRevision = 4
  NoTask = NoTask

SPECIFICATION PageSpec

PROPERTY PublishesWhatIsShown

CHECK_DEADLOCK FALSE

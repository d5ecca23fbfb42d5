CONSTANTS
  e1 = e1
  e2 = e2
  d1 = d1
  Event = {e1, e2}
  Document = {d1}
  Scenarios <- MCScenarios
  Delivery = {x1, x2}
  Slot = {s1, s2}
  Attempts = 2
  MaxFaults = 2
  NoItem = NoItem
SPECIFICATION Spec
INVARIANTS
  TypeOK
  NothingDropped
  CompletedMeansDecided
PROPERTIES
  VerdictsStand
  
CHECK_DEADLOCK FALSE

SPECIFICATION Spec
CONSTANTS
  s1 = s1
  s2 = s2
  Items = {s1, s2}
  Priority <- PoolOfTwo
  Selections = 1
  Slices <- InOrder
  SomeDeals <- Swap
  ReadingItems = {r1}
  WeItems = {w1, w2}
  None = None
CHECK_DEADLOCK FALSE
INVARIANTS
  ProductionType
  BankIsWhole
  DecisionIsEvidenced
PROPERTIES
  SetIsJudged

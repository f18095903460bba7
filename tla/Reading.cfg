SPECIFICATION Spec
CONSTANTS
  Items = {d, i1, i2}
  Inference = {i1, i2}
  None = None
CHECK_DEADLOCK FALSE
INVARIANTS
  TypeOK
  ShippedIsJudged
  AcceptIsWhole
PROPERTIES
  IsJudgedSet

SPECIFICATION Spec
CONSTANTS
  Record = {r1, r2, r3, r4}
  Seed = {r1, r2}
  MaxSize = 2
  Want = 2
  Scale = 1
  MaxItems = 2
  MaxCount = 2
  None = None
SYMMETRY Exchanges
INVARIANT InStep
PROPERTIES
  GrowsByPromotion
  ResumeKeepsScored
CHECK_DEADLOCK FALSE

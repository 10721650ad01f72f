SPECIFICATION Spec
CONSTANTS
  Seed = {s1, s2, s3, s4}
  Augmented = {a1}
  Answered = {s1, s2, s3, a1}
  Want = 3
  MaxNumGenBatches = 2
  DpSizes = {1, 2, 3}
  TotalSteps = 2
INVARIANT RewardIsOwn

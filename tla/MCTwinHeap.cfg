SPECIFICATION Spec
SYMMETRY Symmetry
CONSTANTS
  Record = {r1, r2}
  Reward = {1, 2}
  Nothing = Nothing
  BatchSize = 3
  MaxSeq = 6
INVARIANT Mirrored
PROPERTY DequeSpec

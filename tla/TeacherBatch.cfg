SPECIFICATION Spec
CONSTANTS
  Batch = {b1}
  Width = 2
  Seed = {s1, s2}
  Capacity = 3
  Want = 1
  QueueMax = 1
  InboxMax = 1
  Workers = 1
INVARIANT OnlyAnsweredEnters

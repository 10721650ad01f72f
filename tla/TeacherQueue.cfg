SPECIFICATION Spec
CONSTANTS
  Batch = {b1, b2}
  Width = 1
  Seed = {s1}
  Capacity = 2
  Want = 1
  QueueMax = 1
  InboxMax = 1
  Workers = 1
INVARIANTS RefusedStaysOut PoolBounded OneFallback EachBatchOnce QuietAfterShutdown
PROPERTIES ShutdownCompletes TeacherEnds QueuedIsTaken

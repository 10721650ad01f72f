SPECIFICATION Spec
CONSTANTS
  MaxRecords = 4
  Scale <- MCScale
  Reward <- MCReward
  Num <- MCNum
  Den <- MCDen
  MaxEvicted = 1
  Modes = {"children", "path"}
  None = None
  Gone = Gone
INVARIANTS ChildrenFirst RefreshedAsDefined CopiesAgree

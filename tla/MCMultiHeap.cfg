SPECIFICATION Spec
CONSTANTS
  NumHeaps = 3
  MaxSize = 6
  RebalanceFrequency = 3
  Scale = 2
  Reward <- MCReward
  Strategies <- MCStrategies
  TrainingSteps = 5
  MaxItems = 2
  MaxSample = 5
  None = None
INVARIANTS
  InPlace
  FairTurns
PROPERTY Served

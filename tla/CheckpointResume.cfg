SPECIFICATION Spec
CONSTANTS
  Seed = {s1, s2}
  Augmented = {a1}
  Want = 2
  TotalSteps = 3
  SaveFreq = 2
  MaxCrashes = 2
  Absent = Absent
  Torn = Torn
INVARIANTS StateNotNewer SeedsSurvive StuckOnlyByRewrite
PROPERTIES CrashCost SavedSurvives

SPECIFICATION FairSpec
CONSTANTS
  N = 3
  Manifest <- ThreeRows
  StageOf <- TwoStages
  BatchSize = 2
  RecycleEvery = 2
  Options <- Plain
  TornWrites = TRUE
  MaxCrashes = 1
PROPERTIES EventuallyComplete

SPECIFICATION FairSpec
CONSTANTS
  N = 4
  Manifest <- FourRows
  StageOf <- LongStage
  BatchSize = 2
  RecycleEvery = 2
  Options <- AnyLimits
  TornWrites = TRUE
  MaxCrashes = 2
INVARIANTS CompleteHasValidRun AtMostOneValidRun DatasetIsWhole StageIsExhausted RunsMeetServices
PROPERTIES CompletesUnlessTorn


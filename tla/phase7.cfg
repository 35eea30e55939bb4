SPECIFICATION Phase7Spec
CONSTANTS
  N = 3
  Manifest <- ThreeRows
  StageOf <- TwoStages
  BatchSize = 2
  RecycleEvery = 2
  Options <- AuditOrAll
  TornWrites = TRUE
  MaxCrashes = 1
  Modes <- EveryMode
  Seeds = {7000, 7001}
  Values = {1, 2, 3}
  MaxSample = 3
  One = 6
  Family = {1, 2, 3, 4}
  Operations = {1, 2}
  MaxEvents = 3
INVARIANTS PublishedIsWholeButTheLast BundleIsOfOnePiece EveryRunIsPlannedOnce CellsAreConditions
  ComparisonsAreBalanced TestsAreSound RatesAgree InventoryMatchesPlans

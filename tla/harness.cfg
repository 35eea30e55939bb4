SPECIFICATION Spec
CONSTANTS
  Conditions = {1, 2}
  SeedLists <- OneOrTwoSeeds
  CompoundSeed = 1
  MaxInvocations = 3
  MaxStops = 2
  MaxTrailing = 1
INVARIANTS RunsAreSeparate AuditSeesTheTables
PROPERTIES StressKeepsItsRows
CHECK_DEADLOCK FALSE

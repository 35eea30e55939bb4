SPECIFICATION RetrySpec
CONSTANTS
  NoEffect = NoEffect
  Requests = {r1, r2}
  Ops = {"op"}
  OpOf <- OneOp
  HashOf <- OnePayload
  Configurations <- V5C2
  Scenarios = {"F0", "F3"}
  MaxCrashes = 1
PROPERTIES ReconciliationEnds

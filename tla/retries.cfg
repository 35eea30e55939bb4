SPECIFICATION RetrySpec
CONSTANTS
  NoEffect = NoEffect
  Requests = {r1, r2}
  Ops = {"op"}
  OpOf <- OneOp
  HashOf <- OnePayload
  Configurations <- LedgerConfigurations
  Scenarios = {"F0", "F2", "F3", "F8", "F9"}
  MaxCrashes = 1
PROPERTIES EventuallySettled

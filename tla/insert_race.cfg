SPECIFICATION Spec
CONSTANTS
  NoEffect = NoEffect
  Requests = {r1, r2}
  Ops = {"op"}
  OpOf <- OneOp
  HashOf <- Payload
  OtherPayload = {r2}
  Configurations <- V4C1
  Scenarios = {"F0", "F3"}
  MaxCrashes = 0
INVARIANTS HashVerified

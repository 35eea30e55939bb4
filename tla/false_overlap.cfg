SPECIFICATION AuditSpec
CONSTANTS
  NoEffect = NoEffect
  Requests = {r1, r2, r3}
  Ops = {"op"}
  OpOf <- OneOp
  HashOf <- SamePayload
  Configurations <- V5C2
  Scenarios = {"F0", "F2"}
  MaxCrashes = 0
SYMMETRY Symmetry
INVARIANT AuditPasses

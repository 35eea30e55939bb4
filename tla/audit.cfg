SPECIFICATION AuditSpec
CONSTANTS
  NoEffect = NoEffect
  Requests = {r1, r2, r3}
  Ops = {"op"}
  OpOf <- OneOp
  HashOf <- SamePayload
  Configurations <- Ledgers
  Scenarios = {"F0", "F2", "F9"}
  MaxCrashes = 1
SYMMETRY Symmetry
INVARIANTS LogIsHistory NoOverlapById

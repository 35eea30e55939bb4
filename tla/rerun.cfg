SPECIFICATION RerunSpec
CONSTANTS
  NoEffect = NoEffect
  Requests = {r1, r2, r3, r4}
  Second = {r3, r4}
  Ops = {"op"}
  OpOf <- OneOp
  HashOf <- SamePayload
  Configurations <- Protections
  Scenarios = {"F0", "F2", "F3", "F9"}
  MaxCrashes = 0
SYMMETRY Symmetry
INVARIANTS NoDuplicateInRerun UncountedOkIsLate

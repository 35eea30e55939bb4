SPECIFICATION SmallSpec
CONSTANTS
  NoEffect = NoEffect
  Requests = {r1, r2, r3}
  Ops = {"op"}
  OpOf <- OneOp
  HashOf <- Payload
  OtherPayload = {r3}
  Configurations <- AllConfigurations
  Scenarios = {"F0", "F2", "F3", "F4", "F8", "F9", "F10read", "F10write"}
  MaxCrashes = 1
SYMMETRY Symmetry
INVARIANTS AtMostOneEffect AnswersAreTrue OneFreshAnswer ConfirmedMeansEffect OneReconciler NoBlindRetry OneExecutor RegisteredIffCreated
PROPERTIES AmbiguityStays ImplementsExactlyOnce

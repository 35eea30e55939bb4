SPECIFICATION RunFairSpec
CONSTANTS
  NoEffect = NoEffect
  Ops = {"op"}
  Requests <- Attempts
  OpOf <- Operation
  HashOf <- SamePayload
  Configurations <- Protections
  Scenarios = {"F0", "F1", "F3", "F5", "F6", "F8", "F9", "F10read"}
  Failures = {"F1", "F5", "F6", "F8", "F9", "F10read", "CF1", "CF2", "CF4"}
  Partial = {"F1", "CF1"}
  MaxAttempts = 2
  Fanout = 2
  OutageAttempts = 1
  MaxCrashes = 1
INVARIANTS OkIsCounted TablesAgree MeasurementIsFinalIfUndisturbed InjectedWasReached FinalStateIsLedgerState RunValidates ReplaysAreRetries
PROPERTIES RunEnds

SPECIFICATION Spec
CONSTANTS
  w1 = w1
  w2 = w2
  j1 = j1
  Jobs = {j1}
  Workers = {w1}
  MaxAttempts = 2
  MaxCrashes = 1
  Faults = {"submit", "reply", "stop", "status", "connect", "operator", "event"}
INVARIANT SucceededIsReal
INVARIANT OutcomeIsReal

SPECIFICATION Spec
CONSTANTS
  w1 = w1
  w2 = w2
  j1 = j1
  Jobs = {j1}
  Workers = {w1}
  MaxAttempts = 1
  MaxCrashes = 0
  Faults = {}
PROPERTY SucceededNeverRuns

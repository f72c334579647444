SPECIFICATION RaceSpec
CONSTANTS
  w1 = w1
  w2 = w2
  j1 = j1
  Jobs = {j1}
  Workers = {w1, w2}
  MaxAttempts = 3
  MaxCrashes = 0
  Faults = {"submit", "reply"}
SYMMETRY Symmetry
PROPERTY NeverResubmitted
CHECK_DEADLOCK FALSE

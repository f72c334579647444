SPECIFICATION Spec
CONSTANTS
  w1 = w1
  w2 = w2
  j1 = j1
  Jobs = {j1}
  Workers = {w1}
  MaxAttempts = 3
  MaxCrashes = 0
  Faults = {"submit", "status", "operator"}
INVARIANT NoUntrackedRayJob
INVARIANT OneActiveAttempt
INVARIANT OneLiveRayJob
INVARIANT TerminalAnnounced

SPECIFICATION FeedSpec
CONSTANTS
  w1 = w1
  w2 = w2
  e1 = e1
  e2 = e2
  e3 = e3
  Events = {e1, e2}
  Unhandled = {}
  Workers = {w1, w2}
  BatchSize = 2
  Faults = {}
  MaxCrashes = 0
  PageSize = 2
CHECK_DEADLOCK FALSE
INVARIANT NothingSkipped

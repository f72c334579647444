SPECIFICATION FairSpec
CONSTANTS
  w1 = w1
  w2 = w2
  e1 = e1
  e2 = e2
  e3 = e3
  Events = {e1, e2}
  Unhandled = {e2}
  Workers = {w1, w2}
  BatchSize = 1
  Faults = {"emit"}
  MaxCrashes = 1
CHECK_DEADLOCK FALSE
INVARIANT DoneIsPublished
INVARIANT PublishedOncePerWorker
PROPERTY NothingStaysPending
PROPERTY PublishedUnlessFailed

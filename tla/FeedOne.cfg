SPECIFICATION FairFeedSpec
CONSTANTS
  w1 = w1
  w2 = w2
  e1 = e1
  e2 = e2
  e3 = e3
  Events = {e1, e2, e3}
  Unhandled = {}
  Workers = {w1}
  BatchSize = 2
  Faults = {"emit"}
  MaxCrashes = 0
  PageSize = 1
CHECK_DEADLOCK FALSE
INVARIANT NothingSkipped
PROPERTY PublishesALog
PROPERTY ReceivedInOrder
PROPERTY EventuallyReceived

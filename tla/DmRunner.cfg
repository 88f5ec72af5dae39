CONSTANTS
  MaxLogPages = 2
  ProcessBacklog = FALSE
  MaxLog = 4
SPECIFICATION FairSpec
INVARIANTS
  BacklogSkipped
  StopsWithinAPage
PROPERTIES
  FeedSpec
  EventuallyDispatched
\* The runner may have stopped with the log full.
CHECK_DEADLOCK FALSE

CONSTANTS
  Notifs = {n1, n2}
  MaxTime = 2
  Limit = 2
  ProcessBacklog = FALSE
  MarkSeenEnabled = TRUE
  StoreKind = "memory"
  MaxRuns = 2
  Absent = Absent
SPECIFICATION FairSpec
INVARIANTS
  SavedWheneverIdle
PROPERTIES
  EventuallyHandled
  ShutdownHonoured
\* The bot may be down for good.
CHECK_DEADLOCK FALSE

CONSTANTS
  Notifs = {n1, n2, n3}
  MaxTime = 2
  Limit = 1
  ProcessBacklog = FALSE
  MarkSeenEnabled = TRUE
  StoreKind = "file"
  MaxRuns = 2
  Absent = Absent
SPECIFICATION OverflowSpec
PROPERTIES
  ResumeMissesNothing
SYMMETRY Symmetry
\* The bot may be down for good.
CHECK_DEADLOCK FALSE

CONSTANTS
  None = None
  StartCursor = None
  Rewind = 1
  MaxAttempt = 2
  MaxTime = 3
  MaxEvents = 3
SPECIFICATION FairSpec
INVARIANTS
  NoGap
  DryConnectionsBackedOff
PROPERTIES
  EventuallyDispatched
  ShutdownHonoured
\* The runner may have stopped.
CHECK_DEADLOCK FALSE

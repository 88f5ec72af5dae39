CONSTANTS
  MaxLogPages = 2
  ProcessBacklog = FALSE
  MaxLog = 3
SPECIFICATION Spec
INVARIANTS
  OldMessagesIgnored
\* The runner may have stopped with the log full.
CHECK_DEADLOCK FALSE

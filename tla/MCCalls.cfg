CONSTANTS
  a = a
  s = s
  t = t
  Nil = Nil
  None = None
  Notifs = {n1, n2, n3, n4}
  MaxTime = 3
  Limit = 8
  Base = 3
  ThreadDrafts <- MCThreadDrafts
  PostDrafts <- MCPostDrafts
  MaxImages = 2
  MaxPolls = 3
  MaxItem = 4
  PageSize = 2
  Limits = {0, 2, None}
  MaxRetries = 1
  Tasks = {s, t}
  Calls <- MCCalls
  Profiles <- MCProfiles
  Labels <- MCLabels
  Unknown = Unknown
  Bot = Bot
  MaxChange = 3
SPECIFICATION CallsSpec
INVARIANTS
  PlanKeepsEveryWord
  PlanFits
  OneChain
  PublishedIsPrefix
  EmbedsAsComposed
  InOrderOnce
  NothingSkipped
PROPERTIES
  FreshSpec
  SendEnds
  ReadEnds
  EditsSurvive
  TouchesOnlyItsOwn
\* A call has returned.
CHECK_DEADLOCK FALSE

CONSTANTS
  Notifs <- MCNotifs
  Handlers = {"h1", "h2", "log"}
  StreamEvents <- MCStreamEvents
  Dms <- MCDms
  Registries <- MCRegistries
  Keys <- MCKeys
  Values <- MCValues
  Self = "did:bot"
  Watermark = Watermark
  Remembered = Remembered
  ProcessBacklog = FALSE
  MaxStamp = 2
  None = None
  Torn = Torn
  Persistent = TRUE
  MaxStarts = 2
SPECIFICATION Spec
INVARIANTS
  CoveredMeansHandled
PROPERTIES
  RememberedNotRedone
  DurableSpec
\* The bot may be down for good.
CHECK_DEADLOCK FALSE

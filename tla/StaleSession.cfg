CONSTANTS
  a = a
  b = b
  Unset = Unset
  Home <- MCHome
  Configs <- MCConfigs
  MaxTokens = 3
  Jobs = {"every", "cron"}
  Period <- MCPeriod
  Instants <- MCInstants
  Builds <- MCBuilds
  MaxTime = 3
SPECIFICATION Spec
INVARIANTS
  BuiltAsConfigured
\* A bot may have stopped for good.
CHECK_DEADLOCK FALSE

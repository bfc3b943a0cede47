SPECIFICATION ConnectionSpec
CONSTANTS
  LastClient = 2
  Completions = {}
  MaxDeaths = 0
INVARIANT OnlyStaleConnectionsEnd
CHECK_DEADLOCK FALSE

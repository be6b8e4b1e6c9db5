SPECIFICATION PostSpec
CONSTANTS
  Timeout = 5
  Deadline = 12
  MaxAttempts = 4
  RetryDelays <- MCRetryDelays
  Lag = 2
INVARIANTS
  SettlesCleanly
PROPERTIES
  AbortStops

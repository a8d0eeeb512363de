SPECIFICATION Spec
CONSTANTS
  KeepRecent = 1
  Asks = {{}, {1}, {1, 2}}
  MaxMessages = 5
  MaxRetries = 1
  Departures = {"crash", "lost", "cut", "micro", "reactive", "context", "outside", "unlogged", "abandon"}
  MaxDepartures = 1
INVARIANTS TypeOK  NothingForgotten Paired Chained
CHECK_DEADLOCK FALSE

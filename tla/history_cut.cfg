SPECIFICATION Spec
CONSTANTS
  KeepRecent = 1
  Asks = {{}, {1}}
  MaxMessages = 5
  MaxRetries = 1
  Departures = {"cut"}
  MaxDepartures = 1
INVARIANTS ResultsHaveCalls
CHECK_DEADLOCK FALSE

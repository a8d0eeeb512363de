SPECIFICATION Spec
CONSTANTS
  Calls = {q1}
  MaxClients = 2
  MaxLinks = 2
  MaxAttempts = 2
  Departures = {"flaky", "exhausted", "garbled", "expired", "unannounced", "unauthorized", "twins", "removed", "late"}
  MaxDepartures = 1
INVARIANTS   CallsAreRead
 
CHECK_DEADLOCK FALSE

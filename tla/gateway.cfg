SPECIFICATION Spec
CONSTANTS
  Keys = {k1}
  MaxTexts = 3
  MaxAsks = 2
  Departures = {"early", "crossing", "chatter", "twice", "crossed", "cancel", "failed", "unsaved", "crash", "orphaned"}
  MaxDepartures = 1
INVARIANTS TypeOK OneSession  InOrder
 
CHECK_DEADLOCK FALSE

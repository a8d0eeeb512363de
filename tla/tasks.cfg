SPECIFICATION Spec
CONSTANTS
  Names = {n1}
  NoName = NoName
  MaxTasks = 3
  Departures = {"stop", "foreign", "orphan", "crash", "unopened", "again", "hijack", "survivor"}
  MaxDepartures = 1
INVARIANTS ToldOnce  NameLeads 
CHECK_DEADLOCK FALSE

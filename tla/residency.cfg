SPECIFICATION ResidencySpec
CONSTANTS
  Clients = {c1, c2}
  Gateways = {g1}
  Editors = {e1}
  MaxObjects = 2
  MaxWaiting = 1
  MaxDue = 2
  MaxRaces = 2
  Exposures = {"coload", "slowclose", "opening", "force"}
INVARIANTS ResidencyTypeOK  
CHECK_DEADLOCK FALSE

SPECIFICATION FairSpec
CONSTANTS
  Clients = {c1, c2}
  NoClient = NoClient
  MaxAsks = 2
  MaxQueued = 1
INVARIANTS TypeOK GrantedWasAllowed 
PROPERTY AskDelivered
CHECK_DEADLOCK FALSE

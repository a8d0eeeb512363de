SPECIFICATION Spec
CONSTANTS
  Prompts = {p1, p2}
  GatewayTurns = {g1}
  NoTurn = NoTurn
  MaxQueueLength = 2
  Disturbances = {"overlap"}
  MaxDisturbances = 0
INVARIANT Serialised
CHECK_DEADLOCK FALSE

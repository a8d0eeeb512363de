SPECIFICATION FairSpec
CONSTANTS
  Prompts = {p1, p2, p3}
  GatewayTurns = {g1}
  NoTurn = NoTurn
  MaxQueueLength = 2
  Disturbances = {"cancel", "abort", "raise"}
  MaxDisturbances = 2
INVARIANTS Serialised
PROPERTIES ImplementsFifo PromptAnswered
CHECK_DEADLOCK FALSE

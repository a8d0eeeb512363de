SPECIFICATION Spec
CONSTANTS
  Prompts = {p1, p2, p3}
  GatewayTurns = {g1}
  NoTurn = NoTurn
  MaxQueueLength = 1
  Disturbances = {"cancel", "abort", "dbfail", "raise", "overlap", "bracket"}
  MaxDisturbances = 3
SYMMETRY TurnSymmetry
INVARIANTS NoTurnLost
PROPERTIES  DroppedTurnNeverRuns
CHECK_DEADLOCK FALSE

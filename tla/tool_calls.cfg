SPECIFICATION Spec
CONSTANTS
  Requests = {fetch, edit, gone}
  Safe = {fetch}
  Mutating = {edit}
  Unknown = {gone}
  Asked = {fetch, edit}
  Refused = {}
  Deniable = {edit}
  MaxConcurrency = 2
  MaxCalls = 3
  Departures = {"cancel", "again", "unasked", "failure", "policy", "switch", "twins"}
  MaxDepartures = 1
INVARIANTS Ordered Accounted Told EffectsTold Forbidden
PROPERTY AnswerEnds
CHECK_DEADLOCK FALSE

SPECIFICATION FairSpec
CONSTANTS
  Kernels = {k1, k2}
  CatchingUp = {k2}
  StaleAfter = 0
INVARIANTS
  OneRunner
  NoLeakedClaim
 

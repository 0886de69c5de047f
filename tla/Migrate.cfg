\* Two deploys with different checkouts, two faults.
CONSTANTS
  Runners = {r1, r2}
  NoRunner = NoRunner
  create = create
  alter = alter
  index = index
  fixed = fixed
  other = other
  Parts <- MCParts
  Shas <- MCShas
  NoTx <- MCNoTx
  Checkouts <- MCCheckouts
  MaxFaults = 2
SPECIFICATION FairSpec
INVARIANTS PlanFresh ExactlyOnce SuccessIsTrue
PROPERTIES DivergenceStops RunsEnd

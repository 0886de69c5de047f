\* Three requests under one key or none, two workers, two attempts, a crash, one intervention.
SPECIFICATION FairSpec
CONSTANTS
  Requests = {n1, n2, n3}
  Keys = {k1}
  None = None
  Workers = {w1, w2}
  MaxAttempts = 2
  MaxCrashes = 1
  MaxHands = 1
INVARIANTS NothingForgotten DeadLettersAreTrue
PROPERTY EveryJobEnds
CHECK_DEADLOCK FALSE

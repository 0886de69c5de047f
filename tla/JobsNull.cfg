\* Two requests under one key and a worker.
SPECIFICATION Spec
CONSTANTS
  Requests = {n1, n2}
  Keys = {k1}
  None = None
  Workers = {w1}
  MaxAttempts = 1
  MaxCrashes = 0
  MaxHands = 0
INVARIANT EnqueueRecords
CHECK_DEADLOCK FALSE

\* One drain at a time, as seams.md asks for, with crashes.
CONSTANTS
  Endpoints = {e1}
  Messages = {m1, m2}
  Keys = {}
  NoKey = NoKey
  Callers = {c1}
  Drains = {d1}
  MaxAttempts = 2
  BaseBackoff = 1
  MaxBackoff = 2
  RetryAfters = {0}
  Batch = 2
  Horizon = 2
  MaxCrashes = 1
SPECIFICATION FairSpec
INVARIANTS BudgetUpToCrashes
PROPERTIES NothingDropped
CHECK_DEADLOCK FALSE

\* Two callers and two overlapping drains on one endpoint.
CONSTANTS
  Endpoints = {e1}
  Messages = {m1, m2}
  Keys = {k1}
  NoKey = NoKey
  Callers = {c1, c2}
  Drains = {d1, d2}
  MaxAttempts = 2
  BaseBackoff = 1
  MaxBackoff = 1
  RetryAfters = {0}
  Batch = 1
  Horizon = 0
  MaxCrashes = 0
SYMMETRY MCSymmetry
SPECIFICATION Spec
INVARIANTS SettlementIsLogged NoFalseSettlement OneEventPerKey
PROPERTIES SettledForGood PromiseSpec
CHECK_DEADLOCK FALSE

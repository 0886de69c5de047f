\* Two passes with pages of two rows, three events of which the first is refused.
SPECIFICATION FairMeterSpec
CONSTANTS
  Keys = {k1}
  NoKey = NoKey
  Callers = {c1, c2}
  Drains = {d1, d2}
  Batch = 2
  Rejected <- MCRejected
  MaxRows = 3
  MaxCuts = 2
  MaxLapses = 1
INVARIANTS OneEventPerKey ReportedIsBilled BilledOnce
PROPERTIES NothingStarves
CHECK_DEADLOCK FALSE

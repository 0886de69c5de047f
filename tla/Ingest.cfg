\* One event and its signatures over and over, a busy client besides the vendor, two counters, two entries.
CONSTANTS
  Events = {e1}
  Clients = {vendor, other}
  Vendor = vendor
  Requests = {r1, r2}
  Handlers = 2
  Limit = 2
  Window = 2
  MaxBuckets = 2
  Tolerance = 2
  MaxEntries = 2
  NoDelivery = NoDelivery
  Ahead = 1
  MaxRepeats = 1
  MaxFaults = 1
SPECIFICATION FairSpec
INVARIANTS LimitHolds TakenOnce AckedIsHandled
PROPERTY EventsGetThrough
CHECK_DEADLOCK FALSE

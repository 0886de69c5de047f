\* One subscription, two users, two events, two requests at once, two faults, a repeat.
SPECIFICATION FairSpec
CONSTANTS
  Subs = {s1}
  Users = {u1, u2}
  Routes = {r1, r2}
  None = None
  Blank = Blank
  MaxEvents = 2
  MaxFaults = 2
  MaxRepeats = 1
INVARIANTS RecordedIsReflected NewestWins HandlersOnce
PROPERTIES MirrorNeverRewinds EveryEventRecorded
CHECK_DEADLOCK FALSE

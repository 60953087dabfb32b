SPECIFICATION FairSpec
CONSTANTS
  Callers = {c1, c2}
  Sweepers = {s1}
  Warm = Warm
  None = None
  MaxEvents = 2
INVARIANT Owed
INVARIANT SingleFlight
INVARIANT InboxKept
INVARIANT AbsentStays
INVARIANT ColdServed
PROPERTY WritesSeen
CHECK_DEADLOCK FALSE

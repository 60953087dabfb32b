SPECIFICATION Spec
CONSTANTS
  Loop = Loop
  Tunnel = Tunnel
  NoUplink = NoUplink
  NoNAT = NoNAT
  Callers = {c1, c2}
  Uplinks = {u1, u2}
  AllowLocalAccess = FALSE
  Faulty = FALSE
  MaxStarts = 3
  MaxStops = 1
  MaxQuits = 1
  MaxCrashes = 1
  MaxOffers = 2
  MaxFailures = 1
  MaxEvents = 1
INVARIANT GuardNeedsOffer
INVARIANT RulesRecorded
INVARIANT NothingLingers
CHECK_DEADLOCK FALSE

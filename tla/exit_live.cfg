SPECIFICATION FairSpec
CONSTANTS
  Loop = Loop
  Tunnel = Tunnel
  NoUplink = NoUplink
  NoNAT = NoNAT
  Callers = {c1}
  Uplinks = {u1, u2}
  AllowLocalAccess = TRUE
  Faulty = TRUE
  MaxStarts = 2
  MaxStops = 1
  MaxQuits = 0
  MaxCrashes = 0
  MaxOffers = 1
  MaxFailures = 1
  MaxEvents = 2
PROPERTY OfferServed
CHECK_DEADLOCK FALSE

SPECIFICATION FairSpec
CONSTANTS
  u1 = u1
  u2 = u2
  Main = Main
  Updater = Updater
  Advertiser = Advertiser
  Nobody = Nobody
  Users <- MCUsers
  Plain <- MCPlain
  AllowLocalAccess = TRUE
  MaxGens = 2
  MaxCalls = 3
  MaxUpdates = 1
  MaxFaults = 1
  
PROPERTY SignalEnds
CHECK_DEADLOCK FALSE

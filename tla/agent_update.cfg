SPECIFICATION FairSpec
CONSTANTS
  u1 = u1
  u2 = u2
  Main = Main
  Updater = Updater
  Advertiser = Advertiser
  Nobody = Nobody
  Users <- MCOneUser
  Plain <- MCPlain
  AllowLocalAccess = TRUE
  MaxGens = 1
  MaxCalls = 0
  MaxUpdates = 1
  MaxFaults = 0
PROPERTY UpdateRestarts
CHECK_DEADLOCK FALSE

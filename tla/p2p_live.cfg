SPECIFICATION FairSpec
CONSTANTS
  i1 = i1
  i2 = i2
  k1 = k1
  k2 = k2
  IDs = {i1}
  Keys = {k1}
  NoID = NoID
  NoKey = NoKey
  ServerKey = ServerKey
  Capable = {k1}
  Relays <- Stable
  Lists <- StableLists
  Nonces = {n1}
  NoNonce = NoNonce
  Workers = {w1}
  Control = Control
  Maintenance = Maintenance
  MaxSessions = 2
  QueueSize = 1
PROPERTY SessionsEnd
PROPERTY PathRepaired

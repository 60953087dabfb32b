SPECIFICATION FairSpec
CONSTANTS
  Callers = {c1}
  Loop = Loop
  Tunnel = Tunnel
  Addrs = {a1}
  NoAddr = NoAddr
  Keys = {k1}
  NoKey = NoKey
  Server = Server
  Gateways = {g1, g2}
  NoGateway = NoGateway
  ServerDefault = TRUE
  Giveup = 1
  Unlocked = Unlocked
  MaxCalls = 1
  MaxFaults = 1
  MaxEvents = 1
  MaxNet = 2
INVARIANT HostRecorded
PROPERTY UnusedLeavesHost
PROPERTY WithdrawnIsLeft
PROPERTY AstrayEnds
CHECK_DEADLOCK FALSE

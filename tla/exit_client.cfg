SPECIFICATION Spec
CONSTANTS
  Callers = {c1}
  Loop = Loop
  Tunnel = Tunnel
  Addrs = {a1, a2}
  NoAddr = NoAddr
  Keys = {k1, k2}
  NoKey = NoKey
  Server = Server
  Gateways = {g1}
  NoGateway = NoGateway
  ServerDefault = TRUE
  Giveup = 2
  Unlocked = Unlocked
  MaxCalls = 2
  MaxFaults = 2
  MaxEvents = 1
  MaxNet = 1
INVARIANT HostRecorded
INVARIANT FailOpen
INVARIANT DefaultReturned
PROPERTY SplitGoesFirst
CHECK_DEADLOCK FALSE
SYMMETRY Symmetry

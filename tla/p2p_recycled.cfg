SPECIFICATION Spec
CONSTANTS
  i1 = i1
  i2 = i2
  k1 = k1
  k2 = k2
  IDs = {i1, i2}
  Keys = {k1, k2, k3}
  NoID = NoID
  NoKey = NoKey
  ServerKey = k3
  Capable = {k1, k2, k3, NoKey}
  Relays <- Keyless
  Lists <- Keyless
  Nonces = {n1}
  NoNonce = NoNonce
  Workers = {w1}
  Control = Control
  Maintenance = Maintenance
  MaxSessions = 1
  QueueSize = 1
SYMMETRY SymmetryKeys
INVARIANT OneEntryPerKey
INVARIANT SessionsIndexed
INVARIANT IndexesFresh
INVARIANT CoordinatorNeverDirect
PROPERTY ActiveNeverLost

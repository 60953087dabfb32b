SPECIFICATION Spec
CONSTANTS
  r1 = r1
  r2 = r2
  w1 = w1
  h1 = h1
  h2 = h2
  h3 = h3
  d1 = d1
  d2 = d2
  NoEntry = NoEntry
  NoPart = NoPart
  NoAsk = NoAsk
  Ids <- MCIds
  Reads <- MCReads
  Data <- MCData
  Handlers <- MCHandlers
  Sizes <- MCSizes
  Parts <- MCParts
  MaxEntries = 2
  MaxBytes = 3
  MaxReply = 2
  ReadTTL = 0
  ControlTTL = 1
  Deadline = 1
  MaxRuns = 3
  MaxRequests = 3
  MaxFaults = 1
  MaxTime = 1
SYMMETRY Symmetry
INVARIANT TypeOK OpenKept Bounded Unmixed
PROPERTY AnswersOnce
CHECK_DEADLOCK FALSE

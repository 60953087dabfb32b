SPECIFICATION Spec
CONSTANTS
  Peers = {p1}
  Lengths = {3, 6, 9}
  MaxDatagram = 8
  ReplyBudgets = {7}
  RequestIDs = {2}
  HeaderSize = 4
  PaddingMultiple = 4
  SlotCost = 1
  MaxMessage = 8
  TTL = 0
  MaxSent = 3
  MaxRestarts = 1
  MaxTime = 1
  NoJob = NoJob
  Nothing = Nothing
INVARIANT BudgetKept
INVARIANT Accounted
INVARIANT JoinedOnlyByReuse
INVARIANT PaddingOnlyAtEnd
CHECK_DEADLOCK FALSE

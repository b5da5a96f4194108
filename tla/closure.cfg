SPECIFICATION ClosureSpec
CONSTANTS
  Addr = {0, 16384}
  Sizes = {1, 8}
  MaxSize = 8
  MaxWait = 3
  Byte = {0}
  Fill = {0}
  Z = Z
  NoHdr = NoHdr
  NoItem = NoItem
  Keep = Keep
  Absent = Absent
  Regions = {0, 3}
  MaxAttempts = 4
  DrainClocks = 3
  Items <- MCItems
INVARIANTS ClosureTypeOK CoverageLag ClosedMeansSent EndDrained ClosureInv
PROPERTIES AsksAgainForLastOnly TestEnds
CHECK_DEADLOCK FALSE

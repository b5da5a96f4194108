SPECIFICATION EnvSpec
CONSTANTS
  Addr = {0, 1}
  Sizes = {1, 2}
  MaxSize = 2
  MaxWait = 1
  Byte = {0, 1, 2, 3}
  Fill = {3}
  Z = Z
  NoHdr = NoHdr
  NoItem = NoItem
  Keep = Keep
  Absent = Absent
  NotSeen = NotSeen
  Items <- MCItems
INVARIANTS EnvTypeOK
PROPERTIES ScoredTogether

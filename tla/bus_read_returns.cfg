SPECIFICATION Spec
CONSTANTS
  Addr = {0}
  Sizes = {2}
  MaxSize = 4
  MaxWait = 3
  Byte = {0, 1, 2, 3, 4}
  Fill = {3, 4}
  Z = Z
  NoHdr = NoHdr
  NoItem = NoItem
  Keep = Keep
  Absent = Absent
  Items <- MCItems
PROPERTY ReadReturns

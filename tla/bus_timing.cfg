SPECIFICATION Spec
CONSTANTS
  Addr = {0}
  Sizes = {1, 2, 4}
  MaxSize = 4
  MaxWait = 3
  Byte = {0, 1, 2, 3, 4}
  Fill = {3, 4}
  Z = Z
  NoHdr = NoHdr
  NoItem = NoItem
  Keep = Keep
  Absent = Absent
  Items <- MCItems
INVARIANTS TypeOK LockStep NoBeatUncounted NoRequestMissed NoContention MonitorsAgree OneOutstanding InStep Mirror PublishedShifted CountedOneMore ReadLags MemoryForgets DataInv
PROPERTIES SlotEnds ClocksRunDown LateFromSecond ItemCompletes TransferCompletes ImplementsTransfer TransferProgress

SPECIFICATION SeqSpec
CONSTANTS
  Kinds = {"write_word", "write_low"}
  MaxRepeat = 12
  QueueDepth = 8
INVARIANT NoResponseLost
CHECK_DEADLOCK FALSE

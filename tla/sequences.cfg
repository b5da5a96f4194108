SPECIFICATION SeqSpec
CONSTANTS
  Kinds = {"read_word", "write_random_size", "read_random_size", "target_addr_dir", "read_low", "write_word", "write_low"}
  MaxRepeat = 12
  QueueDepth = 8
INVARIANTS LostBeyondDepth OwnResponse HeldWhileRunning StopsBalanced
PROPERTY EndsBalanced
CHECK_DEADLOCK FALSE

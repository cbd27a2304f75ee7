\* An ExEx whose first notified block is block 1: a reorg of it leaves entries.
CONSTANTS
  f1 = f1
  f2 = f2
  Forks = {f1, f2}
  Starts = {1}
  MaxLength = 2
  MaxChain = 2
  MaxNotifications = 3
SPECIFICATION StateSpec
INVARIANT RevertedBlocksGone
CHECK_DEADLOCK FALSE

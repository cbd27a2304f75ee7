\* A transaction that deposits twice.
CONSTANTS
  t1 = t1
  t2 = t2
  bridge = bridge
  other = other
  x = x
  y = y
  Txs = {t1, t2}
  Contracts = {bridge, other}
  OpBridges = {bridge}
  Data = {x, y}
  Blocks <- AllBlocks
  MaxHeight = 3
  MaxCommit = 2
SPECIFICATION Spec
INVARIANT AllEventsInserted
CHECK_DEADLOCK FALSE

\* Reorgs of up to three blocks, with transactions that move between them.
CONSTANTS
  t1 = t1
  t2 = t2
  bridge = bridge
  other = other
  x = x
  y = y
  Txs = {t1, t2}
  Contracts = {bridge, other}
  OpBridges = {bridge}
  Data = {x, y}
  Blocks <- AllBlocks
  MaxHeight = 3
  MaxCommit = 2
SPECIFICATION Spec
INVARIANTS
  TypeOK
  TablesExact
  FailsOnRepeatedEventOnly
PROPERTIES
  FinishedEventsStored
CHECK_DEADLOCK FALSE

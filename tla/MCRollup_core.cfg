\* The whole ExEx: two rollups on one contract, two tokens, every kind of block.
CONSTANTS
  user = user
  app = app
  k1 = k1
  NoCode = NoCode
  code1 = code1
  Ours = Ours
  Other = Other
  Ether = Ether
  Dai = Dai
  None = None
  NoRow = NoRow
  Destroyed = Destroyed
  h1 = h1
  h2 = h2
  Addresses = {user, app}
  Keys = {k1}
  Codes = {NoCode, code1}
  MaxValue = 1
  Headers = {h1, h2}
  Chains = {Ours, Other}
  Tokens = {Ether, Dai}
  Amounts = {1}
  Calls = {"submitBlock", "otherCall", "undecodable"}
  MaxSequence = 2
  BalanceModulus = 8
  Bodies <- AllBodies
  MaxEvents = 3
  MaxBatch = 2
  MaxNotifications = 3
SYMMETRY HeaderSymmetry
SPECIFICATION Spec
INVARIANTS
  TypeOK
  BlocksContiguous
  HashLinked
  StoredBlocksAreCanonical
  DepositsExact
  CodeAvailable
  RevertRowsAreExact
PROPERTIES
  RevertUndoesBlock
  ExecutedBlocksStayStored
  TipSpec
CHECK_DEADLOCK FALSE

\* Eleven rollup blocks: the numbers are ordered as text.
CONSTANTS
  user = user
  app = app
  k1 = k1
  NoCode = NoCode
  code1 = code1
  Ours = Ours
  Other = Other
  Ether = Ether
  Dai = Dai
  None = None
  NoRow = NoRow
  Destroyed = Destroyed
  h1 = h1
  h2 = h2
  Addresses = {user, app}
  Keys = {k1}
  Codes = {NoCode, code1}
  MaxValue = 1
  Headers = {h1}
  Chains = {Ours}
  Tokens = {Ether}
  Amounts = {}
  Calls = {"submitBlock"}
  MaxSequence = 10
  BalanceModulus = 8
  Bodies <- EmptyBodies
  MaxEvents = 11
  MaxBatch = 11
  MaxNotifications = 2
SPECIFICATION Spec
PROPERTIES
  TipIsHighestBlock
CHECK_DEADLOCK FALSE

\* Re-submission of a reverted block number, no storage.
CONSTANTS
  user = user
  app = app
  k1 = k1
  NoCode = NoCode
  code1 = code1
  Ours = Ours
  Other = Other
  Ether = Ether
  Dai = Dai
  None = None
  NoRow = NoRow
  Destroyed = Destroyed
  h1 = h1
  h2 = h2
  Addresses = {user, app}
  Keys = {k1}
  Codes = {NoCode, code1}
  MaxValue = 1
  Headers = {h1}
  Chains = {Ours}
  Tokens = {Ether}
  Amounts = {1}
  Calls = {"submitBlock"}
  MaxSequence = 2
  BalanceModulus = 8
  Bodies <- TransferBodies
  MaxEvents = 3
  MaxBatch = 2
  MaxNotifications = 4
SPECIFICATION Spec
PROPERTIES
  RevertRestoresAccounts
CHECK_DEADLOCK FALSE

\* Two peers, a channel that can overrun, and requests.
CONSTANTS
  p1 = p1
  p2 = p2
  t1 = t1
  r1 = r1
  r2 = r2
  None = None
  Peers = {p1, p2}
  Dialer = p1
  Tickers = {t1}
  Requests = {r1, r2}
  Capacity = 1
  MaxTicks = 2
SPECIFICATION Spec
INVARIANTS
  TypeOK
  TickersConserved
PROPERTIES
  CommandsHandled
  TickersReachPeer
CHECK_DEADLOCK FALSE

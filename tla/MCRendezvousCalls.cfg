SPECIFICATION Behaviours
CONSTANTS
  l1 = l1
  l2 = l2
  p1 = p1
  Links = {l1}
  Conns = {k1, k2}
  Calls = {c1}
  Peers = {p1}
  PeerOf <- OneLink
  Tokens = {t1}
  Certs = {x, y}
  NoToken = NoToken
  None = None
  MaxRestarts = 1
INVARIANTS
  AnnouncedToThePinnedHost
PROPERTIES
  KeepsThePromise
CHECK_DEADLOCK FALSE

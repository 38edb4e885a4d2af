SPECIFICATION FairBehaviours
CONSTANTS
  l1 = l1
  l2 = l2
  p1 = p1
  Links = {l1, l2}
  Conns = {k1, k2, k3}
  Calls = {}
  Peers = {p1}
  PeerOf <- SameHost
  Tokens = {t1}
  Certs = {x}
  NoToken = NoToken
  None = None
  MaxRestarts = 1
PROPERTIES
  Registers
CHECK_DEADLOCK FALSE

SPECIFICATION Behaviours
CONSTANTS
  Reqs = {r1, r2, r3}
  Repos = {repo}
  Addrs = {lan1, lan2}
  Relays = {relay1}
  None = None
  NoAddr = NoAddr
  NoRelay = NoRelay
  BackoffMin = 1
  BackoffMax = 2
  MaxStrays = 1
SYMMETRY ReqSymmetry
INVARIANTS
  IdleWhenUnwanted
  StreamIsCurrent

SPECIFICATION FairBehaviours
CONSTANTS
  Reqs = {r1, r2}
  Repos = {repo}
  Addrs = {lan1}
  Relays = {relay1}
  None = None
  NoAddr = NoAddr
  NoRelay = NoRelay
  BackoffMin = 1
  BackoffMax = 1
  MaxStrays = 1
PROPERTIES
  Settles

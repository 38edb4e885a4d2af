SPECIFICATION SideBySide
CONSTANTS
  None = None
  Gone = Gone
  Broken = Broken
  a = a
  aw = aw
  ap = ap
  lan = lan
  other = other
  missing = missing
  r1 = r1
  r2 = r2
  d = d
  ds = ds
  q1 = q1
  q2 = q2
  a2 = a2
  c1 = c1
  c2 = c2
  Paths = {a, aw, ap}
  MainOf <- Mains
  Peers = {ap}
  MaxOps = 2
  MaxActs = 4
  Things = {q1, q2}
  Screens = {a, a2}
  MaxClicks = 4
  Consoles = {a, ap}
  Remote = {ap}
  MaxRuns = 2
  MaxOutput = 1
  MaxSteps = 2
  Trees = {a, aw}
  Commits = 3
  FirstBad = 2
  MaxTries = 4
  MaxFlows = 1
  MaxPolls = 2
  MaxMounts = 2
  MaxCalls = 2
  Tokens = {1}
  Folders = {1}
  Versions <- Released
  Rank <- OrderOf
  First <- Oldest
  MaxChecks = 3
  MaxStarts = 2
  Configs <- Texts
  AddressOf <- Bindings
  OwnAddresses = {lan}
  Dirs = {d, ds}
  ScanRoot = {ds}
  MaxEdits = 2
  Files = {f}
  Requests = {q1, q2}
  MaxAsked = 3
  MaxVersions = 2
  DIFF_CACHE_ENTRIES = 2
  DIFF_CACHE_BYTES = 3
  Bytes <- Lengths
  Projects = {a, a2}
  Changes = {c1, c2}
  ProjectOf <- ChangesOfA
  MaxPatchsets = 2
  MaxListings = 2
  MaxSwitches = 1
  MaxWrites = 1
  m1 = m1
  m2 = m2
  Machines = {m1, m2}
  Facts <- Tellings
  NoScopes = "none"
  MaxRefreshes = 2
  MaxStreams = 2
  MaxTaps = 4
INVARIANTS
  SwitchesRealign
  NothingUnchosen
  WholeOutput
  CulpritIsTheFirstBad
  ListIsOfItsSource
  NeverDowngrades
  OneConfiguration
  PhoneIsSound
  MirrorIsTheListing
SYMMETRY Alike
CHECK_DEADLOCK FALSE

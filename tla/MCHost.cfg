SPECIFICATION SideBySide
CONSTANTS
  f = f
  g = g
  w1 = w1
  w2 = w2
  n = n
  Work = {w1, w2, n}
  New = {n}
  Files = {f, g}
  FileOf <- TwoFiles
  Branches = {main, topic}
  Runs = {r1}
  User = User
  None = None
  MaxOthers = 2
  main = main
  topic = topic
  Commits = {{f}, {f, g}}
  Starts <- Ahead
  TagNames = {v1, v2}
  MaxCommits = 3
  MaxCommands = 6
  MainTree = MainTree
  Paths = {p1, p2}
  MaxClicks = 4
  \* Other programs may hold the first of two ports.
  Ports = {1, 2}
  Taken = {1}
  PORT_SEARCH_SPAN = 1
  Names = {n1, n2}
  Urls = {u}
  Addresses = {x, y}
  Dns = dns
  MaxSets = 2
  MaxMoves = 2
  Machines = {x, y}
  MaxCodes = 2
  MaxPorts = 2
  MaxPresses = 3
  Ids = {i1}
  READ_METHODS = {getStatus}
  WRITE_METHODS = {pull, setConfig}
  OtherMethods = {git}
  Denied = {setConfig}
  MaxChanges = 4
  MaxRpcs = 2
  \* The longest lock is not twice the first one, three failures lock, and as many may be under way.
  DEBOUNCE = 2
  Subscriptions = {t}
  WINDOW = 2
  LOCKOUT = 2
  LOCKOUT_MAX = 3
  MAX_ATTEMPTS = 3
  MaxRequests = 3
  MaxTime = 6
  Devices = {i1}
  Absent = Absent
  Torn = Torn
  MaxStoreCalls = 3
  MaxStarts = 2
  MaxFaults = 1
INVARIANTS
  NothingLost
  GivesBackTheTree
  PushesOverTheKnown
  OneRemovalAtATime
  SharingIsTheSettings
  CertificateIsOfTheHost
  OwnersChoiceHolds
  NothingIsLeftUntold
  FailuresLockOut
  PinBreaks
CHECK_DEADLOCK FALSE

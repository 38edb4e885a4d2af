SPECIFICATION SideBySide
CONSTANTS
  f = f
  g = g
  log = log
  None = None
  Folder = Folder
  N = 5
  MaxParents = 2
  Total = 4
  MaxPlan = 3
  Patched = {f, g}
  Lines = {1, 2, 3, 4}
  HunkOf <- Hunked
  Phrase <- Reading
  MaxJobs = 2
  MaxActs = 3
  MaxReads = 2
  Merged <- Merges
  Conflicted = {f}
  Chars = {"a", "b", "<", "=", ">", "NL"}
  Marks <- Characters
  Heading = "=="
  NL = "NL"
  MaxEdits = 1
  Locals <- LocalBranches
  Tracked <- RemoteRefs
  Others <- OtherRefs
  Remotes = {"origin", "upstream"}
  MaxRefs = 2
  Logs <- Listings
  Big <- Large
  TabOf <- TabOfListing
  WORKTREE = 0
  Queries <- Words
  Hits <- ByMessage
  Found <- ByContent
  MaxClicks = 4
  Edited = {1, 2}
  MaxTexts = 2
  MaxDeeds = 3
  Untidy = {f, g, log}
  Ignored = {log}
  InFolder = {f, g}
  MaxOutside = 1
  MaxCommands = 2
  MaxStashes = 3
INVARIANTS
  NoFalseEdges
  NothingElseIsLost
  PillsTellTheRefs
  DerivedIsOfTheShown
  DraftIsKept
  PressesAssemble
PROPERTIES
  UncheckedSurvive
  PatchesAreExact
CHECK_DEADLOCK FALSE

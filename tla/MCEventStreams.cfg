SPECIFICATION Behaviours
CONSTANTS
  main = main
  tree = tree
  other = other
  Streams = {s1, s2}
  Shared = {main, other}
  Worktrees = {tree}
  OwnerOf <- TreeOfMain
  None = None
  Tabs = {tree}
INVARIANTS
  StaleIsAnnounced
PROPERTIES
  ScansFind
  TabsCatchUp

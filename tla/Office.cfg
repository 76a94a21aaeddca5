SPECIFICATION MCSpec
CONSTANTS
  x = x
  y = y
  f = f
  g = g
  h = h
  Containers <- MCPair
  Job = job
  Releases <- MCReleases
  MaxDeploys = 3
  MaxDowngrades = 1
  MaxWrites = 3
  Requests <- MCPair
  Files <- MCFiles
  MaxMessages = 1
  MaxDeaths = 1
  Actors <- MCPair
  Projects <- MCPair
  Owners = {"ann", "bob"}
  FirstOwner = "ann"
  Staff = {"sue"}
  MaxTaskSets = 3
  MaxStops = 1
  Paths <- MCPaths
  KeyOf <- MCKeyOf
  Archives = {"first", "second"}
  Operators <- MCPair
  MaxChanges = 1
  MaxKills = 1
SYMMETRY Symmetries
INVARIANTS
  OfficeTypeOK
  DatabaseIsSound
  PartsAreSound
  BundlesAreSound
PROPERTIES
  NothingIsTakenBack
CHECK_DEADLOCK FALSE

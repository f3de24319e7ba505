CONSTANTS
  u1 = u1
  u2 = u2
  Users <- MCUsers
  Dirs <- MCDirs
  NameOrder <- MCNameOrder
  AddDirs <- MCAddDirs
  RemoveDirs <- MCRemoveDirs
  Binaries <- MCBinaries
  ErrorPage = ErrorPage
  Chunks = 2
  Hole = Hole
  Platform = "here"
  BuiltIn = "kubernetes"
  Skips <- MCSkips
  Matches <- MCMatches
  AnyVersion = AnyVersion
  Indexes <- MCIndexes
  Installed <- MCInstalled
  MaxCommands = 4
SPECIFICATION Spec
SYMMETRY Symmetry
INVARIANT InstallsForThisPlatform
CHECK_DEADLOCK FALSE

SPECIFICATION Spec
CONSTANTS
  Order <- MCOrder
  Shorts <- MCShorts
  Plain <- MCPlain
  Shortened <- MCShortened
  Stem <- MCStem
  HostName <- MCHostName
  MaxSuffix = 5
  MaxEntries = 9
  HasLabel = TRUE
  MaxHandles = 3
  ListTtl = 0
  InitialDisks <- MCDisks
  HostPaths <- MCHostPaths
  ClientPaths <- MCClientPaths
  ClientDirs <- MCClientDirs
  NewFiles <- MCNewFiles
  NewDirs <- MCNewDirs
  Searches = {s1}
  AttrSets = {{"dir"}}
  NewAttrs = {FALSE}
  OpenModes = {TRUE, FALSE}
  AttrsStored = TRUE
  ClientTimestamp = TRUE
  MaxTime = 1
  MaxChanges = 2
INVARIANTS
  TypeOK
  Reachable
  CreatedIsFound
  DeletesMatching
  SearchComplete
PROPERTIES
  HandleKept
  ReadOnlyKept
CHECK_DEADLOCK FALSE

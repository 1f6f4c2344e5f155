SPECIFICATION Spec
CONSTANTS
  Order <- MCOrder
  Shorts <- MCShorts
  Plain <- MCPlain
  Shortened <- MCShortened
  Stem <- MCStem
  HostName <- MCHostName
  MaxSuffix = 3
  MaxEntries = 9
  HasLabel = TRUE
  MaxHandles = 3
  ListTtl = 0
  InitialDisks <- DirsDisks
  HostPaths = {}
  ClientPaths <- DirsPaths
  ClientDirs <- MCClientDirs
  NewFiles <- DirsNewFiles
  NewDirs <- DirsNewDirs
  Searches = {s1}
  AttrSets = {}
  NewAttrs = {FALSE}
  OpenModes = {TRUE}
  AttrsStored = TRUE
  ClientTimestamp = TRUE
  MaxTime = 0
  MaxChanges = 5
PROPERTY RenameKeeps
CHECK_DEADLOCK FALSE

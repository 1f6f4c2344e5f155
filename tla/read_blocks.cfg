SPECIFICATION Spec
CONSTANTS
  Drives = {D, E}
  Remotes = {R, S}
  Names = {f}
  FirstLens = {5, 8}
  NoFile = NoFile
  Zero = Zero
  New = New
  BufferSize = 4
  MinReadLens = {2, 4}
  ReadChunk = 3
  WriteChunk = 3
  Ttl = 0
  Day = 2
  MaxPos = 8
  MaxChanges = 0
  MaxAge = 1
  LostCalls = {}
  NameChanges = FALSE
  Remounts = FALSE
  Aliases = TRUE
  Others = FALSE
INVARIANTS TypeOK ReadCorrect
SYMMETRY NameSymmetry

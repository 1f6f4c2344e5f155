SPECIFICATION Spec
CONSTANTS
  Drives = {D, E}
  Remotes = {R, S}
  Names = {f, g}
  FirstLens = {1}
  NoFile = NoFile
  Zero = Zero
  New = New
  BufferSize = 2
  MinReadLens = {2}
  ReadChunk = 1
  WriteChunk = 1
  Ttl = 1
  Day = 3
  MaxPos = 1
  MaxChanges = 1
  MaxAge = 2
  LostCalls = {"create"}
  NameChanges = TRUE
  Remounts = TRUE
  Aliases = TRUE
  Others = TRUE
INVARIANT ServedInTime
SYMMETRY NameSymmetry

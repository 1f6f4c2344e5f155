SPECIFICATION Spec
CONSTANTS
  Drives = {D}
  Remotes = {R}
  Names = {f, g}
  FirstLens = {3}
  NoFile = NoFile
  Zero = Zero
  New = New
  BufferSize = 2
  MinReadLens = {0, 2}
  ReadChunk = 2
  WriteChunk = 2
  Ttl = 0
  Day = 1
  MaxPos = 3
  MaxChanges = 2
  MaxAge = 0
  LostCalls = {"write"}
  NameChanges = FALSE
  Remounts = FALSE
  Aliases = FALSE
  Others = FALSE
INVARIANTS ReadCorrect BufferCoherent
SYMMETRY NameSymmetry

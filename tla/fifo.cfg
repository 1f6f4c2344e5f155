SPECIFICATION Spec
CONSTANTS
  Rd = Rd
  Wr = Wr
  Bad = Bad
  NoServer = NoServer
  Servers = {s1, s2}
  Ops = {Rd, Wr, Bad}
  SilentOps = {Bad}
  ReplyLen <- MCReplyLen
  SeqCount = 256
  MaxReq = 3
  MaxRetries = 1
  ChecksumEnabled = TRUE
  JunkLens = {}
  QueueCap = 2
  Reorder = FALSE
  CacheLoss = FALSE
INVARIANTS ServerInv ExecutedInOrder CachedReplyOwn
PROPERTY ImplementsRpc

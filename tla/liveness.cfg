SPECIFICATION FairSpec
CONSTANTS
  Rd = Rd
  Wr = Wr
  Bad = Bad
  NoServer = NoServer
  Servers = {s1}
  Ops = {Rd, Bad}
  SilentOps = {Bad}
  ReplyLen <- MCReplyLen
  SeqCount = 256
  MaxReq = 2
  MaxRetries = 1
  ChecksumEnabled = FALSE
  JunkLens = {8}
  QueueCap = 1
  Reorder = FALSE
  CacheLoss = FALSE
PROPERTY RequestReturns

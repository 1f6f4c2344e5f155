SPECIFICATION Spec
CONSTANTS
  Rd = Rd
  Wr = Wr
  Bad = Bad
  NoServer = NoServer
  Servers = {s1, s2}
  Ops = {Rd, Bad}
  SilentOps = {Bad}
  ReplyLen <- MCReplyLen
  SeqCount = 2
  MaxReq = 3
  MaxRetries = 1
  ChecksumEnabled = TRUE
  JunkLens = {8}
  QueueCap = 2
  Reorder = TRUE
  CacheLoss = TRUE
INVARIANTS ClientInv AcceptedReply AcceptedLength BlockedByLateReply
PROPERTY ReplyHeld
SYMMETRY ServerSymmetry

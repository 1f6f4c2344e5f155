SPECIFICATION Spec
CONSTANTS
  Datagrams <- MCDatagrams
  BindPort = 47
  RxSize = 9
  Noise = {0, 192, 219}
  MaxFrames = 3
  MaxFaults = 2
INVARIANTS
  TypeOK
  NeverJoined
  HandedOnce
  Resync
CHECK_DEADLOCK FALSE

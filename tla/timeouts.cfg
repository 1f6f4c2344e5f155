SPECIFICATION Spec
CONSTANTS
  Texts <- MCTexts
  Installs <- MCInstalls
  Mounts <- MCMounts
  MaxSets = 1
  Clocks <- MCClocks
  MaxRetries = 4
  MaxRequests = 1
INVARIANTS
  TypeOK
  ShownAsTyped
  WaitInTime
PROPERTY GivesUpInTime
CHECK_DEADLOCK FALSE

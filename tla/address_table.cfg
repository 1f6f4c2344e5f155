SPECIFICATION Spec
CONSTANTS
  Drives = {d1, d2}
  SlotCount = 2
  Ips = {A, B, G}
  LocalIps = {A, G}
  FreeIp = FreeIp
  MacBytes = 2
  FF = FF
  Zero = Zero
INVARIANTS TableInv MountedAddress KnownBytes SentToOwner RefusedWhenFull
PROPERTY ArpAnswerEndsWait
SYMMETRY DriveSymmetry

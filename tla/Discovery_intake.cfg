SPECIFICATION FairSpec
CONSTANTS
  m1 = m1
  m2 = m2
  Mints = {m1}
  Copies = 2
  InboxCap = 1
  MaxSeen = 0
  KeepSeen = 0
  GiveUp = 1
  FirstDelay = 1
  MaxDelay = 1
  MaxFails = 2
  FaultKinds = {"crash", "error"}
  MaxFaults = 1
INVARIANTS Accounted
PROPERTIES KeptUntilOld MintQueueDrains Resubscribes EventuallyTracked

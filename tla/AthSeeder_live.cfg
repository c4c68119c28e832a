SPECIFICATION FairSpec
CONSTANTS
  f1 = f1
  f2 = f2
  Feeders = {f1}
  FirstSources = {"absent"}
  Prices = {1, 2}
  ReseedWindow = 1
  CorrectionAge = 1
  PromotionAge = 2
  MaxAge = 2
  FaultKinds = {"write"}
  MaxFaults = 1
INVARIANTS UnseededQueued
PROPERTIES QueueDrains TimeoutSettles

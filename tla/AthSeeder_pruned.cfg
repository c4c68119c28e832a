SPECIFICATION FairSpec
CONSTANTS
  f1 = f1
  f2 = f2
  Feeders = {}
  FirstSources = {"unseeded"}
  Prices = {1, 2}
  ReseedWindow = 1
  CorrectionAge = 1
  PromotionAge = 2
  MaxAge = 2
  FaultKinds = {"crash"}
  MaxFaults = 1
PROPERTIES TimeoutSettles

SPECIFICATION Spec
CONSTANTS
  t1 = t1
  t2 = t2
  Tokens = {t1, t2}
  Keys = {1}
  Prices = {6, 10}
  RollingWindow = 1
  DipEndGap = 1
  DensityWindow = 1
  DensityMin = 2
  DecisionDelay = 1
  TokenCap = 1
  BackfillCap = 1
  Skew = 0
  MaxTime = 3
  MaxDips = 2
  FaultKinds = {}
  MaxFaults = 0
INVARIANTS WindowMirrored OneOpenDip

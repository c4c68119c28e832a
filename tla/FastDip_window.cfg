SPECIFICATION Spec
CONSTANTS
  t1 = t1
  t2 = t2
  Tokens = {t1}
  Keys = {1}
  Prices = {6, 10}
  RollingWindow = 2
  DipEndGap = 2
  DensityWindow = 1
  DensityMin = 2
  DecisionDelay = 1
  TokenCap = 1
  BackfillCap = 1
  Skew = 1
  MaxTime = 3
  MaxDips = 2
  FaultKinds = {"crash", "write"}
  MaxFaults = 1
INVARIANTS WindowExact RowsOwnTheirDips

SPECIFICATION Spec
CONSTANTS
  NoSol = NoSol
  Accounts <- MCAccounts
  FetchLimit = 6
  LargestMax = 4
  Limit = 5
  BalanceViews <- MCBalanceViews
  PoolOwner = "pool"
  NonUserPrograms = {"amm"}
  Bucket = 4
  LowSol = 2
  MaxRetries = 2
  CollisionMin = 2
  LowSolMin = 2
  BlockWallets = 3
  BlockClusters = 2
  CautionWallets = 2
  CautionClusters = 1
  Tiers = {1, 2}
  FeeTables <- MCFeeTables
  BribesHard = 281
  BribesSoft = 500
  CreatorHigh = 70
  TxMin = 3
  ScamMin = 4
  SuspMin = 3
  BlockLabels = {"SCAM Likely"}
  CacheTtl = 1
  Cooldown = 2
  CountMax = 2
  FaultKinds = {"write", "read", "crash"}
  MaxFaults = 1
INVARIANTS VersionsAgree UnknownConvictsNobody CooldownOutlivesVerdict BlocksAccountedFor CooldownExplained
PROPERTIES NoAlertAfterBadLabel

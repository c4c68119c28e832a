SPECIFICATION FairSpec
CONSTANTS
  t1 = t1
  t2 = t2
  ws = ws
  backfill = backfill
  retry = retry
  Tokens = {t1}
  InitTokens = {}
  NoToken = NoToken
  Feeders = {retry}
  LoopFeeder = retry
  NumTiers = 2
  MinDrop <- MCMinDrop
  MaxDrop <- MCMaxDrop
  Prices = {6, 14, 24}
  PumpPrice = 12
  MaxPriceAge = 2
  PhantomTicks = 1
  GhostTicks = 2
  DexMod = 2
  MaxAttempts = 2
  FeeVerdicts = {"allow", "no_data", "block"}
  HolderVerdicts = {"pass", "block"}
  TickBudget = 2
  MaxFaults = 2
INVARIANTS
  OncePerTier
  MarkedHasRecord
  RecordsMatchChat
PROPERTIES
  ImplementsLadder
  OnlyFeedersRevive
  SilentInCooldown
  NotPendingForever

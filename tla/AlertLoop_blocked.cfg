SPECIFICATION Spec
CONSTANTS
  t1 = t1
  t2 = t2
  ws = ws
  backfill = backfill
  retry = retry
  Tokens = {t1}
  InitTokens = {}
  NoToken = NoToken
  Feeders = {ws}
  LoopFeeder = retry
  NumTiers = 2
  MinDrop <- MCMinDrop
  MaxDrop <- MCMaxDrop
  Prices = {6, 20}
  PumpPrice = 15
  MaxPriceAge = 1
  PhantomTicks = 1
  GhostTicks = 1
  DexMod = 2
  MaxAttempts = 1
  FeeVerdicts = {"allow", "no_data", "block"}
  HolderVerdicts = {"pass", "block"}
  TickBudget = 1
  MaxFaults = 0
PROPERTY BlockedIsTerminal

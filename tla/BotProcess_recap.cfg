SPECIFICATION Spec
CONSTANTS
  t1 = t1
  b1 = b1
  x1 = x1
  l1 = l1
  Tokens = {}
  Blocks = {}
  Logs = {}
  Extras = {}
  MaxAttempts = 1
  Day = 4
  UtcAhead = 1
  Quotes = {1, 3}
  AlertQuotes = {2}
  MaxAlerts = 1
  Messages <- MCNoMessages
  FaultKinds = {}
  MaxFaults = 0
PROPERTY RecapTellsAll

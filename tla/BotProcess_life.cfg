SPECIFICATION FairSpec
CONSTANTS
  t1 = t1
  b1 = b1
  x1 = x1
  l1 = l1
  Tokens = {t1}
  Blocks = {b1}
  Logs = {l1}
  Extras = {x1}
  MaxAttempts = 2
  Day = 2
  UtcAhead = 1
  Quotes = {3}
  AlertQuotes = {2}
  MaxAlerts = 1
  Messages <- MCMessages
  FaultKinds = {"crash", "error"}
  MaxFaults = 1
INVARIANTS AttemptsKept OutcomesBracketed ColumnsInPlace OneRecapPerMidnight ForgottenWhenAnswered AnsweredOncePerLife
PROPERTY ComesUp

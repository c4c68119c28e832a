----------------------------- MODULE BotProcess -----------------------------
(***************************************************************************)
(* The process as its operator sees it: the database is upgraded, the bot  *)
(* comes up, recaps and commands are served, it is interrupted and started *)
(* again; main.main is the order of it.                                    *)
(***************************************************************************)
EXTENDS Operator

vars == <<phase, schemaVars, outcomeVars, operatorVars, faults>>

TypeOK == SchemaTypeOK /\ OutcomeTypeOK /\ OperatorTypeOK

Init == SchemaInit /\ OutcomeInit /\ OperatorInit

\* A start that gets through starts the loops; what was in memory is gone.
Turn ==
  /\ IF phase # "up" /\ phase' = "up" THEN OperatorStart ELSE UNCHANGED operatorVars
  /\ IF phase = "up" /\ phase' # "up" THEN OutcomesStop ELSE UNCHANGED outcomeVars

SchemaStep ==
  /\ StartBot \/ StartDedup \/ StartSource \/ InitStep \/ ScriptStep \/ WorkStep
     \/ \E kind \in FaultKinds : Interrupt(kind)
  /\ Turn

LoopStep == (RecapStep \/ CommandStep \/ Issue) /\ UNCHANGED <<phase, schemaVars, outcomeVars>>
AlertStep == OutcomeStep /\ UNCHANGED <<phase, schemaVars, operatorVars>>
ClockStep == Tick /\ OutcomesAge /\ UNCHANGED <<phase, schemaVars>>

Next == SchemaStep \/ LoopStep \/ AlertStep \/ ClockStep

Spec == Init /\ [][Next]_vars

(***************************************************************************)
(* The process and the scripts get on with their work.  Whoever runs the   *)
(* bot lets the old release go, starts the new one, and, where it does not *)
(* come up, runs the script that the new release came with.                *)
(***************************************************************************)
Upgraded(A) == phase # "up" /\ A /\ Turn

FairSpec ==
  /\ Spec
  /\ WF_vars(Upgraded(OldStops)) /\ WF_vars(Upgraded(InitStep \/ ScriptStep))
  /\ SF_vars(Upgraded(StartBot)) /\ SF_vars(Upgraded(StartDedup))

(***************************************************************************)
(* Properties.                                                             *)
(***************************************************************************)

\* On the way from a row per attempt to a count per key no block attempt is lost
\* or counted twice, however often the script or the start is interrupted: each
\* one is in the count, or was refused with an exception when it was made.
AttemptsKept == \A b \in Blocks : Sum(blocks[b]) + refused[b] = attempts[b]

\* save_token inserts by position: whatever the release a database comes from
\* and wherever its upgrades were interrupted, the columns of tokens are in the
\* order of CREATE TABLE, and all there when the bot runs.
ColumnsInPlace ==
  /\ TypeOK
  /\ IsPrefix(columns["tokens"], TokenColumns)
  /\ phase = "up" => columns["tokens"] = TokenColumns

\* An upgrade labels the rows of the old release; it never relabels a row whose
\* ATH the bot has had from Birdeye, at however many starts.
SeedsKeepSource ==
  [][\A t \in Tokens : source[t] = "birdeye" => source'[t] = "birdeye"]_vars

\* Duplicates that the old release left do not lock the new one out for ever.
ComesUp == <>(phase = "up")

\* The peak and the trough of an alert are two transactions of every poll, on
\* columns that come one by one: whatever fails or is interrupted, every price
\* that a whole poll brought since the alert lies between trough and peak, and
\* both are prices of the alert or of a poll, none made up ("that would fabricate
\* outcomes for rows we did not observe", database.py:617).
OutcomesBracketed ==
  \A i \in DOMAIN alerts : LET a == alerts[i] IN
    /\ \A p \in a.kept : a.trough # 0 /\ a.trough <= p /\ p <= a.peak
    /\ a.price <= a.peak /\ a.peak \in {a.price, quote} \cup a.kept \cup a.lost
    /\ a.trough \in {0} \cup a.kept

\* "It's midnight CST - pull last 24h of alerts" (main.py:307): a recap tells of
\* every alert for the sake of which it is sent.
RecapTellsAll ==
  [][recapped' > recapped => Since \subseteq Today(hour)]_vars

\* At most one recap per midnight, with errors and restarts in between.
OneRecapPerMidnight == recapped <= 1

\* A command is answered once in a life of the bot: again only when it was
\* started again before a poll confirmed it.
AnsweredOncePerLife == \A u \in Updates : answered[u] <= lives

\* Telegram forgets a command only after it was answered, or after an error took
\* it: a poll confirms what the polls before it brought, and what they brought
\* has been run by then, whatever was interrupted.
ForgottenWhenAnswered ==
  \A u \in 1 .. confirmed : Messages[u] = "command" => answered[u] > 0 \/ u \in dropped
=============================================================================

--------------------------- MODULE SchemaUpgrade ---------------------------
(***************************************************************************)
(* How the database of an old release becomes the one this release needs   *)
(* (database.init_db, scripts/migrate_block_log_dedup.py,                  *)
(* scripts/migrate_add_ath_source.py).  The bot upgrades at every start;   *)
(* the scripts run while it is stopped.                                    *)
(*                                                                         *)
(* sqlite3 commits a CREATE or ALTER at once, but opens a transaction at   *)
(* the first UPDATE or DELETE, which ends at commit(): a start that is     *)
(* interrupted keeps the columns it has added and loses the rows it has    *)
(* rewritten.  A lock that times out ends a start as a crash does.         *)
(***************************************************************************)
EXTENDS Integers, Sequences, FiniteSets, FiniteSetsExt, SequencesExt

CONSTANTS
  Tokens,      \* rows of table tokens
  Blocks,      \* keys (token, tier, reason) of alert_block_log
  Logs,        \* tables that the model says no more of than that they are there
  Extras,      \* columns added one by one, each behind a guard of its own
  MaxAttempts, \* bound: block attempts of a key
  FaultKinds,  \* "crash" and "error", the faults that may happen
  MaxFaults    \* bound: how many

ASSUME SchemaUpgradeAssumption ==
  /\ MaxAttempts \in Nat \ {0} /\ MaxFaults \in Nat
  /\ FaultKinds \subseteq {"crash", "error"}

\* The columns of tokens that releases have added, in the order of CREATE TABLE.
TokenColumns ==
  <<"ath_source", "pool_orientation", "token_decimals", "phantom_cooldown_until", "ghost_cooldown_until">>

\* The columns that update_peak_after_alert and update_trough_after_alert need.
OutcomeColumns ==
  <<"trough_price_after", "trough_mcap_after", "trough_time",
    "peak_time", "time_to_peak_minutes", "max_drawdown_pct">>

DedupColumns == <<"retry_count", "last_retry_at">>

Names == ToSet(TokenColumns) \cup ToSet(OutcomeColumns) \cup ToSet(DedupColumns)

VARIABLES
  phase,     \* "old" (the old release runs), "down", a step of init_db, "up", a step of a script
  exists,    \* the tables there are
  columns,   \* columns[table]: those that a release has added, in order
  extras,    \* the logs and guarded columns that are there
  unique,    \* idx_alert_block_dedup is there
  blocks,    \* alert_block_log: retry_count of each row of a key, in the order of ids
  work,      \* the same, as the open transaction of the script has it
  source,    \* tokens.ath_source of each row, "none" without a row
  priced,    \* the rows whose ath_price is positive
  attempts,  \* history: block attempts of a key, and
  refused,   \* the ones of them that log_alert_block answered with an exception
  faults     \* faults so far

schemaVars == <<exists, columns, extras, unique, blocks, work, source, priced, attempts, refused>>

Tables == {"tokens", "alert_block_log", "alerts"}
Upgrade == {"tables", "unique", "extras", "source", "fill", "columns", "outcome", "alters"}
Script == {"dedup", "collapse", "source_script", "fill_script"}
Sources == {"none", "absent", "unseeded", "running_max", "birdeye"}
Counts == UNION {[1 .. n -> 1 .. MaxAttempts] : n \in 0 .. MaxAttempts}

SchemaTypeOK ==
  /\ phase \in {"old", "down", "up"} \cup Upgrade \cup Script
  /\ exists \subseteq Tables /\ extras \subseteq Logs \cup Extras /\ unique \in BOOLEAN
  /\ columns \in [Tables -> Seq(Names)]
  /\ blocks \in [Blocks -> Counts] /\ work \in [Blocks -> Counts]
  /\ source \in [Tokens -> Sources] /\ priced \subseteq Tokens
  /\ attempts \in [Blocks -> 0 .. MaxAttempts] /\ refused \in [Blocks -> 0 .. MaxAttempts]
  /\ faults \in 0 .. MaxFaults

\* No database yet, or one of the old release, with its rows and its log.
SchemaInit ==
  /\ columns = [t \in Tables |-> <<>>] /\ extras = {} /\ unique = FALSE
  /\ blocks = [b \in Blocks |-> <<>>] /\ work = [b \in Blocks |-> <<>>]
  /\ attempts = [b \in Blocks |-> 0] /\ refused = [b \in Blocks |-> 0] /\ faults = 0
  /\ \/ /\ phase = "down" /\ exists = {} /\ priced = {}
        /\ source = [t \in Tokens |-> "none"]
     \/ /\ phase = "old" /\ exists = Tables /\ priced \in SUBSET Tokens
        /\ source = [t \in Tokens |-> "absent"]

Fault(kind) == kind \in FaultKinds /\ faults < MaxFaults /\ faults' = faults + 1
Goto(from, to) == phase = from /\ phase' = to
Sum(counts) == FoldSeq(LAMBDA n, total : n + total, 0, counts)
Rows(log) == MapThenSumSet(LAMBDA b : Len(log[b]), Blocks)
Total(log) == MapThenSumSet(LAMBDA b : Sum(log[b]), Blocks)
Duplicated(log) == {b \in Blocks : Len(log[b]) > 1}
Has(table, column) == column \in ToSet(columns[table])
Added(table, names) == columns' = [columns EXCEPT ![table] = @ \o names]
Missing(table, names) == {i \in DOMAIN names : ~Has(table, names[i])}
AddNext(table, names) == Added(table, <<names[Min(Missing(table, names))]>>)

(***************************************************************************)
(* init_db.                                                                *)
(***************************************************************************)
StartBot == Goto("down", "tables") /\ UNCHANGED <<schemaVars, faults>>

\* CREATE TABLE IF NOT EXISTS: a new table has the columns of this release,
\* but for alerts, whose outcome columns are added below in any case.
CreateTable(table) ==
  /\ phase = "tables" /\ table \notin exists /\ exists' = exists \cup {table}
  /\ Added(table, CASE table = "tokens" -> TokenColumns
                    [] table = "alert_block_log" -> DedupColumns
                    [] OTHER -> <<>>)
  /\ UNCHANGED <<phase, extras, unique, blocks, work, source, priced, attempts, refused, faults>>

TablesDone == exists = Tables /\ Goto("tables", "unique") /\ UNCHANGED <<schemaVars, faults>>

\* Mutant: the rows that are in its way are deleted.
CreateUniqueAnyhow ==
  /\ unique' = TRUE /\ blocks' = [b \in Blocks |-> IF blocks[b] = <<>> THEN <<>> ELSE <<blocks[b][1]>>]
  /\ Goto("unique", "extras")
  /\ UNCHANGED <<exists, columns, extras, work, source, priced, attempts, refused, faults>>

\* CREATE UNIQUE INDEX IF NOT EXISTS raises when a key has two rows, and main ends.
CreateUnique ==
  /\ unique' = (unique \/ Duplicated(blocks) = {})
  /\ Goto("unique", IF unique' THEN "extras" ELSE "down")
  /\ UNCHANGED <<exists, columns, extras, blocks, work, source, priced, attempts, refused, faults>>

Extend(c) ==
  /\ phase = "extras" /\ c \notin extras /\ extras' = extras \cup {c}
  /\ UNCHANGED <<phase, exists, columns, unique, blocks, work, source, priced, attempts, refused, faults>>

\* CREATE TABLE IF NOT EXISTS, with the indexes.
CreateLog(l) == Extend(l)
LogsDone == Logs \subseteq extras

\* A column behind its own guard, or an ALTER whose error is swallowed.
AddExtra(c) == LogsDone /\ Extend(c)

ExtrasDone == extras = Logs \cup Extras /\ Goto("extras", "source") /\ UNCHANGED <<schemaVars, faults>>

\* The ALTER gives every row the default; its guard also guards the backfill.
AddSource(from, fill, next) ==
  /\ IF Has("tokens", "ath_source") THEN Goto(from, next) /\ UNCHANGED <<columns, source>>
     ELSE /\ Goto(from, fill) /\ Added("tokens", <<"ath_source">>)
          /\ source' = [t \in Tokens |-> IF source[t] = "absent" THEN "unseeded" ELSE source[t]]
  /\ UNCHANGED <<exists, extras, unique, blocks, work, priced, attempts, refused, faults>>

\* Two UPDATEs and a commit: provenance of the old rows.
FillSource(fill, next) ==
  /\ Goto(fill, next)
  /\ source' = [t \in Tokens |-> IF source[t] = "none" THEN "none"
                                 ELSE IF t \in priced THEN "running_max" ELSE "unseeded"]
  /\ UNCHANGED <<exists, columns, extras, unique, blocks, work, priced, attempts, refused, faults>>

\* Mutant: the newest column is added first.
AddTokenColumnLast ==
  /\ phase = "columns" /\ Missing("tokens", TokenColumns) # {}
  /\ Added("tokens", <<TokenColumns[Max(Missing("tokens", TokenColumns))]>>)
  /\ UNCHANGED <<phase, exists, extras, unique, blocks, work, source, priced, attempts, refused, faults>>

\* The other columns of tokens, one guard and one commit each, in this order.
AddTokenColumn ==
  /\ phase = "columns" /\ Missing("tokens", TokenColumns) # {}
  /\ AddNext("tokens", TokenColumns)
  /\ UNCHANGED <<phase, exists, extras, unique, blocks, work, source, priced, attempts, refused, faults>>

TokenColumnsDone ==
  /\ Goto("columns", "outcome") /\ Missing("tokens", TokenColumns) = {}
  /\ UNCHANGED <<schemaVars, faults>>

\* Six ALTERs behind the guard of the first.
GuardOutcome ==
  /\ Goto("outcome", IF Has("alerts", OutcomeColumns[1]) THEN "up" ELSE "alters")
  /\ UNCHANGED <<schemaVars, faults>>
AddOutcome ==
  /\ Goto("alters", IF Cardinality(Missing("alerts", OutcomeColumns)) = 1 THEN "up" ELSE "alters")
  /\ AddNext("alerts", OutcomeColumns)
  /\ UNCHANGED <<exists, extras, unique, blocks, work, source, priced, attempts, refused, faults>>

(***************************************************************************)
(* The releases at work.                                                   *)
(***************************************************************************)
\* The old release writes a row per attempt.
OldBlock(b) ==
  /\ phase = "old" /\ attempts[b] < MaxAttempts
  /\ blocks' = [blocks EXCEPT ![b] = Append(@, 1)] /\ attempts' = [attempts EXCEPT ![b] = @ + 1]
  /\ UNCHANGED <<phase, exists, columns, extras, unique, work, source, priced, refused, faults>>

OldStops == Goto("old", "down") /\ UNCHANGED <<schemaVars, faults>>

\* log_alert_block: an UPSERT, which needs the index and both columns.
Upsertable == unique /\ \A i \in DOMAIN DedupColumns : Has("alert_block_log", DedupColumns[i])
LogBlock(b) ==
  /\ phase = "up" /\ attempts[b] < MaxAttempts /\ Upsertable
  /\ blocks' = [blocks EXCEPT ![b] = IF @ = <<>> THEN <<1>> ELSE <<@[1] + 1>>]
  /\ attempts' = [attempts EXCEPT ![b] = @ + 1]
  /\ UNCHANGED <<phase, exists, columns, extras, unique, work, source, priced, refused, faults>>

\* init_db creates the index on an old log without duplicates, and leaves the
\* columns to the script: until it has run, every attempt raises.
LogBlockRaises(b) ==
  /\ phase = "up" /\ attempts[b] < MaxAttempts /\ ~Upsertable
  /\ attempts' = [attempts EXCEPT ![b] = @ + 1] /\ refused' = [refused EXCEPT ![b] = @ + 1]
  /\ UNCHANGED <<phase, exists, columns, extras, unique, blocks, work, source, priced, faults>>

\* save_token and the seeder: a row whose ATH Birdeye has given.
SeedToken(t) ==
  /\ phase = "up" /\ columns["tokens"] = TokenColumns
  /\ source[t] \in {"none", "unseeded"} /\ source' = [source EXCEPT ![t] = "birdeye"]
  /\ priced' = priced \cup {t}
  /\ UNCHANGED <<phase, exists, columns, extras, unique, blocks, work, attempts, refused, faults>>

(***************************************************************************)
(* migrate_block_log_dedup.                                                *)
(***************************************************************************)
Migrated == Upsertable /\ Duplicated(blocks) = {}

StartDedup ==
  /\ Goto("down", "dedup") /\ exists = Tables /\ ~Migrated
  /\ UNCHANGED <<schemaVars, faults>>

\* The columns are committed one by one; then the transaction opens.
DedupColumn ==
  /\ phase = "dedup" /\ Missing("alert_block_log", DedupColumns) # {}
  /\ AddNext("alert_block_log", DedupColumns)
  /\ UNCHANGED <<phase, exists, extras, unique, blocks, work, source, priced, attempts, refused, faults>>
DedupBegin ==
  /\ Goto("dedup", "collapse") /\ Missing("alert_block_log", DedupColumns) = {} /\ work' = blocks
  /\ UNCHANGED <<exists, columns, extras, unique, blocks, source, priced, attempts, refused, faults>>

\* Mutant: the keeper counts only the rows that go.
CollapsedShort(counts) == <<Len(counts) - 1>>

\* The first row stays; its retry_count is the number of rows.
Collapsed(counts) == <<Len(counts)>>

Collapse(b) ==
  /\ phase = "collapse" /\ b \in Duplicated(work)
  /\ work' = [work EXCEPT ![b] = Collapsed(@)]
  /\ UNCHANGED <<phase, exists, columns, extras, unique, blocks, source, priced, attempts, refused, faults>>

Sane(log) == Total(log) = Rows(blocks)

\* The index and the commit; or, when the sum is wrong, the rollback.
DedupEnd ==
  /\ Goto("collapse", "down") /\ Duplicated(work) = {}
  /\ IF Sane(work) THEN blocks' = work /\ unique' = TRUE ELSE UNCHANGED <<blocks, unique>>
  /\ work' = [b \in Blocks |-> <<>>]
  /\ UNCHANGED <<exists, columns, extras, source, priced, attempts, refused, faults>>

(***************************************************************************)
(* migrate_add_ath_source, and interruptions.                              *)
(***************************************************************************)
StartSource ==
  /\ "tokens" \in exists /\ Goto("down", "source_script") /\ UNCHANGED <<schemaVars, faults>>

\* What is not committed is gone.
Interrupt(kind) ==
  /\ phase \notin {"old", "down"} /\ Fault(kind) /\ phase' = "down"
  /\ work' = [b \in Blocks |-> <<>>]
  /\ UNCHANGED <<exists, columns, extras, unique, blocks, source, priced, attempts, refused>>

InitStep ==
  \/ \E t \in Tables : CreateTable(t)
  \/ TablesDone \/ CreateUnique \/ ExtrasDone \/ AddTokenColumn \/ TokenColumnsDone
  \/ GuardOutcome \/ AddOutcome
  \/ \E l \in Logs : CreateLog(l)
  \/ \E c \in Extras : AddExtra(c)
  \/ AddSource("source", "fill", "columns") \/ FillSource("fill", "columns")
ScriptStep ==
  \/ DedupColumn \/ DedupBegin \/ DedupEnd \/ \E b \in Blocks : Collapse(b)
  \/ AddSource("source_script", "fill_script", "down") \/ FillSource("fill_script", "down")
WorkStep ==
  \/ OldStops \/ \E b \in Blocks : OldBlock(b) \/ LogBlock(b) \/ LogBlockRaises(b)
  \/ \E t \in Tokens : SeedToken(t)
=============================================================================

----------------------------- MODULE AlertGates -----------------------------
(***************************************************************************)
(* The decision path of one token, from a tier that is due to the message  *)
(* (main.price_alert_loop, alert_gate.evaluate, telegram_sender            *)
(* .evaluate_fees, filters/fee_gate.py, holder_filter.py, and the tables   *)
(* fee_gate_log, alert_block_log, holder_filter_log): the fee gate, then   *)
(* the ghost filter on a live snapshot or on a cached verdict, with what   *)
(* each writes, and crashes and failed writes between the writes.          *)
(***************************************************************************)
EXTENDS HolderSnapshot

CONSTANTS
  Tiers,            \* 1 .. n, the index of a tier plus one
  FeeTables,        \* what pumpswap_fees may say: [total, creator, bribes, txs, events]
  BribesHard, BribesSoft,   \* bribes_pct_hard and _soft, per 10 000 of the fees
  CreatorHigh,      \* creator_dom_hi, per 100 of the fees
  TxMin,            \* tx_count_min
  ScamMin, SuspMin, \* scam_likely_min and suspicious_min
  BlockLabels,      \* block_labels
  CacheTtl,         \* max_age_seconds of a cached verdict
  Cooldown,         \* ghost_cooldown.cooldown_seconds
  CountMax,         \* bound: counters saturate here
  FaultKinds,       \* "write", "read" and "crash"
  MaxFaults         \* bound

\* In the bot a cooldown lasts 3660 s and a verdict is used for 3600 s.
ASSUME AlertGatesAssumption ==
  /\ IsFiniteSet(Tiers) /\ Tiers # {} /\ Tiers = 1 .. Cardinality(Tiers)
  /\ FeeTables \subseteq [total : Nat, creator : Nat, bribes : Nat, txs : Nat, events : Nat]
  /\ {BribesHard, BribesSoft, CreatorHigh, TxMin, CacheTtl, Cooldown, CountMax, MaxFaults} \subseteq Nat
  /\ CacheTtl <= Cooldown /\ CountMax > 0
  /\ 1 <= SuspMin /\ SuspMin <= ScamMin /\ ScamMin <= 6
  /\ FaultKinds \subseteq {"write", "read", "crash"}

NoRow == [verdict |-> "none", age |-> 0, marked |-> FALSE]
NoFees == [total |-> 0, creator |-> 0, bribes |-> 0, txs |-> 0, events |-> 0]

VARIABLES
  last,      \* last tier alerted
  status,    \* "live" or "blocked", in the row
  cool,      \* what is left of the ghost cooldown, in the row
  worst,     \* highest score in fee_gate_log
  blocks,    \* alert_block_log: (tier, reason) to retry_count
  newest,    \* the newest row of holder_filter_log
  pc, tier,  \* where the pass is, and with which tier
  since,     \* time since its ping_ts
  score,     \* the score of its fee evaluation; -1 when it is empty
  failedOpen,\* its fee gate raised, and let it through
  ghost,     \* the verdict it goes by, "none" without one
  row,       \* it has the id of newest as its own row
  unsaved,   \* history: the cooldown of the newest verdict was not saved
  withheld,  \* history: alerts withheld, and
  unlogged,  \* the ones of them without a row in alert_block_log
  openLogged,\* history: blocks logged of passes that the gate let through or a crash ended
  faults

rowVars == <<last, status, cool>>
passVars == <<tier, since, score, failedOpen, ghost, row>>
counts == <<withheld, unlogged, openLogged>>
gateVars == <<rowVars, worst, blocks, newest, pc, passVars, unsaved, counts, faults>>
vars == <<gateVars, snapVars>>

Labels == {"Normal", "Elevated", "Suspicious", "SCAM Likely"}
Reasons == Labels \cup {"no_fee_data", "ghost_block"}
Steps == {"idle", "fees", "gate", "mark", "ghost", "snapshot", "log", "verdict", "cooldown", "record", "send"}

TypeOK ==
  /\ SnapTypeOK
  /\ last \in 0 .. Max(Tiers) /\ status \in {"live", "blocked"}
  /\ cool \in 0 .. Cooldown /\ worst \in 0 .. 6 /\ blocks \in [Tiers \X Reasons -> 0 .. CountMax]
  /\ newest \in [verdict : {"none", "pass", "caution", "block"}, age : 0 .. CacheTtl, marked : BOOLEAN]
  /\ pc \in Steps /\ tier \in {0} \cup Tiers /\ since \in 0 .. CacheTtl /\ score \in -1 .. 6
  /\ ghost \in {"none", "pass", "caution", "block"}
  /\ {failedOpen, row, unsaved} \subseteq BOOLEAN
  /\ {withheld, unlogged, openLogged} \subseteq 0 .. CountMax /\ faults \in 0 .. MaxFaults

NoPass ==
  /\ pc' = "idle" /\ tier' = 0 /\ since' = 0 /\ score' = -1 /\ failedOpen' = FALSE
  /\ ghost' = "none" /\ row' = FALSE

Init ==
  /\ SnapInit
  /\ last = 0 /\ status = "live" /\ cool = 0 /\ worst = 0
  /\ blocks = [k \in Tiers \X Reasons |-> 0] /\ newest = NoRow
  /\ pc = "idle" /\ tier = 0 /\ since = 0 /\ score = -1 /\ failedOpen = FALSE
  /\ ghost = "none" /\ row = FALSE /\ unsaved = FALSE
  /\ withheld = 0 /\ unlogged = 0 /\ openLogged = 0 /\ faults = 0

Fault(kind) == kind \in FaultKinds /\ faults < MaxFaults /\ faults' = faults + 1
More(n) == IF n < CountMax THEN n + 1 ELSE CountMax

(***************************************************************************)
(* score_fees and enforce_sticky.                                          *)
(***************************************************************************)
Points(f) ==
  (IF f.bribes * 10000 < BribesHard * f.total THEN 3
   ELSE IF f.bribes * 10000 < BribesSoft * f.total THEN 1 ELSE 0)
  + (IF f.creator * 100 >= CreatorHigh * f.total /\ f.bribes * 10000 < BribesSoft * f.total THEN 2 ELSE 0)
  + (IF f.txs < TxMin THEN 1 ELSE 0)

ScoreFees(f) == IF f.total <= 0 \/ f.txs <= 0 \/ f.events <= 0 THEN 0 ELSE Points(f)

LabelOf(s) ==
  CASE s >= ScamMin -> "SCAM Likely" [] s >= SuspMin -> "Suspicious"
    [] s >= 1 -> "Elevated" [] OTHER -> "Normal"

\* A score that is worse than one that blocks, blocks.
ASSUME BlockLabelsAssumption ==
  \A low, high \in 0 .. 6 :
    low <= high /\ LabelOf(low) \in BlockLabels => LabelOf(high) \in BlockLabels

\* Mutant: the history is forgotten.
EnforceStickyNot(s) == s

EnforceSticky(s) == IF worst > s THEN worst ELSE s

(***************************************************************************)
(* check_tokens and evaluate_fees.                                         *)
(***************************************************************************)
Begin(t) ==
  /\ pc = "idle" /\ status = "live" /\ cool = 0 /\ t > last
  /\ pc' = "fees" /\ tier' = t /\ since' = 0
  /\ UNCHANGED <<rowVars, worst, blocks, newest, score, failedOpen, ghost, row, unsaved, counts,
                 faults, snapVars>>

\* The indexer and its prune decide what the table says, f.  No rows, or a
\* failure of the read, of the scoring or of the history: empty.
NoEvaluation(f) ==
  /\ pc = "fees" /\ pc' = "gate" /\ score' = -1
  /\ (f.events = 0 /\ UNCHANGED faults) \/ Fault("read")
  /\ UNCHANGED <<rowVars, worst, blocks, newest, tier, since, failedOpen, ghost, row, unsaved,
                 counts, snapVars>>

\* The score is logged; a failure of the log is swallowed.
Evaluation(f) ==
  /\ pc = "fees" /\ f.events > 0 /\ pc' = "gate" /\ score' = EnforceSticky(ScoreFees(f))
  /\ \/ worst' = Max({worst, score'}) /\ UNCHANGED faults
     \/ Fault("write") /\ UNCHANGED worst
  /\ UNCHANGED <<rowVars, blocks, newest, tier, since, failedOpen, ghost, row, unsaved, counts, snapVars>>

(***************************************************************************)
(* alert_gate.evaluate.                                                    *)
(***************************************************************************)
gateUnchanged == <<rowVars, worst, newest, unsaved, snapVars>>

Reason == IF score = -1 THEN "no_fee_data" ELSE LabelOf(score)
Banned == score = -1 \/ LabelOf(score) \in BlockLabels

GateAllows ==
  /\ pc = "gate" /\ ~Banned /\ pc' = "ghost"
  /\ UNCHANGED <<gateUnchanged, blocks, passVars, counts, faults>>

\* Mutant: INSERT OR IGNORE.
LoggedOnce(t, reason) == blocks' = [blocks EXCEPT ![<<t, reason>>] = 1]

\* INSERT ... ON CONFLICT DO UPDATE: one row per tier and reason.
Logged(t, reason) == blocks' = [blocks EXCEPT ![<<t, reason>>] = More(@)]

Withholds == withheld' = More(withheld) /\ UNCHANGED <<unlogged, openLogged>>

\* Missing data: the record alone.
GateWithholds ==
  /\ pc = "gate" /\ score = -1 /\ Logged(tier, "no_fee_data") /\ Withholds /\ NoPass
  /\ UNCHANGED <<gateUnchanged, faults>>

\* A bad label: the record first, then the status.
GateLogs ==
  /\ pc = "gate" /\ Banned /\ score # -1 /\ Logged(tier, Reason) /\ pc' = "mark"
  /\ UNCHANGED <<gateUnchanged, passVars, counts, faults>>
GateMarks ==
  /\ pc = "mark" /\ status' = "blocked" /\ Withholds /\ NoPass
  /\ UNCHANGED <<last, cool, worst, blocks, newest, unsaved, snapVars, faults>>

\* Any exception lets the alert through.
GateRaises ==
  /\ pc \in {"gate", "mark"} /\ Banned /\ Fault("write") /\ pc' = "ghost" /\ failedOpen' = TRUE
  /\ openLogged' = IF pc = "mark" THEN More(openLogged) ELSE openLogged
  /\ UNCHANGED <<gateUnchanged, blocks, tier, since, score, ghost, row, withheld, unlogged>>

(***************************************************************************)
(* The ghost filter.                                                       *)
(***************************************************************************)
\* Mutant: the age of the verdict is not looked at.
CachedOld == newest.verdict # "none"

Cached == newest.verdict # "none" /\ newest.age < CacheTtl

\* Above the first tier a verdict younger than an hour is used again.
UseCached ==
  /\ pc = "ghost" /\ tier > 1 /\ Cached /\ ghost' = newest.verdict /\ pc' = "verdict"
  /\ UNCHANGED <<gateUnchanged, blocks, tier, since, score, failedOpen, row, counts, faults>>

\* The first tier always asks, and so do the others without a fresh verdict
\* or when it cannot be read.
TakeSnapshot ==
  /\ pc = "ghost" /\ pc' = "snapshot" /\ Start
  /\ \/ (tier = 1 \/ ~Cached) /\ UNCHANGED faults
     \/ tier > 1 /\ Cached /\ Fault("read")
  /\ UNCHANGED <<rowVars, worst, blocks, newest, passVars, unsaved, counts>>

SnapshotStep == pc = "snapshot" /\ SnapNext /\ UNCHANGED gateVars

Evaluate ==
  /\ pc = "snapshot" /\ phase = "done" /\ SnapOff
  /\ IF Usable THEN pc' = "log" /\ ghost' = Verdict(raw, said) ELSE pc' = "send" /\ ghost' = "none"
  /\ UNCHANGED <<rowVars, worst, blocks, newest, tier, since, score, failedOpen, row, unsaved, counts, faults>>

\* The row carries the time of the ping; a failed write gives no id.
LogVerdict ==
  /\ pc = "log" /\ pc' = "verdict"
  /\ \/ /\ newest' = [verdict |-> ghost, age |-> since, marked |-> FALSE] /\ row' = TRUE
        /\ unsaved' = FALSE /\ UNCHANGED faults
     \/ Fault("write") /\ UNCHANGED <<newest, row, unsaved>>
  /\ UNCHANGED <<rowVars, worst, blocks, tier, since, score, failedOpen, ghost, counts, snapVars>>

GhostPasses ==
  /\ pc = "verdict" /\ ghost # "block" /\ pc' = "send"
  /\ UNCHANGED <<gateUnchanged, blocks, passVars, counts, faults>>

\* Mutant: the row is not marked.
SuppressUnmarked ==
  /\ pc = "verdict" /\ ghost = "block" /\ pc' = "cooldown"
  /\ UNCHANGED <<rowVars, worst, blocks, newest, passVars, unsaved, counts, faults, snapVars>>

\* mark_actually_blocked; its failure is swallowed.
Suppress ==
  /\ pc = "verdict" /\ ghost = "block" /\ pc' = "cooldown"
  /\ \/ newest' = [newest EXCEPT !.marked = @ \/ row] /\ UNCHANGED faults
     \/ row /\ Fault("write") /\ UNCHANGED newest
  /\ UNCHANGED <<rowVars, worst, blocks, passVars, unsaved, counts, snapVars>>

\* save_token with the cooldown; its failure is swallowed.
CoolDown ==
  /\ pc = "cooldown" /\ pc' = "record"
  /\ \/ cool' = Cooldown /\ unsaved' = FALSE /\ UNCHANGED faults
     \/ Fault("write") /\ unsaved' = TRUE /\ UNCHANGED cool
  /\ UNCHANGED <<last, status, worst, blocks, newest, passVars, counts, snapVars>>

\* log_alert_block; its failure is swallowed.
RecordBlock ==
  /\ pc = "record" /\ NoPass /\ withheld' = More(withheld) /\ UNCHANGED openLogged
  /\ \/ Logged(tier, "ghost_block") /\ UNCHANGED <<unlogged, faults>>
     \/ Fault("write") /\ unlogged' = More(unlogged) /\ UNCHANGED blocks
  /\ UNCHANGED gateUnchanged

(***************************************************************************)
(* The message, as far as this path sees it (AlertLoop has the rest); time;*)
(* crashes.                                                                *)
(***************************************************************************)
SendAlert ==
  /\ pc = "send" /\ last' = tier /\ NoPass
  /\ UNCHANGED <<status, cool, worst, blocks, newest, unsaved, counts, faults, snapVars>>
SendFails ==
  /\ pc = "send" /\ NoPass
  /\ UNCHANGED <<rowVars, worst, blocks, newest, unsaved, counts, faults, snapVars>>

Tick ==
  /\ cool' = IF cool > 0 THEN cool - 1 ELSE 0
  /\ newest' = [newest EXCEPT !.age = IF @ < CacheTtl THEN @ + 1 ELSE @]
  /\ since' = IF pc # "idle" /\ since < CacheTtl THEN since + 1 ELSE since
  /\ UNCHANGED <<last, status, worst, blocks, pc, tier, score, failedOpen, ghost, row, unsaved,
                 counts, faults, snapVars>>

\* The process ends between two writes; a verdict whose cooldown was still to
\* come stays without it.
Crash ==
  /\ pc # "idle" /\ Fault("crash") /\ NoPass /\ SnapOff
  /\ unsaved' = (unsaved \/ (row /\ ghost = "block" /\ pc \in {"verdict", "cooldown"}))
  /\ openLogged' = IF pc = "mark" THEN More(openLogged) ELSE openLogged
  /\ UNCHANGED <<rowVars, worst, blocks, newest, withheld, unlogged>>

Next ==
  \/ \E t \in Tiers : Begin(t)
  \/ \E f \in FeeTables : NoEvaluation(f) \/ Evaluation(f)
  \/ GateAllows \/ GateWithholds \/ GateLogs \/ GateMarks \/ GateRaises
  \/ UseCached \/ TakeSnapshot \/ SnapshotStep \/ Evaluate \/ LogVerdict
  \/ GhostPasses \/ Suppress \/ CoolDown \/ RecordBlock
  \/ SendAlert \/ SendFails \/ Tick \/ Crash

Spec == Init /\ [][Next]_vars

(***************************************************************************)
(* Properties.                                                             *)
(***************************************************************************)

\* "Never downgrade": once a score with a blocking label is logged, no alert
\* goes out, whatever the fees say later, unless the gate itself raised.
NoAlertAfterBadLabel ==
  [][last' # last => LabelOf(worst) \notin BlockLabels \/ failedOpen]_vars

\* A blocking verdict is never used from the cache after its cooldown: while
\* it can still be read, the token is cooling down or about to, or the
\* cooldown was lost to a fault.
CooldownOutlivesVerdict ==
  newest.verdict = "block" /\ Cached /\ ~unsaved
    => cool > 0 \/ pc \in {"verdict", "cooldown"}

\* The block log counts what was withheld: every record is a withheld alert
\* or one that the gate let through after logging it, and every withheld
\* alert that is missing was lost to a failed write.  A counter at its bound
\* says nothing.
BlocksAccountedFor ==
  LET logged == MapThenSumSet(LAMBDA k : blocks[k], DOMAIN blocks) IN
  /\ TypeOK
  /\ withheld < CountMax /\ openLogged < CountMax /\ (\A k \in DOMAIN blocks : blocks[k] < CountMax)
       => logged + unlogged = withheld + openLogged + (IF pc = "mark" THEN 1 ELSE 0)

\* A cooldown is explained: without a fault the newest row of the filter's log
\* is the verdict that set it, marked as having blocked.
CooldownExplained == cool > 0 /\ faults = 0 => newest.verdict = "block" /\ newest.marked
=============================================================================

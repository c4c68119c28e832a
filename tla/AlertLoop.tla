----------------------------- MODULE AlertLoop -----------------------------
(***************************************************************************)
(* The row of a token in table "tokens" and everything that writes it:     *)
(* price_alert_loop (main.py), which polls prices, walks the dip tiers,    *)
(* gates, sends and records alerts and then runs the ATH retry queues; and *)
(* the feeders, the tasks that discover a token, create its row and seed   *)
(* its ATH (migration_ws, backfill, and the WebSocket retry queue, which   *)
(* runs inside the loop).                                                  *)
(*                                                                         *)
(* Every task works on its own copy of the row, taken before an await, and *)
(* save_token replaces the whole row with it.  One action stands for the   *)
(* code between two awaits; the process may die between any two of them.   *)
(*                                                                         *)
(* Of the prices in a row, the current one and the ATH are kept.  Instants *)
(* are kept as the time left (cooldowns) or elapsed (price age), in clock  *)
(* units, so that the clock needs no bound.                                *)
(***************************************************************************)
EXTENDS Integers, FiniteSets

CONSTANTS
  Tokens,         \* token addresses
  NoToken,        \* "no token in hand"
  InitTokens,     \* tokens with a row when the process first starts
  Feeders,        \* tasks that discover tokens
  LoopFeeder,     \* the feeder that runs inside the loop (the WS retry queue)
  NumTiers,       \* len(dip_tiers)
  MinDrop,        \* MinDrop[k], MaxDrop[k]: the band of tier k, in percent
  MaxDrop,
  Prices,         \* prices the APIs report
  PumpPrice,      \* min_pump_multiple times the migration price
  MaxPriceAge,    \* tracking.max_price_age_seconds
  PhantomTicks,   \* phantom_validator.cooldown_seconds
  GhostTicks,     \* ghost_cooldown.cooldown_seconds
  DexMod,         \* DEX_CYCLE_MOD
  MaxAttempts,    \* max_attempts of TelegramSender._send
  FeeVerdicts,    \* answers of the fee gate: "allow", "no_data", "block"
  HolderVerdicts, \* answers of the holder filter: "pass", "block"
  TickBudget,     \* bound: clock units one pass of the loop may take
  MaxFaults       \* bound: crashes, failed writes and lost answers

ASSUME ConstantsAssumption ==
  /\ NoToken \notin Tokens
  /\ InitTokens \subseteq Tokens
  /\ NumTiers \in Nat
  /\ MinDrop \in [0 .. NumTiers - 1 -> Nat \ {0}]
  /\ MaxDrop \in [0 .. NumTiers - 1 -> Nat]
  /\ Prices \subseteq Nat \ {0} /\ PumpPrice \in Nat \ {0}
  /\ MaxPriceAge \in Nat /\ PhantomTicks \in Nat /\ GhostTicks \in Nat
  /\ DexMod \in Nat \ {0} /\ MaxAttempts \in Nat \ {0}
  /\ TickBudget \in Nat /\ MaxFaults \in Nat

Tiers == 0 .. NumTiers - 1
NoTier == -1
Stale == MaxPriceAge + 1     \* too old to alert on, or no price yet

Terminal == {"expired", "blocked"}
Alertable == {"ath_confirmed", "alerted"}
Statuses == {"absent", "tracking"} \cup Alertable \cup Terminal

Row == [status : Statuses,
        tier : Tiers \cup {NoTier},
        ath : Prices \cup {0},
        cur : Prices \cup {0},
        age : 0 .. Stale,
        phantom : 0 .. PhantomTicks,
        ghost : 0 .. GhostTicks]

MakeRow(status, tier, ath, price, age, phantom, ghost) ==
  [status |-> status, tier |-> tier, ath |-> ath, cur |-> price, age |-> age,
   phantom |-> phantom, ghost |-> ghost]

\* A TrackedToken as _build_token and backfill make it; and no row at all.
FreshRow(p) == MakeRow("tracking", NoTier, 0, p, Stale, 0, 0)
NoRow == MakeRow("absent", NoTier, 0, 0, Stale, 0, 0)

\* What the handlers assign to a row.
Expired(r) == MakeRow("expired", r.tier, r.ath, r.cur, r.age, r.phantom, r.ghost)
Blocked(r) == MakeRow("blocked", r.tier, r.ath, r.cur, 0, r.phantom, r.ghost)
Marked(r, k) == MakeRow("alerted", k, r.ath, r.cur, r.age, r.phantom, r.ghost)
WithAth(r, p) == MakeRow(r.status, r.tier, p, r.cur, r.age, r.phantom, r.ghost)
Haunted(r) == MakeRow(r.status, r.tier, r.ath, r.cur, r.age, r.phantom, GhostTicks)
Doubted(r) == MakeRow(r.status, r.tier, r.ath, r.cur, r.age, PhantomTicks, r.ghost)

VARIABLES
  db,       \* table tokens
  alerts,   \* table alerts: the <<token, tier>> pairs that have a record
  mem,      \* the loop's own objects
  pc,       \* where the loop is
  todo,     \* tokens the current phase has still to handle
  due,      \* to_alert: the <<token, tier>> pairs still to handle
  cur,      \* the token in hand, and the tier to announce for it
  curTier,
  attempt,  \* attempt number in _send
  cycle,    \* cycle_count % DEX_CYCLE_MOD
  elapsed,  \* clock units since the previous pass of the loop ended
  fpc,      \* fpc[f]: where feeder f is
  ftok,     \* its token
  fcopy,    \* its copy of the row
  old,      \* tokens past max_token_age_hours
  faults,   \* faults so far
  climb,    \* history: deepest tier announced and not forgotten since
  sends,    \* history: messages of each tier that reached the chat
  slips     \* history: events that made the bot forget an announcement

loopVars == <<mem, pc, todo, due, cur, curTier, attempt, cycle, elapsed>>
feedVars == <<fpc, ftok, fcopy>>
histVars == <<climb, sends, slips>>
vars == <<db, alerts, loopVars, feedVars, old, faults, histVars>>

LoopPc == {"sleep", "poll", "reload", "check", "alerts", "gate", "holder",
           "refresh", "send", "record", "mark", "retry", "seed", "validate"}
FeedPc == {"idle", "build", "seed", "validate"}

TypeOK ==
  /\ db \in [Tokens -> Row]
  /\ alerts \in SUBSET (Tokens \X Tiers)
  /\ mem \in [Tokens -> Row]
  /\ pc \in LoopPc
  /\ todo \in SUBSET Tokens
  /\ due \in SUBSET (Tokens \X Tiers)
  /\ cur \in Tokens \cup {NoToken}
  /\ curTier \in Tiers \cup {NoTier}
  /\ attempt \in 1 .. MaxAttempts
  /\ cycle \in 0 .. DexMod - 1
  /\ elapsed \in 0 .. TickBudget
  /\ fpc \in [Feeders -> FeedPc]
  /\ ftok \in [Feeders -> Tokens \cup {NoToken}]
  /\ fcopy \in [Feeders -> Row]
  /\ old \in SUBSET Tokens
  /\ faults \in 0 .. MaxFaults
  /\ climb \in [Tokens -> Tiers \cup {NoTier}]
  /\ sends \in [Tokens -> [Tiers -> Nat]]
  /\ slips \in [Tokens -> Nat]

\* A process that starts on the unseeded rows an earlier one left.
Init ==
  /\ \E p \in Prices :
       db = [t \in Tokens |-> IF t \in InitTokens THEN FreshRow(p) ELSE NoRow]
  /\ alerts = {}
  /\ mem = [t \in Tokens |-> NoRow]
  /\ pc = "sleep" /\ todo = {} /\ due = {} /\ cur = NoToken /\ curTier = NoTier
  /\ attempt = 1 /\ cycle = 0 /\ elapsed = 0
  /\ fpc = [f \in Feeders |-> "idle"]
  /\ ftok = [f \in Feeders |-> NoToken]
  /\ fcopy = [f \in Feeders |-> NoRow]
  /\ old = {} /\ faults = 0
  /\ climb = [t \in Tokens |-> NoTier]
  /\ sends = [t \in Tokens |-> [k \in Tiers |-> 0]]
  /\ slips = [t \in Tokens |-> 0]

(***************************************************************************)
(* Helpers.                                                                *)
(***************************************************************************)

\* A feeder has token t in hand and may still write its row.
FeederHolds(t) == \E f \in Feeders : fpc[f] # "idle" /\ ftok[f] = t

\* Mutant of Active: load_all_tokens leaves out the expired rows only.
ActiveBlockedToo(r) == r.status \notin {"expired", "absent"}

\* The rows load_all_tokens returns.
Active(r) == r.status \notin Terminal \cup {"absent"}

\* min_drop <= drop_from_ath < max_drop, without the division.
InBand(r, k) ==
  /\ MinDrop[k] * r.ath <= 100 * (r.ath - r.cur)
  /\ 100 * (r.ath - r.cur) < MaxDrop[k] * r.ath

\* The first tier whose band holds the drop.
IsTier(r, k) == InBand(r, k) /\ \A j \in Tiers : j < k => ~InBand(r, j)

\* Mutants of Fires: the last tier fires again; the ghost cooldown is not read.
FiresAgain(r, k) ==
  /\ r.status \in Alertable /\ r.ath > 0 /\ r.cur > 0 /\ r.age <= MaxPriceAge
  /\ r.phantom = 0 /\ r.ghost = 0
  /\ IsTier(r, k) /\ k >= r.tier
FiresHaunted(r, k) ==
  /\ r.status \in Alertable /\ r.ath > 0 /\ r.cur > 0 /\ r.age <= MaxPriceAge
  /\ r.phantom = 0
  /\ IsTier(r, k) /\ k > r.tier

\* The guards of check_tokens, in their order, for one token and tier.
Fires(r, k) ==
  /\ r.status \in Alertable
  /\ r.ath > 0 /\ r.cur > 0
  /\ r.age <= MaxPriceAge
  /\ r.phantom = 0
  /\ r.ghost = 0
  /\ IsTier(r, k)
  /\ k > r.tier

\* save_token: INSERT OR REPLACE of the whole row.
Save(t, r) == db' = [db EXCEPT ![t] = r]

\* The loop changes its copy and saves it.
SaveCopy(t, r) == mem' = [mem EXCEPT ![t] = r] /\ Save(t, r)

\* The bot remembers less of t than it announced: a slip.
Forget(t, tier) ==
  /\ climb' = [climb EXCEPT ![t] = IF tier < @ THEN tier ELSE @]
  /\ slips' = [slips EXCEPT ![t] = @ + 1]

\* A feeder's save: it can put back a row that was never alerted.
Overwrite(t, r) ==
  /\ Save(t, r)
  /\ IF r.tier < db[t].tier THEN Forget(t, r.tier) ELSE UNCHANGED <<climb, slips>>
  /\ UNCHANGED sends

\* The feeder changes its copy and saves it.
SaveOwn(f, r) == fcopy' = [fcopy EXCEPT ![f] = r] /\ Overwrite(ftok[f], r)

\* The loop puts the token in hand away and goes on with its phase.
PutAway(phase) ==
  /\ pc' = phase
  /\ cur' = NoToken /\ curTier' = NoTier /\ attempt' = 1

\* End of a pass: the tokens list is dropped, the loop sleeps.
EndPass ==
  /\ PutAway("sleep")
  /\ mem' = [t \in Tokens |-> NoRow]
  /\ todo' = {} /\ due' = {}
  /\ cycle' = (cycle + 1) % DexMod
  /\ elapsed' = 0

(***************************************************************************)
(* price_alert_loop: load, poll, check.                                    *)
(***************************************************************************)
LoadInto(next) ==
  /\ mem' = [t \in Tokens |-> IF Active(db[t]) THEN db[t] ELSE NoRow]
  /\ todo' = {t \in Tokens : Active(db[t])}
  /\ pc' = next
  /\ UNCHANGED <<db, alerts, due, cur, curTier, attempt, cycle, elapsed,
                 feedVars, old, faults, histVars>>

Load ==
  /\ pc = "sleep"
  /\ \E t \in Tokens : Active(db[t])
  /\ LoadInto(IF cycle = 0 THEN "poll" ELSE "check")

\* "if tokens:" skips polling and alerting.
LoadNothing ==
  /\ pc = "sleep"
  /\ \A t \in Tokens : ~Active(db[t])
  /\ IF cycle = 0
       THEN pc' = "retry" /\ todo' = Tokens
            /\ UNCHANGED <<mem, due, cur, curTier, attempt, cycle, elapsed>>
       ELSE EndPass
  /\ UNCHANGED <<db, alerts, feedVars, old, faults, histVars>>

\* Rows past max_token_age_hours are expired before the first batch.
Expire(t) ==
  /\ pc = "poll" /\ t \in todo /\ t \in old
  /\ SaveCopy(t, Expired(mem[t]))
  /\ todo' = todo \ {t}
  /\ UNCHANGED <<alerts, pc, due, cur, curTier, attempt, cycle, elapsed,
                 feedVars, old, faults, histVars>>

\* _process_token with a price p: the running max, and the pump threshold
\* for a row that is still "tracking".
Polled(r, p) ==
  LET ath == IF p > r.ath THEN p ELSE r.ath
      status == IF r.status = "tracking" /\ ath >= PumpPrice
                  THEN "ath_confirmed" ELSE r.status
  IN  MakeRow(status, r.tier, ath, p, 0, r.phantom, r.ghost)

PollHit(t) ==
  /\ pc = "poll" /\ t \in todo /\ t \notin old
  /\ \E p \in Prices : SaveCopy(t, Polled(mem[t], p))
  /\ todo' = todo \ {t}
  /\ UNCHANGED <<alerts, pc, due, cur, curTier, attempt, cycle, elapsed,
                 feedVars, old, faults, histVars>>

\* _process_token without a pair or a price, or with a failed save (caught).
PollMiss(t) ==
  /\ pc = "poll" /\ t \in todo /\ t \notin old
  /\ todo' = todo \ {t}
  /\ UNCHANGED <<db, alerts, mem, pc, due, cur, curTier, attempt, cycle,
                 elapsed, feedVars, old, faults, histVars>>

PollDone ==
  /\ pc = "poll" /\ todo = {}
  /\ pc' = "reload"
  /\ UNCHANGED <<db, alerts, mem, todo, due, cur, curTier, attempt, cycle,
                 elapsed, feedVars, old, faults, histVars>>

\* load_all_tokens again, since statuses may have changed.
Reload == pc = "reload" /\ LoadInto("check")

\* check_tokens runs without an await; cooldowns and ages are the copies'.
Check ==
  /\ pc = "check"
  /\ due' = {p \in Tokens \X Tiers : Fires(mem[p[1]], p[2])}
  /\ todo' = {}
  /\ pc' = "alerts"
  /\ UNCHANGED <<db, alerts, mem, cur, curTier, attempt, cycle, elapsed,
                 feedVars, old, faults, histVars>>

TakeDue ==
  /\ pc = "alerts"
  /\ \E p \in due : cur' = p[1] /\ curTier' = p[2] /\ due' = due \ {p}
  /\ pc' = "gate"
  /\ UNCHANGED <<db, alerts, mem, todo, attempt, cycle, elapsed, feedVars,
                 old, faults, histVars>>

\* The retry queues run on the Dex cadence only.
AlertsDone ==
  /\ pc = "alerts" /\ due = {}
  /\ IF cycle = 0
       THEN pc' = "retry" /\ todo' = Tokens
            /\ UNCHANGED <<mem, due, cur, curTier, attempt, cycle, elapsed>>
       ELSE EndPass
  /\ UNCHANGED <<db, alerts, feedVars, old, faults, histVars>>

(***************************************************************************)
(* price_alert_loop: one alert.                                            *)
(***************************************************************************)

\* alert_gate.evaluate allows: a good label, the kill switch, or any
\* exception inside it (fail-open).
GateAllow ==
  /\ pc = "gate" /\ "allow" \in FeeVerdicts
  /\ pc' = "holder"
  /\ UNCHANGED <<db, alerts, mem, todo, due, cur, curTier, attempt, cycle,
                 elapsed, feedVars, old, faults, histVars>>

\* No fee data: skip this time, keep the row as it is.
GateNoData ==
  /\ pc = "gate" /\ "no_data" \in FeeVerdicts
  /\ PutAway("alerts")
  /\ UNCHANGED <<db, alerts, mem, todo, due, cycle, elapsed, feedVars, old,
                 faults, histVars>>

\* A label in block_labels: mark_token_blocked updates two columns of the row
\* and leaves the loop's object alone.
GateBlock ==
  /\ pc = "gate" /\ "block" \in FeeVerdicts
  /\ Save(cur, Blocked(db[cur]))
  /\ PutAway("alerts")
  /\ UNCHANGED <<alerts, mem, todo, due, cycle, elapsed, feedVars, old,
                 faults, histVars>>

HolderPass ==
  /\ pc = "holder" /\ "pass" \in HolderVerdicts
  /\ pc' = "refresh"
  /\ UNCHANGED <<db, alerts, mem, todo, due, cur, curTier, attempt, cycle,
                 elapsed, feedVars, old, faults, histVars>>

\* Verdict "block": the ghost cooldown goes into the copy and, unless the
\* save fails (caught), into the row.
HolderBlock ==
  /\ pc = "holder" /\ "block" \in HolderVerdicts
  /\ mem' = [mem EXCEPT ![cur] = Haunted(mem[cur])]
  /\ \/ Save(cur, Haunted(mem[cur])) /\ UNCHANGED faults
     \/ faults < MaxFaults /\ faults' = faults + 1 /\ UNCHANGED db
  /\ PutAway("alerts")
  /\ UNCHANGED <<alerts, todo, due, cycle, elapsed, feedVars, old, histVars>>

\* refresh_ath_at_alert: a higher ATH goes into the copy and, unless the save
\* fails (caught), into the row; the tier to announce stays.  No news and
\* Birdeye errors leave everything alone.
Refresh ==
  /\ pc = "refresh"
  /\ \/ /\ \E p \in Prices : p > mem[cur].ath /\ SaveCopy(cur, WithAth(mem[cur], p))
        /\ UNCHANGED faults
     \/ /\ \E p \in Prices :
             p > mem[cur].ath /\ mem' = [mem EXCEPT ![cur] = WithAth(mem[cur], p)]
        /\ faults < MaxFaults /\ faults' = faults + 1 /\ UNCHANGED db
     \/ UNCHANGED <<mem, db, faults>>
  /\ pc' = "send"
  /\ UNCHANGED <<alerts, todo, due, cur, curTier, attempt, cycle, elapsed,
                 feedVars, old, histVars>>

Deliver == sends' = [sends EXCEPT ![cur][curTier] = @ + 1]

\* 2xx: the message is in the chat and the bot knows it.
SendAccepted ==
  /\ pc = "send"
  /\ Deliver
  /\ climb' = [climb EXCEPT ![cur] = curTier]
  /\ pc' = "record"
  /\ UNCHANGED <<db, alerts, mem, todo, due, cur, curTier, attempt, cycle,
                 elapsed, feedVars, old, faults, slips>>

\* Mutant of TryAgain: the attempts are counted from one and compared from zero.
TryAgainOneMore ==
  IF attempt <= MaxAttempts
    THEN attempt' = attempt + 1 /\ UNCHANGED <<pc, cur, curTier>>
    ELSE PutAway("alerts")

\* Another attempt, or "not sent": the token stays unmarked.
TryAgain ==
  IF attempt < MaxAttempts
    THEN attempt' = attempt + 1 /\ UNCHANGED <<pc, cur, curTier>>
    ELSE PutAway("alerts")

\* 429, 5xx or a network error before Telegram took the message.
SendRefused ==
  /\ pc = "send"
  /\ TryAgain
  /\ UNCHANGED <<db, alerts, mem, todo, due, cycle, elapsed, feedVars, old,
                 faults, histVars>>

\* Telegram took the message, and its answer is lost (timeout, reset).
SendAnswerLost ==
  /\ pc = "send"
  /\ faults < MaxFaults /\ faults' = faults + 1
  /\ Deliver
  /\ slips' = [slips EXCEPT ![cur] = @ + 1]
  /\ TryAgain
  /\ UNCHANGED <<db, alerts, mem, todo, due, cycle, elapsed, feedVars, old,
                 climb>>

\* Mutant of SendRejected: the outcome of the send is not looked at.
SendRejectedRecorded ==
  /\ pc = "send"
  /\ pc' = "record"
  /\ UNCHANGED <<db, alerts, mem, todo, due, cur, curTier, attempt, cycle,
                 elapsed, feedVars, old, faults, histVars>>

\* Any other 4xx is permanent.
SendRejected ==
  /\ pc = "send"
  /\ PutAway("alerts")
  /\ UNCHANGED <<db, alerts, mem, todo, due, cycle, elapsed, feedVars, old,
                 faults, histVars>>

\* Mutant of SaveAlert: mark_alerted saves the row before the record.
SaveRowFirst ==
  /\ pc = "record"
  /\ SaveCopy(cur, Marked(mem[cur], curTier))
  /\ pc' = "mark"
  /\ UNCHANGED <<alerts, todo, due, cur, curTier, attempt, cycle, elapsed,
                 feedVars, old, faults, histVars>>

\* mark_alerted, first transaction: save_alert.
SaveAlert ==
  /\ pc = "record"
  /\ alerts' = alerts \cup {<<cur, curTier>>}
  /\ pc' = "mark"
  /\ UNCHANGED <<db, mem, todo, due, cur, curTier, attempt, cycle, elapsed,
                 feedVars, old, faults, histVars>>

\* Mutant of MarkAlerted: the object is marked and not saved.
MarkAlertedUnsaved ==
  /\ pc = "mark"
  /\ mem' = [mem EXCEPT ![cur] = Marked(mem[cur], curTier)]
  /\ PutAway("alerts")
  /\ UNCHANGED <<db, alerts, todo, due, cycle, elapsed, feedVars, old, faults,
                 histVars>>

\* mark_alerted, second transaction: the whole row.
MarkAlerted ==
  /\ pc = "mark"
  /\ SaveCopy(cur, Marked(mem[cur], curTier))
  /\ PutAway("alerts")
  /\ UNCHANGED <<alerts, todo, due, cycle, elapsed, feedVars, old, faults,
                 histVars>>

(***************************************************************************)
(* process_ath_retry_queue: one queued or T+15m token, on a copy read for  *)
(* it.  Which tokens are queued, and what Birdeye says, is AthSeeder's.    *)
(* The loop's own feeder is done with its token before.                    *)
(***************************************************************************)
LoopFeederIdle == LoopFeeder \in Feeders => fpc[LoopFeeder] = "idle"

\* A token is queued when its seeding missed or a poll raised its ATH.
MayBeQueued(t) == db[t].status # "absent" /\ (db[t].ath > 0 \/ ~FeederHolds(t))

RetryRead(t) ==
  /\ pc = "retry" /\ t \in todo /\ LoopFeederIdle
  /\ todo' = todo \ {t}
  /\ IF MayBeQueued(t)
       THEN pc' = "seed" /\ mem' = [mem EXCEPT ![t] = db[t]] /\ cur' = t
       ELSE UNCHANGED <<pc, mem, cur>>
  /\ UNCHANGED <<db, alerts, due, curTier, attempt, cycle, elapsed, feedVars,
                 old, faults, histVars>>

\* A higher ATH, or the same row with a new ath_source.
RetryWrite ==
  /\ pc = "seed"
  /\ \E p \in Prices \cup {0} :
       p >= mem[cur].ath /\ SaveCopy(cur, WithAth(mem[cur], p))
  /\ pc' = "validate"
  /\ UNCHANGED <<alerts, todo, due, cur, curTier, attempt, cycle, elapsed,
                 feedVars, old, faults, histVars>>

\* Nothing new, nothing to validate, an error, or no phantom.
RetryKeep ==
  /\ pc \in {"seed", "validate"}
  /\ PutAway("retry")
  /\ UNCHANGED <<db, alerts, mem, todo, due, cycle, elapsed, feedVars, old,
                 faults, histVars>>

\* _run_phantom_validation: a phantom starts the cooldown.
RetryPhantom ==
  /\ pc = "validate"
  /\ SaveCopy(cur, Doubted(mem[cur]))
  /\ PutAway("retry")
  /\ UNCHANGED <<alerts, todo, due, cycle, elapsed, feedVars, old, faults,
                 histVars>>

\* The queues are done once the loop's own feeder is.
RetryDone ==
  /\ pc = "retry" /\ todo = {} /\ LoopFeederIdle
  /\ EndPass
  /\ UNCHANGED <<db, alerts, feedVars, old, faults, histVars>>

(***************************************************************************)
(* The feeders.  Each one handles one token at a time.                     *)
(***************************************************************************)

\* The loop's feeder runs while the loop is at its retry queues.
Scheduled(f) == f = LoopFeeder => pc = "retry"

FeederIdles(f) ==
  /\ fpc' = [fpc EXCEPT ![f] = "idle"]
  /\ ftok' = [ftok EXCEPT ![f] = NoToken]
  /\ fcopy' = [fcopy EXCEPT ![f] = NoRow]

\* token_exists says no; the token is then built from what the APIs say.
Discover(f, t) ==
  /\ fpc[f] = "idle" /\ Scheduled(f)
  /\ db[t].status = "absent"
  /\ fpc' = [fpc EXCEPT ![f] = "build"]
  /\ ftok' = [ftok EXCEPT ![f] = t]
  /\ UNCHANGED <<db, alerts, loopVars, fcopy, old, faults, histVars>>

\* No pair yet, no price, or below the mcap floor.
BuildFail(f) ==
  /\ fpc[f] = "build" /\ Scheduled(f)
  /\ FeederIdles(f)
  /\ UNCHANGED <<db, alerts, loopVars, old, faults, histVars>>

\* The new row replaces whatever is there by now.
CreateRow(f) ==
  /\ fpc[f] = "build" /\ Scheduled(f)
  /\ \E p \in Prices : SaveOwn(f, FreshRow(p))
  /\ fpc' = [fpc EXCEPT ![f] = "seed"]
  /\ UNCHANGED <<alerts, loopVars, ftok, old, faults>>

\* seed_ath_for_token with an answer from Birdeye, whatever the ATH was.
SeedHit(f) ==
  /\ fpc[f] = "seed" /\ Scheduled(f)
  /\ \E p \in Prices : SaveOwn(f, WithAth(fcopy[f], p))
  /\ fpc' = [fpc EXCEPT ![f] = "validate"]
  /\ UNCHANGED <<alerts, loopVars, ftok, old, faults>>

\* seed_ath_for_token without one: the copy is saved and the token queued.
SeedMiss(f) ==
  /\ fpc[f] = "seed" /\ Scheduled(f)
  /\ Overwrite(ftok[f], fcopy[f])
  /\ FeederIdles(f)
  /\ UNCHANGED <<alerts, loopVars, old, faults>>

\* _run_phantom_validation after the seed: the same copy, with a cooldown.
SeedPhantom(f) ==
  /\ fpc[f] = "validate" /\ Scheduled(f)
  /\ Overwrite(ftok[f], Doubted(fcopy[f]))
  /\ FeederIdles(f)
  /\ UNCHANGED <<alerts, loopVars, old, faults>>

\* An error in seeding (swallowed), no phantom, or no answer on phantoms.
SeedEnd(f) ==
  /\ fpc[f] \in {"seed", "validate"} /\ Scheduled(f)
  /\ FeederIdles(f)
  /\ UNCHANGED <<db, alerts, loopVars, old, faults, histVars>>

(***************************************************************************)
(* The world: the clock, ageing tokens, failures and restarts.             *)
(***************************************************************************)
\* Mutant of Later: a cooldown never ends.
LaterNever(n) == n

Later(n) == IF n = 0 THEN 0 ELSE n - 1

LaterRow(r) ==
  MakeRow(r.status, r.tier, r.ath, r.cur, IF r.age < Stale THEN r.age + 1 ELSE r.age,
          Later(r.phantom), Later(r.ghost))

\* Instants are absolute in the code, so every copy ages alike.
Clock ==
  /\ elapsed < TickBudget /\ elapsed' = elapsed + 1
  /\ db' = [t \in Tokens |-> LaterRow(db[t])]
  /\ mem' = [t \in Tokens |-> LaterRow(mem[t])]
  /\ fcopy' = [f \in Feeders |-> LaterRow(fcopy[f])]
  /\ UNCHANGED <<alerts, pc, todo, due, cur, curTier, attempt, cycle, fpc,
                 ftok, old, faults, histVars>>

GrowOld(t) ==
  /\ t \notin old /\ db[t].status # "absent"
  /\ old' = old \cup {t}
  /\ UNCHANGED <<db, alerts, loopVars, feedVars, faults, histVars>>

\* The announcement in hand is lost if it is not in the row yet.
LoseHand ==
  /\ IF pc \in {"record", "mark"}
       THEN Forget(cur, db[cur].tier)
       ELSE UNCHANGED <<climb, slips>>
  /\ UNCHANGED sends

\* An exception that reaches the outer handler of the loop: the rest of the
\* pass, retry queues included, is skipped.
PassFails ==
  /\ pc \in {"sleep", "poll", "reload", "holder", "send", "record", "mark"}
  /\ faults < MaxFaults /\ faults' = faults + 1
  /\ LoseHand
  /\ EndPass
  /\ UNCHANGED <<db, alerts, feedVars, old>>

\* The process dies and starts again on the database.
Crash ==
  /\ faults < MaxFaults /\ faults' = faults + 1
  /\ LoseHand
  /\ PutAway("sleep")
  /\ mem' = [t \in Tokens |-> NoRow]
  /\ todo' = {} /\ due' = {} /\ cycle' = 0 /\ elapsed' = 0
  /\ fpc' = [f \in Feeders |-> "idle"]
  /\ ftok' = [f \in Feeders |-> NoToken]
  /\ fcopy' = [f \in Feeders |-> NoRow]
  /\ UNCHANGED <<db, alerts, old>>

AlertStep ==
  \/ TakeDue \/ GateAllow \/ GateNoData \/ GateBlock
  \/ HolderPass \/ HolderBlock \/ Refresh
  \/ SendAccepted \/ SendRefused \/ SendAnswerLost \/ SendRejected
  \/ SaveAlert \/ MarkAlerted \/ AlertsDone

LoopStep ==
  \/ Load \/ LoadNothing \/ PollDone \/ Reload \/ Check \/ AlertStep
  \/ \E t \in Tokens : Expire(t) \/ PollHit(t) \/ PollMiss(t) \/ RetryRead(t)
  \/ RetryWrite \/ RetryKeep \/ RetryPhantom \/ RetryDone

FeederStep(f) ==
  \/ \E t \in Tokens : Discover(f, t)
  \/ BuildFail(f) \/ CreateRow(f) \/ SeedHit(f) \/ SeedMiss(f)
  \/ SeedPhantom(f) \/ SeedEnd(f)

WorldStep == Clock \/ PassFails \/ Crash \/ \E t \in Tokens : GrowOld(t)

Next == LoopStep \/ WorldStep \/ \E f \in Feeders : FeederStep(f)

Spec == Init /\ [][Next]_vars

\* Fairness.  The loop is one asyncio task that never waits for another one,
\* so it keeps stepping, and time passes.  Of the outside world: asked again
\* and again, Dexscreener at some point has a price, the fee indexer data, the
\* holder filter a pass, and Telegram an answer.
FairSpec ==
  /\ Spec
  /\ WF_vars(LoopStep) /\ WF_vars(Clock)
  /\ \A t \in Tokens : SF_vars(PollHit(t))
  /\ SF_vars(GateAllow) /\ SF_vars(HolderPass) /\ SF_vars(SendAccepted)

(***************************************************************************)
(* Properties.                                                             *)
(***************************************************************************)

\* The chat's view: alerts climb strictly, except after a slip.
Ladder == INSTANCE AlertLadder WITH deepest <- climb

\* price_alert_loop with mark_alerted, the stale copies and the retries of
\* _send implements "Each tier only fires once, then moves to next tier"
\* (config.example.yaml:53) as AlertLadder states it.
ImplementsLadder == Ladder!Spec

\* However the loop, the feeders, crashes and lost answers interleave, a
\* subscriber gets tier k of a token at most once more than the bot slipped.
OncePerTier == Ladder!OncePerTier

\* mark_alerted writes the alert record before the row: a row that says tier
\* k was alerted has its record, at any crash point, so that
\* update_peak_after_alert always finds the alert it measures.
MarkedHasRecord ==
  \A t \in Tokens : db[t].tier # NoTier => <<t, db[t].tier>> \in alerts

\* The performance history invents no alert, and a message without a record
\* is one being recorded or one a slip accounts for.
RecordsMatchChat ==
  \A t \in Tokens, k \in Tiers :
    /\ <<t, k>> \in alerts => sends[t][k] > 0
    /\ sends[t][k] > 0 /\ <<t, k>> \notin alerts =>
         slips[t] > 0 \/ (pc = "record" /\ cur = t /\ curTier = k)

\* "excludes EXPIRED and BLOCKED - both terminal states" (database.py:680):
\* no stale copy of the loop ever takes a row out of a terminal status; only
\* a feeder that still holds the token can.
OnlyFeedersRevive ==
  [][\A t \in Tokens :
       db[t].status \in Terminal /\ db'[t].status # db[t].status =>
         FeederHolds(t)]_vars

\* What a feeder that runs next to the loop leaves of a row: "tracking", no
\* tier and no ghost cooldown, with or without a phantom cooldown.
FeederRow(r) == r.status = "tracking" /\ r.tier = NoTier /\ r.ghost = 0

\* check_tokens reads cooldowns and status from a copy, several awaits lie
\* between it and the message, and the WebSocket task, the backfill loop and
\* the retries write rows in all of them.  Yet no message goes out for a token
\* whose row has a cooldown running or is not alertable, unless a feeder has
\* just put its own row there; and even then not for a terminal row, nor for
\* one with a ghost cooldown.
SilentInCooldown ==
  [][\A t \in Tokens :
       sends'[t] # sends[t] =>
         \/ db[t].status \in Alertable /\ db[t].phantom = 0 /\ db[t].ghost = 0
         \/ FeederRow(db[t])]_vars

\* A deeper tier than the last one alerted, and nothing in the row against it.
Pending(t, k) ==
  /\ db[t].status \in Alertable /\ db[t].phantom = 0 /\ t \notin old
  /\ IsTier(db[t], k) /\ k > db[t].tier

\* Skipped is not forgotten: a token passed over for a ghost block, for want of
\* fee data, a price or a Telegram answer does not stay pending forever.
NotPendingForever ==
  \A t \in Tokens, k \in Tiers : ~<>[]Pending(t, k)

\* "Set status=BLOCKED for a token (terminal state)" (database.py:1186).
BlockedIsTerminal ==
  [][\A t \in Tokens : db[t].status = "blocked" => db'[t].status = "blocked"]_vars
=============================================================================

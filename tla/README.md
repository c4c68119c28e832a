# Phoenix Bot: TLA+ models, checks and proofs

Phoenix (`main.py`) is one asyncio process. It discovers tokens that migrate to
PumpSwap, follows their price, announces dips from the all-time high (ATH) to a
Telegram chat, and keeps everything it knows in one SQLite file. Nothing in it
runs in parallel, but eight tasks interleave at their `await`s, every API may
fail or answer late, any database write may fail, and the process may die
between any two steps. These modules say what the bot guarantees under all
that, and where it does not do what its comments promise.

Paths below are relative to the root of the repository. `PROJECT.json` maps
every definition to the lines it models.

## 1. Inventory

| Component | State it keeps | Operations | Talks to |
|---|---|---|---|
| **Price/alert loop** `main.py` `price_alert_loop`, `modules/price_tracker.py`, `modules/alert_trigger.py` | its own objects of all active rows, `cycle_count` | load, poll (batch, every 3rd pass), reload, `check_tokens`, gate, holder filter, refresh ATH, send, `mark_alerted`, retry queues | every other part |
| **Row persistence** `database.py`, `models.py` | tables `tokens`, `alerts`, `ath_retry_queue`, `pumpswap_fees`, `fast_dip_shadow`, logs | `save_token` (whole row), `mark_token_blocked` (two columns), `save_alert`, queue mirror, fee batches, prune | all tasks, one connection per call |
| **ATH seeding** `modules/ath_seeder.py` | `_ath_retry_queue` and its mirror table | `seed_ath_for_token`, `enqueue_retry`, `process_retry_queue`, `process_t15m_correction`, `refresh_ath_at_alert`, `rehydrate_retry_queue` | loop, discovery, Birdeye |
| **Discovery** `modules/migration_ws.py`, `modules/backfill.py` | socket, `_seen_sigs`, mint retry queue, pages | connect, subscribe, back off, handle a notification, retry a mint, backfill at startup and periodically | rows, seeder, Dexscreener |
| **Telegram delivery** `modules/telegram_sender.py` | `_last_update_id` | `_send` with retries; `evaluate_fees`; command poller; wording | loop, operator |
| **Fee gate** `filters/fee_gate.py`, `modules/alert_gate.py` | `fee_gate_log`, `alert_block_log` | score fees, sticky label, allow / no data / block | loop, rows, `pumpswap_fees` |
| **Holder (ghost) filter** `holder_filter.py` | `holder_filter_log`, its newest row a cache for an hour | clusters and low balances, pass / caution / block | loop, snapshot |
| **Holder snapshot** `snapshot_holders.py` | none | primary provider, fallback, owners, balances, supply, with retries | Helius |
| **Phantom validator** `modules/phantom_validator.py` | none | an ATH against Birdeye's current price | seeder |
| **API clients** `utils/birdeye.py`, `utils/dexscreener.py` | rate limits | best pair, highest high; every failure is an empty answer | all |
| **gRPC fee indexer** `modules/grpc_indexer.py`, `utils/grpc_decoder.py` | pending batch, backoff | decode, batch, flush, reconnect | `pumpswap_fees`, detector |
| **Fast-dip detector** `modules/fast_dip_detector.py` | windows, signatures, states, tasks, scope | `on_event`, INSERT / UPDATE / decision tasks, eviction, backfill | gRPC indexer, `fast_dip_shadow` |
| **Housekeeping** `main.py` loops | timers | prune fees, daily recap, commands, WAL checkpoint | database, Telegram |
| **Fee reading** `utils/onchain_fees.py` | none | sums and samples over `pumpswap_fees` | fee gate |
| **Schema** `database.py` `init_db`, `scripts/migrate_*.py` | tables, columns, indexes | create, alter, backfill, collapse duplicates | every start |
| Classifiers `modules/ante_taxonomy.py`, `filters/lp_floor.py`, `modules/pumpswap_floor.py` | none | pure functions, result logged | loop |
| Reports, exports, shadow logs, generated code | none of the bot's | see `PROJECT.json` | |

What is hard about it, and what makes each part correct:

* **Copies and whole-row writes.** Every task works on an object it loaded
  before an `await`, and `save_token` replaces all columns with it. Two tasks
  that hold the same token undo each other's columns. Correct would be: an
  alert, a terminal status, a cooldown or a Birdeye seed once written stays.
* **The message and its record.** The message goes out, then the record is
  written, then the row. Correct is: no record without message, no marked row
  without record, a repeat only where something really went wrong in between.
* **Fail-open handlers.** Nearly every step swallows its exceptions. A swallowed
  one must not leave copy, row and queue in a combination the next pass
  cannot deal with.
* **The queue and its mirror.** Memory and table are written one after the other
  at six places, with feeders in between. Correct is: they agree whenever the
  loop is between two writes, and no unseeded ATH falls out of the queue.
* **Restarts.** Memory is rebuilt from tables by code with rules of its own.
* **Windows over a stream** that repeats and reorders, with a cap on memory and
  background tasks that finish after the state machine has moved on.
* **Verdicts that outlive their reasons.** A label, a holder verdict and a
  cooldown are remembered for different times in different places. Correct is:
  a bad label is never forgotten, and no verdict is used after its cooldown.
* **Upgrades.** `init_db` brings any older database to this release, in many
  commits, at every start, while `save_token` relies on the position of columns.
* **Liveness.** Everything is skipped and retried: no pending tier may be
  skipped forever, and the retry queue must drain.

`PROJECT.json` lists each of these hazards at the line where it bites.

## 2. Modules

| Module | Models | Size of the state |
|---|---|---|
| `AlertLadder` | the promise of dip alerts, without any mechanism | per token: rung, messages, slips |
| `AlertLoop` | the row and all that write it: the loop with its alerts, the feeders, the retry pass, crashes and failures | any number of tokens and feeders |
| `Oracles` | what the clients and the phantom validator make of answers | none |
| `AthSeeder` (extends `Oracles`) | the ATH of one token, its provenance, queue and mirror | one token, any number of feeders |
| `Discovery` | how a migration becomes a row: WebSocket, mint retry queue, backfills | any number of mints |
| `HolderSnapshot` | one snapshot of holders and the verdict on it | any set of accounts |
| `AlertGates` (extends `HolderSnapshot`) | a due tier on its way through fee gate and ghost filter, with their logs | one token |
| `FeeIndexer` | stream, batch, fee table, prune, and the sums read from it | any set of transactions |
| `FastDip` | the detector and its tasks | any number of tokens |
| `SchemaUpgrade` | `init_db`, the migration scripts and the old release | any rows and block keys |
| `AlertOutcomes` (extends `SchemaUpgrade`) | peak and trough of alerts; which alerts a recap is about | alerts of one token |
| `Operator` (extends `AlertOutcomes`) | the recap loop and the command loop | one chat |
| `BotProcess` (extends `Operator`) | composition: upgrade, start, loops, interruption, restart | |
| `AlertLadderProofs`, `AlertLoopProofs`, `AthSeederProofs`, `DiscoveryProofs`, `AlertGatesProofs`, `FeeIndexerProofs`, `FastDipProofs`, `BotProcessProofs` | theorems about the module of the name, and their proofs | unbounded |
| `MCAlertLoop`, `MCAthSeeder`, `MCDiscovery`, `MCAlertGates`, `MCFeeIndexer`, `MCFastDip`, `MCBotProcess` | instances for TLC | |

How they divide the alert path: `AlertLoop` chooses the verdicts of gate and
filter freely and follows what becomes of the row and the message; `AlertGates`
computes these verdicts and follows what the gates write; `AlertOutcomes` begins
where `save_alert` ends. `Discovery` and `AthSeeder` are the two halves of a
feeder: how a mint gets its row, and what the row then holds.

### AlertLoop

One action is the code between two `await`s that matter; where a handler makes
several writes, each is an action, because the process may die between them.
`db` is table `tokens`, `alerts` the pairs with a record in table `alerts`,
`mem` the objects of the loop, `fcopy` those of the feeders. `pc` follows the
loop:

    sleep -> poll -> reload -> check -> alerts -> (gate -> holder -> refresh
          -> send -> record -> mark -> alerts)* -> retry -> (seed -> validate)* -> sleep

* `Load`, `LoadNothing`, `Expire`, `PollHit`, `PollMiss`, `PollDone`, `Reload`,
  `Check`: `price_alert_loop` up to the list of due alerts. `Fires` has the guards
  of `check_tokens` in their order; a band is tested without the division.
* `GateAllow/NoData/Block`: the three outcomes of `alert_gate.evaluate`; its
  exceptions are `GateAllow` (fail-open). `Blocked` writes two columns and not
  the object, as `mark_token_blocked` does.
* `HolderPass/Block`, `Refresh`: a failed save is swallowed, so the object may
  be ahead of the row.
* `SendAccepted/Refused/AnswerLost/Rejected`: one attempt of `_send`.
* `SaveAlert`, `MarkAlerted`: the two transactions of `mark_alerted`.
* `Retry*`: what `process_retry_queue` and the T+15m correction do to the row.
* `Discover`, `BuildFail`, `CreateRow`, `Seed*`: a feeder, from `token_exists`
  to the last save of `seed_ath_for_token`. `LoopFeeder` is the WebSocket retry
  queue, whose steps happen only while the loop is at `retry`.
* `PassFails`: an exception reaches the handler at `main.py:276`. `Crash`: the
  process dies and starts again. `Clock`, `GrowOld`: time.

Instants are kept as time left or elapsed, so the clock needs no bound. The
history variables `climb`, `sends` and `slips` are what a subscriber could
count; a *slip* is an event that makes the bot forget an announcement: a fault
while the message is out and the row not yet marked, a lost answer, a feeder's
write that lowers the tier.

`AlertLadder` is the abstract specification: `Announce` a deeper tier, announce
one unknowingly, or `Slip` back. `ImplementsLadder` is that specification with
`climb` for the rung; its consequence `OncePerTier` is that every repeat of a
tier is paid for by a slip.

### AthSeeder

`row` is `(ath_source, ath_price)`, `memq` and `dbq` the queue entry in memory
and in the table, with the age since `queued_at` and whether a first success is
noted. The loop's `pc` runs through poll, alert-time refresh, the retry queue
(`TakeEntry`, `Fetch`, a `Judge*` per branch of `process_retry_queue`, `Ask*`
for Birdeye's answer, then the mirror write) and the T+15m correction; each
feeder through token_exists, build, seed, validate. `Crash` clears memory,
`Restart` is `rehydrate_retry_queue`. Other tokens of the same loop only take
time. The retry intervals are 30 s in the hot window (`initial_window_seconds`) and
120 s after it and while reseeding: both are shorter than a clock unit, of which the
shortest threshold, 600 s, has one; so the cadence test may go either way at
every pass (`JudgeWait`, `JudgeAsk`). The branch for a
token that is gone from the table is not reachable: a token is saved before it
is queued, and rows are never deleted.

### FastDip

`buf`, `sigs`, `touch`, `inDip` and `pend` are the dicts of the detector, `dips`
its episodes with the state of their three tasks, `shadow` the table. `on_event`
is synchronous, so dedup, eviction, append, pop and the state machine are one
action (`Ingest`, with `Trigger`, `Recover` or `StayAsIs`); `Insert`, `WriteEnd`
and `Decide` are the tasks, enabled in any order once their INSERT is done.
`Startup` backfills the windows from the table, most active token first, where the
order of swaps of one second and of tokens equally active is open; `Touched` is the order of
last touches after one; the history variable `since` is the moment up to which a token's window was disturbed, by a late swap,
an eviction, a time out of scope or a crash, and `Startup` puts it back before the window where the backfill has read
all there is; `RefreshScope` is the periodic refresh; after a `Crash` the last batch of the
indexer may be missing from the table. The features and suppression rules of
the decision are left out, since nothing reads them.

### Oracles

Operators only. `BestPairs` is the choice among the pairs of a token,
`LivePrices` what a poll can therefore bring, `BirdeyeAths` what the highest high
of a set of candles can be, `IsPhantom` the test of `phantom_validator`. `AthSeeder`
draws its prices and ATHs from them.

### Discovery

`conn`, `fails` and `wait` are the socket, `inbox` what it has received and the
handler has not taken, `seen` the set `_seen_sigs`. `wpc`, `lpc` and `bpc` are the places of
the three tasks: `_handle_message`, `process_retry_queue` within the price loop, and
the backfill, which runs once before the loops start (`phase = "boot"`) and then
periodically. A retry pass works on a copy of the queue and takes mints out at
its end only, so one exception keeps them all (`RetryError`). `lost` remembers every
way in which the code knowingly lets a mint go (`Lose`): nobody was connected, the
link broke with messages unread, `getTransaction` failed, the handler raised, the
retry queue gave up, a crash.

### HolderSnapshot and AlertGates

`HolderSnapshot` is `take_snapshot` as the alert path calls it, one action per
answer or final failure of a remote call. Which of equal balances the provider ranks first is
open (`TopAccounts`). A failed balance call leaves every wallet
unknown and the snapshot "ok", as in the code (`BalancesFail`). `Verdict` and
`WouldBlock` are the two versions of the filter.

`AlertGates` follows one due tier: `Evaluation` logs the fee score with the sticky
maximum (`worst` is what `fee_gate_log` would answer), `GateLogs` and `GateMarks` are the two
writes of a block, `GateRaises` the fail-open handler, `UseCached` and `TakeSnapshot`
the one-hour cache, `LogVerdict`, `Suppress`, `CoolDown` and `RecordBlock` the four writes of
a ghost block, each of which may fail alone. `since` is the time since `ping_ts`, which
the log row carries, so that a verdict may be born old. The switches
`blocking_enabled`, `fee_gate.enabled` and `phantom_validator.enabled` are taken to be on.

### FeeIndexer

A transaction is a constant record (`Info`): payloads, balances, instructions and
balance changes. `RecordsOf` is the decoder: the pool is the first owner with both
wrapped SOL and another mint, foreign events are dropped, and the first kept
record carries priority fee and tip (`Among` keeps the order of what is not dropped). `Update`, `StreamEnds`, `StreamBreaks` and `Flush` are
`_consume_stream`; `Ready`, `NotReady`, `Reconnect` the loop around it; `Inserted` is
`INSERT OR IGNORE` under the unique index on signature and type; `PruneStart` and
`PruneChunk` the prune, whose cutoff is fixed when it starts. `Bribes` and
`AnteSamples` are what `utils/onchain_fees.py` reads from the table, as a sum and a function over the
rows that carry fees (`Carriers`). The delay before the first prune
(300 s) is taken as one interval.

### SchemaUpgrade, AlertOutcomes, Operator, BotProcess

SQLite commits a CREATE or ALTER at once and opens a transaction at the first UPDATE or DELETE;
so every ALTER is an action, and what a script rewrites stays in `work` until its
commit. `phase` is the statement `init_db` or a script has come to. The columns that
matter for an order (`tokens`, by position) or for a later write (`alerts`,
`alert_block_log`) are modelled by name; `Logs` and `Extras` stand for the other tables and
the columns with guards of their own.

`LogBlock` is the UPSERT of a block attempt; `LogBlockRaises` the one that raises because `init_db` has put the
unique index on an old log without duplicates, while the columns the UPSERT names are added by the script only:
the attempt is in `refused`, and in no row.

`AlertOutcomes` has the two UPDATEs of a poll, each of which may fail or meet a missing column. With every alert it
keeps the prices that both recorded (`kept`) and those that were lost on the way (`lost`). `Operator` has the recap loop with its one long sleep and
the command poller with Telegram's memory of updates: `confirmed` is what Telegram has
forgotten, `lastId` the offset in memory, `batch` the updates of the last poll still to be answered, least first. A clock unit
is a fraction of a day; CST is UTC-6 throughout the year, as in the code. `BotProcess`
is `main`: a start that gets through starts the loops with empty memory.

## 3. What is checked

| Run | Instance | Properties | Shows |
|---|---|---|---|
| `alert_settled` | one token, the loop and its retry queue, 3 prices, 2 tiers, 2 faults, fair | `OncePerTier` `MarkedHasRecord` `RecordsMatchChat` `ImplementsLadder` `SilentInCooldown` `OnlyFeedersRevive` `NotPendingForever` | every crash point, failed write and lost answer around an alert; silent in a cooldown; skipped is not forgotten |
| `blocked_revived` | one feeder, no faults | `BlockedIsTerminal`: **violated** | section 5 |
| `seeder_loop` | no feeder, one crash | `Mirrored` `RunningMaxNeverSeeded` `NeverRegress` | what the loop alone guarantees |
| `seeder_live` | one feeder, one failed write, fair | `UnseededQueued` `QueueDrains` `TimeoutSettles` | every entry leaves the queue, every queued live ATH is labelled |
| `rehydrate_unseeded` | no feeder, one crash, fair | `TimeoutSettles`: **violated** | section 5 |
| `discovery` | one mint with two migration transactions, one fault, fair | `Accounted` `KeptUntilOld` `MintQueueDrains` `Resubscribes` `EventuallyTracked` | no mint is dropped but in the ways named; the backfill catches all of those |
| `gates` | a pool and five accounts, four views of the balances, three fee tables, two tiers, one fault | `VersionsAgree` `UnknownConvictsNobody` `CooldownOutlivesVerdict` `BlocksAccountedFor` `CooldownExplained` `NoAlertAfterBadLabel` | verdicts, cooldowns, logs and sticky labels agree; a failed balance call withholds nothing |
| `fees` | four transactions, batches of three, two chunks a prune, one fault, fair | `NoneMissing` `CountedOnce` `BribesExact` `OldRowsGo` `StreamComesBack` | nothing is lost without a fault, nothing counted twice |
| `fastdip_window` | one token, late and repeated swaps, one fault | `WindowExact` `RowsOwnTheirDips` | the window since it was last disturbed, a restart with its backfill included; the tasks of back-to-back dips |
| `fastdip_evict` | two tokens, room for one | `WindowMirrored` `OneOpenDip` | eviction in the middle of a dip |
| `process` | old or new database, two attempts, two commands, one alert and polls above its price, one fault, fair | `AttemptsKept` `ColumnsInPlace` `OutcomesBracketed` `OneRecapPerMidnight` `AnsweredOncePerLife` `ForgottenWhenAnswered` `ComesUp` | an interruption at any statement of an upgrade, script, poll or loop |
| `recap_day` | one alert, a day of four units, no faults | `RecapTellsAll`: **violated** | section 5 |

The passing runs have between 3 600 and 1.7 million states. Every property
of a passing run also has a mutant in `PROJECT.json`: a variant of one
definition, as a plausible bug would make it (the last tier fires again, the row
is saved before the record, popped signatures stay, the queue forgets a mint that
was not built, midnight is planned for now), under which TLC finds the property
violated. The variants stand next to what they vary.

The type invariants are conjuncts of properties that runs check and theorems state
(`Mirrored`, `Accounted`, `BlocksAccountedFor`, `CountedOnce`, `WindowMirrored`, `ColumnsInPlace`), or
have a theorem of their own (`AlertLoopTypeOK`).

**Bounds, and why they are enough.** Two tiers with a gap between their bands
suffice for climbing, skipping and falling back; prices are chosen so that a
rising ATH moves the tier of an unchanged price. One token suffices where the
property is about one row; what two tokens could add (an exception on one cuts
off the other), and what the feeders beside the loop add to all but `NotPendingForever`, is covered for any
set of them by the theorems of section 4. Two faults let a second one hit the recovery from
the first. `TickBudget` (clock units per pass) is set so that a cooldown can end
within a pass and outlast one.
In `AthSeeder` the ages saturate just past the last threshold, and
thresholds 1 and 2 keep the code's order `reseed_window < correction_delay <=
max_age`, promotion age included.
In `Discovery` there is one mint, since the tasks treat mints one after the other, and
what another mint adds, a pass that fails before or after this one, `RetryError` has too; it has two transactions, one more than it takes to meet a
second notification of a mint that is queued, built or tracked; `GiveUp` of one unit
has ages below, at and above it; the backoff is at its ceiling from the start, since its
length only decides how long nobody listens, which may be any time;
the trim of `seen` at its bound may forget everything, which makes repeated
handling of a signature happen.
In `AlertGates` the cooldown outlasts the cache by one unit, as 3660 s do 3600 s; the
views of balances have a pair alike, all alike, one or two poor ones beside an unknown
one, and after a failed call all unknown; the snapshot falls back below the limit; fee tables have none, a good and a bad one; counters
saturate at two.
In `FeeIndexer` the second transaction overfills the batch and age flushes smaller ones, a prune
needs more chunks than it may take, a transaction has two events of one type, a foreign
event, no pool, or failed.
In `FastDip` swaps of one second are told apart by `Keys`, the price 6 below a peak
of 10 is a drop of exactly 40 %, the window of one or two units has swaps at
exactly its edge, and two dips are what it takes for tasks of back-to-back
dips to meet.
In `BotProcess` one token, one key, one log and one guarded column are enough, since the
code treats each alike and in turn; two attempts make a duplicate; two units a day have a midnight
and a moment that is none. A poll above the alert price has to move both columns, the peak from the alert price and the
trough from NULL; other prices, several alerts of a token and further faults are left to the theorem on `OutcomesBracketed`.

**Deadlock** is checked in every run: no model can stop.

**Fairness.** A loop is a task that always goes on, a process that died is
started again, and time passes: weak fairness of each. Beyond it:

* `AlertLoop`: the outside is helpful when asked again and again, hence strong
  fairness of a price, an allowing gate, a passing holder filter and an accepted
  message: without it nothing could ever be due or sent.
* `AthSeeder` assumes of the outside nothing at all: Birdeye and Dexscreener may
  never answer. It assumes that a pass that reaches the queue does run it
  (`SF(StartQueue)`: every third pass does unless it fails, and not every pass fails).
* `Discovery`: the endpoint takes a connection and a subscription now and then, and
  Dexscreener does not for ever keep a pool off its pages or without a price.
  `Resubscribes` needs only the first, `EventuallyTracked` the second.
* `FeeIndexer`: the endpoint becomes ready now and then.
* `BotProcess`: whoever runs it stops the old release, starts the new one, and runs
  the script when it does not come up (`SF(StartBot)`, `SF(StartDedup)`). Nothing else
  brings a database with duplicates up, which is what `ComesUp` is about.

## 4. What is proved

TLAPS checks the following for every value of the constants. Every safety property of a
passing run, invariant or action property, is stated by a theorem; the runs show on an
instance what the theorem says of all.

| Theorem | States | Needs |
|---|---|---|
| `AlertLoopTypeOK` | types | |
| `AlertLoopImplementsLadder` | `Spec => Ladder!Spec`, step simulation | |
| `AlertLoopOncePerTier` | a tier reaches the chat at most once more than the bot slipped; from the refinement and `LadderOncePerTier` | |
| `AlertLoopMarkedHasRecord`, `AlertLoopRecordsMatchChat` | marked rows have records; records have messages, and messages records unless in the making or after a slip | |
| `AlertLoopOnlyFeedersRevive` | only a feeder takes a row out of a terminal status | |
| `AlertLoopSilentInCooldown` | no message for a row in a cooldown or not alertable, but for a feeder's row, and that without ghost cooldown or terminal status | |
| `LadderTypeOK`, `LadderOncePerTier` | the abstract ladder | `NumTiers \in Nat` |
| `AthMirrored` | memory and table of the retry queue agree between two writes | `Feeders = {}`, no failed write |
| `AthRunningMaxNeverSeeded` | `running_max` only where Birdeye never succeeded | `Feeders = {}` |
| `AthNeverRegress` | no step lowers the row's ATH | `Feeders = {}` |
| `AthUnseededQueued` | a live unseeded ATH is queued | no crash, no row of the old release |
| `DiscoveryAccounted` | no migration is dropped but in the ways named | |
| `DiscoveryKeptUntilOld` | a mint leaves the queue with its row, too old or with the process, and never grows younger | |
| `GatesVersionsAgree`, `GatesUnknownConvictsNobody` | both versions of the ghost filter agree; the verdict is that on the wallets that are known | |
| `GatesCooldownOutlivesVerdict`, `GatesCooldownExplained` | no cached block outlives its cooldown; a cooldown has its marked row | |
| `GatesBlocksAccountedFor` | the block log sums to what was withheld | |
| `GatesNoAlertAfterBadLabel` | no alert after a blocking score was logged, unless the gate raised | |
| `FeesNoneMissing`, `FeesCountedOnce` | an event is in batch or table but for faults and prunes, and in one row | |
| `FeesBribesExact` | the sums that are read count each transaction once | |
| `FastDipWindowMirrored` | the detector's dicts agree, within the cap, each signature once | |
| `FastDipWindowExact` | later than its last disturbance a window has the distinct swaps of the last minute, all of it after a restart that found recent fees | |
| `FastDipOneOpenDip`, `FastDipRowsOwnTheirDips` | a dip is open as long as its token is in it; tasks write to their own row only | |
| `BotTypeOK` | types | |
| `BotColumnsInPlace`, `BotAttemptsKept`, `BotSeedsKeepSource` | an upgrade interrupted anywhere keeps column order, counts and Birdeye's labels | |
| `BotOutcomesBracketed` | what a whole poll recorded lies between trough and peak, and both were seen | |
| `BotOneRecapPerMidnight` | one recap per midnight | |
| `BotAnsweredOncePerLife`, `BotForgottenWhenAnswered` | an update is answered once a life; what Telegram forgot was answered, dropped or lost to a crash | |

**Assumptions.** Each module states the assumption on its constants by name, and TLC evaluates it on
every run. Beyond types they are: `CacheTtl <= Cooldown` in `AlertGates` (3600 s and 3660 s; without it a
cached block would be used after its cooldown), `BlockLabelsAssumption` (a label that blocks is followed only by
ones that block, as in the configuration's list, or the sticky maximum would not be safe),
`BackfillCap <= TokenCap` in `FastDip`, `KeepSeen <= MaxSeen` and `FirstDelay <= MaxDelay` in `Discovery`, the order of the
thresholds in `AthSeeder` and `HolderSnapshot`, and finite sets of prices and accounts.

**Hypotheses of single theorems** say where a property stops being true of the code, not where the
proof stops. A feeder that is still in `seed_ath_for_token` writes back an older copy of the row, which
can lower the ATH, take Birdeye's label or a cooldown from it, and queue the token under the loop's feet: hence
`Feeders = {}` where the loop must be the only writer. `SilentInCooldown` holds with any feeders and names what they can do: a
row in "tracking" with a phantom cooldown may be announced, once the loop holds an older copy. The mirror of the queue differs from memory for as long as a failed write is not
repeated. A crash drops what was queued and not yet written, and rows of the old release
start `unseeded` without an entry. The runs `seeder_loop` and `seeder_live` have the same restrictions, and
`alert_settled` has the feeder that runs within the loop only: those beside it multiply the states past what
liveness allows, and the theorems speak for them.

**The inductive invariants.** None of these properties is inductive alone.

* `AlertLoopProofs`: `Typed /\ CopyInv /\ ClimbInv /\ RecordInv /\ StatusInv`. `Typed` adds to `TypeOK` that a
  task with something in hand has a real token and tier in hand. `CopyInv`: at most one alert per token is due,
  and it is deeper than the tier of the copy; a feeder's copy never has a tier or a
  terminal status; without it an announcement need not climb. `ClimbInv`: neither row nor copy says less
  than was announced, except for the announcement in hand; with `CopyInv` it gives `climb < curTier` at
  `send`, the guard of the ladder's `Announce`. `RecordInv`: tiers in rows and copies have records,
  records have messages. `StatusInv`: the loop never holds a non-terminal copy of a
  terminal row where it saves one. `QuietInv`, for the cooldowns: what is due or in hand is quiet in the copy
  until the message is out, and its row is quiet or a feeder's; with `FeederCopies`, that feeders write no other
  status than "tracking", no tier and no ghost cooldown. The refinement is the initial states plus one lemma (`LadderStep`): every step
  is a step of the ladder or a stutter.
* `AthSeederProofs`: `CopyHigh` (from its first reading of a pass on the loop's copy is as high as the row),
  `HitKnown` (after a success of Birdeye row and copy say so), `MirrorInv` (the entry to be
  written is the one in memory, at each place where the mirror may be behind), `QueuedInv` (where a live unseeded ATH may be in a row or
  in a copy that will be saved, the entry is held; the loop removes what it has labelled).
* `DiscoveryProofs`: `HeldInv`: a mint is held by its row, the queue, the handler, or a message whose
  signature is not yet seen; `Accounted` alone also counts messages that the handler will drop as seen. `SigsInv` ties
  messages to migrations; `PassInv` says that what a pass will take out of the queue has a row or is too old.
* `AlertGatesProofs`: `PassInv` (what the pass in hand has decided, and that it runs only without a cooldown), `CooldownInv`
  (the age of the newest block plus what is left of the cooldown is at least the cache time, unless the pass that
  logged it is about to set the cooldown).
* `FeeIndexerProofs`: `TableInv` with `CarryOK`: the fees of a transaction are with its first event, so at most one
  row carries them, whichever of its rows the index refuses; `ChunksLeft` bounds the prune.
* `FastDipProofs`: for the dips `Good`: `Bound` (a token is bound to its own dip, the only one without an end),
  `Rows` (a dip whose INSERT runs has its other tasks before it; no two dips share a row). It is stated of any dips and
  bindings, because one swap may evict one token's dip and begin another's. For the windows `WinInv`: `TouchOK` (the order of touches
  has no token twice and is the domain of the dicts), `WindowsOK`, `FeesOK` (what the
  table has is finite and spans one window). `ExactInv` adds that a window is sorted later than `since`, without which popping from the left would
  not be dropping the old. `TypesInv` adds that every row has a dip, from which row ids are bounded by the
  number of dips (a pigeonhole, `FewerRows`).
* `BotProcessProofs`: `LogInv` (each key has one row with its count, a row per attempt, or none, and the open transaction of the script
  either of these), `ColumnsInv` (the columns are a prefix of CREATE TABLE's, all of them from the outcome columns on), `SourceInv` (only
  a start that has just added the column fills it), `QuoteInv` (between the two UPDATEs no peak is below the price in hand), `RecapInv` (a recap is due at midnight only), `CommandInv` (what
  this life has not polled or has in hand it has not answered).

**Lemmas about data.** What is summed is counted in units (`Units`, `SumCounts` in `AlertGatesProofs`), so that a sum
is the cardinality of a set and adding to it adds elements. Facts by induction over sets and numbers go through a minimal counterexample
(`WFMin` of the library, as `Least`, `NatInduct`, `SetInduct`): the last element that a filter keeps, the first maximum of a window, the first
swap inside the cutoff. Models were changed where they could not be reasoned about, never in what they do:
sequences whose order the code leaves open became sets or any such order (`TopAccounts`, `Backfills`,
`MostActive`, `batch`). Two properties were too weak or false as first written: `BlocksAccountedFor` counted past its bound, and
`KeptUntilOld` did not say that an age never starts again.

**Only model-checked** are the liveness properties `NotPendingForever`, `QueueDrains`, `TimeoutSettles`, `MintQueueDrains`,
`Resubscribes`, `EventuallyTracked`, `OldRowsGo`, `StreamComesBack` and `ComesUp`: the prover does not reason about fairness.

## 5. Where the code departs from its own words

Shown by a run:

* `blocked_revived`: a feeder still inside `seed_ath_for_token` writes back the copy
  it made before the gate blocked the token, which is tracked and alerted again,
  although blocked is a "terminal state" (`database.py:1186`). A cooldown set by
  `_run_phantom_validation` is lost in the same way.
* `rehydrate_unseeded`: the rebuild of the queue drops an entry past `max_age`
  without the transition to `running_max` that the live queue makes
  (`modules/ath_seeder.py:287`), so the row stays `unseeded`.
* `recap_day`: at midnight of UTC-6 the recap loop asks for the alerts of the "last
  24h" (`main.py:307`) and sends a recap if there are any; `build_daily_recap` takes those with the
  current UTC date, that is of the last six hours. An alert of the other eighteen is in
  no daily recap. `/stats` builds the same text under "Last 24h performance" (`main.py:354`).

Met while modelling, without a run of their own:

* The same write of a feeder lowers `last_alerted_tier` to -1 and the tier fires again,
  although "Each tier only fires once" (`config.example.yaml:53`). A crash or failed
  write between message and `save_token`, or a lost answer of Telegram, has the same
  effect; the slips of the ladder count all of these.
* The window of the detector is popped at its head only, so a swap that arrived late,
  behind a newer one, stays past 60 s and can be the peak of a dip measured from "the
  last 60s" (`modules/fast_dip_detector.py:523`).
* "One DB row per fee event in the tx" (`modules/grpc_indexer.py:307`): the unique index on
  (signature, type) keeps the first of two events of a type; the fees of the second
  are not in the table. What the gate sums per transaction stays right (`BribesExact`).
* A start of this release on an old block log without duplicates creates the unique index and not the columns
  `retry_count` and `last_retry_at`, which only the script adds: until it has run, every `log_alert_block` raises, and the
  gate, which fails open, lets the alert through (`LogBlockRaises`; the attempts are in `refused`).
* "Over-fetch so we can aggregate by owner and still have >= limit" (`snapshot_holders.py:208`): the accounts are cut
  to the limit (`:236`) before they are added up, so a token with holders of several accounts is judged on fewer
  holders than were wanted (five accounts of four owners and a limit of four leave three).
* Six ALTERs of table `alerts` stand behind the guard of the first one (`database.py:623`). A start that dies among
  them leaves the rest undone for good, and the outcome UPDATEs that need them then fail, at debug level only.
* The ALTER of `ath_source` is committed before the backfill it guards (`database.py:554`). A start that dies between
  them leaves the rows of the old release `unseeded`, and no later start, nor the script that is "safe to re-run"
  (`scripts/migrate_add_ath_source.py:16`), labels them.
* A recap that failed is not retried "in 5 min" (`main.py:332`): the pause ends in planning the next midnight.

## 6. What is not modelled, and the plan

Left out for good: message wording and figures of reports, offline scripts and
exports, generated code and byte layouts, HTTP, the inspection gate (never
called), the shadow logs that nothing reads, the command line of
`snapshot_holders.py`. The ante taxonomy and the floors are pure classifiers with
a logged result: there is no state for them to get wrong.

Left for the proofs, in order:

1. An abstract log of dips (a token opens an episode, the episode ends once, its row follows) that
   `FastDip` implements.
2. An abstract set of mints, known, held and tracked, that `Discovery` implements while no fault occurs.
3. What a feeder cannot undo: versions of `NeverRegress` and `RunningMaxNeverSeeded` for any feeders, relative to
   the copies that are out.

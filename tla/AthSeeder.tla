----------------------------- MODULE AthSeeder -----------------------------
(***************************************************************************)
(* The ATH of one token and its provenance ath_source (modules/            *)
(* ath_seeder.py, price_tracker._process_token): the Birdeye seed, the     *)
(* retry queue in memory with its mirror in table ath_retry_queue, the     *)
(* reseeds, the T+15m correction, the live running max, and the rebuild    *)
(* of the queue after a restart.                                           *)
(*                                                                         *)
(* Two kinds of task write the row and the queue: the price loop, which    *)
(* handles one token after another (the others only take time), and the    *)
(* feeders that create and seed the token.  Each keeps its own copy of the *)
(* row across its awaits; one action stands for the code between two of    *)
(* them.  Retry intervals are shorter than a clock unit: the cadence gate  *)
(* may refuse at any time.                                                 *)
(***************************************************************************)
EXTENDS Oracles

CONSTANTS
  Feeders,         \* tasks that create and seed the token
  FirstSources,    \* "absent" (no row yet), or the source of an old row
  ReseedWindow,    \* ath_retry.reseed_window_seconds, in clock units
  CorrectionAge,   \* ath_retry.correction_delay_seconds
  PromotionAge,    \* the 1800 s of _process_token
  MaxAge,          \* ath_retry.max_age_seconds
  FaultKinds,      \* "crash" and "write", the faults that may happen
  MaxFaults        \* bound: how many

ASSUME ConstantsAssumption ==
  /\ FirstSources \subseteq {"absent", "unseeded", "fallback"}
  /\ {ReseedWindow, CorrectionAge, PromotionAge, MaxAge} \subseteq Nat
  /\ ReseedWindow <= MaxAge /\ CorrectionAge <= MaxAge /\ PromotionAge <= MaxAge
  /\ FaultKinds \subseteq {"crash", "write"} /\ MaxFaults \in Nat

Old == MaxAge + 1     \* past every threshold

\* ath_source, and "absent" for no row.
FromBirdeye == {"birdeye", "birdeye_reseeded", "birdeye_corrected", "birdeye_alert_refresh"}
Authoritative == FromBirdeye \cup {"birdeye_running_max"}
Sources == Authoritative \cup {"absent", "unseeded", "fallback", "running_max"}

Row == [src : Sources, ath : Prices \cup {0}]
MakeRow(src, ath) == [src |-> src, ath |-> ath]
NoRow == MakeRow("absent", 0)
FreshRow == MakeRow("unseeded", 0)

\* A queue entry: age since queued_at, and whether it has a first_success_at.
Entry == [held : BOOLEAN, age : 0 .. Old, first : BOOLEAN]
MakeEntry(held, age, first) == [held |-> held, age |-> age, first |-> first]
NoEntry == MakeEntry(FALSE, 0, FALSE)
NewEntry == MakeEntry(TRUE, 0, FALSE)
Requeued(e, first) == MakeEntry(TRUE, e.age, first)

VARIABLES
  row,      \* the token's row in table tokens
  age,      \* its age since migration_time, saturating at Old
  memq,     \* its entry in _ath_retry_queue
  dbq,      \* its row in table ath_retry_queue
  pc,       \* where the price loop is
  copy,     \* the loop's copy of the row
  ent,      \* the loop's copy of the entry
  now,      \* the token's age when process_retry_queue took the time
  fpc,      \* fpc[f]: where feeder f is
  fcopy,    \* its copy of the row
  fent,     \* the entry that it has queued and not yet mirrored
  hit,      \* history: a Birdeye ATH was saved to the row
  faults    \* faults so far

loopVars == <<pc, copy, ent, now>>
feedVars == <<fpc, fcopy, fent>>
vars == <<row, age, memq, dbq, loopVars, feedVars, hit, faults>>

LoopPc == {"down", "sleep", "poll", "enqueue", "pollsave", "reload", "alerts",
           "queue", "fetch", "judge", "ask", "validate", "upsert", "reupsert",
           "remove", "delete", "t15", "t15ask", "t15validate"}
FeedPc == {"idle", "build", "seed", "validate", "upsert"}

TypeOK ==
  /\ row \in Row /\ copy \in Row /\ fcopy \in [Feeders -> Row]
  /\ memq \in Entry /\ dbq \in Entry /\ ent \in Entry /\ fent \in [Feeders -> Entry]
  /\ age \in 0 .. Old /\ now \in 0 .. Old
  /\ pc \in LoopPc /\ fpc \in [Feeders -> FeedPc]
  /\ hit \in BOOLEAN /\ faults \in 0 .. MaxFaults

\* A new token, or the row and no queue entry that an earlier version left.
Init ==
  /\ \E s \in FirstSources, p \in Prices :
       row = IF s = "absent" THEN NoRow ELSE MakeRow(s, p)
  /\ age \in 0 .. Old
  /\ memq = NoEntry /\ dbq = NoEntry
  /\ pc = "sleep" /\ copy = NoRow /\ ent = NoEntry /\ now = 0
  /\ fpc = [f \in Feeders |-> "idle"] /\ fcopy = [f \in Feeders |-> NoRow]
  /\ fent = [f \in Feeders |-> NoEntry]
  /\ hit = FALSE /\ faults = 0

(***************************************************************************)
(* Helpers.                                                                *)
(***************************************************************************)
Later(n) == IF n < Old THEN n + 1 ELSE n
LaterEntry(e) == IF e.held THEN MakeEntry(TRUE, Later(e.age), e.first) ELSE e

\* save_token: the whole row.
Save(r) == row' = r /\ hit' = (hit \/ r.src \in FromBirdeye)
Keep == UNCHANGED <<row, hit>>
Fault(kind) == kind \in FaultKinds /\ faults < MaxFaults /\ faults' = faults + 1
Fail == Fault("write")

\* The loop changes its copy and saves it.
SaveCopy(r) == copy' = r /\ Save(r)

\* The loop goes on without touching anything else.
Goto(next) == pc' = next /\ UNCHANGED <<row, memq, dbq, copy, ent, now, hit, faults>>

(***************************************************************************)
(* The price loop: poll and alerts.                                        *)
(***************************************************************************)
Load ==
  /\ pc = "sleep"
  /\ pc' = "poll" /\ copy' = row
  /\ UNCHANGED <<row, age, memq, dbq, ent, now, feedVars, hit, faults>>

\* _process_token with a price above the ATH: the source of the new ATH.
LiveSource(src, promote) ==
  IF src \in {"birdeye", "birdeye_reseeded", "birdeye_corrected"} THEN "birdeye_running_max"
  ELSE IF src = "unseeded" /\ promote THEN "running_max" ELSE src

Polled(r, p, promote) ==
  IF p > r.ath THEN MakeRow(LiveSource(r.src, promote), p) ELSE r

\* A price; a young unseeded token with a new ATH is queued for Birdeye first.
PollHit(p) ==
  /\ pc = "poll" /\ copy.src # "absent"
  /\ IF copy.src = "unseeded" /\ p > copy.ath /\ age < PromotionAge /\ ~memq.held
       THEN /\ copy' = Polled(copy, p, FALSE)
            /\ memq' = NewEntry /\ ent' = NewEntry
            /\ pc' = "enqueue" /\ Keep
       ELSE /\ SaveCopy(Polled(copy, p, age >= PromotionAge))
            /\ pc' = "reload" /\ UNCHANGED <<memq, ent>>
  /\ UNCHANGED <<age, dbq, now, feedVars, faults>>

\* enqueue_retry mirrors the entry; if that fails, the row is not saved.
Enqueue ==
  /\ pc = "enqueue"
  /\ \/ dbq' = ent /\ pc' = "pollsave" /\ UNCHANGED faults
     \/ Fail /\ pc' = "reload" /\ UNCHANGED dbq
  /\ ent' = NoEntry
  /\ UNCHANGED <<row, age, memq, copy, now, feedVars, hit>>

PollSave ==
  /\ pc = "pollsave"
  /\ Save(copy) /\ pc' = "reload"
  /\ UNCHANGED <<age, memq, dbq, copy, ent, now, feedVars, faults>>

\* No row, no pair, no price, a failed save, or a pass without a poll.
PollMiss == pc \in {"poll", "pollsave"} /\ Goto("reload") /\ UNCHANGED <<age, feedVars>>

Reload ==
  /\ pc = "reload"
  /\ pc' = "alerts" /\ copy' = row
  /\ UNCHANGED <<row, age, memq, dbq, ent, now, feedVars, hit, faults>>

\* refresh_ath_at_alert with a higher ATH; a failed save is caught.
Refresh(p) ==
  /\ pc = "alerts" /\ copy.src # "absent" /\ p > copy.ath
  /\ copy' = MakeRow("birdeye_alert_refresh", p)
  /\ \/ Save(copy') /\ UNCHANGED faults
     \/ Fail /\ Keep
  /\ UNCHANGED <<pc, age, memq, dbq, ent, now, feedVars>>

\* mark_alerted or a ghost cooldown saves the copy for other columns' sake.
SaveBack ==
  /\ pc = "alerts" /\ copy.src # "absent"
  /\ Save(copy)
  /\ UNCHANGED <<age, memq, dbq, loopVars, feedVars, faults>>

\* The retry queues run on the Dex cadence, and not after an exception.
StartQueue == pc = "alerts" /\ Goto("queue") /\ UNCHANGED <<age, feedVars>>
EndPass == pc = "alerts" /\ Goto("sleep") /\ UNCHANGED <<age, feedVars>>

(***************************************************************************)
(* process_retry_queue.                                                    *)
(***************************************************************************)
NotQueued == pc = "queue" /\ ~memq.held /\ Goto("t15") /\ UNCHANGED <<age, feedVars>>

\* The entries are copied and the time is taken once for the whole queue.
TakeEntry ==
  /\ pc = "queue" /\ memq.held
  /\ ent' = memq /\ now' = age /\ pc' = "fetch"
  /\ UNCHANGED <<row, age, memq, dbq, copy, feedVars, hit, faults>>

Fetch ==
  /\ pc = "fetch"
  /\ copy' = row /\ pc' = "judge"
  /\ UNCHANGED <<row, age, memq, dbq, ent, now, feedVars, hit, faults>>

\* Mutants: only old rows are resolved; every source is.
UnresolvedFallback == {"fallback"}
UnresolvedAll == Sources \ {"absent"}

\* The sources that the age ceiling turns into running_max.
Unresolved == {"unseeded", "fallback"}

Seeded(r) == r.src \in {"birdeye", "birdeye_reseeded"}

\* Mutant: the age ceiling spares the rows that it does not relabel.
GivenUpUnresolved == now > MaxAge /\ copy.src \in Unresolved

GivenUp == now > MaxAge

\* Mutant: the reseed window ends the retries of unseeded rows, too.
SettledByAge == now > ReseedWindow

Settled == Seeded(copy) /\ now > ReseedWindow

\* Tokens are saved before they are queued and never deleted: the exit of the
\* queue for a token without a row is never taken.

\* Age ceiling.  A failed save ends the pass over the queue.
JudgeGivenUp ==
  /\ pc = "judge" /\ GivenUp
  /\ IF copy.src \in Unresolved
       THEN \/ /\ SaveCopy(MakeRow("running_max", copy.ath))
               /\ pc' = "remove" /\ UNCHANGED faults
            \/ Fail /\ pc' = "t15" /\ Keep /\ UNCHANGED copy
       ELSE pc' = "remove" /\ Keep /\ UNCHANGED <<copy, faults>>
  /\ UNCHANGED <<age, memq, dbq, ent, now, feedVars>>

JudgeSettled ==
  /\ pc = "judge" /\ ~GivenUp /\ Settled
  /\ Goto("remove") /\ UNCHANGED <<age, feedVars>>

\* The cadence gate: not due yet, or ask Birdeye.
JudgeWait ==
  /\ pc = "judge" /\ ~GivenUp /\ ~Settled
  /\ Goto("t15") /\ UNCHANGED <<age, feedVars>>
JudgeAsk ==
  /\ pc = "judge" /\ ~GivenUp /\ ~Settled
  /\ Goto("ask") /\ UNCHANGED <<age, feedVars>>

\* The entry goes back into the queue, and next into the table.
Requeue(first, next) ==
  /\ ent' = Requeued(ent, first) /\ memq' = ent' /\ pc' = next

\* Mutant: a miss is not mirrored.
AskMissUnmirrored(next) ==
  /\ pc = "ask" /\ Requeue(FALSE, "t15")
  /\ UNCHANGED <<row, age, dbq, copy, now, feedVars, hit, faults>>

\* No data, or an exception of Birdeye or of the save after a hit: the entry
\* stays, without first_success_at.
AskMiss(next) ==
  /\ pc = "ask" /\ Requeue(FALSE, next)
  /\ UNCHANGED <<row, age, dbq, copy, now, feedVars, hit, faults>>

Reseeding == ent.first \/ Seeded(copy)

\* Reseed: only a higher ATH is taken.
AskReseed(p) ==
  /\ pc = "ask" /\ Reseeding
  /\ IF p > copy.ath
       THEN SaveCopy(MakeRow("birdeye_reseeded", p)) /\ pc' = "validate"
            /\ UNCHANGED <<ent, memq>>
       ELSE Requeue(TRUE, "upsert") /\ Keep /\ UNCHANGED copy
  /\ UNCHANGED <<age, dbq, now, feedVars, faults>>

\* Mutant: Birdeye's value is taken as it is.
SeededRowLower(r, p) == MakeRow("birdeye", p)

\* First success: a running max that is higher is not given up.
SeededRow(r, p) == IF r.ath > p THEN MakeRow("birdeye", r.ath) ELSE MakeRow("birdeye", p)

AskSeed(p) ==
  /\ pc = "ask" /\ ~Reseeding
  /\ SaveCopy(SeededRow(copy, p)) /\ pc' = "validate"
  /\ UNCHANGED <<age, memq, dbq, ent, now, feedVars, faults>>

\* _run_phantom_validation: a phantom sets the cooldown and saves the copy
\* again; a save that fails is caught.
Validated(r) ==
  \E current \in CurrentAnswers :
    IF IsPhantom(r.ath, current) THEN Save(r) \/ Keep ELSE Keep

\* Then the entry stays for reseeds, or the token is too old for them.
Validate ==
  /\ pc = "validate" /\ Validated(copy)
  /\ IF copy.src = "birdeye_reseeded" \/ now < ReseedWindow
       THEN Requeue(TRUE, "upsert")
       ELSE pc' = "remove" /\ UNCHANGED <<ent, memq>>
  /\ UNCHANGED <<age, dbq, copy, now, feedVars, faults>>

\* The mirror.  The first failure is handled like a failure of Birdeye, the
\* second ends the pass over the queue.
Upsert ==
  /\ pc \in {"upsert", "reupsert"}
  /\ dbq' = ent /\ pc' = "t15"
  /\ UNCHANGED <<row, age, memq, copy, ent, now, feedVars, hit, faults>>
UpsertFails ==
  /\ Fail
  /\ \/ pc = "upsert" /\ Requeue(FALSE, "reupsert")
     \/ pc = "reupsert" /\ pc' = "t15" /\ UNCHANGED <<ent, memq>>
  /\ UNCHANGED <<row, age, dbq, copy, now, feedVars, hit>>

\* to_remove, after the other tokens, one of which may have ended the pass:
\* first the memory, then the table.
Remove ==
  /\ pc = "remove"
  /\ \/ memq' = NoEntry /\ pc' = "delete" /\ UNCHANGED faults
     \/ Fail /\ pc' = "t15" /\ UNCHANGED memq
  /\ UNCHANGED <<row, age, dbq, copy, ent, now, feedVars, hit>>
Delete ==
  /\ pc = "delete" /\ pc' = "t15"
  /\ \/ dbq' = NoEntry /\ UNCHANGED faults
     \/ Fail /\ UNCHANGED dbq
  /\ UNCHANGED <<row, age, memq, copy, ent, now, feedVars, hit>>

(***************************************************************************)
(* process_t15m_correction.                                                *)
(***************************************************************************)
Correctable == Seeded(row) \/ row.src = "birdeye_running_max"

T15Load ==
  /\ pc = "t15"
  /\ copy' = row /\ ent' = NoEntry /\ now' = 0
  /\ pc' = IF Correctable /\ age = CorrectionAge THEN "t15ask" ELSE "sleep"
  /\ UNCHANGED <<row, age, memq, dbq, feedVars, hit, faults>>

T15Hit(p) ==
  /\ pc = "t15ask" /\ p > copy.ath
  /\ SaveCopy(MakeRow("birdeye_corrected", p)) /\ pc' = "t15validate"
  /\ UNCHANGED <<age, memq, dbq, ent, now, feedVars, faults>>

T15Validate ==
  /\ pc = "t15validate" /\ Validated(copy) /\ pc' = "sleep"
  /\ UNCHANGED <<age, memq, dbq, copy, ent, now, feedVars, faults>>

\* Nothing higher, or an error.
T15End == pc = "t15ask" /\ Goto("sleep") /\ UNCHANGED <<age, feedVars>>

(***************************************************************************)
(* The feeders: create the row, then seed_ath_for_token.                   *)
(***************************************************************************)
Feed(f, from, next, r, e) ==
  /\ fpc[f] = from
  /\ fpc' = [fpc EXCEPT ![f] = next] /\ fcopy' = [fcopy EXCEPT ![f] = r]
  /\ fent' = [fent EXCEPT ![f] = e]
  /\ UNCHANGED <<age, loopVars, faults>>

\* A step that leaves the queue and its mirror alone.
FeedRow(f, from, next, r) == Feed(f, from, next, r, NoEntry) /\ UNCHANGED <<memq, dbq>>

\* token_exists says no.
Discover(f) ==
  /\ pc # "down" /\ row.src = "absent"
  /\ FeedRow(f, "idle", "build", NoRow) /\ Keep
Create(f) == FeedRow(f, "build", "seed", FreshRow) /\ Save(FreshRow)

SeedHit(f, p) ==
  FeedRow(f, "seed", "validate", MakeRow("birdeye", p)) /\ Save(MakeRow("birdeye", p))
SeedValidated(f) == FeedRow(f, "validate", "idle", NoRow) /\ Validated(fcopy[f])

\* No data yet: the row is saved as unseeded and queued, whatever is there.
SeedMiss(f) ==
  /\ Feed(f, "seed", "upsert", NoRow, NewEntry)
  /\ Save(fcopy[f]) /\ memq' = NewEntry /\ UNCHANGED dbq
SeedUpsert(f) ==
  /\ Feed(f, "upsert", "idle", NoRow, NoEntry)
  /\ dbq' = fent[f] /\ Keep /\ UNCHANGED memq

\* No token built, or an error of Birdeye or of a write.
SeedEnd(f) == fpc[f] \notin {"idle", "validate"} /\ FeedRow(f, fpc[f], "idle", NoRow) /\ Keep

(***************************************************************************)
(* The world.                                                              *)
(***************************************************************************)
Clock ==
  /\ age < Old \/ memq.age < Old \/ dbq.age < Old
  /\ age' = Later(age)
  /\ memq' = LaterEntry(memq) /\ dbq' = LaterEntry(dbq) /\ ent' = LaterEntry(ent)
  /\ fent' = [f \in Feeders |-> LaterEntry(fent[f])]
  /\ UNCHANGED <<row, pc, copy, now, fpc, fcopy, hit, faults>>

Crash ==
  /\ pc # "down" /\ Fault("crash")
  /\ pc' = "down" /\ memq' = NoEntry
  /\ copy' = NoRow /\ ent' = NoEntry /\ now' = 0
  /\ fpc' = [f \in Feeders |-> "idle"] /\ fcopy' = [f \in Feeders |-> NoRow]
  /\ fent' = [f \in Feeders |-> NoEntry]
  /\ UNCHANGED <<row, age, dbq, hit>>

\* rehydrate_retry_queue: entries past the ceiling and tokens that are gone or
\* seeded are dropped, and the row is left as it is.
Pruned == dbq.age > MaxAge \/ row.src \in {"absent", "birdeye", "birdeye_corrected"}

Restart ==
  /\ pc = "down" /\ pc' = "sleep"
  /\ IF dbq.held /\ Pruned THEN dbq' = NoEntry /\ UNCHANGED memq
                           ELSE memq' = dbq /\ UNCHANGED dbq
  /\ UNCHANGED <<row, age, copy, ent, now, feedVars, hit, faults>>

PollStep == Load \/ Enqueue \/ PollSave \/ PollMiss \/ Reload \/ \E p \in LivePrices : PollHit(p)
AlertStep == SaveBack \/ StartQueue \/ EndPass \/ \E p \in BirdeyeAths : Refresh(p)
QueueStep ==
  \/ NotQueued \/ TakeEntry \/ Fetch \/ JudgeGivenUp \/ JudgeSettled
  \/ JudgeWait \/ JudgeAsk \/ AskMiss("upsert") \/ AskMiss("reupsert") \/ Validate
  \/ \E p \in BirdeyeAths : AskReseed(p) \/ AskSeed(p)
  \/ Upsert \/ UpsertFails \/ Remove \/ Delete
T15Step == T15Load \/ T15Validate \/ T15End \/ \E p \in BirdeyeAths : T15Hit(p)
LoopStep == PollStep \/ AlertStep \/ QueueStep \/ T15Step
FeederStep(f) ==
  \/ Discover(f) \/ Create(f) \/ SeedValidated(f) \/ SeedMiss(f) \/ SeedUpsert(f)
  \/ SeedEnd(f) \/ \E p \in BirdeyeAths : SeedHit(f, p)

Next == LoopStep \/ Clock \/ Crash \/ Restart \/ \E f \in Feeders : FeederStep(f)

Spec == Init /\ [][Next]_vars

\* The loop never ends, every third pass runs the queue unless it fails, and
\* the process is started again; the price of a token may stay away forever.
FairSpec ==
  /\ Spec
  /\ WF_vars(LoopStep) /\ SF_vars(StartQueue) /\ WF_vars(Clock) /\ WF_vars(Restart)

(***************************************************************************)
(* Properties.                                                             *)
(***************************************************************************)

\* Between its writes the loop keeps the queue and its mirror equal, through
\* crashes and restarts, too (database.upsert_ath_retry: "Mirror one
\* in-memory _ath_retry_queue entry to disk").
Mirrored ==
  /\ TypeOK
  /\ pc \notin {"down", "enqueue", "upsert", "reupsert", "delete"} => memq = dbq

\* A live ATH that is still unseeded is in the retry queue, or the row would
\* stay unseeded: the poll queues before it saves, and no exit of the queue
\* leaves an unseeded row behind, whatever the feeders do meanwhile.
UnseededQueued == pc # "down" /\ row.src = "unseeded" /\ row.ath > 0 => memq.held

\* The loop never lowers an ATH ("never regress a running-max ath_price").
NeverRegress == [][row'.ath >= row.ath]_vars

\* running_max says that Birdeye never succeeded (models.ath_source).
RunningMaxNeverSeeded == row.src = "running_max" => ~hit

\* The retry queue gives every token up in the end: a chain of failed retries
\* cannot extend the window, and nothing else keeps the entry alive.
QueueDrains == <>[](~memq.held)

\* A live ATH that waits in the queue and in its mirror does not stay unseeded ("give up;
\* 'fallback'/'unseeded' -> 'running_max'").
TimeoutSettles ==
  row.src = "unseeded" /\ row.ath > 0 /\ memq.held /\ dbq.held ~> row.src # "unseeded"
=============================================================================

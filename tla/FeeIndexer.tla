----------------------------- MODULE FeeIndexer -----------------------------
(***************************************************************************)
(* From the gRPC stream to table pumpswap_fees and out of it again         *)
(* (modules/grpc_indexer.py, utils/grpc_decoder.py, utils/onchain_fees.py, *)
(* database.save_pumpswap_fees_batch, database.prune_old_pumpswap_fees):   *)
(* reconnections, the decoding of a transaction into fee events, the       *)
(* pending batch and its flush, the unique index, and the hourly prune     *)
(* that deletes old rows chunk by chunk while the indexer inserts.         *)
(*                                                                         *)
(* A transaction is what the stream says of it, Info[x]:                   *)
(*   payloads      its Anchor events in order, [kind, pool]                *)
(*   balances      its token balances, before and after, [owner, mint]     *)
(*   instructions  its instructions, [program, sets, price]                *)
(*   units         the compute units it consumed, 0 if that is not said    *)
(*   changes       what each account won or lost, [account, lamports]      *)
(*   fee           tx.meta.fee                                             *)
(*   failed        whether it failed                                       *)
(***************************************************************************)
EXTENDS Integers, Sequences, FiniteSets, FiniteSetsExt, SequencesExt

CONSTANTS
  Txs,           \* transactions of the stream; each may come more than once
  Info,          \* see above
  Owners, Mints, \* owners of balances, pools among them, and mints
  Wsol, NoPool,  \* the mint of wrapped SOL, which is in Mints; no owner
  Million,       \* the 1 000 000 micro-lamports of a lamport
  BatchMax,      \* BATCH_MAX_SIZE
  BatchAge,      \* BATCH_MAX_AGE_SECONDS, in clock units
  FirstBackoff,  \* INITIAL_BACKOFF
  MaxBackoff,    \* MAX_BACKOFF
  Retention,     \* the 48 h of the prune
  PruneInterval, \* PRUNE_INTERVAL_SECONDS
  ChunkSize,     \* rows deleted at a time
  MaxChunks,     \* MAX_CHUNKS of one prune
  FaultKinds,    \* "write", "stream" and "crash", the faults that may happen
  MaxFaults      \* bound: how many

Kinds == {"buy", "sell"}

ASSUME FeeIndexerAssumption ==
  /\ Wsol \in Mints /\ NoPool \notin Owners
  /\ \A x \in Txs :
       /\ Info[x].payloads \in Seq([kind : Kinds \cup {"other"}, pool : Owners])
       /\ Info[x].balances \in Seq([owner : Owners, mint : Mints])
       /\ Info[x].instructions \in Seq([program : {"budget", "other"}, sets : {"price", "other"}, price : Nat])
       /\ Info[x].changes \in Seq([account : {"tip", "other"}, lamports : Int])
       /\ {Info[x].units, Info[x].fee} \subseteq Nat /\ Info[x].failed \in BOOLEAN
  /\ {Million, BatchMax, ChunkSize, MaxChunks, PruneInterval, FirstBackoff} \subseteq Nat \ {0}
  /\ {BatchAge, MaxBackoff, Retention, MaxFaults} \subseteq Nat
  /\ FirstBackoff <= MaxBackoff
  /\ FaultKinds \subseteq {"write", "stream", "crash"}

VARIABLES
  up,        \* the process runs
  conn,      \* "connecting", "stream", "sleep"
  backoff,   \* what the next reconnect will wait
  wait,      \* what is left of this wait
  pending,   \* the batch
  since,     \* time since the last flush, saturating at BatchAge
  table,     \* pumpswap_fees: its rows in the order of their ids
  ppc,       \* the prune loop: "sleep" or "chunk"
  rest,      \* until its next prune
  stale,     \* how many of its first rows are before the cutoff of this prune
  chunks,    \* its chunks so far
  heard,     \* history: keys decoded that no fault and no prune took away
  faults     \* faults so far

connVars == <<conn, backoff, wait>>
pruneVars == <<ppc, rest, stale, chunks>>
vars == <<up, connVars, pending, since, table, pruneVars, heard, faults>>

Old == Retention + 1     \* ages saturate here

(***************************************************************************)
(* Decoding.                                                               *)
(***************************************************************************)
\* The subscription asks for transactions that did not fail.
Streamed == {x \in Txs : ~Info[x].failed}

\* The elements of s at the places in set at, in their order.
Among(s, at) ==
  LET taken[n \in 0 .. Len(s)] ==
        IF n = 0 THEN <<>> ELSE IF n \in at THEN Append(taken[n - 1], s[n]) ELSE taken[n - 1]
  IN  taken[Len(s)]

\* The payloads that are fee events (discriminator and length match).
FeeEvents(x) == {i \in DOMAIN Info[x].payloads : Info[x].payloads[i].kind # "other"}

\* extract_pool_and_mint: the first owner of wrapped SOL and of another mint.
MintsOf(x, owner) ==
  {b.mint : b \in {c \in ToSet(Info[x].balances) : c.owner = owner}}
HasBoth(x, owner) == Wsol \in MintsOf(x, owner) /\ MintsOf(x, owner) # {Wsol}
Pool(x) ==
  LET sides == SelectSeq(Info[x].balances, LAMBDA b : HasBoth(x, b.owner))
  IN  IF sides = <<>> THEN NoPool ELSE Head(sides).owner

\* Without a pool nothing is decoded; events that name another are dropped.
Kept(x) ==
  Among(Info[x].payloads,
        {i \in FeeEvents(x) : Pool(x) # NoPool /\ Info[x].payloads[i].pool = Pool(x)})

\* The first compute unit price that is set by the compute budget program.
CuPrice(x) ==
  LET all == Info[x].instructions
      at == {i \in DOMAIN all : all[i].program = "budget" /\ all[i].sets = "price"}
  IN  IF at = {} THEN 0 ELSE all[CHOOSE i \in at : \A j \in at : i <= j].price

\* calc_priority_fee_lamports: rounded up, zero without a price or units.
PriorityFee(x) == (CuPrice(x) * Info[x].units + (Million - 1)) \div Million

\* What the Jito tip accounts won.
JitoTip(x) ==
  LET all == Info[x].changes
      won == {i \in DOMAIN all : all[i].account = "tip" /\ all[i].lamports > 0}
  IN  SumFunction([i \in won |-> all[i].lamports])

Bribe(x) == PriorityFee(x) + JitoTip(x)

\* What the transaction paid beside the fees of the pool.
Ante(x) == Info[x].fee + Bribe(x)

\* A record of the batch, and later a row with its age.
Record(x, kind, first) == [tx |-> x, kind |-> kind, first |-> first]
Row(rec, age) == [tx |-> rec.tx, kind |-> rec.kind, first |-> rec.first, age |-> age]

\* Mutant: every row of the transaction carries its fees.
RecordsOfEach(x) == [i \in DOMAIN Kept(x) |-> Record(x, Kept(x)[i].kind, TRUE)]

\* One record per event; the fees of the transaction go with the first.
RecordsOf(x) == [i \in DOMAIN Kept(x) |-> Record(x, Kept(x)[i].kind, i = 1)]

Records == [tx : Txs, kind : Kinds, first : BOOLEAN]
Rows == {Row(rec, age) : rec \in Records, age \in 0 .. Old}

TypeOK ==
  /\ up \in BOOLEAN /\ conn \in {"connecting", "stream", "sleep"}
  /\ backoff \in FirstBackoff .. MaxBackoff /\ wait \in 0 .. MaxBackoff
  /\ pending \in Seq(Records) /\ Len(pending) < BatchMax /\ since \in 0 .. BatchAge
  /\ table \in Seq(Rows) /\ stale \in 0 .. Len(table)
  /\ ppc \in {"sleep", "chunk"} /\ rest \in 0 .. PruneInterval
  /\ chunks \in 0 .. MaxChunks /\ heard \subseteq Txs \X Kinds /\ faults \in 0 .. MaxFaults

Init ==
  /\ up = TRUE /\ conn = "connecting" /\ backoff = FirstBackoff /\ wait = 0
  /\ pending = <<>> /\ since = 0 /\ table = <<>>
  /\ ppc = "sleep" /\ rest = PruneInterval /\ stale = 0 /\ chunks = 0
  /\ heard = {} /\ faults = 0

(***************************************************************************)
(* The table.  Its unique index is on (signature, event_type).             *)
(***************************************************************************)
Key(r) == <<r.tx, r.kind>>
KeysOf(batch) == {Key(batch[i]) : i \in DOMAIN batch}
New(rec) == Row(rec, 0)

\* Mutant: without the index an event that comes again is counted again.
InsertedAll(batch) == table \o [i \in DOMAIN batch |-> New(batch[i])]

\* executemany INSERT OR IGNORE: the first record of a key that is not there.
Inserted(batch) ==
  LET first == {i \in DOMAIN batch : /\ Key(batch[i]) \notin KeysOf(table)
                                     /\ \A j \in 1 .. i - 1 : Key(batch[j]) # Key(batch[i])}
      fresh == Among(batch, first)
  IN  table \o [i \in DOMAIN fresh |-> New(fresh[i])]

Fault(kind) == kind \in FaultKinds /\ faults < MaxFaults /\ faults' = faults + 1

\* A batch is written, or it is lost with the keys that nobody else holds.
Written(batch) == table' = Inserted(batch) /\ UNCHANGED <<heard, faults>>
LostTo(kind, batch) ==
  /\ Fault(kind) /\ heard' = heard \ (KeysOf(batch) \ KeysOf(table)) /\ UNCHANGED table

\* The rows with a priority fee.
Carriers == {i \in DOMAIN table : table[i].first}

\* _fetch_fee_stats: priority fees and tips summed over the rows that have them.
Bribes == SumFunction([i \in Carriers |-> Bribe(table[i].tx)])

\* _compute_ante_stats: the samples, by row, of which its windows take the newest.
AnteSamples == [i \in Carriers |-> Ante(table[i].tx)]

(***************************************************************************)
(* run_grpc_indexer: connect, stream, back off.                            *)
(***************************************************************************)
\* The channel is ready in time; a new stream starts with an empty batch.
Ready ==
  /\ up /\ conn = "connecting"
  /\ conn' = "stream" /\ backoff' = FirstBackoff /\ since' = 0
  /\ UNCHANGED <<up, wait, pending, table, pruneVars, heard, faults>>

Doubled(b) == IF b * 2 < MaxBackoff THEN b * 2 ELSE MaxBackoff

\* Whatever ends the attempt, the loop waits and doubles the next wait.
Sleep(from) ==
  /\ up /\ conn = from /\ conn' = "sleep"
  /\ wait' = backoff /\ backoff' = Doubled(backoff) /\ UNCHANGED <<up, pruneVars>>

NotReady == Sleep("connecting") /\ UNCHANGED <<pending, since, table, heard, faults>>

\* Mutant: at the ceiling the loop gives up.
ReconnectLimited ==
  /\ up /\ conn = "sleep" /\ wait = 0 /\ backoff < MaxBackoff /\ conn' = "connecting"
  /\ UNCHANGED <<up, backoff, wait, pending, since, table, pruneVars, heard, faults>>

Reconnect ==
  /\ up /\ conn = "sleep" /\ wait = 0 /\ conn' = "connecting"
  /\ UNCHANGED <<up, backoff, wait, pending, since, table, pruneVars, heard, faults>>

\* At the normal end of the stream the rest of the batch is flushed; with an
\* exception it goes with the stream.
StreamEnds ==
  /\ Sleep("stream") /\ pending' = <<>> /\ since' = 0
  /\ Written(pending) \/ LostTo("write", pending)
StreamBreaks ==
  /\ Sleep("stream") /\ pending' = <<>> /\ UNCHANGED since
  /\ LostTo("stream", pending)

(***************************************************************************)
(* _consume_stream: one update.                                            *)
(***************************************************************************)
Due(batch) == Len(batch) >= BatchMax \/ since >= BatchAge

\* Mutant: the batch that is flushed misses the update that filled it.
FlushShort(batch) ==
  /\ pending' = <<>> /\ since' = 0
  /\ table' = Inserted(pending) /\ heard' = heard \cup KeysOf(batch) /\ UNCHANGED faults

\* The write succeeds or fails; the batch is emptied anyhow.
Flush(batch) ==
  /\ pending' = <<>> /\ since' = 0
  /\ \/ /\ table' = Inserted(batch) /\ heard' = heard \cup KeysOf(batch) /\ UNCHANGED faults
     \/ LostTo("write", batch)

\* Only an update with a kept event looks at the size and age of the batch.
Update(x) ==
  LET batch == pending \o RecordsOf(x) IN
  /\ up /\ conn = "stream"
  /\ IF RecordsOf(x) = <<>> THEN UNCHANGED <<pending, since, table, heard, faults>>
     ELSE IF Due(batch) THEN Flush(batch)
     ELSE /\ pending' = batch /\ heard' = heard \cup KeysOf(batch)
          /\ UNCHANGED <<since, table, faults>>
  /\ UNCHANGED <<up, connVars, pruneVars>>

(***************************************************************************)
(* pumpswap_fees_prune_loop.                                               *)
(***************************************************************************)
\* Ids and times of receipt go together, so the rows past it are the first.
PastRetention == Cardinality({i \in DOMAIN table : table[i].age > Retention})

\* Mutant: the prune waits for a pause of the stream.
PruneStartInPause ==
  /\ up /\ ppc = "sleep" /\ rest = 0 /\ conn # "stream"
  /\ ppc' = "chunk" /\ stale' = PastRetention /\ chunks' = 0
  /\ UNCHANGED <<up, connVars, pending, since, table, rest, heard, faults>>

\* The cutoff is fixed for the whole prune.
PruneStart ==
  /\ up /\ ppc = "sleep" /\ rest = 0
  /\ ppc' = "chunk" /\ stale' = PastRetention /\ chunks' = 0
  /\ UNCHANGED <<up, connVars, pending, since, table, rest, heard, faults>>

PruneSleep == ppc' = "sleep" /\ rest' = PruneInterval /\ stale' = 0 /\ chunks' = 0

\* The scan by id deletes the first ChunkSize stale rows.  A chunk that is not
\* full is the last, and so is the one that makes MAX_CHUNKS.
PruneChunk ==
  LET n == IF stale < ChunkSize THEN stale ELSE ChunkSize
      deleted == SubSeq(table, 1, n) IN
  /\ up /\ ppc = "chunk"
  /\ table' = SubSeq(table, n + 1, Len(table))
  /\ heard' = heard \ (KeysOf(deleted) \ KeysOf(pending))
  /\ IF n < ChunkSize \/ chunks + 1 = MaxChunks
       THEN PruneSleep
       ELSE stale' = stale - n /\ chunks' = chunks + 1 /\ UNCHANGED <<ppc, rest>>
  /\ UNCHANGED <<up, connVars, pending, since, faults>>

\* The loop logs the error and sleeps.
PruneFails ==
  /\ up /\ ppc = "chunk" /\ Fault("write") /\ PruneSleep
  /\ UNCHANGED <<up, connVars, pending, since, table, heard>>

(***************************************************************************)
(* The clock, crashes and restarts.                                        *)
(***************************************************************************)
Less(n) == IF n > 0 THEN n - 1 ELSE 0
Older(r) == Row(r, IF r.age < Old THEN r.age + 1 ELSE Old)

Tick ==
  /\ wait' = Less(wait) /\ rest' = Less(rest)
  /\ since' = IF conn = "stream" /\ since < BatchAge THEN since + 1 ELSE since
  /\ table' = [i \in DOMAIN table |-> Older(table[i])]
  /\ UNCHANGED <<up, conn, backoff, pending, ppc, stale, chunks, heard, faults>>

Crash ==
  /\ up /\ up' = FALSE /\ LostTo("crash", pending) /\ pending' = <<>> /\ since' = 0
  /\ conn' = "connecting" /\ backoff' = FirstBackoff /\ wait' = 0 /\ PruneSleep

Restart ==
  /\ ~up /\ up' = TRUE
  /\ UNCHANGED <<connVars, pending, since, table, pruneVars, heard, faults>>

ConnStep == Ready \/ NotReady \/ Reconnect
StreamStep == StreamEnds \/ StreamBreaks \/ \E x \in Streamed : Update(x)
PruneStep == PruneStart \/ PruneFails \/ PruneChunk

Next == ConnStep \/ StreamStep \/ PruneStep \/ Tick \/ Crash \/ Restart

Spec == Init /\ [][Next]_vars

\* The loops keep running, the process is started again, and the endpoint
\* becomes ready now and then.
FairSpec ==
  /\ Spec
  /\ WF_vars(ConnStep) /\ SF_vars(Ready) /\ WF_vars(PruneStep) /\ WF_vars(Tick) /\ WF_vars(Restart)

(***************************************************************************)
(* Properties.                                                             *)
(***************************************************************************)

\* Every event decoded is in the batch or in the table, unless a fault took
\* the batch it was in, or the prune its row: the flush, the reconnection and
\* the prune's chunks lose nothing between them.
NoneMissing == heard \subseteq KeysOf(pending) \cup KeysOf(table)

\* At-least-once delivery counts once: the fees that the gates sum up hold no
\* event twice, also when it comes again after a reconnection or a prune.
CountedOnce ==
  /\ TypeOK
  /\ \A i, j \in DOMAIN table : Key(table[i]) = Key(table[j]) => i = j

\* The bribes that the fee gate sums are those of each transaction with a row
\* that carries them, once, and each sample of the ante windows is one of these
\* ("one row per distinct tx").
BribesExact ==
  LET paid == {table[i].tx : i \in Carriers} IN
  /\ Bribes = SumFunction([x \in paid |-> Bribe(x)])
  /\ SumFunction(AnteSamples) = SumFunction([x \in paid |-> Ante(x)])

\* A row past its 48 h goes in the end, though each prune is limited and the
\* stream goes on inserting.
OldRowsGo ==
  \A k \in Txs \X Kinds :
    LET Overdue == \E i \in DOMAIN table : Key(table[i]) = k /\ table[i].age = Old
    IN  Overdue ~> ~Overdue

\* The indexer never gives the stream up.
StreamComesBack == []<>(conn = "stream")
=============================================================================

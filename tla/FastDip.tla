------------------------------- MODULE FastDip -------------------------------
(***************************************************************************)
(* FastDipDetector (modules/fast_dip_detector.py): per token a window of   *)
(* the swaps of the last minute, an IDLE/IN_DIP state, and one row of      *)
(* table fast_dip_shadow per dip.  on_event is synchronous, hence one      *)
(* action; the INSERT, the UPDATE at the end of the dip and the +10 s      *)
(* decision are tasks of their own, which run at any time after it.        *)
(*                                                                         *)
(* The gRPC indexer calls on_event with every swap that it also queues for *)
(* table pumpswap_fees.  Swaps may arrive twice, and up to Skew late.      *)
(***************************************************************************)
EXTENDS Integers, FiniteSets, SequencesExt

CONSTANTS
  Tokens,          \* token addresses
  Keys,            \* tells apart the (signature, event_type) of one second
  Prices,          \* prices of swaps
  RollingWindow,   \* ROLLING_MAX_WINDOW_SEC, in units of block time
  DipEndGap,       \* DIP_END_GAP_SEC
  DensityWindow,   \* TRIGGER_DENSITY_WINDOW_SEC
  DensityMin,      \* TRIGGER_DENSITY_MIN
  DecisionDelay,   \* DECISION_DELAY_SEC
  TokenCap,        \* TOKEN_CAP
  BackfillCap,     \* BACKFILL_TOKEN_CAP
  Skew,            \* how late a swap may arrive
  MaxTime,         \* bound: block time
  MaxDips,         \* bound: dips
  FaultKinds,      \* "crash" and "write", the faults that may happen
  MaxFaults        \* bound: how many

ASSUME ConstantsAssumption ==
  /\ Prices \subseteq Nat \ {0}
  /\ {RollingWindow, DipEndGap, DensityWindow, DensityMin, DecisionDelay} \subseteq Nat
  /\ TokenCap \in Nat \ {0} /\ BackfillCap \in 0 .. TokenCap
  /\ {Skew, MaxTime, MaxDips, MaxFaults} \subseteq Nat
  /\ FaultKinds \subseteq {"crash", "write"}

Time == 0 .. MaxTime
Swap == [time : Time, price : Prices, key : Keys]
Sig(e) == <<e.time, e.key>>
SigsOf(b) == {Sig(b[i]) : i \in DOMAIN b}

\* The end of a dip as the detector decides it; Lost is not one of its
\* reasons: the process stopped within the dip.
MakeEnd(time, reason) == [time |-> time, reason |-> reason]
Ends == [time : Time, reason : {"recovered", "gap", "evicted", "lost"}]
NoEnd == MakeEnd(0, "none")

\* A dip, from its trigger on, with its tasks: the INSERT, whose result is the
\* row id (Running, or Failed for None), the UPDATE of the end and the decision.
Running == 0
Failed == -1
Dip == [tok : Tokens, trig : Time, peak : Time, wall : Time, rid : Failed .. MaxDips,
        end : Ends \cup {NoEnd}, ending : BOOLEAN, deciding : BOOLEAN]
ShadowRow == [tok : Tokens, trig : Time, end : Ends \cup {NoEnd}, decided : BOOLEAN]

VARIABLES
  up,       \* the process runs
  now,      \* block time of the chain, and wall-clock time
  scope,    \* _token_scope
  buf,      \* _buffers
  sigs,     \* _buffer_sigs
  touch,    \* the keys of _last_touch, least recent first
  inDip,    \* the tokens of _states in IN_DIP
  pend,     \* _pending_inserts: the dip whose INSERT it is, 0 for none
  dips,     \* every dip the detector triggered, in order, with its tasks
  shadow,   \* table fast_dip_shadow; the index is the id
  fees,     \* the swaps handed to table pumpswap_fees, the last window's
  since,    \* history: until when swaps of a token may have missed the window or come late
  faults    \* history: crashes and failed writes so far

memory == <<buf, sigs, touch, inDip, pend>>
vars == <<up, now, scope, memory, dips, shadow, fees, since, faults>>

TypeOK ==
  /\ up \in BOOLEAN /\ now \in Time /\ scope \subseteq Tokens
  /\ DOMAIN buf \subseteq Tokens /\ \A t \in DOMAIN buf : buf[t] \in Seq(Swap)
  /\ DOMAIN sigs \subseteq Tokens /\ \A t \in DOMAIN sigs : sigs[t] \subseteq Time \X Keys
  /\ touch \in Seq(Tokens)
  /\ inDip \subseteq Tokens /\ pend \in [Tokens -> 0 .. Len(dips)]
  /\ dips \in Seq(Dip) /\ Len(dips) <= MaxDips
  /\ shadow \in Seq(ShadowRow) /\ Len(shadow) <= Len(dips)
  /\ fees \in [Tokens -> SUBSET Swap]
  /\ since \in [Tokens -> -(RollingWindow + 1) .. MaxTime]
  /\ faults \in 0 .. MaxFaults

NoMemory ==
  /\ buf' = [t \in {} |-> <<>>] /\ sigs' = [t \in {} |-> {}] /\ touch' = <<>>
  /\ inDip' = {} /\ pend' = [t \in Tokens |-> 0]

Init ==
  /\ up = FALSE /\ now = 0 /\ scope = {}
  /\ buf = [t \in {} |-> <<>>] /\ sigs = [t \in {} |-> {}] /\ touch = <<>>
  /\ inDip = {} /\ pend = [t \in Tokens |-> 0]
  /\ dips = <<>> /\ shadow = <<>> /\ fees = [t \in Tokens |-> {}]
  /\ since = [t \in Tokens |-> -1] /\ faults = 0

Fault(kind) == kind \in FaultKinds /\ faults < MaxFaults /\ faults' = faults + 1

(***************************************************************************)
(* on_event.                                                               *)
(***************************************************************************)
Arrives(e) == up /\ e.time <= now /\ e.time + Skew >= now

\* The indexer has queued the swap for the table, whose unique index keeps the
\* first of equal signatures.
Record(t, e) ==
  fees' = [fees EXCEPT ![t] =
    LET all == IF \E x \in @ : Sig(x) = Sig(e) THEN @ ELSE @ \cup {e} IN
    {x \in all : \A y \in all : x.time >= y.time - RollingWindow}]

Late(t, e) == \E x \in fees[t] : x.time > e.time

\* Mutant of Live: swaps at exactly the cutoff go, too.
LiveStrict(b, cutoff) ==
  LET first == CHOOSE i \in DOMAIN b :
                 b[i].time > cutoff /\ \A j \in 1 .. i - 1 : b[j].time <= cutoff
  IN SubSeq(b, first, Len(b))

\* Popped from the left only: events after a newer one stay.
Live(b, cutoff) ==
  LET first == CHOOSE i \in DOMAIN b :
                 b[i].time >= cutoff /\ \A j \in 1 .. i - 1 : b[j].time < cutoff
  IN SubSeq(b, first, Len(b))

\* The first event at the rolling maximum.
Peak(b) ==
  b[CHOOSE i \in DOMAIN b :
      /\ \A j \in DOMAIN b : b[j].price <= b[i].price
      /\ \A j \in 1 .. i - 1 : b[j].price < b[i].price]

DropAtLeast(price, max, percent) == 100 * (max - price) >= percent * max

Density(b, time) == Cardinality({i \in DOMAIN b : b[i].time >= time - DensityWindow})

Triggers(b, e) ==
  /\ DropAtLeast(e.price, Peak(b).price, 40)
  /\ Density(b, e.time) >= DensityMin

\* The reason why swap e ends the dip of a token with window b and, before e,
\* last swap at time last; the gap comes first.
EndReason(b, last, e) ==
  IF e.time - last > DipEndGap THEN "gap"
  ELSE IF ~DropAtLeast(e.price, Peak(b).price, 20) THEN "recovered" ELSE "none"

NewDip(t, b, e) ==
  [tok |-> t, trig |-> e.time, peak |-> Peak(b).time, wall |-> now, rid |-> Running,
   end |-> NoEnd, ending |-> FALSE, deciding |-> TRUE]

\* Decide the end of the dip bound to t's pending INSERT; a task will write it.
EndDip(ds, t, time, reason) ==
  [ds EXCEPT ![pend[t]].end = MakeEnd(time, reason), ![pend[t]].ending = TRUE]

\* _maybe_evict_lru: the tokens that make room for t.
Gone(t) ==
  IF t \notin DOMAIN buf /\ Cardinality(DOMAIN buf) >= TokenCap THEN {Head(touch)} ELSE {}

\* Mutant of DipsAfterEviction: eviction only forgets the state.
DipsLeftOpen(gone) == dips

DipsAfterEviction(gone) ==
  IF gone \cap inDip = {} THEN dips
  ELSE LET v == CHOOSE v \in gone : TRUE IN EndDip(dips, v, buf[v][Len(buf[v])].time, "evicted")

\* t becomes the most recent, and it or the evicted token leaves its place.
Touched(t, gone) ==
  LET out == {i \in DOMAIN touch : touch[i] \in gone \cup {t}}
  IN  Append(IF out = {} THEN touch ELSE RemoveAt(touch, CHOOSE i \in out : TRUE), t)

\* The part of the state machine that ends with t in a dip or not.
Trigger(t, b, e, gone) ==
  /\ t \notin inDip /\ Triggers(b, e) /\ Len(dips) < MaxDips
  /\ dips' = Append(DipsAfterEviction(gone), NewDip(t, b, e))
  /\ inDip' = (inDip \ gone) \cup {t}
  /\ pend' = [u \in Tokens |-> IF u = t THEN Len(dips) + 1
                               ELSE IF u \in gone THEN 0 ELSE pend[u]]

Recover(t, b, last, e) ==
  /\ t \in inDip /\ EndReason(b, last, e) # "none"
  /\ dips' = EndDip(dips, t, e.time, EndReason(b, last, e))
  /\ inDip' = inDip \ {t}
  /\ pend' = [pend EXCEPT ![t] = 0]

StayAsIs(t, b, last, e, gone) ==
  /\ IF t \in inDip THEN EndReason(b, last, e) = "none" ELSE ~Triggers(b, e)
  /\ dips' = DipsAfterEviction(gone)
  /\ inDip' = inDip \ gone
  /\ pend' = [u \in Tokens |-> IF u \in gone THEN 0 ELSE pend[u]]

\* A swap of a token out of scope is for the table only.
OutOfScope(t, e) ==
  /\ Arrives(e) /\ t \notin scope
  /\ Record(t, e) /\ since' = [since EXCEPT ![t] = now]
  /\ UNCHANGED <<up, now, scope, memory, dips, shadow, faults>>

Duplicate(t, e) ==
  /\ Arrives(e) /\ t \in scope \cap DOMAIN sigs /\ Sig(e) \in sigs[t]
  /\ Record(t, e)
  /\ UNCHANGED <<up, now, scope, memory, dips, shadow, since, faults>>

\* Mutant of SigsAfter: the signatures of popped swaps stay.
SigsKept(old, b, e) == SigsOf(old) \cup {Sig(e)}

\* The signatures kept after appending e to a window that shrinks to b.
SigsAfter(old, b, e) ==
  LET all == Append(old, e)
      popped == {all[i] : i \in 1 .. Len(all) - Len(b)}
  IN (SigsOf(old) \cup {Sig(e)}) \ {Sig(x) : x \in popped}

Ingest(t, e) ==
  LET gone == Gone(t)
      kept == DOMAIN buf \ gone
      old == IF t \in kept THEN buf[t] ELSE <<>>
      last == IF old = <<>> THEN e.time ELSE old[Len(old)].time
      b == Live(Append(old, e), e.time - RollingWindow)
  IN
  /\ Arrives(e) /\ t \in scope /\ (t \in DOMAIN sigs => Sig(e) \notin sigs[t])
  /\ buf' = [u \in kept \cup {t} |-> IF u = t THEN b ELSE buf[u]]
  /\ sigs' = [u \in kept \cup {t} |-> IF u = t THEN SigsAfter(old, b, e) ELSE sigs[u]]
  /\ touch' = Touched(t, gone)
  /\ Trigger(t, b, e, gone) \/ Recover(t, b, last, e) \/ StayAsIs(t, b, last, e, gone)
  /\ Record(t, e)
  /\ since' = [u \in Tokens |-> IF u \in gone \/ (u = t /\ Late(t, e)) THEN now ELSE since[u]]
  /\ UNCHANGED <<up, now, scope, shadow, faults>>

(***************************************************************************)
(* The tasks.                                                              *)
(***************************************************************************)
Stable == <<up, now, scope, memory, fees, since>>

\* _do_insert with log_fast_dip_trigger.
Insert(i) ==
  /\ up /\ dips[i].rid = Running
  /\ shadow' = Append(shadow, [tok |-> dips[i].tok, trig |-> dips[i].trig,
                               end |-> NoEnd, decided |-> FALSE])
  /\ dips' = [dips EXCEPT ![i].rid = Len(shadow) + 1]
  /\ UNCHANGED <<Stable, faults>>

InsertFails(i) ==
  /\ up /\ dips[i].rid = Running /\ Fault("write")
  /\ dips' = [dips EXCEPT ![i].rid = Failed]
  /\ UNCHANGED <<Stable, shadow>>

\* Mutant of RowOf: one id per token, the newest, instead of one per task.
RowOfNewest(i) ==
  LET mine == {j \in DOMAIN dips : dips[j].tok = dips[i].tok /\ dips[j].rid > 0} IN
  IF mine = {} THEN Failed ELSE dips[CHOOSE j \in mine : \A k \in mine : k <= j].rid

\* The row a task writes to: the result of the INSERT of its own dip.
RowOf(i) == dips[i].rid

\* _do_update and _do_evict_update: wait for the INSERT, then write the end.
WriteEnd(i) ==
  /\ up /\ dips[i].ending /\ dips[i].rid # Running
  /\ dips' = [dips EXCEPT ![i].ending = FALSE]
  /\ shadow' = IF RowOf(i) = Failed THEN shadow
               ELSE [shadow EXCEPT ![RowOf(i)].end = dips[i].end]
  /\ UNCHANGED <<Stable, faults>>

WriteEndFails(i) ==
  /\ up /\ dips[i].ending /\ dips[i].rid > 0 /\ Fault("write")
  /\ dips' = [dips EXCEPT ![i].ending = FALSE]
  /\ UNCHANGED <<Stable, shadow>>

\* _run_decision: gives up at once without a row, else decides at +10 s.
Decide(i) ==
  /\ up /\ dips[i].deciding /\ dips[i].rid # Running
  /\ dips[i].rid = Failed \/ now >= dips[i].wall + DecisionDelay
  /\ dips' = [dips EXCEPT ![i].deciding = FALSE]
  /\ shadow' = IF RowOf(i) = Failed THEN shadow
               ELSE [shadow EXCEPT ![RowOf(i)].decided = TRUE]
  /\ UNCHANGED <<Stable, faults>>

DecideFails(i) ==
  /\ up /\ dips[i].deciding /\ dips[i].rid > 0
  /\ now >= dips[i].wall + DecisionDelay /\ Fault("write")
  /\ dips' = [dips EXCEPT ![i].deciding = FALSE]
  /\ UNCHANGED <<Stable, shadow>>

(***************************************************************************)
(* Startup, the refresh of the scope, the clock and the end of the process.*)
(***************************************************************************)
Recent(t) == {x \in fees[t] : x.time >= now - RollingWindow}
LastTime(t) == CHOOSE n \in {x.time : x \in Recent(t)} : \A x \in Recent(t) : x.time <= n

\* ORDER BY block_time ASC: any order of the swaps by time.
Backfills(t) ==
  {b \in [1 .. Cardinality(Recent(t)) -> Recent(t)] :
     ToSet(b) = Recent(t) /\ \A i, j \in DOMAIN b : i < j => b[i].time <= b[j].time}

\* ORDER BY last_block DESC LIMIT: the most recently active tokens first, so
\* that they are the first to be evicted.
MostActive(ts) ==
  {l \in SeqOf(ts, BackfillCap) :
     /\ IsInjective(l)
     /\ \A i, j \in DOMAIN l : i < j => LastTime(l[i]) >= LastTime(l[j])
     /\ \A t \in ts \ ToSet(l) :
          Len(l) = BackfillCap /\ \A i \in DOMAIN l : LastTime(l[i]) >= LastTime(t)}

Startup ==
  /\ ~up /\ up' = TRUE /\ scope' \in SUBSET Tokens
  /\ touch' \in MostActive({t \in scope' : Recent(t) # {}})
  /\ buf' \in [ToSet(touch') -> UNION {Backfills(t) : t \in ToSet(touch')}]
  /\ \A t \in ToSet(touch') : buf'[t] \in Backfills(t)
  /\ sigs' = [t \in ToSet(touch') |-> SigsOf(buf'[t])]
  /\ since' = [t \in Tokens |-> IF t \in ToSet(touch') \/ Recent(t) = {}
                                THEN now - RollingWindow - 1 ELSE now]
  /\ UNCHANGED <<now, inDip, pend, dips, shadow, fees, faults>>

RefreshScope ==
  /\ up /\ scope' \in SUBSET Tokens \ {scope}
  /\ UNCHANGED <<up, now, memory, dips, shadow, fees, since, faults>>

Tick ==
  /\ now < MaxTime /\ now' = now + 1
  /\ UNCHANGED <<up, scope, memory, dips, shadow, fees, since, faults>>

\* The tasks end with the process; so does every dip.  The indexer's batch may
\* not have reached the table.
Lost(d) ==
  [d EXCEPT !.rid = IF @ = Running THEN Failed ELSE @,
            !.end = IF @ = NoEnd THEN MakeEnd(now, "lost") ELSE @,
            !.ending = FALSE, !.deciding = FALSE]

Crash ==
  /\ up /\ Fault("crash")
  /\ up' = FALSE /\ NoMemory /\ since' = [t \in Tokens |-> now]
  /\ dips' = [i \in DOMAIN dips |-> Lost(dips[i])]
  /\ fees' \in {fees, [t \in Tokens |-> {x \in fees[t] : x.time < now}]}
  /\ UNCHANGED <<now, scope, shadow>>

OnEvent(t) == \E e \in Swap : OutOfScope(t, e) \/ Duplicate(t, e) \/ Ingest(t, e)
TaskStep ==
  \E i \in DOMAIN dips :
    \/ Insert(i) \/ InsertFails(i) \/ WriteEnd(i) \/ WriteEndFails(i)
    \/ Decide(i) \/ DecideFails(i)

Next ==
  \/ \E t \in Tokens : OnEvent(t)
  \/ TaskStep \/ Startup \/ RefreshScope \/ Tick \/ Crash

Spec == Init /\ [][Next]_vars

(***************************************************************************)
(* Properties.                                                             *)
(***************************************************************************)

\* The dicts of the detector speak of the same tokens, no more than the cap,
\* and _buffer_sigs holds exactly the signatures of the window, each once: a
\* swap is neither counted twice nor refused for one that has left.
WindowMirrored ==
  /\ TypeOK
  /\ DOMAIN buf = DOMAIN sigs /\ DOMAIN buf = ToSet(touch)
  /\ Len(touch) = Cardinality(DOMAIN buf) /\ Len(touch) <= TokenCap
  /\ \A t \in DOMAIN buf :
       /\ sigs[t] = SigsOf(buf[t])
       /\ Cardinality(sigs[t]) = Len(buf[t])

\* The swaps of the last window are in the deque, none missing and none stale, as
\* they are in the table: from the last late swap, eviction or time out of scope
\* on, and, as the backfill makes up for a restart, from a window before a start.
WindowExact ==
  \A t \in Tokens :
    LET window == IF t \in DOMAIN buf THEN ToSet(buf[t]) ELSE {} IN
    {x \in fees[t] : x.time > since[t]} = {x \in window : x.time > since[t]}

\* "each dip episode is bound to its own task object" (the comment on
\* _pending_inserts): tasks of back-to-back dips never write to each other's row,
\* whatever order they run in.
RowsOwnTheirDips ==
  \A i \in DOMAIN dips : dips[i].rid > 0 =>
    LET r == shadow[dips[i].rid] IN
    /\ r.tok = dips[i].tok /\ r.trig = dips[i].trig
    /\ r.end = NoEnd \/ r.end = dips[i].end
    /\ ~dips[i].deciding => r.decided \/ faults > 0
    /\ r.decided => ~dips[i].deciding
    /\ dips[i].end.reason \notin {"none", "lost"} /\ ~dips[i].ending =>
         r.end = dips[i].end \/ faults > 0

\* "One row per dip episode": a dip stays open only as the one its token is in,
\* so that every row left without an end is that of a running dip, or of
\* one that a fault cut off; eviction and a shrinking scope included.
OneOpenDip ==
  /\ \A i \in DOMAIN dips : dips[i].end = NoEnd <=> pend[dips[i].tok] = i
  /\ \A t \in Tokens : t \in inDip <=> pend[t] # 0

=============================================================================

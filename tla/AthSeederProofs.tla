--------------------------- MODULE AthSeederProofs ---------------------------
(***************************************************************************)
(* What AthSeeder guarantees for any prices and ages, and however many     *)
(* faults.  What the loop owns needs it to be the only writer, so those    *)
(* theorems have Feeders = {}; that no live ATH stays unseeded is proved   *)
(* for any number of feeders, and without a crash.                         *)
(***************************************************************************)
EXTENDS AthSeeder, FiniteSetTheorems, WellFoundedInduction, TLAPS

\* The type invariant by kind of variable: rows, entries, the rest.
RowsTypeOK == row \in Row /\ copy \in Row /\ fcopy \in [Feeders -> Row]
EntriesTypeOK ==
  /\ memq \in Entry /\ dbq \in Entry /\ ent \in Entry /\ fent \in [Feeders -> Entry]
PlacesTypeOK ==
  /\ age \in 0 .. Old /\ now \in 0 .. Old /\ pc \in LoopPc /\ fpc \in [Feeders -> FeedPc]
  /\ hit \in BOOLEAN /\ faults \in 0 .. MaxFaults

\* The loop alone: from its first reading on, its copy is as high as the row.
CopyHigh == pc \notin {"down", "sleep"} => copy.ath >= row.ath

\* The loop alone: once a Birdeye ATH was saved, the row and the copy of it say so.
HitKnown ==
  /\ row.src \in FromBirdeye => hit
  /\ hit => row.src \in Authoritative /\ (pc \notin {"down", "sleep"} => copy.src \in Authoritative)

\* The loop alone, and no failing write: the entry to be written is the one in
\* memory, and a place is known wherever the mirror may be behind.
MirrorInv ==
  /\ pc \notin {"down", "enqueue", "upsert", "reupsert", "delete"} => memq = dbq
  /\ pc \in {"enqueue", "upsert", "reupsert"} => ent = memq
  /\ pc \in {"down", "delete"} => memq = NoEntry

\* A live ATH without a source.
Live(r) == r.src = "unseeded" /\ r.ath > 0

\* With feeders and without a crash: a live ATH is queued, in the row and in
\* what the loop may still save; the loop removes only what it has labelled.
QueuedInv ==
  /\ pc # "down"
  /\ Live(row) => memq.held
  /\ pc \in {"poll", "enqueue", "pollsave", "alerts"} /\ Live(copy) => memq.held
  /\ pc \in {"enqueue", "pollsave", "fetch", "judge", "ask", "validate", "upsert", "reupsert"} => memq.held
  /\ pc = "judge" /\ Live(row) => Live(copy)
  /\ pc \in {"remove", "delete"} => ~Live(row)
  /\ pc \in {"validate", "t15validate"} => ~Live(copy) /\ (pc = "validate" => ~Live(row))
  /\ \A f \in Feeders : ~Live(fcopy[f])
-----------------------------------------------------------------------------
(* The data. *)

\* Induction over a finite set, as a statement about a set of its subsets.
LEMMA SubsetInduct ==
  ASSUME NEW S, IsFiniteSet(S), NEW Good \in SUBSET SUBSET S, {} \in Good,
         \A T \in SUBSET S : T # {} /\ (\A x \in T : T \ {x} \in Good) => T \in Good
  PROVE  Good = SUBSET S
<1> DEFINE Bad == (SUBSET S) \ Good
<1>1. SUFFICES ASSUME Bad # {} PROVE FALSE
  OBVIOUS
<1>2. IsWellFoundedOn(StrictSubsetOrdering(S), FiniteSubsetsOf(S))
  BY FS_StrictSubsetOrderingWellFounded
<1>3. Bad \subseteq FiniteSubsetsOf(S)
  BY FS_Subset DEF FiniteSubsetsOf
<1>4. PICK T \in Bad : \A U \in Bad : ~ (<<U, T>> \in StrictSubsetOrdering(S))
  <2> HIDE DEF Bad
  <2>1. QED
    BY <1>1, <1>2, <1>3, WFMin
<1>5. ASSUME NEW x \in T PROVE T \ {x} \in Good
  <2>1. T \ {x} \in SUBSET S /\ T \in SUBSET S /\ T \ {x} # T
    BY <1>5
  <2>2. <<T \ {x}, T>> \in StrictSubsetOrdering(S)
    BY <2>1 DEF StrictSubsetOrdering
  <2>3. QED
    BY <1>4, <2>1, <2>2
<1>6. T # {}
  BY <1>4
<1>7. QED
  BY <1>4, <1>5, <1>6

\* A finite set of naturals that is not empty has its maximum in it.
LEMMA MaxFacts ==
  ASSUME NEW S \in SUBSET Nat, IsFiniteSet(S), S # {}
  PROVE  Max(S) \in S
<1> DEFINE Good == {T \in SUBSET S : T = {} \/ \E m \in T : \A n \in T : m >= n}
<1>1. Good \in SUBSET SUBSET S /\ {} \in Good
  OBVIOUS
<1>2. ASSUME NEW T \in SUBSET S, T # {}, \A x \in T : T \ {x} \in Good
      PROVE  T \in Good
  <2>1. PICK x \in T : TRUE
    BY <1>2
  <2>2. x \in Nat /\ \A n \in T : n \in Nat
    BY <2>1
  <2>3. CASE T \ {x} = {}
    BY <2>1, <2>2, <2>3
  <2>4. CASE \E m \in T \ {x} : \A n \in T \ {x} : m >= n
    <3>1. PICK m \in T \ {x} : \A n \in T \ {x} : m >= n
      BY <2>4
    <3>2. CASE m >= x
      <4>1. \A n \in T : m >= n
        BY <3>1, <3>2
      <4>2. QED
        BY <3>1, <4>1
    <3>3. CASE ~(m >= x)
      <4>1. \A n \in T : x >= n
        BY <2>2, <3>1, <3>3
      <4>2. QED
        BY <2>1, <4>1
    <3>4. QED
      BY <3>2, <3>3
  <2>5. QED
    BY <1>2, <2>1, <2>3, <2>4
<1>3. Good = SUBSET S
  <2> HIDE DEF Good
  <2>1. QED
    BY <1>1, <1>2, SubsetInduct
<1>4. S \in Good
  BY <1>3
<1>5. QED
  BY <1>4 DEF Max

\* What Dexscreener and Birdeye may answer is a price.
LEMMA PriceFacts ==
  /\ Prices \subseteq Nat \ {0} /\ LivePrices \subseteq Prices /\ BirdeyeAths \subseteq Prices
<1>1. Prices \subseteq Nat \ {0} /\ IsFiniteSet(Prices)
  BY PricesAssumption
<1>2. LivePrices \subseteq Prices
  <2>1. \A pairs \in SUBSET Pairs : BestPairs(pairs) \subseteq Pairs
    BY DEF BestPairs
  <2>2. \A p \in Pairs : p.price \in Numbers
    BY DEF Pairs
  <2>3. QED
    BY <2>1, <2>2 DEF LivePrices, Numbers
<1>3. ASSUME NEW highs \in SUBSET Numbers
      PROVE  HighestHigh(highs) \in Numbers
  <2>1. IsFiniteSet(Numbers) /\ Numbers \subseteq Nat
    BY <1>1, FS_AddElement DEF Numbers
  <2>2. IsFiniteSet(highs)
    BY <2>1, FS_Subset
  <2>3. CASE highs \subseteq {0}
    BY <2>3 DEF HighestHigh, Numbers
  <2>4. CASE ~(highs \subseteq {0})
    <3>1. highs # {} /\ highs \in SUBSET Nat
      BY <2>1, <2>4
    <3>2. Max(highs) \in highs
      BY <2>2, <3>1, MaxFacts
    <3>3. QED
      BY <2>4, <3>2 DEF HighestHigh
  <2>5. QED
    BY <2>3, <2>4
<1>4. BirdeyeAths \subseteq Prices
  BY <1>3 DEF BirdeyeAths, Numbers
<1>5. QED
  BY <1>1, <1>2, <1>4

\* The bounds are numbers.
LEMMA Bounds ==
  /\ MaxAge \in Nat /\ Old = MaxAge + 1 /\ MaxFaults \in Nat
BY ConstantsAssumption DEF Old

\* A row is its source and its ATH.
LEMMA RowFacts ==
  /\ \A s \in Sources : \A p \in Prices \cup {0} :
       MakeRow(s, p) \in Row /\ MakeRow(s, p).src = s /\ MakeRow(s, p).ath = p
  /\ \A r \in Row : r.src \in Sources /\ r.ath \in Prices \cup {0} /\ r.ath \in Nat
  /\ NoRow \in Row /\ NoRow.src = "absent" /\ NoRow.ath = 0
  /\ FreshRow \in Row /\ FreshRow.src = "unseeded" /\ FreshRow.ath = 0
<1>1. \A s \in Sources : \A p \in Prices \cup {0} :
        MakeRow(s, p) \in Row /\ MakeRow(s, p).src = s /\ MakeRow(s, p).ath = p
  BY DEF Row, MakeRow
<1>2. \A r \in Row : r.src \in Sources /\ r.ath \in Prices \cup {0} /\ r.ath \in Nat
  <2>1. Prices \cup {0} \subseteq Nat
    BY PriceFacts
  <2>2. \A r \in Row : r.src \in Sources /\ r.ath \in Prices \cup {0}
    BY DEF Row
  <2>3. QED
    BY <2>1, <2>2
<1>3. "absent" \in Sources /\ "unseeded" \in Sources /\ 0 \in Prices \cup {0}
  BY DEF Sources
<1>4. QED
  BY <1>1, <1>2, <1>3 DEF NoRow, FreshRow

\* The clock makes an entry older and changes nothing else of it.
LEMMA EntryFacts ==
  /\ NoEntry \in Entry /\ NewEntry \in Entry /\ ~NoEntry.held /\ NewEntry.held
  /\ LaterEntry(NoEntry) = NoEntry
  /\ \A e \in Entry : LaterEntry(e) \in Entry /\ (LaterEntry(e).held <=> e.held)
  /\ \A e \in Entry, first \in BOOLEAN : Requeued(e, first) \in Entry /\ Requeued(e, first).held
<1>1. 0 \in 0 .. Old /\ \A n \in 0 .. Old : Later(n) \in 0 .. Old
  BY Bounds DEF Later
<1>2. \A held \in BOOLEAN, first \in BOOLEAN : \A n \in 0 .. Old :
        MakeEntry(held, n, first) \in Entry /\ MakeEntry(held, n, first).held = held
  BY DEF MakeEntry, Entry
<1>3. \A e \in Entry : e.held \in BOOLEAN /\ e.first \in BOOLEAN /\ e.age \in 0 .. Old
  BY DEF Entry
<1>4. NoEntry \in Entry /\ NewEntry \in Entry /\ NoEntry.held = FALSE /\ NewEntry.held = TRUE
  BY <1>1, <1>2 DEF NoEntry, NewEntry
<1>5. LaterEntry(NoEntry) = NoEntry
  BY <1>4 DEF LaterEntry
<1>6. ASSUME NEW e \in Entry
      PROVE  LaterEntry(e) \in Entry /\ (LaterEntry(e).held <=> e.held)
  BY <1>1, <1>2, <1>3 DEF LaterEntry
<1>7. ASSUME NEW e \in Entry, NEW first \in BOOLEAN
      PROVE  Requeued(e, first) \in Entry /\ Requeued(e, first).held
  BY <1>2, <1>3 DEF Requeued
<1>8. QED
  BY <1>4, <1>5, <1>6, <1>7

\* A poll keeps or raises the ATH, keeps an authoritative source, and leaves a
\* row unseeded only if it promotes nothing.
LEMMA PolledFacts ==
  ASSUME NEW r \in Row, NEW p \in LivePrices, NEW promote \in BOOLEAN
  PROVE  /\ Polled(r, p, promote) \in Row /\ Polled(r, p, promote).ath >= r.ath
         /\ r.src \in Authoritative => Polled(r, p, promote).src \in Authoritative
         /\ Live(Polled(r, p, promote)) => Live(r) \/ (r.src = "unseeded" /\ p > r.ath /\ ~promote)
<1>1. p \in Prices /\ p \in Nat /\ r.src \in Sources /\ r.ath \in Nat
  BY PriceFacts, RowFacts
<1>2. CASE p > r.ath
  <2>1. LiveSource(r.src, promote) \in Sources
        /\ (r.src \in Authoritative => LiveSource(r.src, promote) \in Authoritative)
    BY <1>1 DEF LiveSource, Sources, Authoritative, FromBirdeye
  <2>2. Polled(r, p, promote) = MakeRow(LiveSource(r.src, promote), p)
    BY <1>2 DEF Polled
  <2>3. LiveSource(r.src, promote) = "unseeded" => r.src = "unseeded" /\ ~promote
    BY DEF LiveSource
  <2>4. QED
    BY <1>1, <1>2, <2>1, <2>2, <2>3, RowFacts DEF Live
<1>3. CASE ~(p > r.ath)
  BY <1>1, <1>3 DEF Polled
<1>4. QED
  BY <1>2, <1>3

\* A seed keeps or raises the ATH.
LEMMA SeededFacts ==
  ASSUME NEW r \in Row, NEW p \in BirdeyeAths
  PROVE  SeededRow(r, p) \in Row /\ SeededRow(r, p).ath >= r.ath /\ SeededRow(r, p).src = "birdeye"
<1>1. p \in Prices /\ p \in Nat /\ r.ath \in Prices \cup {0} /\ r.ath \in Nat /\ "birdeye" \in Sources
  BY PriceFacts, RowFacts DEF Sources, Authoritative, FromBirdeye
<1>2. QED
  BY <1>1, RowFacts DEF SeededRow
-----------------------------------------------------------------------------
(* The type invariant. *)

\* The type invariant, in its parts.
LEMMA TypeParts ==
  /\ TypeOK <=> RowsTypeOK /\ EntriesTypeOK /\ PlacesTypeOK
  /\ TypeOK' <=> RowsTypeOK' /\ EntriesTypeOK' /\ PlacesTypeOK'
BY DEF TypeOK, RowsTypeOK, EntriesTypeOK, PlacesTypeOK

\* The rows that the loop makes of its copy.
Made(r) ==
  \/ r \in {row, copy}
  \/ \E p \in LivePrices, promote \in BOOLEAN : r = Polled(copy, p, promote)
  \/ copy.src \in Unresolved /\ r = MakeRow("running_max", copy.ath)
  \/ \E p \in BirdeyeAths : r = SeededRow(copy, p)
  \/ \E p \in BirdeyeAths :
       p > copy.ath /\ \E s \in FromBirdeye : r = MakeRow(s, p)

\* What the loop saves is its copy, and its copy is read from the row or made.
LEMMA LoopRows ==
  ASSUME LoopStep
  PROVE  Made(copy') /\ row' \in {row, copy'} /\ UNCHANGED fcopy
<1>1. CASE PollStep
  <2>1. ASSUME NEW p \in LivePrices, PollHit(p)
        PROVE  Made(copy') /\ row' \in {row, copy'} /\ UNCHANGED fcopy
    <3>1. FALSE \in BOOLEAN /\ (age >= PromotionAge) \in BOOLEAN
      OBVIOUS
    <3>2. \/ copy' = Polled(copy, p, FALSE) /\ row' = row
          \/ copy' = Polled(copy, p, age >= PromotionAge) /\ row' = copy'
      BY <2>1 DEF PollHit, Save, SaveCopy, Keep
    <3>3. QED
      BY <2>1, <3>1, <3>2 DEF Made, PollHit, feedVars
  <2>2. QED
    BY <1>1, <2>1 DEF PollStep, Made, Load, Enqueue, PollSave, PollMiss, Reload, Goto, Save, feedVars
<1>2. CASE AlertStep
  <2>1. "birdeye_alert_refresh" \in FromBirdeye
    BY DEF FromBirdeye
  <2>2. QED
    BY <1>2, <2>1 DEF AlertStep, Made, SaveBack, StartQueue, EndPass, Refresh, Goto, Save, Keep, feedVars, loopVars
<1>3. CASE QueueStep
  <2>1. CASE \E p \in BirdeyeAths : AskReseed(p) \/ AskSeed(p)
    BY <2>1 DEF Made, AskReseed, AskSeed, SaveCopy, Save, Keep, feedVars, FromBirdeye
  <2>2. CASE JudgeGivenUp
    BY <2>2 DEF Made, JudgeGivenUp, SaveCopy, Save, Keep, feedVars
  <2>3. CASE NotQueued \/ TakeEntry \/ Fetch \/ JudgeSettled \/ JudgeWait \/ JudgeAsk
    BY <2>3 DEF Made, NotQueued, TakeEntry, Fetch, JudgeSettled, JudgeWait, JudgeAsk, Goto, feedVars
  <2>4. CASE AskMiss("upsert") \/ AskMiss("reupsert") \/ Validate \/ Upsert \/ UpsertFails \/ Remove \/ Delete
    BY <2>4 DEF Made, AskMiss, Validate, Validated, Save, Keep, Upsert, UpsertFails, Remove, Delete, feedVars
  <2>5. QED
    BY <1>3, <2>1, <2>2, <2>3, <2>4 DEF QueueStep
<1>4. CASE T15Step
  <2>1. "birdeye_corrected" \in FromBirdeye
    BY DEF FromBirdeye
  <2>2. QED
    BY <1>4, <2>1 DEF T15Step, Made, T15Load, T15Validate, T15End, T15Hit, Validated, Goto, Save, SaveCopy, Keep, feedVars
<1>5. QED
  BY <1>1, <1>2, <1>3, <1>4 DEF LoopStep

\* Such a row is a row.
LEMMA MadeTypeOK ==
  ASSUME RowsTypeOK, NEW r, Made(r)
  PROVE  r \in Row
<1>1. row \in Row /\ copy \in Row /\ copy.ath \in Prices \cup {0}
  BY RowFacts DEF RowsTypeOK
<1>2. "running_max" \in Sources /\ FromBirdeye \subseteq Sources
  BY DEF Sources, Authoritative
<1>3. CASE r \in {row, copy}
  BY <1>1, <1>3
<1>4. ASSUME NEW p \in LivePrices, NEW promote \in BOOLEAN, r = Polled(copy, p, promote)
      PROVE  r \in Row
  BY <1>1, <1>4, PolledFacts
<1>5. CASE r = MakeRow("running_max", copy.ath)
  BY <1>1, <1>2, <1>5, RowFacts
<1>6. ASSUME NEW p \in BirdeyeAths, r = SeededRow(copy, p)
      PROVE  r \in Row
  BY <1>1, <1>6, SeededFacts
<1>7. ASSUME NEW p \in BirdeyeAths, NEW s \in FromBirdeye, r = MakeRow(s, p)
      PROVE  r \in Row
  BY <1>2, <1>7, RowFacts, PriceFacts
<1>8. QED
  BY <1>3, <1>4, <1>5, <1>6, <1>7 DEF Made

\* What a feeder saves is its copy, an unseeded row without an ATH or one of Birdeye.
LEMMA FeederRows ==
  ASSUME RowsTypeOK, NEW f \in Feeders, FeederStep(f)
  PROVE  /\ UNCHANGED <<copy, pc>>
         /\ \E r \in {NoRow, FreshRow} \cup {MakeRow("birdeye", p) : p \in BirdeyeAths} :
              fcopy' = [fcopy EXCEPT ![f] = r]
         /\ row' \in {row, FreshRow, fcopy[f]} \cup {MakeRow("birdeye", p) : p \in BirdeyeAths}
<1> USE DEF Feed, FeedRow, loopVars
<1>1. CASE Discover(f) \/ Create(f) \/ SeedEnd(f)
  BY <1>1 DEF Discover, Create, SeedEnd, Save, Keep
<1>2. CASE SeedValidated(f)
  BY <1>2 DEF SeedValidated, Validated, Save, Keep
<1>3. CASE SeedMiss(f) \/ SeedUpsert(f)
  BY <1>3 DEF SeedMiss, SeedUpsert, Save, Keep
<1>4. ASSUME NEW p \in BirdeyeAths, SeedHit(f, p)
      PROVE  /\ UNCHANGED <<copy, pc>> /\ fcopy' = [fcopy EXCEPT ![f] = MakeRow("birdeye", p)]
             /\ row' = MakeRow("birdeye", p)
  BY <1>4 DEF SeedHit, Save
<1>5. QED
  BY <1>1, <1>2, <1>3, <1>4 DEF FeederStep

\* Every step keeps the types of rows and copies,
LEMMA RowsTypeStep ==
  ASSUME TypeOK, [Next]_vars
  PROVE  RowsTypeOK'
<1>1. RowsTypeOK
  BY TypeParts
<1>2. CASE LoopStep
  <2>1. Made(copy') /\ row' \in {row, copy'} /\ UNCHANGED fcopy
    BY <1>2, LoopRows
  <2>2. copy' \in Row
    BY <1>1, <2>1, MadeTypeOK
  <2>3. QED
    BY <1>1, <2>1, <2>2 DEF RowsTypeOK
<1>3. CASE Clock \/ Restart \/ UNCHANGED vars
  BY <1>1, <1>3 DEF Clock, Restart, vars, RowsTypeOK, feedVars, loopVars
<1>4. CASE Crash
  BY <1>1, <1>4, RowFacts DEF Crash, RowsTypeOK
<1>5. ASSUME NEW f \in Feeders, FeederStep(f)
      PROVE  RowsTypeOK'
  <2>1. \A p \in BirdeyeAths : MakeRow("birdeye", p) \in Row
    BY RowFacts, PriceFacts DEF Sources, Authoritative, FromBirdeye
  <2>2. NoRow \in Row /\ FreshRow \in Row /\ fcopy[f] \in Row /\ row \in Row /\ copy \in Row
    BY <1>1, RowFacts DEF RowsTypeOK
  <2>3. UNCHANGED copy /\ row' \in Row /\ \E r \in Row : fcopy' = [fcopy EXCEPT ![f] = r]
    BY <1>1, <1>5, <2>1, <2>2, FeederRows
  <2>4. QED
    BY <1>1, <2>2, <2>3 DEF RowsTypeOK
<1>6. QED
  BY <1>2, <1>3, <1>4, <1>5 DEF Next

\* The entries that the loop writes: the one it holds, a fresh one, or none.
LEMMA LoopEntries ==
  ASSUME LoopStep
  PROVE  /\ memq' \in {memq, NewEntry, NoEntry} \cup {Requeued(ent, b) : b \in BOOLEAN}
         /\ ent' \in {ent, memq, NewEntry, NoEntry} \cup {Requeued(ent, b) : b \in BOOLEAN}
         /\ dbq' \in {dbq, ent, NoEntry} /\ UNCHANGED fent
<1>1. CASE PollStep
  BY <1>1 DEF PollStep, Load, Enqueue, PollSave, PollMiss, Reload, PollHit, Goto, feedVars
<1>2. CASE AlertStep
  BY <1>2 DEF AlertStep, SaveBack, StartQueue, EndPass, Refresh, Goto, feedVars, loopVars
<1>3. CASE QueueStep
  <2>1. ASSUME NEW p \in BirdeyeAths, AskReseed(p) \/ AskSeed(p)
        PROVE  /\ UNCHANGED <<dbq, fent>>
               /\ UNCHANGED <<memq, ent>> \/ (memq' = Requeued(ent, TRUE) /\ ent' = Requeued(ent, TRUE))
    BY <2>1 DEF AskReseed, AskSeed, Requeue, feedVars
  <2>2. CASE JudgeGivenUp \/ NotQueued \/ TakeEntry \/ Fetch \/ JudgeSettled \/ JudgeWait \/ JudgeAsk
    BY <2>2 DEF JudgeGivenUp, NotQueued, TakeEntry, Fetch, JudgeSettled, JudgeWait, JudgeAsk, Goto, feedVars
  <2>3. CASE AskMiss("upsert") \/ AskMiss("reupsert") \/ Validate \/ Upsert \/ UpsertFails \/ Remove \/ Delete
    BY <2>3 DEF AskMiss, Validate, Upsert, UpsertFails, Remove, Delete, Requeue, feedVars
  <2>4. QED
    BY <1>3, <2>1, <2>2, <2>3 DEF QueueStep
<1>4. CASE T15Step
  BY <1>4 DEF T15Step, T15Load, T15Validate, T15End, T15Hit, Goto, feedVars
<1>5. QED
  BY <1>1, <1>2, <1>3, <1>4 DEF LoopStep

\* A feeder queues a fresh entry and mirrors the one that it has queued.
LEMMA FeederEntries ==
  ASSUME NEW f \in Feeders, FeederStep(f)
  PROVE  /\ memq' \in {memq, NewEntry} /\ UNCHANGED ent /\ dbq' \in {dbq, fent[f]}
         /\ \E e \in {NoEntry, NewEntry} : fent' = [fent EXCEPT ![f] = e]
<1> USE DEF Feed, FeedRow, loopVars
<1>1. CASE Discover(f) \/ Create(f) \/ SeedEnd(f) \/ SeedValidated(f)
  BY <1>1 DEF Discover, Create, SeedEnd, SeedValidated
<1>2. CASE SeedMiss(f) \/ SeedUpsert(f)
  BY <1>2 DEF SeedMiss, SeedUpsert
<1>3. CASE \E p \in BirdeyeAths : SeedHit(f, p)
  BY <1>3 DEF SeedHit
<1>4. QED
  BY <1>1, <1>2, <1>3 DEF FeederStep

\* of the entries of the queue,
LEMMA EntriesTypeStep ==
  ASSUME TypeOK, [Next]_vars
  PROVE  EntriesTypeOK'
<1>1. EntriesTypeOK
  BY TypeParts
<1>2. /\ NoEntry \in Entry /\ NewEntry \in Entry /\ \A e \in Entry : LaterEntry(e) \in Entry
      /\ \A b \in BOOLEAN : Requeued(ent, b) \in Entry
  BY <1>1, EntryFacts DEF EntriesTypeOK
<1>3. CASE LoopStep
  BY <1>1, <1>2, <1>3, LoopEntries DEF EntriesTypeOK
<1>4. CASE Clock
  <2>1. memq' \in Entry /\ dbq' \in Entry /\ ent' \in Entry
    BY <1>1, <1>2, <1>4 DEF Clock, EntriesTypeOK
  <2>2. fent' \in [Feeders -> Entry]
    BY <1>1, <1>2, <1>4 DEF Clock, EntriesTypeOK
  <2>3. QED
    BY <2>1, <2>2 DEF EntriesTypeOK
<1>5. CASE Crash
  BY <1>1, <1>2, <1>5 DEF Crash, EntriesTypeOK
<1>6. CASE Restart \/ UNCHANGED vars
  BY <1>1, <1>2, <1>6 DEF Restart, vars, EntriesTypeOK, feedVars, loopVars
<1>7. ASSUME NEW f \in Feeders, FeederStep(f)
      PROVE  EntriesTypeOK'
  BY <1>1, <1>2, <1>7, FeederEntries DEF EntriesTypeOK
<1>8. QED
  BY <1>3, <1>4, <1>5, <1>6, <1>7 DEF Next

\* A save keeps the history Boolean.
LEMMA SaveFacts ==
  ASSUME hit \in BOOLEAN, NEW r, Save(r)
  PROVE  row' = r /\ hit' \in BOOLEAN /\ (hit' <=> (hit \/ r.src \in FromBirdeye))
<1>1. row' = r /\ hit' = (hit \/ r.src \in FromBirdeye)
  BY DEF Save
<1>2. (hit \/ r.src \in FromBirdeye) \in BOOLEAN
  OBVIOUS
<1>3. QED
  BY <1>1, <1>2

\* A step writes the row with the history, or leaves both.
LEMMA Saves ==
  ASSUME Next
  PROVE  Keep \/ Save(row')
<1>1. CASE PollStep
  BY <1>1 DEF PollStep, Load, Enqueue, PollSave, PollMiss, Reload, PollHit, Goto, Keep, SaveCopy, Save
<1>2. CASE AlertStep
  BY <1>2 DEF AlertStep, SaveBack, StartQueue, EndPass, Refresh, Goto, Keep, Save
<1>3. CASE QueueStep
  <2>1. CASE \E p \in BirdeyeAths : AskReseed(p) \/ AskSeed(p)
    BY <2>1 DEF AskReseed, AskSeed, SaveCopy, Save, Keep
  <2>2. CASE JudgeGivenUp
    BY <2>2 DEF JudgeGivenUp, SaveCopy, Save, Keep
  <2>3. CASE NotQueued \/ TakeEntry \/ Fetch \/ JudgeSettled \/ JudgeWait \/ JudgeAsk
    BY <2>3 DEF NotQueued, TakeEntry, Fetch, JudgeSettled, JudgeWait, JudgeAsk, Goto, Keep
  <2>4. CASE AskMiss("upsert") \/ AskMiss("reupsert") \/ Validate \/ Upsert \/ UpsertFails \/ Remove \/ Delete
    BY <2>4 DEF AskMiss, Validate, Validated, Save, Keep, Upsert, UpsertFails, Remove, Delete
  <2>5. QED
    BY <1>3, <2>1, <2>2, <2>3, <2>4 DEF QueueStep
<1>4. CASE T15Step
  BY <1>4 DEF T15Step, T15Load, T15Validate, T15End, T15Hit, Validated, Goto, Save, SaveCopy, Keep
<1>5. CASE Clock \/ Crash \/ Restart
  BY <1>5 DEF Clock, Crash, Restart, Keep
<1>6. ASSUME NEW f \in Feeders, FeederStep(f)
      PROVE  Keep \/ Save(row')
  <2>1. CASE Discover(f) \/ Create(f) \/ SeedEnd(f) \/ SeedMiss(f) \/ SeedUpsert(f)
    BY <2>1 DEF Discover, Create, SeedEnd, SeedMiss, SeedUpsert, Keep, Save
  <2>2. CASE SeedValidated(f)
    BY <2>2 DEF SeedValidated, Validated, Keep, Save
  <2>3. CASE \E p \in BirdeyeAths : SeedHit(f, p)
    BY <2>3 DEF SeedHit, Save
  <2>4. QED
    BY <1>6, <2>1, <2>2, <2>3 DEF FeederStep
<1>7. QED
  BY <1>1, <1>2, <1>3, <1>4, <1>5, <1>6 DEF Next, LoopStep

\* and of the places of the tasks.
LEMMA PlacesTypeStep ==
  ASSUME TypeOK, [Next]_vars
  PROVE  PlacesTypeOK'
<1>1. PlacesTypeOK
  BY TypeParts
<1>2. hit' \in BOOLEAN
  <2>1. CASE Next
    BY <1>1, <2>1, Saves, SaveFacts DEF Keep, PlacesTypeOK
  <2>2. CASE UNCHANGED vars
    BY <1>1, <2>2 DEF vars, PlacesTypeOK
  <2>3. QED
    BY <2>1, <2>2
<1>3. faults' \in 0 .. MaxFaults
  <2>1. faults' = faults \/ (faults < MaxFaults /\ faults' = faults + 1)
    <3>1. CASE LoopStep
      BY <3>1 DEF LoopStep, PollStep, AlertStep, QueueStep, T15Step, Load, Enqueue, PollSave, PollMiss, Reload, PollHit, Goto,
         SaveBack, StartQueue, EndPass, Refresh, AskReseed, AskSeed, JudgeGivenUp, NotQueued, TakeEntry, Fetch,
         JudgeSettled, JudgeWait, JudgeAsk, AskMiss, Validate, Upsert, UpsertFails, Remove, Delete,
         T15Load, T15Validate, T15End, T15Hit, Fail, Fault
    <3>2. CASE Clock \/ Crash \/ Restart \/ UNCHANGED vars
      BY <3>2 DEF Clock, Crash, Restart, vars, Fault
    <3>3. ASSUME NEW f \in Feeders, FeederStep(f)
          PROVE  faults' = faults
      BY <3>3 DEF FeederStep, Discover, Create, SeedEnd, SeedMiss, SeedUpsert, SeedValidated, SeedHit, Feed, FeedRow
    <3>4. QED
      BY <3>1, <3>2, <3>3 DEF Next
  <2>2. QED
    BY <1>1, <2>1, Bounds DEF PlacesTypeOK
<1>4. age' \in 0 .. Old /\ now' \in 0 .. Old
  <2>1. age' \in {age, Later(age)} /\ now' \in {now, age, 0}
    <3>1. CASE LoopStep
      BY <3>1 DEF LoopStep, PollStep, AlertStep, QueueStep, T15Step, Load, Enqueue, PollSave, PollMiss, Reload, PollHit, Goto,
         SaveBack, StartQueue, EndPass, Refresh, AskReseed, AskSeed, JudgeGivenUp, NotQueued, TakeEntry, Fetch,
         JudgeSettled, JudgeWait, JudgeAsk, AskMiss, Validate, Upsert, UpsertFails, Remove, Delete,
         T15Load, T15Validate, T15End, T15Hit, loopVars
    <3>2. CASE Clock \/ Crash \/ Restart \/ UNCHANGED vars
      BY <3>2 DEF Clock, Crash, Restart, vars, loopVars
    <3>3. ASSUME NEW f \in Feeders, FeederStep(f)
          PROVE  age' = age /\ now' = now
      BY <3>3 DEF FeederStep, Discover, Create, SeedEnd, SeedMiss, SeedUpsert, SeedValidated, SeedHit, Feed, FeedRow, loopVars
    <3>4. QED
      BY <3>1, <3>2, <3>3 DEF Next
  <2>2. QED
    BY <1>1, <2>1, Bounds DEF PlacesTypeOK, Later
<1>5. pc' \in LoopPc
  <2>1. CASE LoopStep
    BY <1>1, <2>1 DEF PlacesTypeOK, LoopPc, LoopStep, PollStep, AlertStep, QueueStep, T15Step, Load, Enqueue, PollSave, PollMiss, Reload, PollHit, Goto,
       SaveBack, StartQueue, EndPass, Refresh, AskReseed, AskSeed, JudgeGivenUp, NotQueued, TakeEntry, Fetch,
       JudgeSettled, JudgeWait, JudgeAsk, AskMiss, Validate, Upsert, UpsertFails, Remove, Delete, Requeue,
       T15Load, T15Validate, T15End, T15Hit, loopVars
  <2>2. CASE Clock \/ Crash \/ Restart \/ UNCHANGED vars
    BY <1>1, <2>2 DEF Clock, Crash, Restart, vars, loopVars, PlacesTypeOK, LoopPc
  <2>3. ASSUME NEW f \in Feeders, FeederStep(f)
        PROVE  pc' = pc
    BY <2>3 DEF FeederStep, Discover, Create, SeedEnd, SeedMiss, SeedUpsert, SeedValidated, SeedHit, Feed, FeedRow, loopVars
  <2>4. QED
    BY <1>1, <2>1, <2>2, <2>3 DEF Next, PlacesTypeOK
<1>6. fpc' \in [Feeders -> FeedPc]
  <2>1. CASE LoopStep
    <3>1. fpc' = fpc
      BY <2>1 DEF LoopStep, PollStep, AlertStep, QueueStep, T15Step, Load, Enqueue, PollSave, PollMiss, Reload, PollHit, Goto,
         SaveBack, StartQueue, EndPass, Refresh, AskReseed, AskSeed, JudgeGivenUp, NotQueued, TakeEntry, Fetch,
         JudgeSettled, JudgeWait, JudgeAsk, AskMiss, Validate, Upsert, UpsertFails, Remove, Delete,
         T15Load, T15Validate, T15End, T15Hit, feedVars
    <3>2. QED
      BY <1>1, <3>1 DEF PlacesTypeOK
  <2>2. CASE Clock \/ Crash \/ Restart \/ UNCHANGED vars
    BY <1>1, <2>2 DEF Clock, Crash, Restart, vars, feedVars, PlacesTypeOK, FeedPc
  <2>3. ASSUME NEW f \in Feeders, FeederStep(f)
        PROVE  \E w \in FeedPc : fpc' = [fpc EXCEPT ![f] = w]
    BY <2>3 DEF FeederStep, Discover, Create, SeedEnd, SeedMiss, SeedUpsert, SeedValidated, SeedHit, Feed, FeedRow, FeedPc
  <2>4. QED
    BY <1>1, <2>1, <2>2, <2>3 DEF Next, PlacesTypeOK
<1>7. QED
  BY <1>2, <1>3, <1>4, <1>5, <1>6 DEF PlacesTypeOK

\* Types are an invariant.
LEMMA TypeStep ==
  ASSUME TypeOK, [Next]_vars
  PROVE  TypeOK'
BY RowsTypeStep, EntriesTypeStep, PlacesTypeStep, TypeParts

\* The types at the start.
LEMMA TypeInit == Init => TypeOK
<1> SUFFICES ASSUME Init PROVE TypeOK
  OBVIOUS
<1>1. RowsTypeOK
  <2>1. \A s \in FirstSources : s # "absent" => s \in Sources
    BY ConstantsAssumption DEF Sources
  <2>2. row \in Row
    BY <2>1, RowFacts DEF Init
  <2>3. QED
    BY <2>2, RowFacts DEF Init, RowsTypeOK
<1>2. EntriesTypeOK
  BY EntryFacts DEF Init, EntriesTypeOK
<1>3. PlacesTypeOK
  <2>1. age \in 0 .. Old /\ now \in 0 .. Old /\ faults \in 0 .. MaxFaults
    BY Bounds DEF Init
  <2>2. pc \in LoopPc /\ fpc \in [Feeders -> FeedPc] /\ hit \in BOOLEAN
    BY DEF Init, LoopPc, FeedPc
  <2>3. QED
    BY <2>1, <2>2 DEF PlacesTypeOK
<1>4. QED
  BY <1>1, <1>2, <1>3, TypeParts
-----------------------------------------------------------------------------
(* The loop alone. *)

\* The loop starts a pass by reading the row.
LEMMA LoopStarts ==
  ASSUME LoopStep
  PROVE  pc # "down" /\ (pc = "sleep" => row' = row /\ copy' = row)
BY DEF LoopStep, PollStep, AlertStep, QueueStep, T15Step, Load, Enqueue, PollSave, PollMiss, Reload, PollHit, Goto,
   SaveBack, StartQueue, EndPass, Refresh, AskReseed, AskSeed, JudgeGivenUp, NotQueued, TakeEntry, Fetch,
   JudgeSettled, JudgeWait, JudgeAsk, AskMiss, Validate, Upsert, UpsertFails, Remove, Delete,
   T15Load, T15Validate, T15End, T15Hit

\* Without feeders the row changes in the steps of the loop only.
LEMMA LoopOnly ==
  ASSUME Feeders = {}, [Next]_vars, ~LoopStep
  PROVE  /\ UNCHANGED <<row, hit>>
         /\ UNCHANGED <<copy, pc>> \/ pc' \in {"down", "sleep"}
<1>1. CASE Clock \/ Crash \/ Restart
  BY <1>1 DEF Clock, Crash, Restart
<1>2. CASE UNCHANGED vars
  BY <1>2 DEF vars, loopVars
<1>3. QED
  BY <1>1, <1>2 DEF Next

\* What the loop makes of its copy is the row again, or at least as high.
LEMMA MadeHigh ==
  ASSUME RowsTypeOK, NEW r, Made(r)
  PROVE  r = row \/ r.ath >= copy.ath
<1>1. copy \in Row /\ copy.ath \in Prices \cup {0} /\ copy.ath \in Nat
  BY RowFacts DEF RowsTypeOK
<1>2. "running_max" \in Sources /\ FromBirdeye \subseteq Sources
  BY DEF Sources, Authoritative
<1>3. CASE r \in {row, copy}
  BY <1>1, <1>3
<1>4. ASSUME NEW p \in LivePrices, NEW promote \in BOOLEAN, r = Polled(copy, p, promote)
      PROVE  r.ath >= copy.ath
  BY <1>1, <1>4, PolledFacts
<1>5. CASE r = MakeRow("running_max", copy.ath)
  BY <1>1, <1>2, <1>5, RowFacts
<1>6. ASSUME NEW p \in BirdeyeAths, r = SeededRow(copy, p)
      PROVE  r.ath >= copy.ath
  BY <1>1, <1>6, SeededFacts
<1>7. ASSUME NEW p \in BirdeyeAths, p > copy.ath, NEW s \in FromBirdeye, r = MakeRow(s, p)
      PROVE  r.ath >= copy.ath
  <2>1. r.ath = p /\ p \in Nat
    BY <1>2, <1>7, RowFacts, PriceFacts
  <2>2. QED
    BY <1>1, <1>7, <2>1
<1>8. QED
  BY <1>3, <1>4, <1>5, <1>6, <1>7 DEF Made

\* And once the copy is authoritative, so is what is made of it.
LEMMA MadeKnown ==
  ASSUME RowsTypeOK, NEW r, Made(r), copy.src \in Authoritative, row.src \in Authoritative
  PROVE  r.src \in Authoritative
<1>1. copy \in Row
  BY DEF RowsTypeOK
<1>2. FromBirdeye \subseteq Sources /\ FromBirdeye \subseteq Authoritative /\ "birdeye" \in Authoritative
      /\ copy.src \notin Unresolved
  BY DEF Sources, Authoritative, FromBirdeye, Unresolved
<1>3. CASE r \in {row, copy}
  BY <1>3
<1>4. ASSUME NEW p \in LivePrices, NEW promote \in BOOLEAN, r = Polled(copy, p, promote)
      PROVE  r.src \in Authoritative
  BY <1>1, <1>4, PolledFacts
<1>6. ASSUME NEW p \in BirdeyeAths, r = SeededRow(copy, p)
      PROVE  r.src \in Authoritative
  BY <1>1, <1>2, <1>6, SeededFacts
<1>7. ASSUME NEW p \in BirdeyeAths, NEW s \in FromBirdeye, r = MakeRow(s, p)
      PROVE  r.src \in Authoritative
  BY <1>2, <1>7, RowFacts, PriceFacts
<1>8. QED
  BY <1>2, <1>3, <1>4, <1>6, <1>7 DEF Made

\* The copy of the loop stays as high as the row, and the row gets no lower.
LEMMA CopyHighStep ==
  ASSUME Feeders = {}, TypeOK, CopyHigh, [Next]_vars
  PROVE  CopyHigh' /\ row'.ath >= row.ath
<1>1. RowsTypeOK /\ row.ath \in Nat /\ copy.ath \in Nat
  BY TypeParts, RowFacts DEF RowsTypeOK
<1>2. row'.ath \in Nat /\ copy'.ath \in Nat
  BY RowsTypeStep, RowFacts DEF RowsTypeOK
<1>3. CASE LoopStep
  <2>1. CASE pc = "sleep"
    BY <1>1, <1>3, <2>1, LoopStarts DEF CopyHigh
  <2>2. CASE pc # "sleep"
    <3>1. copy.ath >= row.ath
      BY <1>3, <2>2, LoopStarts DEF CopyHigh
    <3>2. row' \in {row, copy'} /\ (copy' = row \/ copy'.ath >= copy.ath)
      BY <1>1, <1>3, LoopRows, MadeHigh
    <3>3. copy'.ath >= row.ath
      BY <1>1, <1>2, <3>1, <3>2
    <3>4. QED
      BY <1>1, <1>2, <3>2, <3>3 DEF CopyHigh
  <2>3. QED
    BY <2>1, <2>2
<1>4. CASE ~LoopStep
  <2>1. row' = row /\ (UNCHANGED <<copy, pc>> \/ pc' \in {"down", "sleep"})
    BY <1>4, LoopOnly
  <2>2. QED
    BY <1>1, <2>1 DEF CopyHigh
<1>5. QED
  BY <1>3, <1>4

\* A Birdeye ATH stays known.
LEMMA HitKnownStep ==
  ASSUME Feeders = {}, TypeOK, HitKnown, [Next]_vars
  PROVE  HitKnown'
<1>1. RowsTypeOK /\ hit \in BOOLEAN
  BY TypeParts DEF PlacesTypeOK
<1>2. FromBirdeye \subseteq Authoritative
  BY DEF Authoritative
<1>3. CASE LoopStep
  <2>1. \/ row' = row /\ hit' = hit
        \/ hit' <=> (hit \/ row'.src \in FromBirdeye)
    <3>1. Keep \/ Save(row')
      BY <1>3, Saves DEF Next
    <3>2. QED
      BY <1>1, <3>1, SaveFacts DEF Keep
  <2>2. hit => row'.src \in Authoritative /\ copy'.src \in Authoritative
    <3>1. CASE pc = "sleep"
      BY <1>3, <3>1, LoopStarts DEF HitKnown
    <3>2. CASE pc # "sleep"
      <4>1. hit => copy.src \in Authoritative /\ row.src \in Authoritative
        BY <1>3, <3>2, LoopStarts DEF HitKnown
      <4>2. Made(copy') /\ row' \in {row, copy'}
        BY <1>3, LoopRows
      <4>3. QED
        BY <1>1, <4>1, <4>2, MadeKnown
    <3>3. QED
      BY <3>1, <3>2
  <2>3. row' = row \/ row' = copy'
    BY <1>3, LoopRows
  <2>4. row'.src \in FromBirdeye => hit'
    BY <2>1 DEF HitKnown
  <2>5. ~hit /\ hit' => row'.src \in Authoritative /\ copy'.src \in Authoritative
    BY <1>2, <2>1, <2>3 DEF HitKnown
  <2>6. QED
    BY <2>2, <2>4, <2>5 DEF HitKnown
<1>4. CASE ~LoopStep
  <2>1. UNCHANGED <<row, hit>> /\ (UNCHANGED <<copy, pc>> \/ pc' \in {"down", "sleep"})
    BY <1>4, LoopOnly
  <2>2. QED
    BY <2>1 DEF HitKnown
<1>5. QED
  BY <1>3, <1>4

\* Without failing writes the mirror follows at once.
LEMMA MirrorStep ==
  ASSUME Feeders = {}, "write" \notin FaultKinds, TypeOK, MirrorInv, [Next]_vars
  PROVE  MirrorInv'
<1>1. ~Fail
  BY DEF Fail, Fault
<1>2. LaterEntry(NoEntry) = NoEntry
  BY EntryFacts
<1> USE DEF MirrorInv
<1>3. CASE PollStep
  BY <1>1, <1>3 DEF PollStep, Load, Enqueue, PollSave, PollMiss, Reload, PollHit, Goto
<1>4. CASE AlertStep
  BY <1>4 DEF AlertStep, SaveBack, StartQueue, EndPass, Refresh, Goto, loopVars
<1>5. CASE QueueStep
  <2>1. ASSUME NEW p \in BirdeyeAths, AskReseed(p) \/ AskSeed(p)
        PROVE  MirrorInv'
    BY <2>1 DEF AskReseed, AskSeed, Requeue
  <2>2. CASE JudgeGivenUp \/ NotQueued \/ TakeEntry \/ Fetch \/ JudgeSettled \/ JudgeWait \/ JudgeAsk
    BY <2>2 DEF JudgeGivenUp, NotQueued, TakeEntry, Fetch, JudgeSettled, JudgeWait, JudgeAsk, Goto
  <2>3. CASE AskMiss("upsert") \/ AskMiss("reupsert") \/ Validate
    BY <2>3 DEF AskMiss, Validate, Requeue
  <2>4. CASE Upsert \/ UpsertFails \/ Remove \/ Delete
    BY <1>1, <2>4 DEF Upsert, UpsertFails, Remove, Delete
  <2>5. QED
    BY <1>5, <2>1, <2>2, <2>3, <2>4 DEF QueueStep
<1>6. CASE T15Step
  BY <1>6 DEF T15Step, T15Load, T15Validate, T15End, T15Hit, Goto
<1>7. CASE Clock
  BY <1>2, <1>7 DEF Clock
<1>8. CASE Crash \/ Restart
  BY <1>8 DEF Crash, Restart
<1>9. CASE UNCHANGED vars
  BY <1>9 DEF vars, loopVars
<1>10. QED
  BY <1>3, <1>4, <1>5, <1>6, <1>7, <1>8, <1>9 DEF Next, LoopStep
-----------------------------------------------------------------------------
(* The theorems about the loop alone. *)

\* Types hold always.
LEMMA TypeAlways == Spec => []TypeOK
<1>1. TypeOK /\ [Next]_vars => TypeOK'
  BY TypeStep
<1>2. QED
  BY <1>1, TypeInit, PTL DEF Spec

\* _ath_retry_queue and table ath_retry_queue are equal outside the two writes of
\* a change, over every crash and restart: the mirror of a process that neither
\* shares the queue with a feeder nor fails to write is never behind.
THEOREM AthMirrored ==
  ASSUME Feeders = {}, "write" \notin FaultKinds
  PROVE  Spec => []Mirrored
<1>1. Init => MirrorInv
  BY DEF Init, MirrorInv
<1>2. TypeOK /\ MirrorInv /\ [Next]_vars => MirrorInv'
  BY MirrorStep
<1>3. TypeOK /\ MirrorInv => Mirrored
  BY DEF MirrorInv, Mirrored
<1>4. QED
  BY <1>1, <1>2, <1>3, TypeAlways, PTL DEF Spec

\* A row that ever had an ATH of Birdeye is not labelled running_max later: what
\* the loop saves is made of a copy that knows the source, also when writes fail
\* and after a crash.
THEOREM AthRunningMaxNeverSeeded ==
  ASSUME Feeders = {}
  PROVE  Spec => []RunningMaxNeverSeeded
<1>1. Init => HitKnown
  <2>1. FirstSources \cap FromBirdeye = {} /\ "absent" \notin FromBirdeye
    BY ConstantsAssumption DEF FromBirdeye
  <2>2. ASSUME Init PROVE row.src \notin FromBirdeye
    BY <2>1, <2>2 DEF Init, NoRow, MakeRow
  <2>3. QED
    BY <2>2 DEF Init, HitKnown
<1>2. TypeOK /\ HitKnown /\ [Next]_vars => HitKnown'
  BY HitKnownStep
<1>3. HitKnown => RunningMaxNeverSeeded
  BY DEF HitKnown, RunningMaxNeverSeeded, Authoritative, FromBirdeye
<1>4. QED
  BY <1>1, <1>2, <1>3, TypeAlways, PTL DEF Spec

\* No step of the loop lowers an ATH: every save writes a copy that is at least
\* as high as the row, whatever Birdeye answers, fails or crashes in between.
THEOREM AthNeverRegress ==
  ASSUME Feeders = {}
  PROVE  Spec => NeverRegress
<1>1. Init => CopyHigh
  BY DEF Init, CopyHigh
<1>2. TypeOK /\ CopyHigh /\ [Next]_vars => CopyHigh'
  BY CopyHighStep
<1>3. TypeOK /\ CopyHigh /\ [Next]_vars => [row'.ath >= row.ath]_vars
  BY CopyHighStep
<1>4. QED
  BY <1>1, <1>2, <1>3, TypeAlways, PTL DEF Spec, NeverRegress
-----------------------------------------------------------------------------
(* With feeders, and without a crash. *)

\* A Birdeye row, a promoted one and a fresh one are not live without a source.
LEMMA LiveFacts ==
  /\ ~Live(NoRow) /\ ~Live(FreshRow)
  /\ \A p \in BirdeyeAths : \A s \in FromBirdeye : ~Live(MakeRow(s, p))
  /\ \A r \in Row : ~Live(MakeRow("running_max", r.ath))
  /\ \A r \in Row : Seeded(r) => ~Live(r)
<1>1. ~Live(NoRow) /\ ~Live(FreshRow)
  BY RowFacts DEF Live
<1>2. "unseeded" \notin FromBirdeye /\ FromBirdeye \subseteq Sources /\ "running_max" \in Sources
  BY DEF FromBirdeye, Sources, Authoritative
<1>3. ASSUME NEW p \in BirdeyeAths, NEW s \in FromBirdeye
      PROVE  ~Live(MakeRow(s, p))
  <2>1. p \in Prices
    BY PriceFacts
  <2>2. MakeRow(s, p).src = s
    BY <1>2, <2>1, RowFacts
  <2>3. QED
    BY <1>2, <2>2 DEF Live
<1>4. ASSUME NEW r \in Row
      PROVE  ~Live(MakeRow("running_max", r.ath)) /\ (Seeded(r) => ~Live(r))
  BY <1>2, RowFacts DEF Live, Seeded
<1>5. QED
  BY <1>1, <1>3, <1>4

\* The poll queues a live ATH before it saves it.
LEMMA PollQueues ==
  ASSUME TypeOK, QueuedInv, NEW p \in LivePrices, PollHit(p)
  PROVE  QueuedInv'
<1>1. copy \in Row /\ memq \in Entry /\ age \in Nat /\ PromotionAge \in Nat
  BY TypeParts, Bounds, ConstantsAssumption DEF RowsTypeOK, EntriesTypeOK, PlacesTypeOK
<1>2. UNCHANGED fcopy
  BY DEF PollHit, feedVars
<1>3. CASE copy.src = "unseeded" /\ p > copy.ath /\ age < PromotionAge /\ ~memq.held
  <2>1. pc' = "enqueue" /\ row' = row /\ memq' = NewEntry
    BY <1>3 DEF PollHit, Keep
  <2>2. QED
    BY <1>2, <2>1, EntryFacts DEF QueuedInv
<1>4. CASE ~(copy.src = "unseeded" /\ p > copy.ath /\ age < PromotionAge /\ ~memq.held)
  <2>1. /\ pc' = "reload" /\ row' = Polled(copy, p, age >= PromotionAge) /\ memq' = memq
    BY <1>4 DEF PollHit, Save, SaveCopy
  <2>2. (age >= PromotionAge) \in BOOLEAN
    OBVIOUS
  <2>3. Live(row') => Live(copy) \/ (copy.src = "unseeded" /\ p > copy.ath /\ ~(age >= PromotionAge))
    BY <1>1, <2>1, <2>2, PolledFacts
  <2>4. Live(row') => memq.held
    <3>1. CASE Live(copy)
      BY <3>1 DEF PollHit, QueuedInv
    <3>2. CASE copy.src = "unseeded" /\ p > copy.ath /\ ~(age >= PromotionAge)
      BY <1>1, <1>4, <3>2
    <3>3. QED
      BY <2>3, <3>1, <3>2
  <2>5. QED
    BY <1>2, <2>1, <2>4 DEF QueuedInv
<1>5. QED
  BY <1>3, <1>4

\* The queue lets a token go only with a row that it has labelled or found so.
LEMMA QueueLabels ==
  ASSUME TypeOK, QueuedInv, QueueStep
  PROVE  QueuedInv'
<1>1. row \in Row /\ copy \in Row /\ ent \in Entry /\ memq \in Entry
  BY TypeParts DEF RowsTypeOK, EntriesTypeOK
<1>2. \A b \in BOOLEAN : Requeued(ent, b).held
  BY <1>1, EntryFacts
<1> USE DEF feedVars
<1>3. CASE NotQueued \/ TakeEntry \/ Fetch \/ JudgeWait \/ JudgeAsk
  BY <1>3 DEF QueuedInv, NotQueued, TakeEntry, Fetch, JudgeWait, JudgeAsk, Goto
<1>4. CASE JudgeGivenUp
  <2>1. CASE copy.src \in Unresolved
    <3>1. \/ pc' = "remove" /\ row' = MakeRow("running_max", copy.ath) /\ UNCHANGED <<memq, fcopy>>
          \/ pc' = "t15" /\ UNCHANGED <<row, memq, fcopy>>
      BY <1>4, <2>1 DEF JudgeGivenUp, SaveCopy, Save, Keep
    <3>2. QED
      BY <1>1, <3>1, LiveFacts DEF QueuedInv
  <2>2. CASE copy.src \notin Unresolved
    <3>1. pc = "judge" /\ pc' = "remove" /\ UNCHANGED <<row, memq, fcopy>>
      BY <1>4, <2>2 DEF JudgeGivenUp, Keep
    <3>2. ~Live(copy)
      BY <2>2 DEF Live, Unresolved
    <3>3. QED
      BY <3>1, <3>2 DEF QueuedInv
  <2>3. QED
    BY <2>1, <2>2
<1>5. CASE JudgeSettled
  <2>1. pc = "judge" /\ pc' = "remove" /\ UNCHANGED <<row, memq, fcopy>> /\ Seeded(copy)
    BY <1>5 DEF JudgeSettled, Goto, Settled
  <2>2. ~Live(copy)
    BY <1>1, <2>1, LiveFacts
  <2>3. QED
    BY <2>1, <2>2 DEF QueuedInv
<1>6. CASE AskMiss("upsert") \/ AskMiss("reupsert")
  BY <1>2, <1>6 DEF QueuedInv, AskMiss, Requeue
<1>7. ASSUME NEW p \in BirdeyeAths, AskReseed(p)
      PROVE  QueuedInv'
  <2>1. CASE p > copy.ath
    <3>1. pc' = "validate" /\ row' = MakeRow("birdeye_reseeded", p) /\ copy' = row' /\ UNCHANGED <<memq, fcopy>>
      BY <1>7, <2>1 DEF AskReseed, SaveCopy, Save
    <3>2. ~Live(row')
      BY <3>1, LiveFacts DEF FromBirdeye
    <3>3. QED
      BY <1>7, <3>1, <3>2 DEF QueuedInv, AskReseed
  <2>2. CASE ~(p > copy.ath)
    BY <1>2, <1>7, <2>2 DEF QueuedInv, AskReseed, Requeue, Keep
  <2>3. QED
    BY <2>1, <2>2
<1>8. ASSUME NEW p \in BirdeyeAths, AskSeed(p)
      PROVE  QueuedInv'
  <2>1. pc = "ask" /\ pc' = "validate" /\ row' = SeededRow(copy, p) /\ copy' = row' /\ UNCHANGED <<memq, fcopy>>
    BY <1>8 DEF AskSeed, SaveCopy, Save
  <2>2. row'.src = "birdeye"
    BY <1>1, <2>1, SeededFacts
  <2>3. QED
    BY <2>1, <2>2 DEF QueuedInv, Live
<1>9. CASE Validate
  <2>1. /\ pc = "validate" /\ row' \in {row, copy} /\ UNCHANGED <<copy, fcopy>>
        /\ \/ pc' = "upsert" /\ memq' = Requeued(ent, TRUE)
           \/ pc' = "remove" /\ UNCHANGED memq
    BY <1>9 DEF Validate, Validated, Save, Keep, Requeue
  <2>2. QED
    BY <1>2, <2>1 DEF QueuedInv
<1>10. CASE Upsert \/ UpsertFails \/ Remove \/ Delete
  BY <1>2, <1>10 DEF QueuedInv, Upsert, UpsertFails, Remove, Delete, Requeue
<1>11. QED
  BY <1>3, <1>4, <1>5, <1>6, <1>7, <1>8, <1>9, <1>10 DEF QueueStep

\* No step of the loop or of a feeder leaves a live ATH out of the queue.
LEMMA QueuedStep ==
  ASSUME "crash" \notin FaultKinds, TypeOK, QueuedInv, [Next]_vars
  PROVE  QueuedInv'
<1>1. row \in Row /\ copy \in Row /\ memq \in Entry /\ ent \in Entry /\ fcopy \in [Feeders -> Row]
  BY TypeParts DEF RowsTypeOK, EntriesTypeOK
<1>2. CASE PollStep
  <2>1. CASE Load \/ Enqueue \/ PollSave \/ PollMiss \/ Reload
    BY <2>1 DEF QueuedInv, Load, Enqueue, PollSave, PollMiss, Reload, Goto, Save, feedVars
  <2>2. QED
    BY <1>2, <2>1, PollQueues DEF PollStep
<1>3. CASE AlertStep
  <2>1. ASSUME NEW p \in BirdeyeAths, Refresh(p)
        PROVE  QueuedInv'
    <3>1. /\ copy' = MakeRow("birdeye_alert_refresh", p) /\ row' \in {row, copy'}
          /\ UNCHANGED <<pc, memq, fcopy>> /\ pc = "alerts"
      BY <2>1 DEF Refresh, Save, Keep, feedVars
    <3>2. ~Live(copy')
      BY <3>1, LiveFacts DEF FromBirdeye
    <3>3. QED
      BY <3>1, <3>2 DEF QueuedInv
  <2>2. CASE SaveBack \/ StartQueue \/ EndPass
    BY <2>2 DEF QueuedInv, SaveBack, StartQueue, EndPass, Goto, Save, feedVars, loopVars
  <2>3. QED
    BY <1>3, <2>1, <2>2 DEF AlertStep
<1>4. CASE QueueStep
  BY <1>4, QueueLabels
<1>5. CASE T15Step
  <2>1. ASSUME NEW p \in BirdeyeAths, T15Hit(p)
        PROVE  QueuedInv'
    <3>1. copy' = MakeRow("birdeye_corrected", p) /\ row' = copy' /\ UNCHANGED <<memq, fcopy>> /\ pc' = "t15validate"
      BY <2>1 DEF T15Hit, Save, SaveCopy, feedVars
    <3>2. ~Live(copy')
      BY <3>1, LiveFacts DEF FromBirdeye
    <3>3. QED
      BY <3>1, <3>2 DEF QueuedInv
  <2>2. CASE T15Load \/ T15Validate \/ T15End
    BY <2>2 DEF QueuedInv, T15Load, T15Validate, T15End, Validated, Save, Keep, Goto, feedVars
  <2>3. QED
    BY <1>5, <2>1, <2>2 DEF T15Step
<1>6. CASE Clock
  <2>1. UNCHANGED <<row, copy, fcopy, pc>> /\ (memq'.held <=> memq.held)
    BY <1>1, <1>6, EntryFacts DEF Clock
  <2>2. QED
    BY <2>1 DEF QueuedInv
<1>7. CASE Crash \/ Restart
  BY <1>7 DEF Crash, Fault, Restart, QueuedInv
<1>8. CASE UNCHANGED vars
  BY <1>8 DEF QueuedInv, vars, loopVars, feedVars
<1>9. ASSUME NEW f \in Feeders, FeederStep(f)
      PROVE  QueuedInv'
  <2>1. RowsTypeOK
    BY TypeParts
  <2>2. /\ UNCHANGED <<copy, pc>>
        /\ \E r \in {NoRow, FreshRow} \cup {MakeRow("birdeye", p) : p \in BirdeyeAths} :
              fcopy' = [fcopy EXCEPT ![f] = r]
        /\ row' \in {row, FreshRow, fcopy[f]} \cup {MakeRow("birdeye", p) : p \in BirdeyeAths}
    BY <1>9, <2>1, FeederRows
  <2>3. memq' \in {memq, NewEntry} /\ NewEntry.held
    BY <1>9, FeederEntries, EntryFacts
  <2>4. \A p \in BirdeyeAths : ~Live(MakeRow("birdeye", p))
    BY LiveFacts DEF FromBirdeye
  <2>5. row' = row \/ ~Live(row')
    BY <2>2, <2>4, LiveFacts DEF QueuedInv
  <2>6. \A g \in Feeders : ~Live(fcopy'[g])
    <3>1. PICK r \in {NoRow, FreshRow} \cup {MakeRow("birdeye", p) : p \in BirdeyeAths} :
            fcopy' = [fcopy EXCEPT ![f] = r]
      BY <2>2
    <3>2. ~Live(r)
      BY <2>4, <3>1, LiveFacts
    <3>3. \A g \in Feeders : fcopy'[g] = r \/ fcopy'[g] = fcopy[g]
      BY <1>1, <3>1
    <3>4. QED
      BY <3>2, <3>3 DEF QueuedInv
  <2>7. QED
    BY <2>2, <2>3, <2>5, <2>6 DEF QueuedInv
<1>10. QED
  BY <1>2, <1>3, <1>4, <1>5, <1>6, <1>7, <1>8, <1>9 DEF Next, LoopStep

\* A live ATH whose row is still unseeded waits in _ath_retry_queue, however many
\* feeders create and seed the token meanwhile and whichever writes fail: no exit
\* of the queue leaves such a row behind.  A crash between the two writes of a
\* feeder would, and so would the row of an earlier version.
THEOREM AthUnseededQueued ==
  ASSUME "crash" \notin FaultKinds, "unseeded" \notin FirstSources
  PROVE  Spec => []UnseededQueued
<1>1. ASSUME Init PROVE QueuedInv
  <2>1. ~Live(NoRow)
    BY LiveFacts
  <2>2. ~Live(row)
    <3>1. PICK s \in FirstSources, p \in Prices : row = IF s = "absent" THEN NoRow ELSE MakeRow(s, p)
      BY <1>1 DEF Init
    <3>2. CASE s = "absent"
      BY <2>1, <3>1, <3>2
    <3>3. CASE s # "absent"
      BY <3>1, <3>3 DEF Live, MakeRow
    <3>4. QED
      BY <3>2, <3>3
  <2>3. QED
    BY <1>1, <2>1, <2>2 DEF Init, QueuedInv
<1>2. TypeOK /\ QueuedInv /\ [Next]_vars => QueuedInv'
  BY QueuedStep
<1>3. QueuedInv => UnseededQueued
  BY DEF QueuedInv, UnseededQueued, Live
<1>4. QED
  BY <1>1, <1>2, <1>3, TypeAlways, PTL DEF Spec
=============================================================================

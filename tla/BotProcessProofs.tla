-------------------------- MODULE BotProcessProofs --------------------------
(***************************************************************************)
(* What BotProcess guarantees for every database of the old release, any   *)
(* number of tokens, keys, alerts and updates, and however many faults.    *)
(***************************************************************************)
EXTENDS BotProcess, TLAPS, FiniteSetTheorems, SequenceTheorems, WellFoundedInduction

\* A run of n attempts as the old release logs it: a row each, all of them 1.
Ones(n) == [i \in 1 .. n |-> 1]

\* The attempts that log_alert_block, or the old release, has put into the log.
Recorded == [b \in Blocks |-> attempts[b] - refused[b]]

\* The rows of a key count its attempts: one row with the count, no row at all,
\* or, before the index is there, a row per attempt.  The transaction of the
\* script has either these rows or the one row they collapse to.
LogInv ==
  /\ \A b \in Blocks : refused[b] <= attempts[b]
  /\ \A b \in Blocks :
       \/ blocks[b] = <<Recorded[b]>> /\ Recorded[b] > 0
       \/ blocks[b] = Ones(Recorded[b]) /\ (unique => Recorded[b] <= 1)
  /\ phase = "old" => ~unique /\ \A b \in Blocks : blocks[b] = Ones(Recorded[b])
  /\ phase = "collapse" =>
       \A b \in Blocks : work[b] = blocks[b] \/ (Recorded[b] > 0 /\ work[b] = <<Recorded[b]>>)

\* The columns of tokens are the first ones of CREATE TABLE, there are none
\* before the table, and all of them once the upgrade is through with them.
ColumnsInv ==
  /\ Len(columns["tokens"]) <= Len(TokenColumns)
  /\ \A i \in 1 .. Len(columns["tokens"]) : columns["tokens"][i] = TokenColumns[i]
  /\ "tokens" \notin exists => columns["tokens"] = <<>> /\ phase \in {"down", "tables"}
  /\ phase \in {"outcome", "alters", "up"} => columns["tokens"] = TokenColumns
  /\ phase = "alters" => Missing("alerts", OutcomeColumns) # {}

\* A row that Birdeye seeded is in a database that has the column, and the
\* backfill is entered only by a start that has just added it.
SourceInv ==
  \A t \in Tokens :
    source[t] = "birdeye" => /\ Has("tokens", "ath_source")
                             /\ phase \notin {"fill", "fill_script"}

\* While a poll is between its two transactions, no peak is below its price.
QuoteInv ==
  \A i \in DOMAIN alerts : quote <= alerts[i].peak

\* The recap loop of a running bot sleeps to midnight, and builds there.
RecapInv ==
  phase = "up" =>
    /\ rpc = "sleep" => IF left = 0 THEN hour = 0 /\ recapped = 0 ELSE left = Day - hour
    /\ rpc = "build" => hour = 0 /\ recapped = 0

\* What this life has not polled, or has in hand, it has not answered; what it
\* has polled is answered, dropped or in hand; a life ends with a fault.
CommandInv ==
  /\ lives <= faults + 1 /\ (phase # "up" => lives <= faults)
  /\ batch \subseteq 1 .. lastId
  /\ phase = "up" =>
       \A u \in Updates :
         /\ u > lastId \/ u \in batch => answered[u] < lives
         /\ u <= lastId /\ Messages[u] = "command" =>
              answered[u] > 0 \/ u \in dropped \/ u \in batch

IInv ==
  /\ TypeOK /\ LogInv /\ ColumnsInv /\ SourceInv
  /\ OutcomesBracketed /\ QuoteInv
  /\ RecapInv /\ OneRecapPerMidnight
  /\ CommandInv /\ AnsweredOncePerLife /\ ForgottenWhenAnswered

-----------------------------------------------------------------------------
(* Counts. *)

\* Induction over the naturals, as a statement about sets of them.
LEMMA NatInduct ==
  ASSUME NEW T \in SUBSET Nat, 0 \in T, \A n \in T : n + 1 \in T
  PROVE  T = Nat
<1> DEFINE Less == {p \in Nat \X Nat : p[1] < p[2]}
<1>1. IsWellFoundedOn(Less, Nat)
  BY NatLessThanWellFounded DEF OpToRel
<1> HIDE DEF Less
<1>2. SUFFICES ASSUME Nat \ T # {} PROVE FALSE
  OBVIOUS
<1>3. PICK x \in Nat \ T : \A y \in Nat \ T : ~ (<<y, x>> \in Less)
  <2>1. (Nat \ T) \subseteq Nat
    OBVIOUS
  <2>2. QED
    BY <1>1, <1>2, <2>1, WFMin
<1>4. x # 0 /\ x - 1 \in Nat /\ x - 1 < x
  BY <1>3
<1>5. <<x - 1, x>> \in Less
  BY <1>4 DEF Less
<1>6. x - 1 \in T
  BY <1>3, <1>4, <1>5
<1>7. x - 1 + 1 = x
  BY <1>3
<1>8. QED
  BY <1>3, <1>6, <1>7

\* The sum of a row per attempt, which AttemptsKept compares with the attempts:
\* Sum folds over the indices in an order of its own.
LEMMA SumOnes ==
  ASSUME NEW n \in Nat
  PROVE  Sum(Ones(n)) = n
<1> DEFINE S == 1 .. n
           ones == Ones(n)
           some(s) == CHOOSE x \in s : TRUE
           Iter(f) == f = [s \in SUBSET S |->
                        IF s = {} THEN 0
                        ELSE ones[some(s)] + f[s \ {some(s)}]]
           card == [s \in SUBSET S |-> Cardinality(s)]
           g == CHOOSE f : Iter(f)
<1>1. Sum(ones) = g[S]
  BY DEF Ones, Sum, FoldSeq, FoldFunction, FoldFunctionOnSet, MapThenFoldSet
<1>2. /\ IsFiniteSet(S) /\ Cardinality(S) = n
      /\ \A s \in SUBSET S : IsFiniteSet(s) /\ Cardinality(s) \in Nat
      /\ \A s \in SUBSET S : s # {} => Cardinality(s) = 1 + Cardinality(s \ {some(s)})
      /\ Cardinality({}) = 0
  <2>1. IsFiniteSet(S) /\ Cardinality(S) = n
    BY FS_Interval
  <2>2. \A s \in SUBSET S : IsFiniteSet(s) /\ Cardinality(s) \in Nat
    BY <2>1, FS_Subset, FS_CardinalityType
  <2>3. ASSUME NEW s \in SUBSET S, s # {}
        PROVE  Cardinality(s) = 1 + Cardinality(s \ {some(s)})
    <3>1. some(s) \in s
      BY <2>3
    <3>2. Cardinality(s \ {some(s)}) = Cardinality(s) - 1
      BY <2>2, <3>1, FS_RemoveElement
    <3>3. QED
      BY <2>2, <3>2
  <2>4. QED
    BY <2>1, <2>2, <2>3, FS_EmptySet
<1>3. \A s \in SUBSET S : s # {} => some(s) \in S /\ s \ {some(s)} \in SUBSET S
  OBVIOUS
<1>4. Iter(card)
  <2>1. ASSUME NEW s \in SUBSET S
        PROVE  card[s] = IF s = {} THEN 0 ELSE ones[some(s)] + card[s \ {some(s)}]
    <3>1. CASE s = {}
      BY <1>2, <3>1
    <3>2. CASE s # {}
      <4> HIDE DEF some
      <4>1. ones[some(s)] = 1 /\ card[s \ {some(s)}] = Cardinality(s \ {some(s)})
        BY <1>3, <3>2 DEF Ones
      <4>2. QED
        BY <1>2, <3>2, <4>1
    <3>3. QED
      BY <3>1, <3>2
  <2> HIDE DEF some, ones
  <2>2. QED
    BY <2>1 DEF card
<1>5. Iter(g)
  <2> HIDE DEF card, Iter
  <2>1. QED
    BY <1>4
<1> DEFINE T == {k \in Nat : \A s \in SUBSET S : Cardinality(s) = k => g[s] = k}
<1> HIDE DEF g
<1>6. \A s \in SUBSET S : g[s] = IF s = {} THEN 0 ELSE ones[some(s)] + g[s \ {some(s)}]
  <2> HIDE DEF some, ones
  <2>1. QED
    BY <1>5
<1> HIDE DEF some
<1>7. T = Nat
  <2>1. 0 \in T
    BY <1>2, <1>6, FS_EmptySet
  <2>2. ASSUME NEW k \in T PROVE k + 1 \in T
    <3>1. ASSUME NEW s \in SUBSET S, Cardinality(s) = k + 1 PROVE g[s] = k + 1
      <4>1. s # {}
        <5>1. k \in Nat /\ Cardinality({}) = 0
          BY <1>2, <2>2
        <5> HIDE DEF T, S, ones
        <5>2. QED
          BY <3>1, <5>1
      <4>2. Cardinality(s \ {some(s)}) = k
        BY <1>2, <1>3, <3>1, <4>1
      <4>3. g[s \ {some(s)}] = k
        BY <1>3, <4>1, <4>2
      <4>4. ones[some(s)] = 1
        BY <1>3, <4>1 DEF Ones
      <4>5. QED
        <5> HIDE DEF T, ones
        <5>1. g[s] = 1 + k
          BY <1>6, <4>1, <4>3, <4>4
        <5>2. QED
          BY <2>2, <5>1 DEF T
    <3>2. QED
      BY <3>1
  <2> HIDE DEF T
  <2>3. QED
    <3>1. T \in SUBSET Nat
      BY DEF T
    <3>2. QED
      BY <2>1, <2>2, <3>1, NatInduct
<1>8. g[S] = n
  BY <1>2, <1>7
<1>9. QED
  BY <1>1, <1>8

\* The sum of one count.
LEMMA SumSingle ==
  ASSUME NEW n \in Nat
  PROVE  Sum(<<n>>) = n
<1> DEFINE some(s) == CHOOSE x \in s : TRUE
           Iter(f) == f = [s \in SUBSET {1} |->
                        IF s = {} THEN 0
                        ELSE <<n>>[some(s)] + f[s \ {some(s)}]]
           value == [s \in SUBSET {1} |-> IF s = {} THEN 0 ELSE n]
           g == CHOOSE f : Iter(f)
<1>1. Sum(<<n>>) = g[{1}]
  <2>1. DOMAIN <<n>> = {1}
    OBVIOUS
  <2>2. QED
    BY <2>1 DEF Sum, FoldSeq, FoldFunction, FoldFunctionOnSet, MapThenFoldSet
<1>2. some({1}) = 1 /\ {1} \ {1} = {} /\ SUBSET {1} = {{}, {1}}
  OBVIOUS
<1> HIDE DEF some
<1>3. Iter(value)
  <2>1. ASSUME NEW s \in SUBSET {1}
        PROVE  value[s] = IF s = {} THEN 0 ELSE <<n>>[some(s)] + value[s \ {some(s)}]
    <3>1. CASE s = {}
      BY <3>1
    <3>2. CASE s = {1}
      BY <1>2, <3>2
    <3>3. QED
      BY <1>2, <3>1, <3>2
  <2>2. QED
    BY <2>1 DEF value
<1>4. Iter(g)
  <2> HIDE DEF value, Iter
  <2>1. QED
    BY <1>3
<1> HIDE DEF g
<1>5. g[{1}] = n
  <2>1. g[{}] = 0
    BY <1>2, <1>4
  <2>2. g[{1}] = <<n>>[1] + g[{}]
    BY <1>2, <1>4
  <2>3. QED
    BY <2>1, <2>2
<1>6. QED
  BY <1>1, <1>5

\* The rows of a key, in the forms that LogInv allows.
LEMMA RowsFacts ==
  /\ Ones(0) = <<>> /\ Ones(1) = <<1>>
  /\ \A n \in Nat : Len(Ones(n)) = n /\ Append(Ones(n), 1) = Ones(n + 1)
  /\ \A n \in 0 .. MaxAttempts : Ones(n) \in Counts /\ (n > 0 => <<n>> \in Counts)
  /\ <<>> \in Counts
<1> USE SchemaUpgradeAssumption
<1>1. Ones(0) = <<>> /\ Ones(1) = <<1>>
  BY DEF Ones
<1>2. ASSUME NEW n \in Nat PROVE Ones(n) \in Seq(Nat) /\ Len(Ones(n)) = n
  BY DEF Ones
<1>3. ASSUME NEW n \in Nat PROVE Append(Ones(n), 1) = Ones(n + 1)
  <2>1. /\ Append(Ones(n), 1) \in Seq(Nat) /\ Len(Append(Ones(n), 1)) = n + 1
        /\ \A i \in 1 .. n + 1 : Append(Ones(n), 1)[i] = Ones(n + 1)[i]
    BY <1>2 DEF Ones
  <2>2. Ones(n + 1) \in Seq(Nat) /\ Len(Ones(n + 1)) = n + 1
    BY <1>2
  <2>3. QED
    BY <2>1, <2>2, SeqEqual
<1>4. ASSUME NEW n \in 0 .. MaxAttempts
      PROVE  Ones(n) \in Counts /\ (n > 0 => <<n>> \in Counts)
  <2>1. Ones(n) \in [1 .. n -> 1 .. MaxAttempts]
    BY DEF Ones
  <2>2. n > 0 => <<n>> \in [1 .. 1 -> 1 .. MaxAttempts]
    OBVIOUS
  <2>3. \A k \in 0 .. MaxAttempts : [1 .. k -> 1 .. MaxAttempts] \subseteq Counts
    BY DEF Counts
  <2>4. [1 .. n -> 1 .. MaxAttempts] \subseteq Counts
    BY <2>3
  <2>5. [1 .. 1 -> 1 .. MaxAttempts] \subseteq Counts
    <3>1. 1 \in 0 .. MaxAttempts
      OBVIOUS
    <3>2. QED
      BY <2>3, <3>1
  <2>6. QED
    BY <2>1, <2>2, <2>4, <2>5
<1>5. <<>> \in Counts
  <2>1. 0 \in 0 .. MaxAttempts
    OBVIOUS
  <2>2. QED
    BY <1>1, <1>4, <2>1
<1>6. QED
  BY <1>1, <1>2, <1>3, <1>4, <1>5

\* The least of a set of naturals, and the greatest of a range.
LEMMA MinFacts ==
  ASSUME NEW S \in SUBSET Nat, S # {}
  PROVE  Min(S) \in S /\ \A y \in S : Min(S) <= y
<1> DEFINE T == {n \in Nat : \A m \in Nat : m <= n => m \notin S}
<1>1. SUFFICES ASSUME ~ \E x \in S : \A y \in S : x <= y
               PROVE  FALSE
  <2>1. \E x \in S : \A y \in S : x <= y
    BY <1>1
  <2>2. QED
    BY <2>1 DEF Min
<1>2. 0 \in T
  BY <1>1
<1>3. \A n \in T : n + 1 \in T
  BY <1>1
<1>4. T = Nat
  <2> HIDE DEF T
  <2>1. T \in SUBSET Nat
    BY DEF T
  <2>2. QED
    BY <1>2, <1>3, <2>1, NatInduct
<1>5. PICK x \in S : TRUE
  OBVIOUS
<1>6. x \in T
  <2> HIDE DEF T
  <2>1. QED
    BY <1>4, <1>5
<1>7. QED
  BY <1>5, <1>6

\* The largest of an interval.
LEMMA MaxFacts ==
  ASSUME NEW a \in Nat, NEW b \in Nat, a <= b
  PROVE  Max(a .. b) = b
<1>1. b \in a .. b /\ \A y \in a .. b : b >= y
  OBVIOUS
<1>2. \A x \in a .. b : (\A y \in a .. b : x >= y) => x = b
  OBVIOUS
<1>3. QED
  BY <1>1, <1>2 DEF Max

-----------------------------------------------------------------------------
(* Columns. *)

\* The columns of the three migrations, none twice.
LEMMA NamesFacts ==
  /\ TokenColumns \in Seq(Names) /\ Len(TokenColumns) = 5 /\ TokenColumns[1] = "ath_source"
  /\ OutcomeColumns \in Seq(Names) /\ Len(OutcomeColumns) = 6
  /\ DedupColumns \in Seq(Names) /\ Len(DedupColumns) = 2
  /\ \A i, j \in 1 .. 5 : TokenColumns[i] = TokenColumns[j] => i = j
  /\ \A i \in 1 .. 5 : TokenColumns[i] \in Names
  /\ \A i \in 1 .. 6 : OutcomeColumns[i] \in Names
  /\ "ath_source" \in Names
<1> DEFINE Is(names, n) == names \in Seq(ToSet(names)) /\ Len(names) = n
<1>1. Is(TokenColumns, 5) /\ TokenColumns[1] = "ath_source"
  BY DEF TokenColumns, ToSet
<1>2. Is(OutcomeColumns, 6)
  BY DEF OutcomeColumns, ToSet
<1>3. Is(DedupColumns, 2)
  BY DEF DedupColumns, ToSet
<1>4. \A i, j \in 1 .. 5 : TokenColumns[i] = TokenColumns[j] => i = j
  BY DEF TokenColumns
<1>5. ASSUME NEW S \in SUBSET Names, NEW s \in Seq(S) PROVE s \in Seq(Names)
  OBVIOUS
<1>6. /\ ToSet(TokenColumns) \in SUBSET Names /\ ToSet(OutcomeColumns) \in SUBSET Names
      /\ ToSet(DedupColumns) \in SUBSET Names
  BY DEF Names
<1>7. \A i \in 1 .. 5 : TokenColumns[i] \in Names
  BY DEF Names, ToSet, TokenColumns
<1>8. \A i \in 1 .. 6 : OutcomeColumns[i] \in Names
  BY DEF Names, ToSet, OutcomeColumns
<1>9. "ath_source" \in Names
  BY <1>1, <1>7
<1>10. QED
  BY <1>1, <1>2, <1>3, <1>4, <1>5, <1>6, <1>7, <1>8, <1>9

\* An ALTER leaves the columns there are where they are.
LEMMA AddedFacts ==
  ASSUME SchemaTypeOK, NEW t \in Tables, NEW names \in Seq(Names), Added(t, names)
  PROVE  /\ columns' \in [Tables -> Seq(Names)]
         /\ columns'[t] = columns[t] \o names
         /\ \A u \in Tables \ {t} : columns'[u] = columns[u]
         /\ \A u \in Tables, c \in Names : Has(u, c) => Has(u, c)'
         /\ \A c \in Names : Has(t, c)' => Has(t, c) \/ \E i \in 1 .. Len(names) : c = names[i]
<1>1. columns \in [Tables -> Seq(Names)]
  BY DEF SchemaTypeOK, Names
<1>2. /\ columns[t] \o names \in Seq(Names)
      /\ Len(columns[t] \o names) = Len(columns[t]) + Len(names)
      /\ \A i \in 1 .. Len(columns[t]) : (columns[t] \o names)[i] = columns[t][i]
      /\ \A i \in 1 .. Len(names) : (columns[t] \o names)[Len(columns[t]) + i] = names[i]
  BY <1>1, ConcatProperties
<1>3. /\ columns' \in [Tables -> Seq(Names)] /\ columns'[t] = columns[t] \o names
      /\ \A u \in Tables \ {t} : columns'[u] = columns[u]
  BY <1>1, <1>2 DEF Added
<1>4. ASSUME NEW c \in Names, Has(t, c) PROVE Has(t, c)'
  <2>1. PICK i \in 1 .. Len(columns[t]) : columns[t][i] = c
    BY <1>1, <1>4 DEF Has, ToSet
  <2>2. i \in DOMAIN (columns[t] \o names) /\ (columns[t] \o names)[i] = c
    BY <1>1, <1>2, <2>1
  <2>3. QED
    BY <1>3, <2>2 DEF Has, ToSet
<1>5. ASSUME NEW u \in Tables \ {t}, NEW c \in Names, Has(u, c) PROVE Has(u, c)'
  BY <1>3, <1>5 DEF Has
<1>6. ASSUME NEW c \in Names, Has(t, c)'
      PROVE  Has(t, c) \/ \E i \in 1 .. Len(names) : c = names[i]
  <2>1. PICK i \in 1 .. (Len(columns[t]) + Len(names)) : (columns[t] \o names)[i] = c
    BY <1>2, <1>3, <1>6 DEF Has, ToSet
  <2>2. CASE i <= Len(columns[t])
    BY <1>1, <1>2, <2>1, <2>2 DEF Has, ToSet
  <2>3. CASE i > Len(columns[t])
    <3>1. i - Len(columns[t]) \in 1 .. Len(names) /\ names[i - Len(columns[t])] = c
      <4>1. Len(columns[t]) \in Nat /\ Len(names) \in Nat
        BY <1>1
      <4>2. i - Len(columns[t]) \in 1 .. Len(names)
        BY <2>1, <2>3, <4>1
      <4>3. Len(columns[t]) + (i - Len(columns[t])) = i
        BY <2>1, <4>1
      <4>4. QED
        BY <1>2, <2>1, <4>2, <4>3
    <3>2. QED
      BY <3>1
  <2>4. QED
    BY <1>1, <2>1, <2>2, <2>3
<1>7. QED
  BY <1>3, <1>4, <1>5, <1>6

\* ALTER by ALTER, the first column that is missing comes next.
LEMMA AddNextFacts ==
  ASSUME SchemaTypeOK, NEW t \in Tables, NEW names \in Seq(Names),
         Missing(t, names) # {}, AddNext(t, names)
  PROVE  \E i \in Missing(t, names) :
           /\ \A j \in Missing(t, names) : i <= j
           /\ names[i] \in Names /\ Added(t, <<names[i]>>)
<1>1. Missing(t, names) \in SUBSET Nat /\ Missing(t, names) \subseteq 1 .. Len(names)
  BY DEF Missing
<1>2. Min(Missing(t, names)) \in Missing(t, names)
      /\ \A j \in Missing(t, names) : Min(Missing(t, names)) <= j
  BY <1>1, MinFacts
<1>3. QED
  BY <1>1, <1>2 DEF AddNext

\* While the columns of tokens are the first of CREATE TABLE, the others are missing.
LEMMA MissingTokens ==
  ASSUME SchemaTypeOK, ColumnsInv
  PROVE  /\ Len(columns["tokens"]) \in 0 .. 5
         /\ Missing("tokens", TokenColumns) = Len(columns["tokens"]) + 1 .. 5
<1> DEFINE c == columns["tokens"]
<1>1. c \in Seq(Names) /\ Len(c) \in 0 .. 5 /\ \A i \in 1 .. Len(c) : c[i] = TokenColumns[i]
  <2>1. c \in Seq(Names)
    BY DEF SchemaTypeOK, Tables, Names
  <2>2. Len(c) <= Len(TokenColumns) /\ \A i \in 1 .. Len(c) : c[i] = TokenColumns[i]
    BY DEF ColumnsInv
  <2>3. Len(TokenColumns) = 5
    BY NamesFacts
  <2> HIDE DEF c
  <2>4. Len(c) \in Nat
    BY <2>1
  <2>5. Len(c) \in 0 .. 5
    <3>1. Len(c) <= 5
      BY <2>2, <2>3, Zenon
    <3>2. \A n \in Nat : n <= 5 => n \in 0 .. 5
      OBVIOUS
    <3>3. QED
      BY <2>4, <3>1, <3>2, Zenon
  <2>6. QED
    BY <2>1, <2>2, <2>5
<1> HIDE DEF c
<1>2. \A i \in 1 .. 5 : Has("tokens", TokenColumns[i]) <=> i \in 1 .. Len(c)
  <2>1. \A x : Has("tokens", x) <=> \E j \in 1 .. Len(c) : c[j] = x
    BY <1>1 DEF Has, ToSet, c
  <2>2. \A i, j \in 1 .. 5 : TokenColumns[i] = TokenColumns[j] => i = j
    BY NamesFacts
  <2>3. 1 .. Len(c) \subseteq 1 .. 5
    BY <1>1
  <2>4. ASSUME NEW i \in 1 .. 5
        PROVE  Has("tokens", TokenColumns[i]) <=> i \in 1 .. Len(c)
    <3>1. ASSUME NEW j \in 1 .. Len(c), c[j] = TokenColumns[i] PROVE i \in 1 .. Len(c)
      <4>1. TokenColumns[j] = TokenColumns[i] /\ j \in 1 .. 5
        BY <1>1, <2>3, <3>1
      <4>2. j = i
        BY <2>2, <4>1
      <4>3. QED
        BY <3>1, <4>2
    <3>2. i \in 1 .. Len(c) => c[i] = TokenColumns[i]
      BY <1>1
    <3>3. QED
      BY <2>1, <3>1, <3>2
  <2>5. QED
    BY <2>4
<1>3. DOMAIN TokenColumns = 1 .. 5
  BY NamesFacts
<1>4. Missing("tokens", TokenColumns) = Len(c) + 1 .. 5
  BY <1>1, <1>2, <1>3 DEF Missing
<1>5. QED
  BY <1>1, <1>4 DEF c

-----------------------------------------------------------------------------
(* The database. *)

Phases == {"old", "down", "up"} \cup Upgrade \cup Script

SchemaMove ==
  \/ StartBot \/ StartDedup \/ StartSource \/ InitStep \/ ScriptStep \/ WorkStep
  \/ \E kind \in FaultKinds : Interrupt(kind)

\* Every action, one by one.
LEMMA SchemaMoves ==
  ASSUME SchemaMove
  PROVE  \/ StartBot \/ StartDedup \/ StartSource
         \/ \E t \in Tables : CreateTable(t)
         \/ TablesDone \/ CreateUnique \/ ExtrasDone \/ AddTokenColumn \/ TokenColumnsDone
         \/ GuardOutcome \/ AddOutcome \/ (\E c \in Logs \cup Extras : Extend(c))
         \/ AddSource("source", "fill", "columns") \/ FillSource("fill", "columns")
         \/ AddSource("source_script", "fill_script", "down") \/ FillSource("fill_script", "down")
         \/ DedupColumn \/ DedupBegin \/ DedupEnd \/ (\E b \in Blocks : Collapse(b))
         \/ OldStops \/ (\E b \in Blocks : OldBlock(b)) \/ (\E b \in Blocks : LogBlock(b))
         \/ (\E b \in Blocks : LogBlockRaises(b))
         \/ (\E t \in Tokens : SeedToken(t)) \/ (\E kind \in FaultKinds : Interrupt(kind))
BY DEF SchemaMove, InitStep, ScriptStep, WorkStep, CreateLog, AddExtra

\* What a step of the database does to the phase and to the faults.
LEMMA MoveFacts ==
  ASSUME SchemaTypeOK, SchemaMove
  PROVE  /\ phase' \in Phases /\ faults' \in 0 .. MaxFaults
         /\ faults' = faults \/ faults' = faults + 1
         /\ phase = "up" /\ phase' # "up" => faults' = faults + 1
         /\ phase' = "old" => phase = "old"
         /\ phase' = "collapse" => phase \in {"dedup", "collapse"}
         /\ phase' \in {"alters", "outcome"} => phase \in {"columns", "outcome", "alters"}
         /\ phase' = "up" => phase \in {"up", "outcome", "alters"}
<1> USE SchemaUpgradeAssumption DEF Goto, Phases, Upgrade, Script, schemaVars, SchemaTypeOK
<1>1. CASE StartBot \/ StartDedup \/ StartSource \/ TablesDone \/ CreateUnique \/ ExtrasDone
  BY <1>1 DEF StartBot, StartDedup, StartSource, TablesDone, CreateUnique, ExtrasDone
<1>2. CASE \E t \in Tables : CreateTable(t)
  BY <1>2 DEF CreateTable
<1>3. CASE AddTokenColumn \/ TokenColumnsDone \/ GuardOutcome \/ AddOutcome
  BY <1>3 DEF AddTokenColumn, TokenColumnsDone, GuardOutcome, AddOutcome
<1>4. CASE \E c \in Logs \cup Extras : Extend(c)
  BY <1>4 DEF Extend
<1>5. CASE \/ AddSource("source", "fill", "columns") \/ FillSource("fill", "columns")
           \/ AddSource("source_script", "fill_script", "down") \/ FillSource("fill_script", "down")
  BY <1>5 DEF AddSource, FillSource
<1>6. CASE DedupColumn \/ DedupBegin \/ DedupEnd \/ \E b \in Blocks : Collapse(b)
  BY <1>6 DEF DedupColumn, DedupBegin, DedupEnd, Collapse
<1>7. CASE OldStops \/ \E b \in Blocks : OldBlock(b) \/ LogBlock(b) \/ LogBlockRaises(b)
  BY <1>7 DEF OldStops, OldBlock, LogBlock, LogBlockRaises
<1>8. CASE \E t \in Tokens : SeedToken(t)
  BY <1>8 DEF SeedToken
<1>9. CASE \E kind \in FaultKinds : Interrupt(kind)
  BY <1>9 DEF Interrupt, Fault
<1>10. QED
  BY <1>1, <1>2, <1>3, <1>4, <1>5, <1>6, <1>7, <1>8, <1>9, SchemaMoves

\* What each step makes of the attempts: the log takes one, refuses one, or neither.
LEMMA AttemptsStep ==
  ASSUME SchemaTypeOK, SchemaMove, \A b \in Blocks : refused[b] <= attempts[b]
  PROVE  /\ Recorded \in [Blocks -> 0 .. MaxAttempts]
         /\ attempts' \in [Blocks -> 0 .. MaxAttempts] /\ refused' \in [Blocks -> 0 .. MaxAttempts]
         /\ \A b \in Blocks : (refused[b] <= attempts[b])'
         /\ UNCHANGED <<attempts, refused>> => Recorded' = Recorded
         /\ \A b \in Blocks : OldBlock(b) \/ LogBlock(b) =>
              Recorded[b] < MaxAttempts /\ Recorded' = [Recorded EXCEPT ![b] = @ + 1]
         /\ \A b \in Blocks : LogBlockRaises(b) => Recorded' = Recorded
<1> USE SchemaUpgradeAssumption
<1>1. /\ attempts \in [Blocks -> 0 .. MaxAttempts] /\ refused \in [Blocks -> 0 .. MaxAttempts]
      /\ MaxAttempts \in Nat
  BY DEF SchemaTypeOK
<1>2. Recorded \in [Blocks -> 0 .. MaxAttempts]
  BY <1>1 DEF Recorded
<1>3. UNCHANGED <<attempts, refused>> => Recorded' = Recorded
  BY DEF Recorded
<1>4. ASSUME NEW b \in Blocks, OldBlock(b) \/ LogBlock(b)
      PROVE  /\ attempts[b] < MaxAttempts /\ attempts' = [attempts EXCEPT ![b] = @ + 1]
             /\ refused' = refused
             /\ Recorded[b] < MaxAttempts /\ Recorded' = [Recorded EXCEPT ![b] = @ + 1]
  <2>1. /\ attempts[b] < MaxAttempts /\ attempts' = [attempts EXCEPT ![b] = @ + 1]
        /\ refused' = refused
    BY <1>4 DEF OldBlock, LogBlock
  <2>2. ASSUME NEW c \in Blocks
        PROVE  Recorded'[c] = [Recorded EXCEPT ![b] = @ + 1][c]
    <3>1. Recorded'[c] = attempts'[c] - refused[c] /\ Recorded[c] = attempts[c] - refused[c]
      BY <2>1 DEF Recorded
    <3>2. CASE c = b
      BY <1>1, <1>2, <2>1, <3>1, <3>2
    <3>3. CASE c # b
      BY <1>1, <1>2, <2>1, <3>1, <3>3
    <3>4. QED
      BY <3>2, <3>3
  <2>3. Recorded' = [Recorded EXCEPT ![b] = @ + 1]
    BY <2>2 DEF Recorded
  <2>4. Recorded[b] < MaxAttempts
    BY <1>1, <2>1 DEF Recorded
  <2>5. QED
    BY <2>1, <2>3, <2>4
<1>5. ASSUME NEW b \in Blocks, LogBlockRaises(b)
      PROVE  /\ attempts[b] < MaxAttempts /\ attempts' = [attempts EXCEPT ![b] = @ + 1]
             /\ refused' = [refused EXCEPT ![b] = @ + 1] /\ Recorded' = Recorded
  <2>1. /\ attempts[b] < MaxAttempts /\ attempts' = [attempts EXCEPT ![b] = @ + 1]
        /\ refused' = [refused EXCEPT ![b] = @ + 1]
    BY <1>5 DEF LogBlockRaises
  <2>2. ASSUME NEW c \in Blocks PROVE attempts'[c] - refused'[c] = attempts[c] - refused[c]
    BY <1>1, <2>1
  <2>3. QED
    BY <2>1, <2>2 DEF Recorded
<1>6. \/ UNCHANGED <<attempts, refused>>
      \/ \E b \in Blocks : OldBlock(b) \/ LogBlock(b) \/ LogBlockRaises(b)
  <2>1. CASE \/ StartBot \/ StartDedup \/ StartSource \/ TablesDone \/ CreateUnique \/ ExtrasDone
             \/ AddTokenColumn \/ TokenColumnsDone \/ GuardOutcome \/ AddOutcome \/ OldStops
             \/ DedupColumn \/ DedupBegin \/ DedupEnd \/ (\E b \in Blocks : Collapse(b))
    BY <2>1
       DEF schemaVars, StartBot, StartDedup, StartSource, TablesDone, CreateUnique, ExtrasDone,
           AddTokenColumn, TokenColumnsDone, GuardOutcome, AddOutcome, OldStops,
           DedupColumn, DedupBegin, DedupEnd, Collapse
  <2>2. CASE \/ (\E t \in Tables : CreateTable(t)) \/ (\E c \in Logs \cup Extras : Extend(c))
             \/ (\E t \in Tokens : SeedToken(t)) \/ (\E kind \in FaultKinds : Interrupt(kind))
    BY <2>2 DEF CreateTable, Extend, SeedToken, Interrupt
  <2>3. CASE \/ AddSource("source", "fill", "columns") \/ FillSource("fill", "columns")
             \/ AddSource("source_script", "fill_script", "down") \/ FillSource("fill_script", "down")
    BY <2>3 DEF AddSource, FillSource
  <2>4. QED
    BY <2>1, <2>2, <2>3, SchemaMoves
<1>7. /\ attempts' \in [Blocks -> 0 .. MaxAttempts] /\ refused' \in [Blocks -> 0 .. MaxAttempts]
      /\ \A b \in Blocks : refused'[b] <= attempts'[b]
  <2>1. CASE UNCHANGED <<attempts, refused>>
    BY <1>1, <2>1
  <2>2. CASE \E b \in Blocks : OldBlock(b) \/ LogBlock(b)
    <3>1. PICK b \in Blocks : OldBlock(b) \/ LogBlock(b)
      BY <2>2
    <3>2. /\ attempts[b] < MaxAttempts /\ attempts' = [attempts EXCEPT ![b] = @ + 1]
          /\ refused' = refused
      BY <1>4, <3>1
    <3>3. QED
      BY <1>1, <3>2
  <2>3. CASE \E b \in Blocks : LogBlockRaises(b)
    <3>1. PICK b \in Blocks : LogBlockRaises(b)
      BY <2>3
    <3>2. /\ attempts[b] < MaxAttempts /\ attempts' = [attempts EXCEPT ![b] = @ + 1]
          /\ refused' = [refused EXCEPT ![b] = @ + 1]
      BY <1>5, <3>1
    <3>3. QED
      BY <1>1, <3>2
  <2>4. QED
    BY <1>6, <2>1, <2>2, <2>3
<1>8. QED
  BY <1>2, <1>3, <1>4, <1>5, <1>7

\* The rows of alert_block_log and the count of attempts move together.
LEMMA LogStep ==
  ASSUME SchemaTypeOK, LogInv, SchemaMove
  PROVE  /\ LogInv'
         /\ attempts' \in [Blocks -> 0 .. MaxAttempts] /\ refused' \in [Blocks -> 0 .. MaxAttempts]
         /\ unique' \in BOOLEAN
         /\ blocks' \in [Blocks -> Counts] /\ work' \in [Blocks -> Counts]
<1> USE SchemaUpgradeAssumption
<1> DEFINE Typed(l) == l \in [Blocks -> Counts]
           Kept(b) == \/ blocks[b] = <<Recorded[b]>> /\ Recorded[b] > 0
                      \/ blocks[b] = Ones(Recorded[b]) /\ (unique => Recorded[b] <= 1)
           Working(b) == work[b] = blocks[b] \/ (Recorded[b] > 0 /\ work[b] = <<Recorded[b]>>)
<1>0. /\ Recorded \in [Blocks -> 0 .. MaxAttempts]
      /\ attempts' \in [Blocks -> 0 .. MaxAttempts] /\ refused' \in [Blocks -> 0 .. MaxAttempts]
      /\ \A b \in Blocks : (refused[b] <= attempts[b])'
      /\ UNCHANGED <<attempts, refused>> => Recorded' = Recorded
      /\ \A b \in Blocks : OldBlock(b) \/ LogBlock(b) =>
           Recorded[b] < MaxAttempts /\ Recorded' = [Recorded EXCEPT ![b] = @ + 1]
      /\ \A b \in Blocks : LogBlockRaises(b) => Recorded' = Recorded
  BY AttemptsStep DEF LogInv
<1>1. /\ Typed(blocks) /\ Typed(work) /\ Recorded \in [Blocks -> 0 .. MaxAttempts]
      /\ unique \in BOOLEAN
  BY <1>0 DEF SchemaTypeOK
<1>2. /\ phase' = "old" => phase = "old"
      /\ phase' = "collapse" => phase \in {"dedup", "collapse"}
  BY MoveFacts
<1>3. ASSUME UNCHANGED <<unique, blocks, attempts, refused>>, Typed(work'),
             phase' = "collapse" => phase = "collapse" /\ work' = work
      PROVE  LogInv' /\ Typed(blocks')
  BY <1>0, <1>1, <1>2, <1>3 DEF LogInv
<1>4. CASE \/ StartBot \/ StartDedup \/ StartSource \/ TablesDone \/ ExtrasDone
           \/ AddTokenColumn \/ TokenColumnsDone \/ GuardOutcome \/ AddOutcome
           \/ DedupColumn \/ OldStops
  BY <1>0, <1>1, <1>3, <1>4
     DEF schemaVars, Goto, StartBot, StartDedup, StartSource, TablesDone, ExtrasDone,
         AddTokenColumn, TokenColumnsDone, GuardOutcome, AddOutcome, DedupColumn, OldStops
<1>5. CASE \/ (\E t \in Tables : CreateTable(t)) \/ (\E c \in Logs \cup Extras : Extend(c))
           \/ \E t \in Tokens : SeedToken(t)
  BY <1>0, <1>1, <1>3, <1>5 DEF CreateTable, Extend, SeedToken
<1>6. CASE \/ AddSource("source", "fill", "columns") \/ FillSource("fill", "columns")
           \/ AddSource("source_script", "fill_script", "down") \/ FillSource("fill_script", "down")
  BY <1>0, <1>1, <1>3, <1>6 DEF AddSource, FillSource, Goto
<1>7. CASE CreateUnique
  <2>1. UNCHANGED <<blocks, work, Recorded>> /\ phase' \in {"extras", "down"}
        /\ unique' = (unique \/ Duplicated(blocks) = {})
    BY <1>0, <1>7 DEF CreateUnique, Goto
  <2>2. ASSUME NEW b \in Blocks PROVE Kept(b)'
    <3>1. Kept(b)
      BY DEF LogInv
    <3>2. CASE Len(blocks[b]) > 1
      BY <2>1, <3>1, <3>2 DEF Duplicated
    <3>3. CASE ~(Len(blocks[b]) > 1)
      <4>1. Recorded[b] \in Nat /\ Len(Ones(Recorded[b])) = Recorded[b]
        BY <1>1, RowsFacts
      <4>2. blocks[b] = Ones(Recorded[b]) => Recorded[b] <= 1
        BY <3>3, <4>1
      <4>3. QED
        BY <2>1, <3>1, <4>2
    <3>4. QED
      BY <3>2, <3>3
  <2>3. QED
    BY <1>0, <1>1, <2>1, <2>2 DEF LogInv
<1>8. CASE DedupBegin
  BY <1>0, <1>1, <1>8 DEF DedupBegin, Goto, LogInv
<1>9. CASE \E b \in Blocks : Collapse(b)
  <2>1. PICK b \in Blocks : Collapse(b)
    BY <1>9
  <2>2. /\ phase = "collapse" /\ phase' = phase /\ UNCHANGED <<unique, blocks, Recorded>>
        /\ Len(work[b]) > 1 /\ work' = [work EXCEPT ![b] = <<Len(work[b])>>]
    BY <1>0, <2>1 DEF Collapse, Collapsed, Duplicated
  <2>3. Working(b) /\ Kept(b) /\ \A c \in Blocks : Working(c)
    BY <2>2 DEF LogInv
  <2>4. Len(<<Recorded[b]>>) = 1
    OBVIOUS
  <2>5. Len(work[b]) = Recorded[b] /\ Recorded[b] > 0
    <3>1. Recorded[b] \in Nat /\ Len(Ones(Recorded[b])) = Recorded[b]
      BY <1>1, RowsFacts
    <3>2. work[b] # <<Recorded[b]>>
      <4>1. ~(1 > 1)
        OBVIOUS
      <4>2. QED
        BY <2>2, <2>4, <4>1, Zenon
    <3>3. blocks[b] = work[b]
      BY <2>3, <3>2
    <3>4. work[b] = Ones(Recorded[b])
      BY <2>3, <3>2, <3>3
    <3>5. QED
      BY <2>2, <3>1, <3>4
  <2>6. \A c \in Blocks : Working(c)'
    BY <1>1, <2>2, <2>3, <2>5
  <2>7. Typed(work')
    BY <1>1, <2>2, <2>5, RowsFacts
  <2>8. QED
    BY <1>0, <1>1, <2>2, <2>6, <2>7 DEF LogInv
<1>10. CASE DedupEnd
  <2>1. /\ phase = "collapse" /\ phase' = "down" /\ UNCHANGED <<attempts, refused>>
        /\ Recorded' = Recorded
        /\ \A b \in Blocks : ~(Len(work[b]) > 1)
        /\ work' = [b \in Blocks |-> <<>>]
        /\ (blocks' = work /\ unique' = TRUE) \/ UNCHANGED <<blocks, unique>>
    BY <1>0, <1>10 DEF DedupEnd, Goto, Duplicated
  <2>2. Typed(work')
    BY <2>1, RowsFacts
  <2>3. CASE blocks' = work /\ unique' = TRUE
    <3>1. ASSUME NEW b \in Blocks PROVE Kept(b)'
      <4>1. Working(b) /\ Kept(b) /\ ~(Len(work[b]) > 1)
        BY <2>1 DEF LogInv
      <4>2. Recorded[b] \in Nat /\ Len(Ones(Recorded[b])) = Recorded[b]
        BY <1>1, RowsFacts
      <4>3. work[b] = Ones(Recorded[b]) => Recorded[b] <= 1
        BY <4>1, <4>2
      <4>4. QED
        BY <2>1, <2>3, <4>1, <4>3
    <3>2. QED
      BY <1>0, <1>1, <2>1, <2>2, <2>3, <3>1 DEF LogInv
  <2>4. CASE UNCHANGED <<blocks, unique>>
    BY <1>0, <1>1, <1>3, <2>1, <2>2, <2>4
  <2>5. QED
    BY <2>1, <2>3, <2>4
<1>11. CASE \E b \in Blocks : OldBlock(b)
  <2>1. PICK b \in Blocks : OldBlock(b)
    BY <1>11
  <2>2. /\ phase = "old" /\ phase' = phase /\ Recorded[b] < MaxAttempts
        /\ blocks' = [blocks EXCEPT ![b] = Append(@, 1)]
        /\ Recorded' = [Recorded EXCEPT ![b] = @ + 1] /\ UNCHANGED <<unique, work>>
    BY <1>0, <2>1 DEF OldBlock
  <2>3. ~unique /\ \A c \in Blocks : blocks[c] = Ones(Recorded[c])
    BY <2>2 DEF LogInv
  <2>4. Recorded[b] + 1 \in 0 .. MaxAttempts /\ Append(blocks[b], 1) = Ones(Recorded[b] + 1)
    <3>1. Recorded[b] \in 0 .. MaxAttempts
      BY <1>1
    <3>2. Recorded[b] + 1 \in 0 .. MaxAttempts
      BY <2>2, <3>1
    <3>3. Append(Ones(Recorded[b]), 1) = Ones(Recorded[b] + 1)
      BY <3>1, RowsFacts
    <3>4. QED
      BY <2>3, <3>2, <3>3
  <2>5. Recorded' \in [Blocks -> 0 .. MaxAttempts] /\ \A c \in Blocks : blocks'[c] = Ones(Recorded'[c])
    BY <1>1, <2>2, <2>3, <2>4
  <2>6. Typed(blocks')
    BY <1>1, <2>2, <2>4, RowsFacts
  <2>7. QED
    BY <1>0, <1>1, <2>2, <2>3, <2>5, <2>6 DEF LogInv
<1>12. CASE \E b \in Blocks : LogBlock(b)
  <2>1. PICK b \in Blocks : LogBlock(b)
    BY <1>12
  <2>2. /\ phase = "up" /\ phase' = phase /\ Recorded[b] < MaxAttempts /\ unique
        /\ blocks' = [blocks EXCEPT ![b] = IF @ = <<>> THEN <<1>> ELSE <<@[1] + 1>>]
        /\ Recorded' = [Recorded EXCEPT ![b] = @ + 1] /\ UNCHANGED <<unique, work>>
    BY <1>0, <2>1 DEF LogBlock, Upsertable
  <2>3. Recorded[b] + 1 \in 0 .. MaxAttempts /\ Recorded[b] + 1 > 0
    BY <1>1, <2>2
  <2>4. blocks'[b] = <<Recorded[b] + 1>>
    <3>1. blocks[b] = <<Recorded[b]>> \/ (blocks[b] = Ones(Recorded[b]) /\ Recorded[b] <= 1)
      BY <2>2 DEF LogInv
    <3>2. CASE blocks[b] = <<Recorded[b]>>
      <4>1. blocks[b] # <<>> /\ blocks[b][1] = Recorded[b]
        BY <3>2
      <4>2. QED
        BY <1>1, <2>2, <4>1
    <3>3. CASE Recorded[b] = 0 /\ blocks[b] = Ones(0)
      BY <1>1, <2>2, <3>3, RowsFacts
    <3>4. CASE Recorded[b] = 1 /\ blocks[b] = Ones(1)
      BY <1>1, <2>2, <3>2, <3>4, RowsFacts
    <3>5. Recorded[b] \in 0 .. MaxAttempts
      BY <1>1
    <3>6. Recorded[b] <= 1 => Recorded[b] = 0 \/ Recorded[b] = 1
      BY <3>5
    <3>7. QED
      BY <3>1, <3>2, <3>3, <3>4, <3>6
  <2>5. Typed(blocks') /\ Recorded' \in [Blocks -> 0 .. MaxAttempts]
    BY <1>1, <2>2, <2>3, <2>4, RowsFacts
  <2>6. \A c \in Blocks : Kept(c)'
    BY <1>1, <2>2, <2>3, <2>4 DEF LogInv
  <2>7. QED
    BY <1>0, <1>1, <2>2, <2>5, <2>6 DEF LogInv
<1>13. CASE \E kind \in FaultKinds : Interrupt(kind)
  <2>1. /\ phase' = "down" /\ UNCHANGED <<unique, blocks, attempts, refused>>
        /\ work' = [b \in Blocks |-> <<>>]
    BY <1>13 DEF Interrupt
  <2>2. QED
    BY <1>0, <1>1, <1>3, <2>1, RowsFacts
<1>14. CASE \E b \in Blocks : LogBlockRaises(b)
  <2>1. /\ UNCHANGED <<unique, blocks, work, phase, Recorded>> /\ phase = "up"
    BY <1>0, <1>14 DEF LogBlockRaises
  <2>2. QED
    BY <1>0, <1>1, <2>1 DEF LogInv
<1>15. QED
  BY <1>0, <1>4, <1>5, <1>6, <1>7, <1>8, <1>9, <1>10, <1>11, <1>12, <1>13, <1>14, SchemaMoves

\* The columns of every table stay typed, and those of tokens in their order.
LEMMA ColumnsStep ==
  ASSUME SchemaTypeOK, ColumnsInv, SchemaMove
  PROVE  /\ ColumnsInv' /\ columns' \in [Tables -> Seq(Names)]
         /\ Has("tokens", "ath_source") => Has("tokens", "ath_source")'
<1> DEFINE c == columns["tokens"]
           first == "ath_source"
<1>1. columns \in [Tables -> Seq(Names)] /\ c \in Seq(Names) /\ "tokens" \in Tables /\ exists \subseteq Tables
  BY DEF SchemaTypeOK, Tables
<1>2. PICK k \in 0 .. 5 : Len(c) = k /\ Missing("tokens", TokenColumns) = k + 1 .. 5
  BY MissingTokens
<1>3. \A i \in 1 .. k : c[i] = TokenColumns[i]
  BY <1>2 DEF ColumnsInv
<1>4. /\ phase' \in {"alters", "outcome"} => phase \in {"columns", "outcome", "alters"}
      /\ phase' = "up" => phase \in {"up", "outcome", "alters"}
  BY MoveFacts
<1>5. ASSUME columns' = columns, exists' = exists,
             phase' \notin {phase, "down", "tables"} => "tokens" \in exists,
             phase' = phase \/ phase' \notin {"outcome", "alters", "up"}
      PROVE  /\ ColumnsInv' /\ columns' \in [Tables -> Seq(Names)]
             /\ Has("tokens", first) => Has("tokens", first)'
  BY <1>1, <1>5 DEF ColumnsInv, Missing, Has
<1>6. CASE \/ StartBot \/ StartDedup \/ StartSource \/ TablesDone \/ ExtrasDone \/ OldStops
           \/ CreateUnique \/ DedupBegin \/ DedupEnd
  BY <1>5, <1>6
     DEF ColumnsInv, Tables, schemaVars, Goto, StartBot, StartDedup, StartSource, TablesDone, ExtrasDone, OldStops,
         CreateUnique, DedupBegin, DedupEnd
<1>7. CASE \/ (\E d \in Logs \cup Extras : Extend(d)) \/ (\E t \in Tokens : SeedToken(t))
           \/ (\E b \in Blocks : OldBlock(b)) \/ (\E b \in Blocks : LogBlock(b))
           \/ (\E b \in Blocks : LogBlockRaises(b))
           \/ (\E b \in Blocks : Collapse(b)) \/ (\E kind \in FaultKinds : Interrupt(kind))
  BY <1>5, <1>7 DEF Extend, SeedToken, OldBlock, LogBlock, LogBlockRaises, Collapse, Interrupt
<1>8. CASE FillSource("fill", "columns") \/ FillSource("fill_script", "down")
  BY <1>5, <1>8 DEF FillSource, Goto, ColumnsInv
\* Other tables.
<1>9. ASSUME NEW t \in Tables, t # "tokens", NEW names \in Seq(Names), Added(t, names),
             exists \subseteq exists', phase' = "alters" => Missing("alerts", OutcomeColumns)' # {},
             phase' = phase \/ (phase' = "up" /\ phase = "alters")
      PROVE  /\ ColumnsInv' /\ columns' \in [Tables -> Seq(Names)]
             /\ Has("tokens", first) => Has("tokens", first)'
  <2>1. columns' \in [Tables -> Seq(Names)] /\ columns'["tokens"] = c
    BY <1>1, <1>9, AddedFacts
  <2>2. QED
    BY <1>9, <2>1 DEF ColumnsInv, Has
<1>10. CASE \E t \in Tables : CreateTable(t)
  <2>1. PICK t \in Tables : CreateTable(t)
    BY <1>10
  <2>2. phase = "tables" /\ phase' = phase /\ t \notin exists /\ exists' = exists \cup {t}
    BY <2>1 DEF CreateTable
  <2>3. CASE t = "tokens"
    <3>1. c = <<>> /\ Added("tokens", TokenColumns)
      BY <2>1, <2>2, <2>3 DEF CreateTable, ColumnsInv
    <3>2. <<>> \o TokenColumns = TokenColumns
      BY NamesFacts, ConcatEmptySeq
    <3>3. columns' \in [Tables -> Seq(Names)] /\ columns'["tokens"] = TokenColumns
      <4>1. TokenColumns \in Seq(Names) /\ "tokens" \in Tables
        BY <1>1, NamesFacts
      <4>2. /\ columns' \in [Tables -> Seq(Names)]
            /\ columns'["tokens"] = columns["tokens"] \o TokenColumns
        BY <3>1, <4>1, AddedFacts
      <4>3. QED
        BY <3>1, <3>2, <4>2
    <3>4. ~Has("tokens", first)
      BY <3>1 DEF Has, ToSet
    <3>5. QED
      BY <2>2, <2>3, <3>3, <3>4, NamesFacts DEF ColumnsInv
  <2>4. CASE t # "tokens"
    <3>1. Added(t, DedupColumns) \/ Added(t, <<>>)
      BY <2>1, <2>4 DEF CreateTable
    <3>2. <<>> \in Seq(Names)
      OBVIOUS
    <3>3. QED
      BY <1>9, <2>2, <2>4, <3>1, <3>2, NamesFacts
  <2>5. QED
    BY <2>3, <2>4
<1>11. CASE DedupColumn
  <2>1. PICK i \in Missing("alert_block_log", DedupColumns) :
          DedupColumns[i] \in Names /\ Added("alert_block_log", <<DedupColumns[i]>>)
    BY <1>11, NamesFacts, AddNextFacts DEF DedupColumn, Tables
  <2>2. phase = "dedup" /\ phase' = phase /\ exists' = exists
    BY <1>11 DEF DedupColumn
  <2>3. <<DedupColumns[i]>> \in Seq(Names)
    BY <2>1
  <2>4. QED
    BY <1>9, <2>1, <2>2, <2>3 DEF Tables
<1>12. CASE AddOutcome
  <2>1. phase = "alters" /\ exists' = exists /\ Missing("alerts", OutcomeColumns) # {}
    BY <1>12 DEF AddOutcome, Goto, ColumnsInv
  <2>2. PICK i \in Missing("alerts", OutcomeColumns) :
          OutcomeColumns[i] \in Names /\ Added("alerts", <<OutcomeColumns[i]>>)
    BY <1>12, <2>1, NamesFacts, AddNextFacts DEF AddOutcome, Tables
  <2>3. <<OutcomeColumns[i]>> \in Seq(Names)
    BY <2>2
  <2>4. ASSUME phase' = "alters" PROVE Missing("alerts", OutcomeColumns)' # {}
    <3>1. Cardinality(Missing("alerts", OutcomeColumns)) # 1
      BY <1>12, <2>4 DEF AddOutcome, Goto
    <3>2. PICK j \in Missing("alerts", OutcomeColumns) : j # i
      <4>1. Missing("alerts", OutcomeColumns) # {i}
        BY <3>1, FS_Singleton
      <4>2. QED
        BY <2>2, <4>1
    <3>3. DOMAIN OutcomeColumns = 1 .. 6 /\ \A m, n \in 1 .. 6 : OutcomeColumns[m] = OutcomeColumns[n] => m = n
      BY DEF OutcomeColumns
    <3>4. i \in 1 .. 6 /\ j \in 1 .. 6 /\ OutcomeColumns[j] # OutcomeColumns[i]
      BY <3>2, <3>3 DEF Missing
    <3>5. OutcomeColumns[j] \in Names /\ ~Has("alerts", OutcomeColumns[j])
      <4>1. OutcomeColumns[j] \in Names
        BY <3>4, NamesFacts
      <4>2. QED
        BY <3>2, <4>1 DEF Missing
    <3>6. ~Has("alerts", OutcomeColumns[j])'
      <4>1. "alerts" \in Tables
        BY DEF Tables
      <4>2. Has("alerts", OutcomeColumns[j])' =>
              \/ Has("alerts", OutcomeColumns[j])
              \/ \E m \in 1 .. Len(<<OutcomeColumns[i]>>) : OutcomeColumns[j] = <<OutcomeColumns[i]>>[m]
        BY <2>2, <2>3, <3>5, <4>1, AddedFacts
      <4>3. QED
        BY <3>4, <3>5, <4>2
    <3>7. QED
      BY <3>3, <3>4, <3>6 DEF Missing
  <2>5. phase' = phase \/ (phase' = "up" /\ phase = "alters")
    BY <1>12, <2>1 DEF AddOutcome, Goto
  <2>6. QED
    BY <1>9, <2>1, <2>2, <2>3, <2>4, <2>5 DEF Tables
\* The columns of tokens.
<1>13. ASSUME k \in 0 .. 4, columns' = [columns EXCEPT !["tokens"] = @ \o <<TokenColumns[k + 1]>>],
              exists' = exists, "tokens" \in exists, phase' \notin {"outcome", "alters", "up"}
       PROVE  /\ ColumnsInv' /\ columns' \in [Tables -> Seq(Names)]
              /\ Has("tokens", first) => Has("tokens", first)'
  <2>1. TokenColumns[k + 1] \in Names /\ <<TokenColumns[k + 1]>> \in Seq(Names)
    BY <1>13, NamesFacts
  <2>2. Added("tokens", <<TokenColumns[k + 1]>>)
    BY <1>13 DEF Added
  <2>3. /\ columns' \in [Tables -> Seq(Names)]
        /\ columns'["tokens"] = c \o <<TokenColumns[k + 1]>>
    BY <1>1, <2>1, <2>2, AddedFacts
  <2>4. Has("tokens", first) => Has("tokens", first)'
    BY <1>1, <2>1, <2>2, NamesFacts, AddedFacts
  <2>5. /\ Len(c \o <<TokenColumns[k + 1]>>) = k + 1
        /\ \A i \in 1 .. k : (c \o <<TokenColumns[k + 1]>>)[i] = c[i]
        /\ (c \o <<TokenColumns[k + 1]>>)[k + 1] = TokenColumns[k + 1]
    <3> DEFINE one == <<TokenColumns[k + 1]>>
    <3>1. Len(one) = 1 /\ one[1] = TokenColumns[k + 1]
      OBVIOUS
    <3>2. /\ Len(c \o one) = Len(c) + Len(one)
          /\ \A i \in 1 .. Len(c) + Len(one) :
               (c \o one)[i] = IF i <= Len(c) THEN c[i] ELSE one[i - Len(c)]
      BY <1>1, <2>1, ConcatProperties
    <3> HIDE DEF c, one
    <3>3. /\ Len(c \o one) = k + 1
          /\ \A i \in 1 .. k + 1 : (c \o one)[i] = IF i <= k THEN c[i] ELSE one[i - k]
      BY <1>2, <3>1, <3>2
    <3>4. \A i \in 1 .. k : (c \o one)[i] = c[i]
      BY <3>3
    <3>5. (c \o one)[k + 1] = one[1]
      BY <3>3
    <3>6. QED
      BY <3>1, <3>3, <3>4, <3>5 DEF one
  <2>6. \A i \in 1 .. k + 1 : columns'["tokens"][i] = TokenColumns[i]
    BY <1>2, <1>3, <2>3, <2>5
  <2>7. Len(columns'["tokens"]) <= Len(TokenColumns)
    BY <1>13, <2>3, <2>5, NamesFacts
  <2>8. QED
    BY <1>13, <2>3, <2>4, <2>5, <2>6, <2>7 DEF ColumnsInv
<1>14. CASE AddTokenColumn
  <2>1. PICK i \in Missing("tokens", TokenColumns) :
          /\ \A j \in Missing("tokens", TokenColumns) : i <= j
          /\ Added("tokens", <<TokenColumns[i]>>)
    BY <1>1, <1>14, NamesFacts, AddNextFacts DEF AddTokenColumn
  <2>2. k \in 0 .. 4 /\ i = k + 1
    BY <1>2, <2>1
  <2>3. QED
    <3>1. /\ phase = "columns" /\ phase' = phase /\ exists' = exists
          /\ columns' = [columns EXCEPT !["tokens"] = @ \o <<TokenColumns[k + 1]>>]
      BY <1>14, <2>1, <2>2 DEF AddTokenColumn, Added
    <3>2. "tokens" \in exists
      BY <3>1 DEF ColumnsInv
    <3>3. QED
      BY <1>13, <2>2, <3>1, <3>2
<1>15. CASE TokenColumnsDone
  <2>1. k = 5
    BY <1>2, <1>15 DEF TokenColumnsDone
  <2>2. c = TokenColumns
    <3>1. Len(c) = Len(TokenColumns)
      BY <1>2, <2>1, NamesFacts, Zenon
    <3>2. \A i \in 1 .. Len(c) : c[i] = TokenColumns[i]
      BY <1>2, <1>3, Zenon
    <3>3. TokenColumns \in Seq(Names)
      BY NamesFacts
    <3> HIDE DEF c
    <3>4. QED
      BY <1>1, <3>1, <3>2, <3>3, SeqEqual
  <2>3. phase = "columns" /\ phase' = "outcome" /\ columns' = columns /\ exists' = exists
    BY <1>15 DEF TokenColumnsDone, Goto, schemaVars
  <2>4. QED
    BY <1>1, <2>2, <2>3 DEF ColumnsInv, Has
<1>16. CASE GuardOutcome
  <2>1. phase = "outcome" /\ columns' = columns /\ exists' = exists
        /\ phase' = IF Has("alerts", OutcomeColumns[1]) THEN "up" ELSE "alters"
    BY <1>16 DEF GuardOutcome, Goto, schemaVars
  <2>2. ~Has("alerts", OutcomeColumns[1]) => Missing("alerts", OutcomeColumns) # {}
    <3>1. 1 \in DOMAIN OutcomeColumns
      BY DEF OutcomeColumns
    <3>2. QED
      BY <3>1 DEF Missing
  <2>3. QED
    BY <1>1, <2>1, <2>2 DEF ColumnsInv, Has, Missing
<1>17. CASE AddSource("source", "fill", "columns") \/ AddSource("source_script", "fill_script", "down")
  <2>1. exists' = exists /\ phase \in {"source", "source_script"}
        /\ phase' \in {"fill", "fill_script", "columns", "down"}
        /\ (columns' = columns \/ (~Has("tokens", first) /\ Added("tokens", <<first>>)))
    BY <1>17 DEF AddSource, Goto
  <2>2. CASE columns' = columns
    BY <1>5, <2>1, <2>2 DEF ColumnsInv
  <2>3. CASE ~Has("tokens", first) /\ Added("tokens", <<first>>)
    <3>1. 1 \in Missing("tokens", TokenColumns)
      <4>1. 1 \in DOMAIN TokenColumns /\ TokenColumns[1] = first
        BY NamesFacts
      <4>2. QED
        BY <2>3, <4>1 DEF Missing
    <3>2. k = 0 /\ TokenColumns[k + 1] = first
      BY <1>2, <3>1, NamesFacts
    <3>3. columns' = [columns EXCEPT !["tokens"] = @ \o <<TokenColumns[k + 1]>>]
      BY <2>3, <3>2 DEF Added
    <3>4. "tokens" \in exists
      BY <2>1 DEF ColumnsInv
    <3>5. QED
      BY <1>13, <2>1, <3>2, <3>3, <3>4
  <2>4. QED
    BY <2>1, <2>2, <2>3
<1>18. QED
  BY <1>6, <1>7, <1>8, <1>10, <1>11, <1>12, <1>14, <1>15, <1>16, <1>17, SchemaMoves

\* Only the backfill takes a label from a row, and it meets none of Birdeye's.
LEMMA SourceStep ==
  ASSUME SchemaTypeOK, ColumnsInv, SourceInv, SchemaMove
  PROVE  /\ SourceInv' /\ source' \in [Tokens -> Sources] /\ priced' \subseteq Tokens
         /\ \A t \in Tokens : source[t] = "birdeye" => source'[t] = "birdeye"
<1> DEFINE has == Has("tokens", "ath_source")
           filling == {"fill", "fill_script"}
<1>1. source \in [Tokens -> Sources] /\ priced \subseteq Tokens
  BY DEF SchemaTypeOK
<1>2. has => has'
  BY ColumnsStep
<1>3. \A t \in Tokens : source[t] = "birdeye" => has /\ phase \notin filling
  BY DEF SourceInv
<1>4. {"none", "absent", "unseeded", "running_max", "birdeye"} = Sources
  BY DEF Sources
<1> HIDE DEF has
<1>5. ASSUME UNCHANGED <<source, priced>>, phase' = phase \/ phase' \notin filling
      PROVE  /\ SourceInv' /\ source' \in [Tokens -> Sources] /\ priced' \subseteq Tokens
             /\ \A t \in Tokens : source[t] = "birdeye" => source'[t] = "birdeye"
  BY <1>1, <1>2, <1>3, <1>5 DEF SourceInv, has
<1>6. CASE \/ StartBot \/ StartDedup \/ StartSource \/ TablesDone \/ ExtrasDone \/ OldStops
           \/ CreateUnique \/ DedupBegin \/ DedupEnd \/ TokenColumnsDone \/ GuardOutcome
           \/ AddOutcome \/ AddTokenColumn \/ DedupColumn
  BY <1>5, <1>6
     DEF schemaVars, Goto, StartBot, StartDedup, StartSource, TablesDone, ExtrasDone, OldStops,
         CreateUnique, DedupBegin, DedupEnd, TokenColumnsDone, GuardOutcome, AddOutcome,
         AddTokenColumn, DedupColumn
<1>7. CASE \/ (\E d \in Logs \cup Extras : Extend(d)) \/ (\E t \in Tables : CreateTable(t))
           \/ (\E b \in Blocks : OldBlock(b)) \/ (\E b \in Blocks : LogBlock(b))
           \/ (\E b \in Blocks : LogBlockRaises(b))
           \/ (\E b \in Blocks : Collapse(b)) \/ (\E kind \in FaultKinds : Interrupt(kind))
  BY <1>5, <1>7 DEF Extend, CreateTable, OldBlock, LogBlock, LogBlockRaises, Collapse, Interrupt
<1>8. CASE FillSource("fill", "columns") \/ FillSource("fill_script", "down")
  <2>1. /\ phase \in filling /\ phase' \notin filling /\ priced' = priced
        /\ source' = [t \in Tokens |-> IF source[t] = "none" THEN "none"
                                       ELSE IF t \in priced THEN "running_max" ELSE "unseeded"]
    BY <1>8 DEF FillSource, Goto
  <2>2. \A t \in Tokens : source[t] # "birdeye" /\ source'[t] # "birdeye"
    BY <1>3, <2>1
  <2>3. source' \in [Tokens -> Sources]
    BY <1>4, <2>1
  <2>4. QED
    BY <1>1, <2>1, <2>2, <2>3 DEF SourceInv
<1>9. CASE AddSource("source", "fill", "columns") \/ AddSource("source_script", "fill_script", "down")
  <2>1. CASE has
    BY <1>5, <1>9, <2>1 DEF AddSource, Goto, has
  <2>2. CASE ~has
    <3>1. /\ priced' = priced
          /\ source' = [t \in Tokens |-> IF source[t] = "absent" THEN "unseeded" ELSE source[t]]
      BY <1>9, <2>2 DEF AddSource, has
    <3>2. \A t \in Tokens : source[t] # "birdeye" /\ source'[t] # "birdeye"
      BY <1>3, <2>2, <3>1
    <3>3. source' \in [Tokens -> Sources]
      BY <1>1, <1>4, <3>1
    <3>4. QED
      BY <1>1, <3>1, <3>2, <3>3 DEF SourceInv
  <2>3. QED
    BY <2>1, <2>2
<1>10. CASE \E t \in Tokens : SeedToken(t)
  <2>1. PICK t \in Tokens : SeedToken(t)
    BY <1>10
  <2>2. /\ phase = "up" /\ phase' = phase /\ columns["tokens"] = TokenColumns
        /\ source' = [source EXCEPT ![t] = "birdeye"] /\ priced' = priced \cup {t}
    BY <2>1 DEF SeedToken
  <2>3. has
    <3>1. 1 \in DOMAIN TokenColumns /\ TokenColumns[1] = "ath_source"
      BY NamesFacts
    <3>2. QED
      BY <2>2, <3>1 DEF has, Has, ToSet
  <2>4. source' \in [Tokens -> Sources]
    BY <1>1, <1>4, <2>2
  <2>5. QED
    BY <1>1, <1>2, <2>2, <2>3, <2>4 DEF SourceInv, has
<1>11. QED
  BY <1>6, <1>7, <1>8, <1>9, <1>10, SchemaMoves

\* A step of an upgrade or a script keeps the invariants of the schema, and Birdeye's labels.
LEMMA SchemaStepFacts ==
  ASSUME SchemaTypeOK, LogInv, ColumnsInv, SourceInv, SchemaMove
  PROVE  /\ SchemaTypeOK' /\ LogInv' /\ ColumnsInv' /\ SourceInv'
         /\ \A t \in Tokens : source[t] = "birdeye" => source'[t] = "birdeye"
<1>1. exists' \subseteq Tables /\ extras' \subseteq Logs \cup Extras
  <2> USE DEF SchemaTypeOK
  <2>1. CASE \/ StartBot \/ StartDedup \/ StartSource \/ TablesDone \/ ExtrasDone \/ OldStops
             \/ CreateUnique \/ DedupBegin \/ DedupEnd \/ TokenColumnsDone \/ GuardOutcome
             \/ AddOutcome \/ AddTokenColumn \/ DedupColumn
    BY <2>1
       DEF schemaVars, Goto, StartBot, StartDedup, StartSource, TablesDone, ExtrasDone, OldStops,
           CreateUnique, DedupBegin, DedupEnd, TokenColumnsDone, GuardOutcome, AddOutcome,
           AddTokenColumn, DedupColumn
  <2>2. CASE \/ (\E d \in Logs \cup Extras : Extend(d)) \/ (\E t \in Tables : CreateTable(t))
             \/ (\E b \in Blocks : OldBlock(b)) \/ (\E b \in Blocks : LogBlock(b))
             \/ (\E b \in Blocks : LogBlockRaises(b))
           \/ (\E b \in Blocks : LogBlockRaises(b))
             \/ (\E b \in Blocks : Collapse(b)) \/ (\E kind \in FaultKinds : Interrupt(kind))
    BY <2>2 DEF Extend, CreateTable, OldBlock, LogBlock, LogBlockRaises, Collapse, Interrupt
  <2>3. CASE \/ AddSource("source", "fill", "columns") \/ FillSource("fill", "columns")
             \/ AddSource("source_script", "fill_script", "down") \/ FillSource("fill_script", "down")
             \/ \E t \in Tokens : SeedToken(t)
    BY <2>3 DEF AddSource, FillSource, SeedToken
  <2>4. QED
    BY <2>1, <2>2, <2>3, SchemaMoves
<1>2. SchemaTypeOK'
  BY <1>1, MoveFacts, LogStep, ColumnsStep, SourceStep DEF SchemaTypeOK, Phases
<1>3. QED
  BY <1>2, LogStep, ColumnsStep, SourceStep

\* What is not the database leaves the database alone.
LEMMA SchemaRests ==
  ASSUME SchemaTypeOK, LogInv, ColumnsInv, SourceInv,
         UNCHANGED <<phase, schemaVars>>, faults' \in 0 .. MaxFaults
  PROVE  SchemaTypeOK' /\ LogInv' /\ ColumnsInv' /\ SourceInv'
<1> USE DEF schemaVars
<1>1. SchemaTypeOK'
  BY DEF SchemaTypeOK
<1>2. LogInv'
  BY DEF LogInv, Recorded
<1>3. \A t, c : Has(t, c)' <=> Has(t, c)
  BY DEF Has
<1>4. Missing("alerts", OutcomeColumns)' = Missing("alerts", OutcomeColumns)
  BY DEF Missing, Has
<1>5. ColumnsInv'
  BY <1>4 DEF ColumnsInv
<1>6. SourceInv'
  BY <1>3 DEF SourceInv
<1>7. QED
  BY <1>1, <1>2, <1>5, <1>6

-----------------------------------------------------------------------------
(* Recaps and commands. *)

RecapOK == RecapInv /\ OneRecapPerMidnight
CommandOK == CommandInv /\ AnsweredOncePerLife /\ ForgottenWhenAnswered

RecapTypeOK ==
  /\ hour \in 0 .. Day - 1 /\ left \in 0 .. Day /\ recapped \in 0 .. 2
  /\ rpc \in {"plan", "sleep", "build", "pause"}
CommandTypeOK ==
  /\ issued \in 0 .. Len(Messages) /\ {confirmed, lastId} \subseteq 0 .. issued
  /\ batch \subseteq Updates /\ answered \in [Updates -> 0 .. MaxLives] /\ dropped \subseteq Updates
  /\ lives \in 0 .. MaxLives

\* The types of the operator's two loops.
LEMMA OperatorTypes == OperatorTypeOK <=> RecapTypeOK /\ CommandTypeOK
BY DEF OperatorTypeOK, RecapTypeOK, CommandTypeOK

\* A recap is built at midnight, when the clock has just reset the count; one
\* that fails or is interrupted comes back only for the next midnight.
LEMMA RecapStepOK ==
  ASSUME RecapTypeOK, RecapOK, phase' = phase, RecapStep \/ Tick
  PROVE  RecapTypeOK' /\ RecapOK'
<1> USE AlertOutcomesAssumption DEF RecapTypeOK, RecapOK, RecapInv, OneRecapPerMidnight
<1>1. CASE RecapPlan
  BY <1>1 DEF RecapPlan, UntilMidnight
<1>2. CASE RecapWake
  BY <1>2 DEF RecapWake
<1>3. CASE RecapSend
  BY <1>3 DEF RecapSend
<1>4. CASE RecapError
  BY <1>4 DEF RecapError
<1>5. CASE RecapResume
  BY <1>5 DEF RecapResume
<1>6. CASE Tick
  <2>1. hour' = (hour + 1) % Day /\ left' = (IF left > 0 THEN left - 1 ELSE 0)
        /\ recapped' = (IF hour' = 0 THEN 0 ELSE recapped) /\ rpc' = rpc
        /\ (phase = "up" => rpc = "pause" \/ (rpc = "sleep" /\ left > 0))
    BY <1>6 DEF Tick
  <2>2. hour' = IF hour = Day - 1 THEN 0 ELSE hour + 1
    <3>1. hour + 1 < Day => (hour + 1) % Day = hour + 1
      OBVIOUS
    <3>2. Day % Day = 0
      OBVIOUS
    <3>3. hour = Day - 1 => hour + 1 = Day
      OBVIOUS
    <3>4. hour # Day - 1 => hour + 1 < Day
      OBVIOUS
    <3>5. QED
      BY <2>1, <3>1, <3>2, <3>3, <3>4
  <2>3. RecapTypeOK'
    BY <2>1, <2>2
  <2>4. ASSUME phase = "up" PROVE RecapInv'
    BY <2>1, <2>2, <2>4
  <2>5. OneRecapPerMidnight'
    BY <2>1
  <2>6. QED
    BY <2>3, <2>4, <2>5
<1>7. QED
  BY <1>1, <1>2, <1>3, <1>4, <1>5, <1>6 DEF RecapStep

\* The rest of the operator's view does not touch the commands.
LEMMA CommandRests ==
  ASSUME CommandTypeOK, CommandOK, phase' = phase, UNCHANGED <<commandVars, lives>>,
         faults \in Nat, faults' \in {faults, faults + 1}
  PROVE  CommandTypeOK' /\ CommandOK'
<1> USE DEF commandVars
<1>1. CommandTypeOK' /\ lives \in Nat
  BY SchemaUpgradeAssumption DEF CommandTypeOK, MaxLives
<1>2. lives' <= faults' + 1 /\ (phase' # "up" => lives' <= faults')
  <2>1. lives <= faults + 1 /\ (phase # "up" => lives <= faults)
    BY DEF CommandOK, CommandInv
  <2>2. lives' = lives
    OBVIOUS
  <2>3. \A i, j \in Nat : i <= j => i <= j + 1 /\ i <= j + 1 + 1
    OBVIOUS
  <2>4. \A i, j \in Nat : i <= j + 1 => i <= j + 1 + 1
    OBVIOUS
  <2>5. QED
    BY <1>1, <2>1, <2>2, <2>3, <2>4
<1>3. CommandOK'
  BY <1>2 DEF CommandOK, CommandInv, AnsweredOncePerLife, ForgottenWhenAnswered
<1>4. QED
  BY <1>1, <1>3

\* A poll confirms what the polls before it brought, when nothing of it is left.
LEMMA CommandStepOK ==
  ASSUME CommandTypeOK, CommandOK, phase' = phase, CommandStep \/ Issue,
         faults \in Nat
  PROVE  CommandTypeOK' /\ CommandOK'
<1>1. PICK n \in Nat : Len(Messages) = n
  BY OperatorAssumption
<1>2. Updates = 1 .. n
  BY <1>1 DEF Updates
<1>3. /\ issued \in 0 .. n /\ confirmed \in 0 .. issued /\ lastId \in 0 .. issued
      /\ batch \subseteq 1 .. n /\ answered \in [1 .. n -> 0 .. MaxLives] /\ dropped \subseteq 1 .. n
      /\ lives \in 0 .. MaxLives /\ MaxLives \in Nat
  BY <1>1, <1>2, SchemaUpgradeAssumption DEF CommandTypeOK, MaxLives
<1> DEFINE Is(u) == Messages[u] = "command"
           Polled == phase = "up" =>
             \A u \in 1 .. n : /\ u > lastId \/ u \in batch => answered[u] < lives
                               /\ u <= lastId /\ Is(u) =>
                                    answered[u] > 0 \/ u \in dropped \/ u \in batch
           Once == \A u \in 1 .. n : answered[u] <= lives
           Forgotten == \A u \in 1 .. confirmed : Is(u) => answered[u] > 0 \/ u \in dropped
           Lived == lives <= faults + 1 /\ (phase # "up" => lives <= faults)
           Behind == batch \subseteq 1 .. lastId
           Typed == /\ issued \in 0 .. n /\ confirmed \in 0 .. issued /\ lastId \in 0 .. issued
                    /\ batch \subseteq 1 .. n /\ answered \in [1 .. n -> 0 .. MaxLives]
                    /\ dropped \subseteq 1 .. n /\ lives \in 0 .. MaxLives
<1>4. Polled /\ Once /\ Forgotten /\ Lived /\ Behind /\ Typed
  BY <1>2, <1>3 DEF CommandOK, CommandInv, AnsweredOncePerLife, ForgottenWhenAnswered
<1>5. SUFFICES Polled' /\ Once' /\ Forgotten' /\ Lived' /\ Behind' /\ Typed'
  BY <1>1, <1>2
     DEF CommandTypeOK, CommandOK, CommandInv, AnsweredOncePerLife, ForgottenWhenAnswered, Updates
<1>6. CASE Issue
  BY <1>1, <1>3, <1>4, <1>6 DEF Issue
<1>7. CASE Poll
  <2>1. /\ phase = "up" /\ batch = {} /\ confirmed' = Offset /\ batch' = CommandsIn(Pending)
        /\ lastId' = IF Pending = {} THEN lastId ELSE Max(Pending)
        /\ UNCHANGED <<issued, answered, dropped, lives, faults>>
    BY <1>7 DEF Poll
  <2>2. Offset \in 0 .. issued /\ Offset >= confirmed /\ Offset >= lastId
        /\ Offset \in {confirmed, lastId}
    BY <1>3 DEF Offset
  <2>3. Pending = Offset + 1 .. issued
    BY DEF Pending
  <2>4. lastId' = (IF Offset < issued THEN issued ELSE lastId)
    <3>1. CASE Offset < issued
      <4>1. Offset + 1 \in Nat /\ issued \in Nat /\ Offset + 1 <= issued
        BY <1>3, <2>2, <3>1
      <4>2. Max(Pending) = issued /\ Pending # {}
        BY <2>3, <4>1, MaxFacts
      <4>3. QED
        BY <2>1, <3>1, <4>2
    <3>2. CASE ~(Offset < issued)
      BY <1>3, <2>1, <2>2, <2>3, <3>2
    <3>3. QED
      BY <3>1, <3>2
  <2>5. batch' = {u \in Offset + 1 .. issued : Is(u)}
    BY <2>1, <2>3 DEF CommandsIn
  <2>6. \A u \in 1 .. n : u <= Offset /\ Is(u) => answered[u] > 0 \/ u \in dropped
    <3>1. \A u \in 1 .. n : u <= confirmed => u \in 1 .. confirmed
      BY <1>3
    <3>2. QED
      BY <1>4, <2>1, <2>2, <3>1
  <2>7. Polled'
    <3>1. ASSUME NEW u \in 1 .. n, u > lastId' \/ u \in batch' PROVE answered[u] < lives
      BY <1>3, <1>4, <2>1, <2>2, <2>4, <2>5, <3>1
    <3>2. ASSUME NEW u \in 1 .. n, u <= lastId', Is(u)
          PROVE  answered[u] > 0 \/ u \in dropped \/ u \in batch'
      <4>1. CASE u <= Offset
        BY <2>6, <3>2, <4>1
      <4>2. CASE ~(u <= Offset)
        BY <1>3, <2>2, <2>4, <2>5, <3>2, <4>2
      <4>3. QED
        BY <4>1, <4>2
    <3>3. QED
      BY <2>1, <3>1, <3>2
  <2>8. Forgotten' /\ Once' /\ Lived'
    BY <1>3, <1>4, <2>1, <2>2, <2>6
  <2>9. Behind' /\ Typed'
    BY <1>3, <2>1, <2>2, <2>4, <2>5
  <2>10. QED
    BY <2>7, <2>8, <2>9
<1>8. CASE PollFails
  <2>1. /\ phase = "up" /\ batch = {} /\ confirmed' = lastId
        /\ UNCHANGED <<issued, lastId, batch, answered, dropped, lives, faults>>
    BY <1>8 DEF PollFails
  <2>2. Forgotten'
    BY <1>3, <1>4, <2>1
  <2>3. QED
    BY <1>3, <1>4, <2>1, <2>2
<1>9. CASE Answer
  <2>1. /\ phase = "up" /\ batch # {} /\ batch' = batch \ {Min(batch)}
        /\ answered' = [answered EXCEPT ![Min(batch)] = @ + 1]
        /\ UNCHANGED <<issued, confirmed, lastId, dropped, lives, faults>>
    BY <1>9 DEF Answer
  <2>2. Min(batch) \in batch
    BY <1>3, <2>1, MinFacts
  <2>3. answered[Min(batch)] < lives /\ answered[Min(batch)] + 1 \in 0 .. MaxLives
    <3>1. Min(batch) \in 1 .. n /\ answered[Min(batch)] < lives
      BY <1>3, <1>4, <2>1, <2>2
    <3>2. answered[Min(batch)] \in 0 .. MaxLives
      BY <1>3, <3>1
    <3>3. \A i, j, k \in Nat : i < j /\ j <= k => i + 1 \in 0 .. k
      OBVIOUS
    <3>4. QED
      BY <1>3, <3>1, <3>2, <3>3
  <2> DEFINE m == Min(batch)
  <2>4. /\ m \in 1 .. n /\ answered'[m] = answered[m] + 1
        /\ \A u \in 1 .. n : u # m => answered'[u] = answered[u]
        /\ answered' \in [1 .. n -> 0 .. MaxLives]
    BY <1>3, <2>1, <2>2, <2>3
  <2>5. m \in batch /\ batch' = batch \ {m}
    BY <2>1, <2>2
  <2> HIDE DEF m
  <2>6. answered'[m] <= lives /\ answered'[m] > 0
    BY <1>3, <2>3, <2>4 DEF m
  <2>7. Polled'
    <3>1. ASSUME NEW u \in 1 .. n, u > lastId \/ u \in batch'
          PROVE  answered'[u] < lives
      <4>1. CASE u = m
        <5>1. m > lastId /\ m \in 1 .. lastId
          BY <1>4, <2>5, <3>1, <4>1
        <5>2. QED
          BY <1>3, <5>1
      <4>2. CASE u # m
        BY <1>4, <2>1, <2>4, <2>5, <3>1, <4>2
      <4>3. QED
        BY <4>1, <4>2
    <3>2. ASSUME NEW u \in 1 .. n, u <= lastId, Is(u)
          PROVE  answered'[u] > 0 \/ u \in dropped \/ u \in batch'
      <4>1. CASE u = m
        BY <2>6, <4>1
      <4>2. CASE u # m
        BY <1>4, <2>1, <2>4, <2>5, <3>2, <4>2
      <4>3. QED
        BY <4>1, <4>2
    <3>3. QED
      BY <2>1, <3>1, <3>2
  <2>8. Once'
    BY <1>4, <2>1, <2>4, <2>6
  <2>9. Forgotten'
    <3>1. \A u \in 1 .. confirmed : u \in 1 .. n
      BY <1>3
    <3>2. QED
      BY <1>4, <2>1, <2>4, <2>6, <3>1
  <2>10. Lived' /\ Behind' /\ Typed'
    BY <1>3, <1>4, <2>1, <2>4, <2>5
  <2>11. QED
    BY <2>7, <2>8, <2>9, <2>10
<1>10. CASE CommandError
  <2>1. /\ phase = "up" /\ batch' = {} /\ dropped' = dropped \cup batch /\ faults' = faults + 1
        /\ UNCHANGED <<issued, confirmed, lastId, answered, lives>>
    BY <1>10 DEF CommandError, Fault
  <2>2. QED
    BY <1>3, <1>4, <2>1
<1>11. QED
  BY <1>6, <1>7, <1>8, <1>9, <1>10 DEF CommandStep

\* A start empties the memory: it has polled nothing, and owes no recap.
LEMMA TurnOK ==
  ASSUME SchemaTypeOK, RecapTypeOK, RecapOK, CommandTypeOK, CommandOK, SchemaMove, Turn
  PROVE  RecapTypeOK' /\ RecapOK' /\ CommandTypeOK' /\ CommandOK'
<1>1. /\ faults \in 0 .. MaxFaults /\ faults' \in 0 .. MaxFaults /\ MaxFaults \in Nat
      /\ faults' = faults \/ faults' = faults + 1
      /\ phase = "up" /\ phase' # "up" => faults' = faults + 1
  BY MoveFacts, SchemaUpgradeAssumption DEF SchemaTypeOK
<1>2. /\ lives \in Nat /\ lives <= faults + 1 /\ (phase # "up" => lives <= faults)
      /\ MaxLives = MaxFaults + 1
  BY <1>1 DEF CommandTypeOK, CommandOK, CommandInv, MaxLives
<1>3. CASE phase # "up" /\ phase' = "up"
  <2>1. /\ lives' = lives + 1 /\ rpc' = "plan" /\ left' = 0 /\ lastId' = 0 /\ batch' = {}
        /\ UNCHANGED <<hour, recapped, issued, confirmed, answered, dropped>>
    BY <1>3 DEF Turn, OperatorStart
  <2>2. RecapTypeOK' /\ RecapOK'
    BY <2>1, AlertOutcomesAssumption
       DEF RecapTypeOK, RecapOK, RecapInv, OneRecapPerMidnight
  <2>3. lives' \in 0 .. MaxLives /\ lives' <= faults' + 1
    <3>1. \A l, f, g, m \in Nat : l <= f /\ f <= m /\ f <= g => l + 1 \in 0 .. m + 1 /\ l + 1 <= g + 1
      OBVIOUS
    <3>2. faults <= faults' /\ faults <= MaxFaults /\ faults \in Nat /\ faults' \in Nat
      BY <1>1
    <3>3. QED
      BY <1>1, <1>2, <1>3, <2>1, <3>1, <3>2
  <2>4. CommandTypeOK'
    <3>1. Len(Messages) \in Nat
      BY OperatorAssumption
    <3>2. issued \in 0 .. Len(Messages) /\ confirmed \in 0 .. issued
      BY DEF CommandTypeOK
    <3>3. 0 \in 0 .. issued
      BY <3>1, <3>2
    <3>4. /\ issued' \in 0 .. Len(Messages) /\ {confirmed', lastId'} \subseteq 0 .. issued'
          /\ batch' \subseteq Updates
      BY <2>1, <3>2, <3>3
    <3>5. answered' \in [Updates -> 0 .. MaxLives] /\ dropped' \subseteq Updates
      BY <2>1 DEF CommandTypeOK
    <3>6. QED
      BY <2>3, <3>4, <3>5 DEF CommandTypeOK
  <2>5. \A u \in Updates : answered[u] \in Nat /\ answered[u] <= lives /\ u \in Nat /\ ~(u <= 0)
    <3>1. MaxLives \in Nat
      BY <1>1, <1>2
    <3>2. \A u \in Updates : answered[u] \in Nat /\ answered[u] <= lives
      BY <3>1 DEF CommandTypeOK, CommandOK, AnsweredOncePerLife
    <3>3. \A u \in Updates : u \in Nat /\ ~(u <= 0)
      BY OperatorAssumption DEF Updates
    <3>4. QED
      BY <3>2, <3>3
  <2>6. \A i, j \in Nat : i <= j => i <= j + 1 /\ i < j + 1
    OBVIOUS
  <2>7. AnsweredOncePerLife'
    BY <1>2, <2>1, <2>5, <2>6 DEF AnsweredOncePerLife, Updates
  <2>8. CommandInv'
    <3>1. \A u \in Updates : answered[u] < lives'
      BY <1>2, <2>1, <2>5, <2>6
    <3>2. lives' <= faults' + 1
      BY <2>3
    <3>3. QED
      BY <1>3, <2>1, <2>5, <3>1, <3>2 DEF CommandInv, Updates
  <2>9. ForgottenWhenAnswered'
    BY <2>1 DEF CommandOK, ForgottenWhenAnswered
  <2>10. QED
    BY <2>2, <2>4, <2>7, <2>8, <2>9 DEF CommandOK
<1>4. CASE ~(phase # "up" /\ phase' = "up")
  <2>1. UNCHANGED <<hour, rpc, left, recapped, issued, confirmed, lastId, batch, answered, dropped, lives>>
    BY <1>4 DEF Turn, operatorVars, recapVars, commandVars
  <2>2. phase' = "up" => phase = "up"
    BY <1>4
  <2>3. RecapTypeOK' /\ RecapOK'
    BY <2>1, <2>2 DEF RecapTypeOK, RecapOK, RecapInv, OneRecapPerMidnight
  <2>4. CommandTypeOK'
    BY <2>1 DEF CommandTypeOK
  <2>5. lives' <= faults' + 1 /\ (phase' # "up" => lives' <= faults')
    <3>1. \A l, f \in Nat : /\ l <= f + 1 => l <= f + 1 + 1
                           /\ l <= f => l <= f + 1
      OBVIOUS
    <3>2. faults \in Nat /\ lives' = lives
      BY <1>1, <2>1
    <3>3. CASE faults' = faults
      BY <1>1, <1>2, <2>2, <3>2, <3>3
    <3>4. CASE faults' = faults + 1
      BY <1>2, <3>1, <3>2, <3>4
    <3>5. QED
      BY <1>1, <3>3, <3>4
  <2>6. CommandOK'
    BY <2>1, <2>2, <2>5 DEF CommandOK, CommandInv, AnsweredOncePerLife, ForgottenWhenAnswered
  <2>7. QED
    BY <2>3, <2>4, <2>6
<1>5. QED
  BY <1>3, <1>4

-----------------------------------------------------------------------------
(* Alerts and their outcomes. *)

Alert == [age : 0 .. Day + 1, price : AlertQuotes,
          peak : Quotes \cup AlertQuotes, trough : Quotes \cup {0},
          kept : SUBSET Quotes, lost : SUBSET Quotes]

OutcomeOK == OutcomesBracketed /\ QuoteInv

\* What OutcomeOK says of one alert while a poll has the price q in hand.
RowOK(a, q) ==
  /\ a.price <= a.peak /\ q <= a.peak
  /\ \A p \in a.kept : p <= a.peak /\ a.trough # 0 /\ a.trough <= p
  /\ a.peak \in {a.price, q} \cup a.kept \cup a.lost
  /\ a.trough \in {0} \cup a.kept

Raised(a, p) == [a EXCEPT !.peak = IF @ < p THEN p ELSE @]
Lowered(a, p) == [a EXCEPT !.trough = IF @ = 0 \/ @ > p THEN p ELSE @, !.kept = @ \cup {p}]
WithLost(a, p) == [a EXCEPT !.lost = @ \cup {p}]
Aged(a) == [a EXCEPT !.age = Older(@)]

\* The prices of an alert are positive numbers.
LEMMA PricesAreNumbers ==
  ASSUME NEW a \in Alert
  PROVE  /\ a.peak \in Nat \ {0} /\ a.price \in Nat \ {0} /\ a.trough \in Nat
         /\ a.kept \subseteq Nat \ {0} /\ a.kept \subseteq Quotes
<1>1. \A x \in Quotes \cup AlertQuotes : x \in Nat \ {0}
  BY AlertOutcomesAssumption
<1>2. /\ a.peak \in Quotes \cup AlertQuotes /\ a.price \in AlertQuotes
      /\ a.trough \in Quotes \cup {0} /\ a.kept \subseteq Quotes
  <2> USE DEF Alert
  <2>1. a.peak \in Quotes \cup AlertQuotes /\ a.price \in AlertQuotes
    OBVIOUS
  <2>2. a.trough \in Quotes \cup {0} /\ a.kept \in SUBSET Quotes
    OBVIOUS
  <2>3. QED
    BY <2>1, <2>2
<1>3. a.peak \in Nat \ {0} /\ a.price \in Nat \ {0} /\ a.trough \in Nat
  <2>1. a.peak \in Nat \ {0} /\ a.price \in Nat \ {0}
    BY <1>1, <1>2
  <2>2. a.trough = 0 \/ a.trough \in Quotes
    BY <1>2
  <2>3. a.trough \in Nat
    BY <1>1, <2>2
  <2>4. QED
    BY <2>1, <2>3
<1>4. a.kept \subseteq Nat \ {0}
  BY <1>1, <1>2
<1>5. QED
  BY <1>2, <1>3, <1>4

\* update_peak_after_alert, for one alert.
LEMMA RowRaised ==
  ASSUME NEW a \in Alert, NEW p \in Quotes, RowOK(a, 0)
  PROVE  Raised(a, p) \in Alert /\ RowOK(Raised(a, p), p)
<1>1. p \in Nat \ {0}
  BY AlertOutcomesAssumption
<1>2. /\ a.peak \in Nat \ {0} /\ a.price \in Nat \ {0} /\ a.kept \subseteq Nat \ {0}
      /\ a.trough \in Nat
  BY PricesAreNumbers
<1>3. CASE a.peak < p
  <2>1. Raised(a, p) = [a EXCEPT !.peak = p]
    BY <1>3 DEF Raised
  <2>2. /\ Raised(a, p) \in Alert /\ Raised(a, p).peak = p /\ Raised(a, p).price = a.price
        /\ Raised(a, p).kept = a.kept /\ Raised(a, p).trough = a.trough /\ Raised(a, p).lost = a.lost
    BY <2>1 DEF Alert
  <2>3. \A x \in a.kept : x <= p
    BY <1>1, <1>2, <1>3 DEF RowOK
  <2>4. a.price <= p
    BY <1>1, <1>2, <1>3 DEF RowOK
  <2>5. QED
    BY <1>1, <2>2, <2>3, <2>4 DEF RowOK
<1>4. CASE ~(a.peak < p)
  <2>1. Raised(a, p) = a
    BY <1>4 DEF Raised, Alert
  <2>2. p <= a.peak /\ a.peak # 0
    BY <1>1, <1>2, <1>4
  <2>3. QED
    BY <2>1, <2>2 DEF RowOK
<1>5. QED
  BY <1>3, <1>4

\* update_trough_after_alert, for one alert.
LEMMA RowLowered ==
  ASSUME NEW a \in Alert, NEW p \in Quotes, RowOK(a, p)
  PROVE  Lowered(a, p) \in Alert /\ RowOK(Lowered(a, p), 0)
<1>1. p \in Nat \ {0}
  BY AlertOutcomesAssumption
<1>2. /\ a.peak \in Nat \ {0} /\ a.price \in Nat \ {0} /\ a.kept \subseteq Nat \ {0}
      /\ a.trough \in Nat /\ a.kept \subseteq Quotes
  BY PricesAreNumbers
<1> DEFINE b == Lowered(a, p)
           t == IF a.trough = 0 \/ a.trough > p THEN p ELSE a.trough
<1>3. b = [a EXCEPT !.trough = t, !.kept = a.kept \cup {p}]
  BY DEF Lowered, Alert
<1>4. t \in Nat \ {0} /\ t <= p /\ (t = p \/ (t = a.trough /\ a.trough # 0))
      /\ (a.trough # 0 => t <= a.trough)
  BY <1>1, <1>2
<1>5. t \in Quotes \cup {0} /\ a.kept \cup {p} \in SUBSET Quotes
  <2>1. a.trough \in Quotes \cup {0}
    BY DEF Alert
  <2>2. QED
    BY <1>2, <2>1
<1> HIDE DEF t
<1>6. /\ b \in Alert /\ b.trough = t /\ b.kept = a.kept \cup {p} /\ b.peak = a.peak
      /\ b.price = a.price /\ b.lost = a.lost
  BY <1>3, <1>5 DEF Alert
<1> HIDE DEF b
<1>7. \A x \in a.kept : x <= a.peak /\ t <= x
  <2>1. ASSUME NEW x \in a.kept PROVE x <= a.peak /\ t <= x
    <3>1. x <= a.peak /\ a.trough # 0 /\ a.trough <= x /\ x \in Nat
      BY <1>2 DEF RowOK
    <3>2. QED
      BY <1>2, <1>4, <3>1
  <2>2. QED
    BY <2>1
<1>8. p <= a.peak /\ 0 <= a.peak /\ a.price <= a.peak
  BY <1>2 DEF RowOK
<1>9. t \in {0} \cup (a.kept \cup {p})
  BY <1>4 DEF RowOK
<1>10. a.peak \in {a.price, 0} \cup (a.kept \cup {p}) \cup a.lost
  BY DEF RowOK
<1>11. RowOK(b, 0)
  BY <1>4, <1>6, <1>7, <1>8, <1>9, <1>10 DEF RowOK
<1>12. QED
  BY <1>6, <1>11 DEF b

\* A poll whose price was lost, before the peaks or after them.
LEMMA RowLost ==
  ASSUME NEW a \in Alert, NEW p \in Quotes, RowOK(a, p) \/ RowOK(a, 0)
  PROVE  WithLost(a, p) \in Alert /\ RowOK(WithLost(a, p), 0)
<1> DEFINE b == WithLost(a, p)
<1>1. /\ b \in Alert /\ b.lost = a.lost \cup {p} /\ b.trough = a.trough /\ b.kept = a.kept
      /\ b.peak = a.peak /\ b.price = a.price
  BY DEF WithLost, Alert
<1>2. 0 <= a.peak
  BY PricesAreNumbers
<1> HIDE DEF b
<1>3. RowOK(b, 0)
  BY <1>1, <1>2 DEF RowOK
<1>4. QED
  BY <1>1, <1>3 DEF b

\* The clock.
LEMMA RowAged ==
  ASSUME NEW a \in Alert, NEW q \in Quotes \cup {0}, RowOK(a, q)
  PROVE  Aged(a) \in Alert /\ RowOK(Aged(a), q)
<1>1. /\ Aged(a) \in Alert /\ Aged(a).lost = a.lost /\ Aged(a).trough = a.trough
      /\ Aged(a).kept = a.kept /\ Aged(a).peak = a.peak /\ Aged(a).price = a.price
  BY AlertOutcomesAssumption DEF Aged, Alert, Older
<1>2. QED
  BY <1>1 DEF RowOK

\* A poll raises the peaks to its price before it lowers the troughs to it.
LEMMA OutcomeStepOK ==
  ASSUME OutcomeTypeOK, OutcomeOK,
         OutcomeStep \/ OutcomesAge \/ OutcomesStop \/ UNCHANGED outcomeVars
  PROVE  OutcomeTypeOK' /\ OutcomeOK'
<1> USE AlertOutcomesAssumption
<1>1. PICK n \in Nat : n <= MaxAlerts /\ alerts \in [1 .. n -> Alert]
  <2>1. alerts \in Seq(Alert) /\ Len(alerts) <= MaxAlerts /\ Len(alerts) \in Nat
    BY DEF OutcomeTypeOK, Alert
  <2>2. alerts \in [1 .. Len(alerts) -> Alert]
    BY <2>1, LenProperties
  <2>3. QED
    BY <2>1, <2>2
<1>2. quote \in Quotes \cup {0}
  BY DEF OutcomeTypeOK
<1>3. \A i \in 1 .. n : alerts[i] \in Alert /\ RowOK(alerts[i], quote)
  BY <1>1 DEF OutcomeOK, OutcomesBracketed, QuoteInv, RowOK
<1>4. ASSUME NEW m \in Nat, m <= MaxAlerts, NEW rows \in [1 .. m -> Alert], alerts' = rows,
             NEW q \in Quotes \cup {0}, quote' = q, \A i \in 1 .. m : RowOK(rows[i], q)
      PROVE  OutcomeTypeOK' /\ OutcomeOK'
  <2>1. rows \in Seq(Alert) /\ Len(rows) = m /\ DOMAIN rows = 1 .. m
    BY <1>4, SeqDef
  <2>2. OutcomeTypeOK'
    BY <1>4, <2>1 DEF OutcomeTypeOK, Alert
  <2>3. OutcomeOK'
    BY <1>4, <2>1 DEF OutcomeOK, OutcomesBracketed, QuoteInv, RowOK
  <2>4. QED
    BY <2>2, <2>3
<1>5. ASSUME NEW p \in AlertQuotes, SaveAlert(p) PROVE OutcomeTypeOK' /\ OutcomeOK'
  <2> DEFINE new == [age |-> 0, price |-> p, peak |-> p, trough |-> 0, kept |-> {}, lost |-> {}]
             rows == Append(alerts, new)
  <2>1. quote = 0 /\ quote' = 0 /\ Len(alerts) < MaxAlerts /\ alerts' = rows
    BY <1>5 DEF SaveAlert
  <2>2. new \in Alert /\ RowOK(new, 0)
    BY DEF Alert, RowOK
  <2> HIDE DEF new
  <2>3. Len(alerts) = n /\ alerts \in Seq(Alert)
    BY <1>1, SeqDef
  <2>4. n + 1 <= MaxAlerts
    BY <2>1, <2>3
  <2>5. /\ rows \in [1 .. n + 1 -> Alert]
        /\ \A i \in 1 .. n : rows[i] = alerts[i]
        /\ rows[n + 1] = new
    <3>1. /\ rows \in Seq(Alert) /\ Len(rows) = n + 1
          /\ \A i \in 1 .. n : rows[i] = alerts[i]
          /\ rows[n + 1] = new
      BY <2>2, <2>3, AppendProperties
    <3>2. QED
      BY <3>1, LenProperties
  <2> HIDE DEF rows
  <2>6. ASSUME NEW i \in 1 .. n + 1 PROVE RowOK(rows[i], 0)
    <3>1. CASE i \in 1 .. n
      BY <1>3, <2>1, <2>5, <3>1
    <3>2. CASE i = n + 1
      BY <2>2, <2>5, <3>2
    <3>3. i \in 1 .. n \/ i = n + 1
      OBVIOUS
    <3>4. QED
      BY <3>1, <3>2, <3>3, Zenon
  <2>7. n + 1 \in Nat
    OBVIOUS
  <2>8. QED
    BY <1>4, <2>1, <2>4, <2>5, <2>6, <2>7
<1>6. ASSUME NEW p \in Quotes, PollPeak(p) PROVE OutcomeTypeOK' /\ OutcomeOK'
  <2>1. quote = 0 /\ quote' = p /\ alerts' = [i \in 1 .. n |-> Raised(alerts[i], p)]
    BY <1>1, <1>6 DEF PollPeak, RaisePeaks, Raised
  <2>2. ASSUME NEW i \in 1 .. n
        PROVE  Raised(alerts[i], p) \in Alert /\ RowOK(Raised(alerts[i], p), p)
    BY <1>3, <2>1, RowRaised
  <2>3. QED
    BY <1>1, <1>4, <2>1, <2>2
<1>7. ASSUME PollTrough PROVE OutcomeTypeOK' /\ OutcomeOK'
  <2>1. quote # 0 /\ quote \in Quotes /\ quote' = 0
        /\ alerts' = [i \in 1 .. n |-> Lowered(alerts[i], quote)]
    BY <1>1, <1>2, <1>7 DEF PollTrough, LowerTroughs, Lowered
  <2>2. ASSUME NEW i \in 1 .. n
        PROVE  Lowered(alerts[i], quote) \in Alert /\ RowOK(Lowered(alerts[i], quote), 0)
    BY <1>3, <2>1, RowLowered
  <2>3. QED
    BY <1>1, <1>4, <2>1, <2>2
<1>8. ASSUME NEW p \in Quotes, Lose(p), quote' = 0, quote \in {0, p}
      PROVE  OutcomeTypeOK' /\ OutcomeOK'
  <2>1. alerts' = [i \in 1 .. n |-> WithLost(alerts[i], p)]
    BY <1>1, <1>8 DEF Lose, WithLost
  <2>2. ASSUME NEW i \in 1 .. n
        PROVE  WithLost(alerts[i], p) \in Alert /\ RowOK(WithLost(alerts[i], p), 0)
    BY <1>3, <1>8, RowLost
  <2>3. QED
    BY <1>1, <1>4, <1>8, <2>1, <2>2
<1>9. ASSUME NEW p \in Quotes, PollPeakFails(p) PROVE OutcomeTypeOK' /\ OutcomeOK'
  BY <1>8, <1>9 DEF PollPeakFails
<1>10. ASSUME PollTroughFails PROVE OutcomeTypeOK' /\ OutcomeOK'
  BY <1>2, <1>8, <1>10 DEF PollTroughFails
<1>11. ASSUME UNCHANGED outcomeVars PROVE OutcomeTypeOK' /\ OutcomeOK'
  BY <1>1, <1>2, <1>3, <1>4, <1>11 DEF outcomeVars
<1>12. ASSUME OutcomesStop PROVE OutcomeTypeOK' /\ OutcomeOK'
  <2>1. CASE quote = 0
    BY <1>11, <1>12, <2>1 DEF OutcomesStop, outcomeVars
  <2>2. CASE quote # 0
    BY <1>2, <1>8, <1>12, <2>2 DEF OutcomesStop
  <2>3. QED
    BY <2>1, <2>2
<1>13. ASSUME OutcomesAge PROVE OutcomeTypeOK' /\ OutcomeOK'
  <2>1. quote' = quote /\ alerts' = [i \in 1 .. n |-> Aged(alerts[i])]
    BY <1>1, <1>13 DEF OutcomesAge, Aged
  <2>2. ASSUME NEW i \in 1 .. n
        PROVE  Aged(alerts[i]) \in Alert /\ RowOK(Aged(alerts[i]), quote)
    BY <1>2, <1>3, RowAged
  <2>3. QED
    BY <1>1, <1>2, <1>4, <2>1, <2>2
<1>14. QED
  BY <1>5, <1>6, <1>7, <1>9, <1>10, <1>11, <1>12, <1>13 DEF OutcomeStep

-----------------------------------------------------------------------------
(* The process. *)

\* The invariant, in its parts.
LEMMA IInvParts ==
  /\ IInv <=> /\ SchemaTypeOK /\ LogInv /\ ColumnsInv /\ SourceInv
              /\ OutcomeTypeOK /\ OutcomeOK
              /\ RecapTypeOK /\ RecapOK /\ CommandTypeOK /\ CommandOK
  /\ IInv' <=> /\ SchemaTypeOK' /\ LogInv' /\ ColumnsInv' /\ SourceInv'
               /\ OutcomeTypeOK' /\ OutcomeOK'
               /\ RecapTypeOK' /\ RecapOK' /\ CommandTypeOK' /\ CommandOK'
<1>1. OperatorTypeOK' <=> RecapTypeOK' /\ CommandTypeOK'
  BY DEF OperatorTypeOK, RecapTypeOK, CommandTypeOK
<1>2. QED
  BY <1>1, OperatorTypes DEF IInv, TypeOK, OutcomeOK, RecapOK, CommandOK

\* The invariant holds at the start,
LEMMA IInvInit == Init => IInv
<1> SUFFICES ASSUME Init PROVE IInv
  OBVIOUS
<1> USE SchemaUpgradeAssumption, AlertOutcomesAssumption, OperatorAssumption DEF Init
<1>1. SchemaTypeOK
  <2>1. <<>> \in Seq(Names) /\ <<>> \in Counts
    BY RowsFacts
  <2>2. source \in [Tokens -> Sources] /\ priced \subseteq Tokens /\ exists \subseteq Tables
    BY DEF SchemaInit, Sources
  <2>3. columns \in [Tables -> Seq(Names)] /\ blocks \in [Blocks -> Counts] /\ work \in [Blocks -> Counts]
    BY <2>1 DEF SchemaInit
  <2>4. /\ attempts \in [Blocks -> 0 .. MaxAttempts] /\ refused \in [Blocks -> 0 .. MaxAttempts]
        /\ faults \in 0 .. MaxFaults
    BY DEF SchemaInit
  <2>5. phase \in {"old", "down"} /\ extras = {} /\ unique = FALSE
    BY DEF SchemaInit
  <2>6. QED
    BY <2>2, <2>3, <2>4, <2>5 DEF SchemaTypeOK
<1>2. LogInv
  <2>1. Recorded = [b \in Blocks |-> 0] /\ \A b \in Blocks : refused[b] <= attempts[b]
    BY DEF Recorded, SchemaInit
  <2>2. QED
    BY <2>1, RowsFacts DEF LogInv, SchemaInit
<1>3. ColumnsInv
  BY NamesFacts DEF ColumnsInv, SchemaInit, Tables
<1>4. SourceInv
  BY DEF SourceInv, SchemaInit
<1>5. OutcomeTypeOK /\ OutcomeOK
  BY DEF OutcomeInit, OutcomeTypeOK, OutcomeOK, OutcomesBracketed, QuoteInv
<1>6. RecapTypeOK /\ RecapOK
  BY DEF OperatorInit, SchemaInit, RecapTypeOK, RecapOK, RecapInv, OneRecapPerMidnight
<1>7. CommandTypeOK /\ CommandOK
  <2>1. Len(Messages) \in Nat
    OBVIOUS
  <2>2. QED
    BY <2>1
       DEF OperatorInit, SchemaInit, CommandTypeOK, CommandOK, CommandInv, AnsweredOncePerLife,
           ForgottenWhenAnswered, MaxLives
<1>8. QED
  BY <1>1, <1>2, <1>3, <1>4, <1>5, <1>6, <1>7, IInvParts

\* every step keeps it,
LEMMA IInvNext == IInv /\ [Next]_vars => IInv'
<1> SUFFICES ASSUME IInv, [Next]_vars PROVE IInv'
  OBVIOUS
<1> USE IInvParts
<1>1. faults \in 0 .. MaxFaults /\ faults \in Nat
  BY SchemaUpgradeAssumption DEF SchemaTypeOK
<1>2. CASE SchemaStep
  <2>1. SchemaMove /\ Turn
    BY <1>2 DEF SchemaStep, SchemaMove
  <2>2. OutcomesStop \/ UNCHANGED outcomeVars
    BY <2>1 DEF Turn
  <2>3. QED
    BY <2>1, <2>2, SchemaStepFacts, TurnOK, OutcomeStepOK
<1>3. CASE LoopStep
  <2>1. UNCHANGED <<phase, schemaVars>> /\ UNCHANGED outcomeVars
    BY <1>3 DEF LoopStep
  <2>2. CASE RecapStep
    <3>1. UNCHANGED <<commandVars, lives>> /\ faults' \in {faults, faults + 1}
          /\ faults' \in 0 .. MaxFaults
      BY <1>1, <2>2, SchemaUpgradeAssumption
         DEF RecapStep, RecapPlan, RecapWake, RecapSend, RecapError, RecapResume, Fault
    <3>2. QED
      BY <1>1, <2>1, <2>2, <3>1, SchemaRests, OutcomeStepOK, RecapStepOK, CommandRests
  <2>3. CASE CommandStep \/ Issue
    <3>1. UNCHANGED recapVars /\ faults' \in 0 .. MaxFaults
      BY <1>1, <2>3, SchemaUpgradeAssumption
         DEF CommandStep, Issue, Poll, PollFails, Answer, CommandError, Fault
    <3>2. RecapTypeOK' /\ RecapOK'
      BY <2>1, <3>1
         DEF recapVars, RecapTypeOK, RecapOK, RecapInv, OneRecapPerMidnight
    <3>3. QED
      BY <1>1, <2>1, <2>3, <3>1, <3>2, SchemaRests, OutcomeStepOK, CommandStepOK
  <2>4. QED
    BY <1>3, <2>2, <2>3 DEF LoopStep
<1>4. CASE AlertStep
  <2>1. UNCHANGED <<phase, schemaVars, operatorVars>> /\ OutcomeStep
    BY <1>4 DEF AlertStep
  <2>2. faults' \in {faults, faults + 1} /\ faults' \in 0 .. MaxFaults
    <3>1. faults' = faults \/ (faults' = faults + 1 /\ faults < MaxFaults)
      <4>1. \/ PollTrough \/ PollTroughFails \/ (\E p \in Quotes : PollPeak(p))
            \/ (\E p \in Quotes : PollPeakFails(p)) \/ \E p \in AlertQuotes : SaveAlert(p)
        BY <2>1 DEF OutcomeStep
      <4>2. CASE PollTrough
        BY <2>1, <4>2 DEF PollTrough, Writable
      <4>3. CASE PollTroughFails \/ \E p \in Quotes : PollPeakFails(p)
        BY <4>3 DEF PollTroughFails, PollPeakFails, Fails, Fault
      <4>4. CASE (\E p \in Quotes : PollPeak(p)) \/ \E p \in AlertQuotes : SaveAlert(p)
        BY <4>4 DEF PollPeak, SaveAlert
      <4>5. QED
        BY <4>1, <4>2, <4>3, <4>4
    <3>2. QED
      BY <1>1, <3>1, SchemaUpgradeAssumption
  <2>3. RecapTypeOK' /\ RecapOK' /\ UNCHANGED <<commandVars, lives>>
    BY <2>1 DEF operatorVars, recapVars, RecapTypeOK, RecapOK, RecapInv, OneRecapPerMidnight
  <2>4. QED
    BY <1>1, <2>1, <2>2, <2>3, SchemaRests, OutcomeStepOK, CommandRests
<1>5. CASE ClockStep
  <2>1. UNCHANGED <<phase, schemaVars, commandVars, lives, faults>> /\ OutcomesAge /\ Tick
    BY <1>5 DEF ClockStep, Tick
  <2>2. QED
    BY <1>1, <2>1, SchemaRests, OutcomeStepOK, RecapStepOK, CommandRests
<1>6. CASE UNCHANGED vars
  <2>1. /\ UNCHANGED <<phase, schemaVars, faults>> /\ UNCHANGED outcomeVars
        /\ UNCHANGED <<recapVars, commandVars, lives>>
    BY <1>6 DEF vars, operatorVars
  <2>2. RecapTypeOK' /\ RecapOK'
    BY <2>1 DEF recapVars, RecapTypeOK, RecapOK, RecapInv, OneRecapPerMidnight
  <2>3. QED
    BY <1>1, <2>1, <2>2, SchemaRests, OutcomeStepOK, CommandRests
<1>7. QED
  BY <1>2, <1>3, <1>4, <1>5, <1>6 DEF Next

\* and so it always holds.
LEMMA IInvAlways == Spec => []IInv
BY IInvInit, IInvNext, PTL DEF Spec

-----------------------------------------------------------------------------
(* Theorems. *)

\* Every variable keeps its type; no bound but those the constants name.
THEOREM BotTypeOK == Spec => []TypeOK
<1>1. IInv => TypeOK
  BY DEF IInv
<1>2. QED
  BY <1>1, IInvAlways, PTL

\* The counts of migrate_block_log_dedup and of the UPSERT are the attempts that
\* were logged, whatever interrupts the script and the starts.
THEOREM BotAttemptsKept == Spec => []AttemptsKept
<1>1. IInv => AttemptsKept
  <2>1. ASSUME IInv, NEW b \in Blocks PROVE Sum(blocks[b]) + refused[b] = attempts[b]
    <3>1. /\ attempts[b] \in Nat /\ refused[b] \in Nat /\ refused[b] <= attempts[b]
          /\ Recorded[b] = attempts[b] - refused[b]
      BY <2>1, SchemaUpgradeAssumption DEF IInv, TypeOK, SchemaTypeOK, LogInv, Recorded
    <3>2. Recorded[b] \in Nat
      BY <3>1
    <3>3. blocks[b] = <<Recorded[b]>> \/ blocks[b] = Ones(Recorded[b])
      BY <2>1 DEF IInv, LogInv
    <3>4. Sum(blocks[b]) = Recorded[b]
      BY <3>2, <3>3, SumOnes, SumSingle
    <3>5. QED
      BY <3>1, <3>4
  <2>2. QED
    BY <2>1 DEF AttemptsKept
<1>2. QED
  BY <1>1, IInvAlways, PTL

\* init_db and migrate_add_ath_source leave the columns of tokens in the order
\* that save_token needs, and all of them before the bot runs.
THEOREM BotColumnsInPlace == Spec => []ColumnsInPlace
<1>1. IInv => ColumnsInPlace
  <2> SUFFICES ASSUME IInv PROVE ColumnsInPlace
    OBVIOUS
  <2> DEFINE c == columns["tokens"]
  <2>1. TypeOK /\ SchemaTypeOK /\ ColumnsInv
    BY DEF IInv, TypeOK
  <2>2. c \in Seq(Names) /\ TokenColumns \in Seq(Names)
    BY <2>1, NamesFacts DEF SchemaTypeOK, Tables
  <2>3. PICK k \in 0 .. 5 : Len(c) = k
    BY <2>1, MissingTokens
  <2>4. Len(TokenColumns) = 5 /\ \A i \in 1 .. k : c[i] = TokenColumns[i]
    BY <2>1, <2>3, NamesFacts DEF ColumnsInv
  <2> HIDE DEF c
  <2>5. \A i \in 1 .. k : c[i] \in Names /\ TokenColumns[i] \in Names
    BY <2>2, <2>3, <2>4, NamesFacts
  <2>6. SubSeq(c, 1, k) = SubSeq(TokenColumns, 1, k)
    <3> DEFINE u == SubSeq(c, 1, k)
               v == SubSeq(TokenColumns, 1, k)
    <3>1. u \in Seq(Names) /\ Len(u) = k /\ \A i \in 1 .. k : u[i] = c[i]
      BY <2>5, SubSeqProperties
    <3>2. v \in Seq(Names) /\ Len(v) = k /\ \A i \in 1 .. k : v[i] = TokenColumns[i]
      BY <2>5, SubSeqProperties
    <3> HIDE DEF u, v
    <3>3. \A i \in 1 .. Len(u) : u[i] = v[i]
      BY <2>4, <3>1, <3>2
    <3>4. u = v
      BY <3>1, <3>2, <3>3, SeqEqual
    <3>5. QED
      BY <3>4 DEF u, v
  <2>7. k <= Len(TokenColumns)
    BY <2>3, <2>4
  <2>8. IsPrefix(c, TokenColumns)
    BY <2>3, <2>6, <2>7 DEF IsPrefix
  <2>9. QED
    BY <2>1, <2>8 DEF ColumnsInPlace, ColumnsInv, c
<1>2. QED
  BY <1>1, IInvAlways, PTL

\* No start and no script takes Birdeye's label from a row.
THEOREM BotSeedsKeepSource == Spec => SeedsKeepSource
<1> DEFINE Kept == \A t \in Tokens : source[t] = "birdeye" => source'[t] = "birdeye"
<1>1. IInv /\ [Next]_vars => [Kept]_vars
  <2> SUFFICES ASSUME IInv, Next PROVE Kept
    OBVIOUS
  <2>1. CASE SchemaStep
    <3>1. SchemaMove
      BY <2>1 DEF SchemaStep, SchemaMove
    <3>2. QED
      BY <3>1, IInvParts, SchemaStepFacts
  <2>2. CASE LoopStep \/ AlertStep \/ ClockStep
    BY <2>2 DEF LoopStep, AlertStep, ClockStep, schemaVars
  <2>3. QED
    BY <2>1, <2>2 DEF Next
<1>2. QED
  BY <1>1, IInvAlways, PTL DEF Spec, SeedsKeepSource

\* daily_recap_loop sends one recap per midnight, after errors and restarts too.
THEOREM BotOneRecapPerMidnight == Spec => []OneRecapPerMidnight
<1>1. IInv => OneRecapPerMidnight
  BY DEF IInv
<1>2. QED
  BY <1>1, IInvAlways, PTL

\* poll_commands brings a command at most once in a life of the bot.
THEOREM BotAnsweredOncePerLife == Spec => []AnsweredOncePerLife
<1>1. IInv => AnsweredOncePerLife
  BY DEF IInv
<1>2. QED
  BY <1>1, IInvAlways, PTL

\* The offset of poll_commands confirms no command that was not run.
THEOREM BotForgottenWhenAnswered == Spec => []ForgottenWhenAnswered
<1>1. IInv => ForgottenWhenAnswered
  BY DEF IInv
<1>2. QED
  BY <1>1, IInvAlways, PTL

\* update_peak_after_alert and update_trough_after_alert, one after the other and
\* with whatever fails between them, put every price of a whole poll between
\* trough and peak, and make none up.
THEOREM BotOutcomesBracketed == Spec => []OutcomesBracketed
<1>1. IInv => OutcomesBracketed
  BY DEF IInv
<1>2. QED
  BY <1>1, IInvAlways, PTL
=============================================================================

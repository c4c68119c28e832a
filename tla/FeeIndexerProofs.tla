-------------------------- MODULE FeeIndexerProofs --------------------------
(***************************************************************************)
(* What the way of an event to table pumpswap_fees guarantees, for any     *)
(* transactions, sizes of batches and chunks, and however many faults.     *)
(***************************************************************************)
EXTENDS FeeIndexer, WellFoundedInduction, FiniteSetTheorems, SequenceTheorems, TLAPS

\* No two rows of the table have a key in common.
Unique(rows) == \A i, j \in DOMAIN rows : Key(rows[i]) = Key(rows[j]) => i = j

\* A prune under way has not had its last chunk.
ChunksLeft == ppc = "chunk" => chunks < MaxChunks

\* The fees of a transaction are with its first event, so no two of its keys
\* carry them.
CarriesOK(rec) == rec.first => rec.kind = Kept(rec.tx)[1].kind
CarryOK(batch) == \A i \in DOMAIN batch : CarriesOK(batch[i])

\* The table and the batch.
TableInv == NoneMissing /\ Unique(table) /\ CarryOK(table) /\ CarryOK(pending)

IInv == TypeOK /\ ChunksLeft /\ TableInv
-----------------------------------------------------------------------------
(* Sequences. *)

\* A set of naturals has a least element.
LEMMA Least ==
  ASSUME NEW T \in SUBSET Nat, T # {}
  PROVE  \E x \in T : \A y \in T : x <= y
<1> DEFINE Below == {p \in Nat \X Nat : p[1] < p[2]}
<1>1. IsWellFoundedOn(Below, Nat)
  BY NatLessThanWellFounded DEF OpToRel
<1> HIDE DEF Below
<1>2. PICK x \in T : \A y \in T : ~ (<<y, x>> \in Below)
  BY <1>1, WFMin
<1>3. \A y \in T : ~ (y < x)
  BY <1>2 DEF Below
<1>4. QED
  BY <1>3

\* Induction over the naturals, as a statement about sets of them.
LEMMA NatInduct ==
  ASSUME NEW T \in SUBSET Nat, 0 \in T, \A n \in T : n + 1 \in T
  PROVE  T = Nat
<1>1. SUFFICES ASSUME Nat \ T # {} PROVE FALSE
  OBVIOUS
<1>2. PICK x \in Nat \ T : \A y \in Nat \ T : x <= y
  BY <1>1, Least
<1>3. x # 0 /\ x - 1 \in Nat /\ x - 1 < x /\ x - 1 + 1 = x
  BY <1>2
<1>4. x - 1 \in T
  BY <1>2, <1>3
<1>5. QED
  BY <1>2, <1>3, <1>4

\* What holds of the elements that Among has taken from the first n of s.
TakenOK(q, s, at, n, S) ==
  /\ q \in Seq(S)
  /\ \A k \in DOMAIN q : \E i \in at : i <= n /\ q[k] = s[i]
  /\ \A i \in at : i <= n => \E k \in DOMAIN q : q[k] = s[i]
  /\ \A k, l \in DOMAIN q : k < l => \E i, j \in at : i < j /\ j <= n /\ q[k] = s[i] /\ q[l] = s[j]

\* An element more, or none.
LEMMA TakenStep ==
  ASSUME NEW S, NEW s \in Seq(S), NEW at \in SUBSET DOMAIN s, NEW n \in Nat, n + 1 \in DOMAIN s,
         NEW q, TakenOK(q, s, at, n, S)
  PROVE  TakenOK(IF n + 1 \in at THEN Append(q, s[n + 1]) ELSE q, s, at, n + 1, S)
<1>1. /\ q \in Seq(S) /\ Len(q) \in Nat /\ DOMAIN q = 1 .. Len(q) /\ at \subseteq Nat
      /\ s[n + 1] \in S
  BY DEF TakenOK
<1>2. CASE n + 1 \notin at
  <2>1. \A i \in at : i <= n + 1 => i <= n
    BY <1>1, <1>2
  <2>2. \A i \in at : i <= n => i <= n + 1
    BY <1>1
  <2>3. TakenOK(q, s, at, n + 1, S)
    BY <2>1, <2>2 DEF TakenOK
  <2>4. QED
    BY <1>2, <2>3
<1>3. CASE n + 1 \in at
  <2> DEFINE new == Append(q, s[n + 1])
  <2>1. /\ new \in Seq(S) /\ Len(new) = Len(q) + 1 /\ DOMAIN new = 1 .. Len(q) + 1
        /\ new[Len(q) + 1] = s[n + 1] /\ \A k \in DOMAIN q : new[k] = q[k]
    BY <1>1
  <2> HIDE DEF new
  <2>2. ASSUME NEW k \in DOMAIN new
        PROVE  \E i \in at : i <= n + 1 /\ new[k] = s[i]
    <3>1. CASE k \in DOMAIN q
      <4>1. PICK i \in at : i <= n /\ q[k] = s[i]
        BY <3>1 DEF TakenOK
      <4>2. i <= n + 1 /\ new[k] = s[i]
        BY <1>1, <2>1, <3>1, <4>1
      <4>3. QED
        BY <4>2
    <3>2. CASE k = Len(q) + 1
      BY <1>3, <2>1, <3>2
    <3>3. QED
      BY <1>1, <2>1, <3>1, <3>2
  <2>3. ASSUME NEW i \in at, i <= n + 1
        PROVE  \E k \in DOMAIN new : new[k] = s[i]
    <3>1. CASE i <= n
      <4>1. PICK k \in DOMAIN q : q[k] = s[i]
        BY <3>1 DEF TakenOK
      <4>2. k \in DOMAIN new /\ new[k] = s[i]
        BY <1>1, <2>1, <4>1
      <4>3. QED
        BY <4>2
    <3>2. CASE i = n + 1
      <4>1. Len(q) + 1 \in DOMAIN new
        BY <1>1, <2>1
      <4>2. QED
        BY <2>1, <3>2, <4>1
    <3>3. QED
      BY <1>1, <2>3, <3>1, <3>2
  <2>4. ASSUME NEW k \in DOMAIN new, NEW l \in DOMAIN new, k < l
        PROVE  \E i, j \in at : i < j /\ j <= n + 1 /\ new[k] = s[i] /\ new[l] = s[j]
    <3>1. k \in DOMAIN q
      BY <1>1, <2>1, <2>4
    <3>2. CASE l \in DOMAIN q
      <4>1. PICK i, j \in at : i < j /\ j <= n /\ q[k] = s[i] /\ q[l] = s[j]
        BY <2>4, <3>1, <3>2 DEF TakenOK
      <4>2. j <= n + 1 /\ new[k] = s[i] /\ new[l] = s[j]
        BY <1>1, <2>1, <3>1, <3>2, <4>1
      <4>3. QED
        BY <4>1, <4>2
    <3>3. CASE l = Len(q) + 1
      <4>1. PICK i \in at : i <= n /\ q[k] = s[i]
        BY <3>1 DEF TakenOK
      <4>2. i < n + 1 /\ n + 1 <= n + 1 /\ new[k] = s[i] /\ new[l] = s[n + 1]
        BY <1>1, <2>1, <3>1, <3>3, <4>1
      <4>3. QED
        BY <1>3, <4>2
    <3>4. QED
      BY <1>1, <2>1, <3>2, <3>3
  <2>5. TakenOK(new, s, at, n + 1, S)
    BY <2>1, <2>2, <2>3, <2>4 DEF TakenOK
  <2>6. QED
    BY <1>3, <2>5 DEF new
<1>4. QED
  BY <1>2, <1>3

\* Among takes the elements at the given places, each once and in their order.
LEMMA AmongFacts ==
  ASSUME NEW S, NEW s \in Seq(S), NEW at \in SUBSET DOMAIN s
  PROVE  /\ Among(s, at) \in Seq(S)
         /\ \A k \in DOMAIN Among(s, at) : \E i \in at : Among(s, at)[k] = s[i]
         /\ \A i \in at : \E k \in DOMAIN Among(s, at) : Among(s, at)[k] = s[i]
         /\ \A k, l \in DOMAIN Among(s, at) :
              k < l => \E i, j \in at : i < j /\ Among(s, at)[k] = s[i] /\ Among(s, at)[l] = s[j]
<1> DEFINE Taken(f, n) ==
             f = [k \in 0 .. n |-> IF k = 0 THEN <<>>
                                   ELSE IF k \in at THEN Append(f[k - 1], s[k]) ELSE f[k - 1]]
           taken == CHOOSE f : Taken(f, Len(s))
           Some == {n \in Nat : \E f : Taken(f, n)}
           All == {n \in Nat : n <= Len(s) => TakenOK(taken[n], s, at, n, S)}
<1>1. Len(s) \in Nat /\ DOMAIN s = 1 .. Len(s) /\ at \subseteq Nat \ {0}
  OBVIOUS
<1>2. Among(s, at) = taken[Len(s)]
  BY DEF Among
<1>3. 0 \in Some
  <2> DEFINE f == [k \in 0 .. 0 |-> <<>>]
  <2>1. Taken(f, 0)
    OBVIOUS
  <2>2. QED
    BY <2>1
<1>4. ASSUME NEW n \in Some PROVE n + 1 \in Some
  <2>1. PICK f : Taken(f, n)
    OBVIOUS
  <2> DEFINE g == [k \in 0 .. n + 1 |->
                     IF k = n + 1 THEN (IF k \in at THEN Append(f[n], s[k]) ELSE f[n]) ELSE f[k]]
  <2>2. n \in Nat /\ \A k \in 0 .. n + 1 : k = n + 1 \/ k \in 0 .. n
    OBVIOUS
  <2>3. \A k \in 0 .. n : g[k] = f[k] /\ k # n + 1
    OBVIOUS
  <2>4. g[n + 1] = (IF n + 1 \in at THEN Append(g[n], s[n + 1]) ELSE g[n])
    BY <2>2, <2>3
  <2>5. \A k \in 0 .. n : g[k] = (IF k = 0 THEN <<>>
                                  ELSE IF k \in at THEN Append(g[k - 1], s[k]) ELSE g[k - 1])
    <3> TAKE k \in 0 .. n
    <3>1. f[k] = (IF k = 0 THEN <<>> ELSE IF k \in at THEN Append(f[k - 1], s[k]) ELSE f[k - 1])
      BY <2>1
    <3>2. k # 0 => k - 1 \in 0 .. n /\ g[k - 1] = f[k - 1]
      BY <2>2, <2>3
    <3>3. g[k] = f[k]
      BY <2>3
    <3> HIDE DEF g
    <3>4. QED
      BY <3>1, <3>2, <3>3
  <2>6. DOMAIN g = 0 .. n + 1 /\ g = [k \in 0 .. n + 1 |-> g[k]]
    OBVIOUS
  <2> HIDE DEF g
  <2>7. \A k \in 0 .. n + 1 :
          g[k] = (IF k = 0 THEN <<>> ELSE IF k \in at THEN Append(g[k - 1], s[k]) ELSE g[k - 1])
    <3> TAKE k \in 0 .. n + 1
    <3>1. CASE k = n + 1
      <4>1. k # 0 /\ k - 1 = n
        BY <2>2, <3>1
      <4>2. QED
        BY <2>4, <3>1, <4>1
    <3>2. QED
      BY <2>2, <2>5, <3>1
  <2>8. Taken(g, n + 1)
    BY <2>6, <2>7
  <2> HIDE DEF Taken
  <2>9. \E h : Taken(h, n + 1)
    BY <2>8
  <2>10. QED
    BY <2>2, <2>9
<1>5. Taken(taken, Len(s))
  <2> HIDE DEF Taken
  <2>1. Some \in SUBSET Nat /\ Some = Nat
    BY <1>3, <1>4, NatInduct
  <2>2. \E f : Taken(f, Len(s))
    BY <1>1, <2>1
  <2>3. QED
    BY <2>2
<1>6. \A k \in 0 .. Len(s) :
        taken[k] = (IF k = 0 THEN <<>>
                    ELSE IF k \in at THEN Append(taken[k - 1], s[k]) ELSE taken[k - 1])
  BY <1>5
<1> HIDE DEF taken, Taken
<1>7. 0 \in All
  <2>1. taken[0] = <<>> /\ \A i \in at : ~ (i <= 0)
    BY <1>1, <1>6
  <2>2. <<>> \in Seq(S) /\ DOMAIN <<>> = {}
    OBVIOUS
  <2>3. QED
    BY <2>1, <2>2 DEF TakenOK
<1>8. ASSUME NEW n \in All PROVE n + 1 \in All
  <2>1. SUFFICES ASSUME n + 1 <= Len(s) PROVE TakenOK(taken[n + 1], s, at, n + 1, S)
    OBVIOUS
  <2>2. n \in Nat /\ n + 1 \in DOMAIN s /\ n + 1 \in 0 .. Len(s) /\ n + 1 # 0 /\ n + 1 - 1 = n
    BY <1>1, <2>1
  <2>3. TakenOK(taken[n], s, at, n, S)
    BY <1>1, <2>2
  <2>4. taken[n + 1] = (IF n + 1 \in at THEN Append(taken[n], s[n + 1]) ELSE taken[n])
    BY <1>6, <2>2
  <2>5. QED
    BY <2>2, <2>3, <2>4, TakenStep
<1>9. TakenOK(taken[Len(s)], s, at, Len(s), S)
  <2>1. All = Nat
    BY <1>7, <1>8, NatInduct
  <2>2. Len(s) \in All
    BY <1>1, <2>1
  <2>3. QED
    BY <1>1, <2>2
<1>10. \A i \in at : i <= Len(s)
  BY <1>1
<1>11. QED
  BY <1>2, <1>9, <1>10 DEF TakenOK

\* The records of a transaction are records of its fee events.
LEMMA RecordsFacts ==
  ASSUME NEW x \in Txs
  PROVE  RecordsOf(x) \in Seq(Records) /\ CarryOK(RecordsOf(x))
<1> DEFINE s == Info[x].payloads
           S == [kind : Kinds \cup {"other"}, pool : Owners]
           at == {i \in FeeEvents(x) : Pool(x) # NoPool /\ s[i].pool = Pool(x)}
<1>1. s \in Seq(S)
  BY FeeIndexerAssumption
<1>2. at \in SUBSET DOMAIN s /\ \A i \in at : s[i].kind # "other"
  BY DEF FeeEvents
<1>3. Kept(x) = Among(s, at)
  BY DEF Kept
<1> HIDE DEF at, s, S
<1>4. /\ Kept(x) \in Seq(S)
      /\ \A k \in DOMAIN Kept(x) : \E i \in at : Kept(x)[k] = s[i]
  BY <1>1, <1>2, <1>3, AmongFacts
<1>5. \A k \in DOMAIN Kept(x) : Kept(x)[k].kind \in Kinds
  <2> TAKE k \in DOMAIN Kept(x)
  <2>1. PICK i \in at : Kept(x)[k] = s[i]
    BY <1>4
  <2>2. Kept(x)[k] \in S
    BY <1>4, ElementOfSeq
  <2>3. QED
    BY <1>2, <2>1, <2>2 DEF S
<1>6. \A k \in DOMAIN Kept(x) : Record(x, Kept(x)[k].kind, k = 1) \in Records
  BY <1>5 DEF Record, Records
<1>7. Len(Kept(x)) \in Nat /\ DOMAIN Kept(x) = 1 .. Len(Kept(x))
  BY <1>4
<1>8. RecordsOf(x) \in Seq(Records)
  BY <1>6, <1>7 DEF RecordsOf
<1>9. CarryOK(RecordsOf(x))
  BY DEF CarryOK, CarriesOK, RecordsOf, Record
<1>10. QED
  BY <1>8, <1>9

\* A new row is one, and has the key of its record.
LEMMA NewFacts ==
  ASSUME NEW rec \in Records
  PROVE  New(rec) \in Rows /\ Key(New(rec)) = Key(rec) /\ (CarriesOK(rec) => CarriesOK(New(rec)))
<1>1. 0 \in 0 .. Old
  BY FeeIndexerAssumption DEF Old
<1>2. QED
  BY <1>1 DEF New, Row, Rows, Key, CarriesOK

\* INSERT OR IGNORE leaves the rows that are there, adds exactly the keys of the
\* batch, and no key twice.
LEMMA InsertedFacts ==
  ASSUME table \in Seq(Rows), Unique(table), NEW batch \in Seq(Records),
         CarryOK(table), CarryOK(batch)
  PROVE  /\ Inserted(batch) \in Seq(Rows) /\ Len(Inserted(batch)) >= Len(table)
         /\ KeysOf(Inserted(batch)) = KeysOf(table) \cup KeysOf(batch)
         /\ Unique(Inserted(batch)) /\ CarryOK(Inserted(batch))
<1> DEFINE first == {i \in DOMAIN batch :
                       /\ Key(batch[i]) \notin KeysOf(table)
                       /\ \A j \in 1 .. i - 1 : Key(batch[j]) # Key(batch[i])}
           fresh == Among(batch, first)
           rows == [i \in DOMAIN fresh |-> New(fresh[i])]
<1>1. Inserted(batch) = table \o rows
  BY DEF Inserted
<1>2. /\ Len(table) \in Nat /\ DOMAIN table = 1 .. Len(table)
      /\ Len(batch) \in Nat /\ DOMAIN batch = 1 .. Len(batch)
  OBVIOUS
<1>3. first \in SUBSET DOMAIN batch
  OBVIOUS
<1>4. \A i \in first : Key(batch[i]) \notin KeysOf(table)
  OBVIOUS
<1>5. \A i, j \in first : i < j => Key(batch[i]) # Key(batch[j])
  <2> TAKE i, j \in first
  <2>1. i < j => i \in 1 .. j - 1
    BY <1>2
  <2>2. QED
    BY <2>1
<1>6. ASSUME NEW i \in DOMAIN batch, Key(batch[i]) \notin KeysOf(table)
      PROVE  \E j \in first : Key(batch[j]) = Key(batch[i])
  <2> DEFINE same == {j \in DOMAIN batch : Key(batch[j]) = Key(batch[i])}
  <2>1. same \in SUBSET Nat /\ same # {}
    BY <1>2
  <2>2. PICK j \in same : \A k \in same : j <= k
    BY <2>1, Least
  <2>3. \A k \in 1 .. j - 1 : k \in DOMAIN batch /\ ~ (j <= k)
    BY <1>2
  <2>4. \A k \in 1 .. j - 1 : Key(batch[k]) # Key(batch[j])
    BY <2>2, <2>3
  <2>5. j \in first
    BY <1>6, <2>4
  <2>6. QED
    BY <2>5
<1> HIDE DEF first
<1>7. /\ fresh \in Seq(Records)
      /\ \A k \in DOMAIN fresh : \E i \in first : fresh[k] = batch[i]
      /\ \A i \in first : \E k \in DOMAIN fresh : fresh[k] = batch[i]
      /\ \A k, l \in DOMAIN fresh :
           k < l => \E i, j \in first : i < j /\ fresh[k] = batch[i] /\ fresh[l] = batch[j]
  BY <1>3, AmongFacts
<1>8. Len(fresh) \in Nat /\ DOMAIN fresh = 1 .. Len(fresh) /\ \A k \in DOMAIN fresh : fresh[k] \in Records
  BY <1>7
<1>9. DOMAIN rows = DOMAIN fresh /\ \A k \in DOMAIN fresh : rows[k] = New(fresh[k])
  OBVIOUS
<1> HIDE DEF fresh, rows
<1>10. \A k \in DOMAIN fresh : rows[k] \in Rows /\ Key(rows[k]) = Key(fresh[k])
  BY <1>8, <1>9, NewFacts
<1>11. rows \in Seq(Rows) /\ Len(rows) = Len(fresh)
  <2>1. rows = [k \in 1 .. Len(fresh) |-> rows[k]]
    BY <1>8, <1>9 DEF rows
  <2>2. \A k \in 1 .. Len(fresh) : rows[k] \in Rows
    BY <1>8, <1>10
  <2>3. rows \in [1 .. Len(fresh) -> Rows]
    BY <2>1, <2>2
  <2>4. QED
    BY <1>8, <2>3
<1> DEFINE all == table \o rows
<1>12. /\ all \in Seq(Rows) /\ Len(all) = Len(table) + Len(fresh)
       /\ DOMAIN all = 1 .. Len(table) + Len(fresh)
       /\ \A k \in 1 .. Len(table) : all[k] = table[k]
       /\ \A k \in 1 .. Len(fresh) : all[Len(table) + k] = rows[k]
  BY <1>2, <1>8, <1>11
<1> HIDE DEF all
<1>13. \A n \in DOMAIN all : n \in DOMAIN table \/ (n - Len(table) \in DOMAIN fresh /\ n = Len(table) + (n - Len(table)))
  BY <1>2, <1>8, <1>12
<1>14. \A k \in DOMAIN fresh : Key(all[Len(table) + k]) = Key(fresh[k]) /\ Len(table) + k \in DOMAIN all
  BY <1>2, <1>8, <1>10, <1>12
<1>15. \A k \in DOMAIN fresh : Key(fresh[k]) \in KeysOf(batch) /\ Key(fresh[k]) \notin KeysOf(table)
  <2> TAKE k \in DOMAIN fresh
  <2>1. PICK i \in first : fresh[k] = batch[i]
    BY <1>7
  <2>2. QED
    BY <1>3, <1>4, <2>1 DEF KeysOf
<1>16. KeysOf(all) = KeysOf(table) \cup KeysOf(batch)
  <2>1. ASSUME NEW n \in DOMAIN all PROVE Key(all[n]) \in KeysOf(table) \cup KeysOf(batch)
    <3>1. CASE n \in DOMAIN table
      BY <1>2, <1>12, <3>1 DEF KeysOf
    <3>2. CASE n - Len(table) \in DOMAIN fresh /\ n = Len(table) + (n - Len(table))
      BY <1>14, <1>15, <3>2
    <3>3. QED
      BY <1>13, <3>1, <3>2
  <2>2. ASSUME NEW n \in DOMAIN table PROVE Key(table[n]) \in KeysOf(all)
    <3>1. n \in DOMAIN all /\ all[n] = table[n]
      BY <1>2, <1>8, <1>12
    <3>2. QED
      BY <3>1 DEF KeysOf
  <2>3. ASSUME NEW i \in DOMAIN batch, Key(batch[i]) \notin KeysOf(table)
        PROVE  Key(batch[i]) \in KeysOf(all)
    <3>1. PICK j \in first : Key(batch[j]) = Key(batch[i])
      BY <1>6, <2>3
    <3>2. PICK k \in DOMAIN fresh : fresh[k] = batch[j]
      BY <1>7
    <3>3. Key(all[Len(table) + k]) = Key(batch[i]) /\ Len(table) + k \in DOMAIN all
      BY <1>14, <3>1, <3>2
    <3>4. QED
      BY <3>3 DEF KeysOf
  <2>4. KeysOf(table) \subseteq KeysOf(all)
    BY <2>2 DEF KeysOf
  <2>5. KeysOf(batch) \subseteq KeysOf(all)
    <3>1. \A i \in DOMAIN batch : Key(batch[i]) \in KeysOf(all)
      BY <2>3, <2>4
    <3>2. QED
      BY <3>1 DEF KeysOf
  <2>6. KeysOf(all) \subseteq KeysOf(table) \cup KeysOf(batch)
    <3>1. \A y \in KeysOf(all) : \E n \in DOMAIN all : y = Key(all[n])
      BY DEF KeysOf
    <3>2. QED
      BY <2>1, <3>1
  <2>7. QED
    BY <2>4, <2>5, <2>6
<1>17. Unique(all)
  <2>1. ASSUME NEW k \in DOMAIN fresh, NEW l \in DOMAIN fresh, k < l
        PROVE  Key(fresh[k]) # Key(fresh[l])
    <3>1. PICK i, j \in first : i < j /\ fresh[k] = batch[i] /\ fresh[l] = batch[j]
      BY <1>7, <2>1
    <3>2. QED
      BY <1>5, <3>1
  <2>2. \A k, l \in DOMAIN fresh : Key(fresh[k]) = Key(fresh[l]) => k = l
    BY <1>8, <2>1
  <2>3. \A n \in DOMAIN table : Key(all[n]) = Key(table[n]) /\ Key(table[n]) \in KeysOf(table)
    BY <1>2, <1>12 DEF KeysOf
  <2>4. ASSUME NEW m \in DOMAIN all, NEW n \in DOMAIN all, Key(all[m]) = Key(all[n])
        PROVE  m = n
    <3>1. CASE m \in DOMAIN table /\ n \in DOMAIN table
      BY <2>3, <2>4, <3>1 DEF Unique
    <3>2. CASE m \in DOMAIN table /\ n \notin DOMAIN table
      <4>1. n - Len(table) \in DOMAIN fresh /\ Key(all[n]) = Key(fresh[n - Len(table)])
        BY <1>13, <1>14, <3>2
      <4>2. QED
        BY <1>15, <2>3, <2>4, <3>2, <4>1
    <3>3. CASE m \notin DOMAIN table /\ n \in DOMAIN table
      <4>1. m - Len(table) \in DOMAIN fresh /\ Key(all[m]) = Key(fresh[m - Len(table)])
        BY <1>13, <1>14, <3>3
      <4>2. QED
        BY <1>15, <2>3, <2>4, <3>3, <4>1
    <3>4. CASE m \notin DOMAIN table /\ n \notin DOMAIN table
      <4>1. /\ m - Len(table) \in DOMAIN fresh /\ m = Len(table) + (m - Len(table))
            /\ n - Len(table) \in DOMAIN fresh /\ n = Len(table) + (n - Len(table))
        BY <1>13, <3>4
      <4>2. Key(fresh[m - Len(table)]) = Key(fresh[n - Len(table)])
        BY <1>14, <2>4, <4>1
      <4>3. m - Len(table) = n - Len(table)
        BY <2>2, <4>1, <4>2
      <4>4. QED
        BY <4>1, <4>3
    <3>5. QED
      BY <3>1, <3>2, <3>3, <3>4
  <2>5. QED
    BY <2>4 DEF Unique
<1>18. CarryOK(all)
  <2>1. ASSUME NEW n \in DOMAIN all PROVE CarriesOK(all[n])
    <3>1. CASE n \in DOMAIN table
      BY <1>2, <1>12, <3>1 DEF CarryOK
    <3>2. CASE n - Len(table) \in DOMAIN fresh /\ n = Len(table) + (n - Len(table))
      <4>1. all[n] = New(fresh[n - Len(table)]) /\ fresh[n - Len(table)] \in Records
        BY <1>8, <1>9, <1>12, <3>2
      <4>2. PICK i \in first : fresh[n - Len(table)] = batch[i]
        BY <1>7, <3>2
      <4>3. CarriesOK(batch[i])
        BY <1>3, <4>2 DEF CarryOK
      <4>4. QED
        BY <4>1, <4>2, <4>3, NewFacts
    <3>3. QED
      BY <1>13, <3>1, <3>2
  <2>2. QED
    BY <2>1 DEF CarryOK
<1>19. QED
  BY <1>1, <1>2, <1>8, <1>12, <1>16, <1>17, <1>18 DEF all
-----------------------------------------------------------------------------
(* The types. *)

ConnTypeOK ==
  /\ up \in BOOLEAN /\ conn \in {"connecting", "stream", "sleep"}
  /\ backoff \in FirstBackoff .. MaxBackoff /\ wait \in 0 .. MaxBackoff
BatchTypeOK ==
  /\ pending \in Seq(Records) /\ Len(pending) < BatchMax /\ since \in 0 .. BatchAge
TableTypeOK == table \in Seq(Rows)
PruneTypeOK ==
  /\ stale \in 0 .. Len(table) /\ ppc \in {"sleep", "chunk"} /\ rest \in 0 .. PruneInterval
  /\ chunks \in 0 .. MaxChunks
HistoryTypeOK == heard \subseteq Txs \X Kinds /\ faults \in 0 .. MaxFaults

\* The type invariant, in its parts.
LEMMA TypeParts ==
  /\ TypeOK <=> ConnTypeOK /\ BatchTypeOK /\ TableTypeOK /\ PruneTypeOK /\ HistoryTypeOK
  /\ TypeOK' <=> ConnTypeOK' /\ BatchTypeOK' /\ TableTypeOK' /\ PruneTypeOK' /\ HistoryTypeOK'
BY DEF TypeOK, ConnTypeOK, BatchTypeOK, TableTypeOK, PruneTypeOK, HistoryTypeOK

\* The constants are numbers.
LEMMA Bounds ==
  /\ BatchMax \in Nat \ {0} /\ ChunkSize \in Nat \ {0} /\ MaxChunks \in Nat \ {0}
  /\ PruneInterval \in Nat \ {0} /\ FirstBackoff \in Nat \ {0} /\ MaxBackoff \in Nat
  /\ BatchAge \in Nat /\ Retention \in Nat /\ MaxFaults \in Nat /\ FirstBackoff <= MaxBackoff
  /\ Old \in Nat
BY FeeIndexerAssumption DEF Old

\* The connection.
LEMMA ConnTypeStep ==
  ASSUME ConnTypeOK, [Next]_vars
  PROVE  ConnTypeOK'
<1> USE Bounds DEF ConnTypeOK, connVars
<1>1. \A b \in FirstBackoff .. MaxBackoff : Doubled(b) \in FirstBackoff .. MaxBackoff
  BY DEF Doubled
<1>2. \A n \in 0 .. MaxBackoff : Less(n) \in 0 .. MaxBackoff
  BY DEF Less
<1>3. CASE ConnStep
  <2>1. CASE Ready
    BY <2>1 DEF Ready
  <2>2. CASE NotReady
    BY <1>1, <2>2 DEF NotReady, Sleep
  <2>3. CASE Reconnect
    BY <2>3 DEF Reconnect
  <2>4. QED
    BY <1>3, <2>1, <2>2, <2>3 DEF ConnStep
<1>4. CASE StreamEnds \/ StreamBreaks
  BY <1>1, <1>4 DEF StreamEnds, StreamBreaks, Sleep
<1>5. CASE \E x \in Streamed : Update(x)
  BY <1>5 DEF Update
<1>6. CASE PruneStep
  BY <1>6 DEF PruneStep, PruneStart, PruneFails, PruneChunk
<1>7. CASE Tick
  BY <1>2, <1>7 DEF Tick
<1>8. CASE Crash \/ Restart
  <2>1. CASE Crash
    <3>1. up' = FALSE /\ conn' = "connecting" /\ backoff' = FirstBackoff /\ wait' = 0
      BY <2>1 DEF Crash
    <3>2. FirstBackoff \in FirstBackoff .. MaxBackoff /\ 0 \in 0 .. MaxBackoff
      OBVIOUS
    <3>3. QED
      BY <3>1, <3>2
  <2>2. CASE Restart
    BY <2>2 DEF Restart
  <2>3. QED
    BY <1>8, <2>1, <2>2
<1>9. CASE UNCHANGED vars
  BY <1>9 DEF vars
<1>10. QED
  BY <1>3, <1>4, <1>5, <1>6, <1>7, <1>8, <1>9 DEF Next, StreamStep
-----------------------------------------------------------------------------
(* The keys. *)

\* The keys of records and rows.
LEMMA KeyFacts ==
  /\ \A batch \in Seq(Records) : KeysOf(batch) \subseteq Txs \X Kinds
  /\ \A rows \in Seq(Rows) : KeysOf(rows) \subseteq Txs \X Kinds
<1>1. \A rec \in Records : Key(rec) \in Txs \X Kinds
  BY DEF Records, Key
<1>2. \A r \in Rows : Key(r) \in Txs \X Kinds
  BY DEF Rows, Row, Records, Key
<1>3. QED
  BY <1>1, <1>2, ElementOfSeq DEF KeysOf

\* An update adds to the batch.
LEMMA BatchFacts ==
  ASSUME pending \in Seq(Records), CarryOK(pending), NEW x \in Txs
  PROVE  LET batch == pending \o RecordsOf(x) IN
         /\ batch \in Seq(Records) /\ Len(batch) \in Nat /\ KeysOf(pending) \subseteq KeysOf(batch)
         /\ CarryOK(batch)
<1> DEFINE batch == pending \o RecordsOf(x)
<1>1. RecordsOf(x) \in Seq(Records) /\ CarryOK(RecordsOf(x))
  BY RecordsFacts
<1>2. /\ batch \in Seq(Records) /\ Len(batch) \in Nat
      /\ \A i \in DOMAIN pending : i \in DOMAIN batch /\ batch[i] = pending[i]
      /\ \A i \in DOMAIN batch : \/ i \in DOMAIN pending
                               \/ /\ i - Len(pending) \in DOMAIN RecordsOf(x)
                                  /\ batch[i] = RecordsOf(x)[i - Len(pending)]
  BY <1>1
<1> HIDE DEF batch
<1>3. KeysOf(pending) \subseteq KeysOf(batch)
  BY <1>2 DEF KeysOf
<1>4. CarryOK(batch)
  BY <1>1, <1>2 DEF CarryOK
<1>5. QED
  BY <1>2, <1>3, <1>4 DEF batch

\* The empty batch.
LEMMA EmptyBatch ==
  <<>> \in Seq(Records) /\ Len(<<>>) = 0 /\ Len(<<>>) < BatchMax /\ KeysOf(<<>>) = {} /\ CarryOK(<<>>)
<1>1. DOMAIN <<>> = {}
  OBVIOUS
<1>2. KeysOf(<<>>) = {} /\ CarryOK(<<>>)
  BY <1>1 DEF KeysOf, CarryOK
<1>3. QED
  BY <1>2, Bounds

\* A batch that is written: the types, the keys and the index.
LEMMA WriteOK ==
  ASSUME IInv, NEW batch \in Seq(Records), KeysOf(pending) \subseteq KeysOf(batch), CarryOK(batch),
         table' = Inserted(batch), heard' \in {heard, heard \cup KeysOf(batch)}, pending' = <<>>,
         UNCHANGED pruneVars, faults' = faults
  PROVE  TableTypeOK' /\ PruneTypeOK' /\ HistoryTypeOK' /\ TableInv'
<1>1. /\ TableTypeOK /\ PruneTypeOK /\ HistoryTypeOK
      /\ Unique(table) /\ CarryOK(table) /\ NoneMissing
  BY TypeParts DEF IInv, TableInv
<1>2. /\ table' \in Seq(Rows) /\ Len(table') >= Len(table) /\ Unique(table') /\ CarryOK(table')
      /\ KeysOf(table') = KeysOf(table) \cup KeysOf(batch)
  BY <1>1, InsertedFacts DEF TableTypeOK
<1>3. Len(table) \in Nat /\ Len(table') \in Nat
  BY <1>1, <1>2 DEF TableTypeOK
<1>4. stale' \in 0 .. Len(table')
  BY <1>1, <1>2, <1>3 DEF PruneTypeOK, pruneVars
<1>5. NoneMissing' /\ HistoryTypeOK'
  BY <1>1, <1>2, KeyFacts DEF HistoryTypeOK, NoneMissing
<1>6. TableTypeOK' /\ PruneTypeOK'
  BY <1>1, <1>2, <1>4 DEF TableTypeOK, PruneTypeOK, pruneVars
<1>7. TableInv'
  BY <1>2, <1>5, EmptyBatch DEF TableInv
<1>8. QED
  BY <1>5, <1>6, <1>7

\* A batch that is lost takes the keys along that nobody else holds.
LEMMA LostOK ==
  ASSUME IInv, NEW kind, NEW batch \in Seq(Records), KeysOf(pending) \subseteq KeysOf(batch),
         LostTo(kind, batch), pending' = <<>>
  PROVE  TableTypeOK' /\ HistoryTypeOK' /\ TableInv' /\ table' = table
<1>1. TableTypeOK /\ HistoryTypeOK /\ Unique(table) /\ CarryOK(table) /\ NoneMissing
  BY TypeParts DEF IInv, TableInv
<1>2. /\ faults' \in 0 .. MaxFaults /\ table' = table
      /\ heard' = heard \ (KeysOf(batch) \ KeysOf(table))
  BY <1>1, Bounds DEF LostTo, Fault, HistoryTypeOK
<1>3. QED
  BY <1>1, <1>2, EmptyBatch DEF TableTypeOK, HistoryTypeOK, TableInv, NoneMissing
-----------------------------------------------------------------------------
(* The steps. *)

\* What a step keeps if it changes no batch, no table and no key.
LEMMA Quiet ==
  ASSUME IInv, UNCHANGED <<pending, table, heard>>, since' \in 0 .. BatchAge,
         PruneTypeOK', faults' \in 0 .. MaxFaults
  PROVE  BatchTypeOK' /\ TableTypeOK' /\ PruneTypeOK' /\ HistoryTypeOK' /\ TableInv'
BY TypeParts DEF IInv, BatchTypeOK, TableTypeOK, HistoryTypeOK, TableInv, NoneMissing

\* The stream.
LEMMA StreamOK ==
  ASSUME IInv, StreamStep
  PROVE  BatchTypeOK' /\ TableTypeOK' /\ PruneTypeOK' /\ HistoryTypeOK' /\ TableInv'
<1>1. BatchTypeOK /\ PruneTypeOK /\ HistoryTypeOK /\ pending \in Seq(Records) /\ CarryOK(pending)
  BY TypeParts DEF IInv, TableInv, BatchTypeOK
<1>2. ASSUME pending' = <<>>, since' \in {since, 0} PROVE BatchTypeOK'
  BY <1>1, <1>2, EmptyBatch, Bounds DEF BatchTypeOK
<1>3. CASE StreamEnds
  <2>1. pending' = <<>> /\ since' = 0 /\ UNCHANGED pruneVars
    BY <1>3 DEF StreamEnds, Sleep
  <2>2. CASE Written(pending)
    <3>1. table' = Inserted(pending) /\ heard' = heard /\ faults' = faults
      BY <2>2 DEF Written
    <3>2. QED
      BY <1>1, <1>2, <2>1, <3>1, WriteOK
  <2>3. CASE LostTo("write", pending)
    <3>1. TableTypeOK' /\ HistoryTypeOK' /\ TableInv' /\ table' = table
      BY <1>1, <2>1, <2>3, LostOK
    <3>2. QED
      BY <1>1, <1>2, <2>1, <3>1 DEF PruneTypeOK, pruneVars
  <2>4. QED
    BY <1>3, <2>2, <2>3 DEF StreamEnds
<1>4. CASE StreamBreaks
  <2>1. pending' = <<>> /\ since' = since /\ UNCHANGED pruneVars /\ LostTo("stream", pending)
    BY <1>4 DEF StreamBreaks, Sleep
  <2>2. TableTypeOK' /\ HistoryTypeOK' /\ TableInv' /\ table' = table
    BY <1>1, <2>1, LostOK
  <2>3. QED
    BY <1>1, <1>2, <2>1, <2>2 DEF PruneTypeOK, pruneVars
<1>5. ASSUME NEW x \in Streamed, Update(x)
      PROVE  BatchTypeOK' /\ TableTypeOK' /\ PruneTypeOK' /\ HistoryTypeOK' /\ TableInv'
  <2> DEFINE batch == pending \o RecordsOf(x)
  <2>1. x \in Txs
    BY DEF Streamed
  <2>2. /\ UNCHANGED pruneVars
        /\ \/ UNCHANGED <<pending, since, table, heard, faults>>
           \/ Flush(batch)
           \/ /\ ~Due(batch) /\ pending' = batch /\ heard' = heard \cup KeysOf(batch)
              /\ UNCHANGED <<since, table, faults>>
    BY <1>5 DEF Update
  <2>3. /\ batch \in Seq(Records) /\ Len(batch) \in Nat /\ KeysOf(pending) \subseteq KeysOf(batch)
        /\ CarryOK(batch)
    BY <1>1, <2>1, BatchFacts
  <2> HIDE DEF batch
  <2>4. PruneTypeOK' \/ table' # table
    BY <1>1, <2>2 DEF PruneTypeOK, pruneVars
  <2>5. CASE UNCHANGED <<pending, since, table, heard, faults>>
    BY <1>1, <2>4, <2>5, Quiet DEF BatchTypeOK, HistoryTypeOK
  <2>6. CASE Flush(batch)
    <3>1. pending' = <<>> /\ since' = 0
      BY <2>6 DEF Flush
    <3>2. CASE LostTo("write", batch)
      <4>1. TableTypeOK' /\ HistoryTypeOK' /\ TableInv' /\ table' = table
        BY <2>3, <3>1, <3>2, LostOK
      <4>2. QED
        BY <1>2, <2>4, <3>1, <4>1
    <3>3. CASE table' = Inserted(batch) /\ heard' = heard \cup KeysOf(batch) /\ faults' = faults
      BY <1>2, <2>2, <2>3, <3>1, <3>3, WriteOK
    <3>4. QED
      BY <2>6, <3>2, <3>3 DEF Flush
  <2>7. CASE /\ ~Due(batch) /\ pending' = batch /\ heard' = heard \cup KeysOf(batch)
             /\ UNCHANGED <<since, table, faults>>
    <3>1. BatchTypeOK'
      BY <1>1, <2>3, <2>7, Bounds DEF BatchTypeOK, Due
    <3>2. TableTypeOK /\ Unique(table) /\ CarryOK(table) /\ NoneMissing
      BY TypeParts DEF IInv, TableInv
    <3>3. KeysOf(batch) \subseteq Txs \X Kinds
      BY <2>3, KeyFacts
    <3>4. HistoryTypeOK' /\ TableTypeOK' /\ TableInv'
      BY <1>1, <2>3, <2>7, <3>2, <3>3 DEF HistoryTypeOK, TableInv, NoneMissing, TableTypeOK
    <3>5. QED
      BY <2>4, <2>7, <3>1, <3>4
  <2>8. QED
    BY <2>2, <2>5, <2>6, <2>7
<1>6. QED
  BY <1>3, <1>4, <1>5 DEF StreamStep

\* What is past its retention is among the rows.
LEMMA PastFacts ==
  ASSUME table \in Seq(Rows)
  PROVE  PastRetention \in 0 .. Len(table)
<1> DEFINE past == {i \in DOMAIN table : table[i].age > Retention}
<1>1. Len(table) \in Nat /\ past \subseteq 1 .. Len(table)
  OBVIOUS
<1>2. IsFiniteSet(1 .. Len(table)) /\ Cardinality(1 .. Len(table)) = Len(table)
  <2> DEFINE n == Len(table)
  <2>1. n \in Nat /\ n \in Int /\ 1 \in Int
    BY <1>1
  <2> HIDE DEF n
  <2>2. IsFiniteSet(1 .. n) /\ Cardinality(1 .. n) = (IF 1 > n THEN 0 ELSE n - 1 + 1)
    BY <2>1, FS_Interval
  <2>3. QED
    BY <2>1, <2>2 DEF n
<1> HIDE DEF past
<1>3. Cardinality(past) \in Nat /\ Cardinality(past) <= Len(table)
  BY <1>1, <1>2, FS_Subset, FS_CardinalityType
<1>4. QED
  BY <1>1, <1>3 DEF PastRetention, past

\* A chunk of the prune: the rows go from the front, and with them their keys.
LEMMA ChunkOK ==
  ASSUME IInv, PruneChunk
  PROVE  BatchTypeOK' /\ TableTypeOK' /\ PruneTypeOK' /\ HistoryTypeOK' /\ TableInv'
<1> DEFINE n == IF stale < ChunkSize THEN stale ELSE ChunkSize
           deleted == SubSeq(table, 1, n)
           left == SubSeq(table, n + 1, Len(table))
<1>1. /\ BatchTypeOK /\ TableTypeOK /\ PruneTypeOK /\ HistoryTypeOK
      /\ Unique(table) /\ CarryOK(table) /\ CarryOK(pending) /\ NoneMissing
      /\ table \in Seq(Rows) /\ Len(table) \in Nat /\ DOMAIN table = 1 .. Len(table)
  BY TypeParts DEF IInv, TableInv, TableTypeOK
<1>2. n \in Nat /\ n <= stale /\ n <= ChunkSize /\ stale <= Len(table) /\ stale \in Nat
  BY <1>1, Bounds DEF PruneTypeOK
<1>3. /\ table' = left /\ heard' = heard \ (KeysOf(deleted) \ KeysOf(pending))
      /\ UNCHANGED <<pending, since, faults>>
      /\ \/ PruneSleep
         \/ /\ ~ (n < ChunkSize \/ chunks + 1 = MaxChunks)
            /\ stale' = stale - n /\ chunks' = chunks + 1 /\ UNCHANGED <<ppc, rest>>
  BY DEF PruneChunk
<1> HIDE DEF n
<1>4. /\ left \in Seq(Rows) /\ Len(left) = Len(table) - n /\ DOMAIN left = 1 .. Len(table) - n
      /\ \A i \in 1 .. Len(table) - n : left[i] = table[n + i]
  <2>1. \A i \in n + 1 .. Len(table) : table[i] \in Rows
    BY <1>1, <1>2
  <2>2. /\ left \in Seq(Rows) /\ Len(left) = (IF n + 1 <= Len(table) THEN Len(table) - (n + 1) + 1 ELSE 0)
        /\ \A i \in 1 .. Len(table) - (n + 1) + 1 : left[i] = table[n + 1 + i - 1]
    BY <1>1, <1>2, <2>1, SubSeqProperties
  <2> HIDE DEF left
  <2>3. Len(left) = Len(table) - n
    <3>1. n \in Nat /\ Len(table) \in Nat /\ stale \in Nat /\ n <= stale /\ stale <= Len(table)
      BY <1>1, <1>2
    <3>2. Len(left) = (IF n + 1 <= Len(table) THEN Len(table) - (n + 1) + 1 ELSE 0)
      BY <2>2
    <3>3. QED
      BY <3>1, <3>2
  <2>4. DOMAIN left = 1 .. Len(table) - n
    <3>1. left \in Seq(Rows)
      BY <2>2
    <3>2. DOMAIN left = 1 .. Len(left)
      BY <3>1
    <3>3. QED
      BY <2>3, <3>2
  <2>5. \A i \in 1 .. Len(table) - n : left[i] = table[n + i]
    <3> TAKE i \in 1 .. Len(table) - n
    <3>1. i \in 1 .. Len(table) - (n + 1) + 1 /\ n + 1 + i - 1 = n + i
      BY <1>1, <1>2
    <3>2. QED
      BY <2>2, <3>1
  <2>6. QED
    BY <2>2, <2>3, <2>4, <2>5
<1>5. DOMAIN deleted = 1 .. n /\ \A i \in 1 .. n : deleted[i] = table[i]
  BY <1>1, <1>2
<1> HIDE DEF left, deleted
<1>6. PruneTypeOK'
  <2>1. CASE PruneSleep
    BY <1>1, <1>2, <1>3, <1>4, <2>1, Bounds DEF PruneTypeOK, PruneSleep
  <2>2. CASE /\ ~ (n < ChunkSize \/ chunks + 1 = MaxChunks)
             /\ stale' = stale - n /\ chunks' = chunks + 1 /\ UNCHANGED <<ppc, rest>>
    <3>1. ppc' \in {"sleep", "chunk"} /\ chunks + 1 \in 0 .. MaxChunks
      BY <1>1, <2>2, Bounds DEF PruneTypeOK, IInv, ChunksLeft, PruneChunk
    <3>2. QED
      BY <1>1, <1>2, <1>3, <1>4, <2>2, <3>1, Bounds DEF PruneTypeOK
  <2>3. QED
    BY <1>3, <2>1, <2>2
<1>7. Unique(left) /\ CarryOK(left)
  <2>1. \A i \in DOMAIN left : n + i \in DOMAIN table /\ left[i] = table[n + i]
    BY <1>1, <1>2, <1>4
  <2>2. \A i, j \in DOMAIN left : n + i = n + j => i = j
    BY <1>1, <1>2, <1>4
  <2>3. QED
    BY <1>1, <2>1, <2>2 DEF Unique, CarryOK
<1>8. KeysOf(table) \subseteq KeysOf(deleted) \cup KeysOf(left)
  <2>1. ASSUME NEW i \in DOMAIN table
        PROVE  Key(table[i]) \in KeysOf(deleted) \cup KeysOf(left)
    <3>1. CASE i <= n
      <4>1. i \in DOMAIN deleted /\ deleted[i] = table[i]
        BY <1>1, <1>2, <1>5, <3>1
      <4>2. QED
        BY <4>1 DEF KeysOf
    <3>2. CASE i > n
      <4>1. i - n \in DOMAIN left /\ left[i - n] = table[i]
        BY <1>1, <1>2, <1>4, <3>2
      <4>2. QED
        BY <4>1 DEF KeysOf
    <3>3. QED
      BY <1>1, <1>2, <3>1, <3>2
  <2>2. QED
    BY <2>1 DEF KeysOf
<1>9. NoneMissing'
  BY <1>1, <1>3, <1>8 DEF NoneMissing
<1>10. BatchTypeOK' /\ TableTypeOK' /\ HistoryTypeOK'
  BY <1>1, <1>3, <1>4 DEF BatchTypeOK, TableTypeOK, HistoryTypeOK
<1>11. TableInv'
  BY <1>1, <1>3, <1>7, <1>9 DEF TableInv
<1>12. QED
  BY <1>6, <1>10, <1>11

\* Time passing makes rows older, and keeps their keys.
LEMMA TickOK ==
  ASSUME IInv, Tick
  PROVE  BatchTypeOK' /\ TableTypeOK' /\ PruneTypeOK' /\ HistoryTypeOK' /\ TableInv'
<1>1. /\ BatchTypeOK /\ TableTypeOK /\ PruneTypeOK /\ HistoryTypeOK
      /\ Unique(table) /\ CarryOK(table) /\ CarryOK(pending) /\ NoneMissing
      /\ table \in Seq(Rows) /\ Len(table) \in Nat /\ DOMAIN table = 1 .. Len(table)
  BY TypeParts DEF IInv, TableInv, TableTypeOK
<1>2. /\ table' = [i \in DOMAIN table |-> Older(table[i])] /\ rest' = Less(rest)
      /\ since' = (IF conn = "stream" /\ since < BatchAge THEN since + 1 ELSE since)
      /\ UNCHANGED <<pending, ppc, stale, chunks, heard, faults>>
  BY DEF Tick
<1>3. \A r \in Rows : Older(r) \in Rows /\ Key(Older(r)) = Key(r) /\ (CarriesOK(r) => CarriesOK(Older(r)))
  <2> TAKE r \in Rows
  <2>1. PICK rec \in Records, age \in 0 .. Old : r = Row(rec, age)
    BY DEF Rows
  <2>2. r.age = age /\ r.tx = rec.tx /\ r.kind = rec.kind /\ r.first = rec.first
    BY <2>1 DEF Row
  <2>3. PICK older \in 0 .. Old : Older(r) = Row(r, older)
    BY <2>2, Bounds DEF Older
  <2>4. Row(r, older) = Row(rec, older)
    BY <2>2 DEF Row
  <2>5. QED
    BY <2>2, <2>3, <2>4 DEF Rows, Key, Row, CarriesOK
<1>4. DOMAIN table' = DOMAIN table /\ \A i \in DOMAIN table : table'[i] = Older(table[i])
  BY <1>2
<1>5. \A i \in DOMAIN table : table[i] \in Rows
  BY <1>1
<1>6. \A i \in DOMAIN table : table'[i] \in Rows /\ Key(table'[i]) = Key(table[i])
  BY <1>3, <1>4, <1>5
<1>7. table' \in Seq(Rows) /\ Len(table') = Len(table)
  <2>1. table' \in [1 .. Len(table) -> Rows]
    BY <1>1, <1>2, <1>3, <1>5
  <2>2. QED
    BY <1>1, <2>1
<1>8. KeysOf(table') = KeysOf(table)
  BY <1>4, <1>6 DEF KeysOf
<1>9. Unique(table') /\ CarryOK(table')
  BY <1>1, <1>3, <1>4, <1>5, <1>6 DEF Unique, CarryOK
<1>10. PruneTypeOK'
  BY <1>1, <1>2, <1>7, Bounds DEF PruneTypeOK, Less
<1>11. BatchTypeOK' /\ TableTypeOK' /\ HistoryTypeOK' /\ NoneMissing'
  <2>1. BatchTypeOK'
    BY <1>1, <1>2, Bounds DEF BatchTypeOK
  <2>2. TableTypeOK' /\ HistoryTypeOK'
    BY <1>1, <1>2, <1>7 DEF TableTypeOK, HistoryTypeOK
  <2>3. NoneMissing'
    BY <1>1, <1>2, <1>8 DEF NoneMissing
  <2>4. QED
    BY <2>1, <2>2, <2>3
<1>12. TableInv'
  BY <1>1, <1>2, <1>9, <1>11 DEF TableInv
<1>13. QED
  BY <1>10, <1>11, <1>12

\* Every step keeps the invariant.
LEMMA IInvNext ==
  ASSUME IInv, [Next]_vars
  PROVE  IInv'
<1>1. ConnTypeOK /\ BatchTypeOK /\ TableTypeOK /\ PruneTypeOK /\ HistoryTypeOK
  BY TypeParts DEF IInv
<1>2. ConnTypeOK'
  BY <1>1, ConnTypeStep
<1>3. BatchTypeOK' /\ TableTypeOK' /\ PruneTypeOK' /\ HistoryTypeOK' /\ TableInv'
  <2>1. CASE StreamStep
    BY <2>1, StreamOK
  <2>2. CASE PruneChunk
    BY <2>2, ChunkOK
  <2>3. CASE Tick
    BY <2>3, TickOK
  <2>4. CASE Crash
    <3>1. pending' = <<>> /\ since' = 0 /\ LostTo("crash", pending) /\ PruneSleep
      BY <2>4 DEF Crash
    <3>2. pending \in Seq(Records)
      BY <1>1 DEF BatchTypeOK
    <3>3. TableTypeOK' /\ HistoryTypeOK' /\ TableInv' /\ table' = table
      BY <3>1, <3>2, LostOK
    <3>4. BatchTypeOK'
      BY <3>1, EmptyBatch, Bounds DEF BatchTypeOK
    <3>5. Len(table) \in Nat
      BY <1>1 DEF TableTypeOK
    <3>6. PruneTypeOK'
      BY <1>1, <3>1, <3>3, <3>5, Bounds DEF PruneTypeOK, PruneSleep
    <3>7. QED
      BY <3>3, <3>4, <3>6
  <2>5. CASE ConnStep \/ Restart \/ UNCHANGED vars
    <3>1. /\ UNCHANGED <<pending, table, heard, faults, stale, ppc, rest, chunks>> /\ since' \in {since, 0}
      BY <2>5 DEF ConnStep, Ready, NotReady, Reconnect, Sleep, Restart, vars, connVars, pruneVars
    <3>2. PruneTypeOK' /\ since' \in 0 .. BatchAge /\ faults' \in 0 .. MaxFaults
      BY <1>1, <3>1, Bounds DEF PruneTypeOK, BatchTypeOK, HistoryTypeOK
    <3>3. QED
      BY <3>1, <3>2, Quiet
  <2>6. CASE PruneStart \/ PruneFails
    <3>1. UNCHANGED <<pending, since, table, heard>>
      BY <2>6 DEF PruneStart, PruneFails
    <3>2. Len(table) \in Nat /\ PastRetention \in 0 .. Len(table)
      BY <1>1, PastFacts DEF TableTypeOK
    <3>3. PruneTypeOK'
      BY <1>1, <2>6, <3>1, <3>2, Bounds DEF PruneTypeOK, PruneStart, PruneFails, PruneSleep
    <3>4. faults' \in 0 .. MaxFaults
      BY <1>1, <2>6, Bounds DEF HistoryTypeOK, PruneStart, PruneFails, Fault
    <3>5. QED
      BY <1>1, <3>1, <3>3, <3>4, Quiet DEF BatchTypeOK
  <2>7. QED
    BY <2>1, <2>2, <2>3, <2>4, <2>5, <2>6 DEF Next, PruneStep
<1>4. ChunksLeft'
  <2>1. chunks \in 0 .. MaxChunks /\ ChunksLeft
    BY <1>1 DEF IInv, PruneTypeOK
  <2>2. CASE StreamStep \/ ConnStep \/ Tick \/ Restart \/ UNCHANGED vars
    <3>1. ppc' = ppc /\ chunks' = chunks
      BY <2>2 DEF StreamStep, StreamEnds, StreamBreaks, Update, ConnStep, Ready, NotReady, Reconnect,
                  Sleep, Tick, Restart, vars, pruneVars
    <3>2. QED
      BY <2>1, <3>1 DEF ChunksLeft
  <2>3. CASE PruneStart \/ PruneFails \/ Crash
    BY <2>3, Bounds DEF ChunksLeft, PruneStart, PruneFails, Crash, PruneSleep
  <2>4. CASE PruneChunk
    BY <2>1, <2>4, Bounds DEF ChunksLeft, PruneChunk, PruneSleep
  <2>5. QED
    BY <2>2, <2>3, <2>4 DEF Next, PruneStep
<1>5. QED
  BY <1>2, <1>3, <1>4, TypeParts DEF IInv

\* The invariant always holds.
LEMMA IInvAlways == Spec => []IInv
<1>1. Init => IInv
  <2>1. <<>> \in Seq(Rows) /\ Len(<<>>) = 0 /\ DOMAIN <<>> = {}
    OBVIOUS
  <2>2. ASSUME Init PROVE TypeOK
    BY <2>1, <2>2, EmptyBatch, Bounds DEF Init, TypeOK
  <2>3. ASSUME Init PROVE ChunksLeft /\ TableInv
    BY <2>1, <2>3, EmptyBatch DEF Init, ChunksLeft, TableInv, Unique, NoneMissing
  <2>4. QED
    BY <2>2, <2>3 DEF IInv
<1>2. IInv /\ [Next]_vars => IInv'
  BY IInvNext
<1>3. QED
  BY <1>1, <1>2, PTL DEF Spec
-----------------------------------------------------------------------------
(* Sums. *)

\* Induction over a finite set, as a statement about a set of its subsets.
LEMMA SetInduct ==
  ASSUME NEW S, IsFiniteSet(S), NEW Good \in SUBSET SUBSET S, {} \in Good,
         \A T \in SUBSET S : T # {} /\ (\A x \in T : T \ {x} \in Good) => T \in Good
  PROVE  S \in Good
<1> DEFINE Bad == (SUBSET S) \ Good
<1>1. SUFFICES ASSUME Bad # {} PROVE FALSE
  OBVIOUS
<1>2. IsWellFoundedOn(StrictSubsetOrdering(S), FiniteSubsetsOf(S))
  BY FS_StrictSubsetOrderingWellFounded
<1>3. Bad \subseteq FiniteSubsetsOf(S)
  BY FS_Subset DEF FiniteSubsetsOf
<1>4. PICK T \in Bad : \A U \in Bad : ~ (<<U, T>> \in StrictSubsetOrdering(S))
  <2> HIDE DEF Bad
  <2>1. QED
    BY <1>1, <1>2, <1>3, WFMin
<1>5. ASSUME NEW x \in T PROVE T \ {x} \in Good
  <2>1. T \ {x} \in SUBSET S /\ T \in SUBSET S /\ T \ {x} # T
    BY <1>5
  <2>2. <<T \ {x}, T>> \in StrictSubsetOrdering(S)
    BY <2>1 DEF StrictSubsetOrdering
  <2>3. QED
    BY <1>4, <2>1, <2>2
<1>6. T # {}
  BY <1>4
<1>7. QED
  BY <1>4, <1>5, <1>6

\* A sum of naturals as a set: as many units for each key as its value.
Units(f, s) == {p \in s \X Nat : p[2] \in 1 .. f[p[1]]}

\* The units of one key more.
LEMMA UnitsMore ==
  ASSUME NEW f, NEW s, NEW x \in s, f[x] \in Nat, IsFiniteSet(Units(f, s \ {x}))
  PROVE  /\ IsFiniteSet(Units(f, s))
         /\ Cardinality(Units(f, s)) = f[x] + Cardinality(Units(f, s \ {x}))
<1> DEFINE own == {x} \X (1 .. f[x])
           others == Units(f, s \ {x})
<1>1. IsFiniteSet(own) /\ Cardinality(own) = f[x]
  <2>1. IsFiniteSet(1 .. f[x]) /\ Cardinality(1 .. f[x]) = f[x]
    <3>1. ASSUME NEW m \in Nat PROVE IsFiniteSet(1 .. m) /\ Cardinality(1 .. m) = m
      <4>1. 1 \in Int /\ m \in Int /\ (IF 1 > m THEN 0 ELSE m - 1 + 1) = m
        OBVIOUS
      <4>2. QED
        BY <4>1, FS_Interval
    <3>2. QED
      BY <3>1
  <2>2. IsFiniteSet({x}) /\ Cardinality({x}) = 1
    BY FS_Singleton
  <2>3. ASSUME NEW T, IsFiniteSet(T)
        PROVE  IsFiniteSet({x} \X T) /\ Cardinality({x} \X T) = Cardinality({x}) * Cardinality(T)
    BY <2>2, <2>3, FS_Product
  <2>4. IsFiniteSet(own) /\ Cardinality(own) = 1 * f[x]
    BY <2>1, <2>2, <2>3
  <2>5. QED
    BY <2>4
<1>2. Units(f, s) = own \cup others /\ own \cap others = {}
  BY DEF Units
<1>3. IsFiniteSet(others) /\ Cardinality(others) \in Nat
  BY FS_CardinalityType
<1> HIDE DEF own, others
<1>4. /\ IsFiniteSet(own \cup others)
      /\ Cardinality(own \cup others) = Cardinality(own) + Cardinality(others) - Cardinality(own \cap others)
  BY <1>1, <1>3, FS_Union
<1>5. Cardinality(own \cap others) = 0
  BY <1>2, FS_EmptySet
<1>6. QED
  BY <1>1, <1>2, <1>3, <1>4, <1>5 DEF others

\* No units of no keys.
LEMMA UnitsNone ==
  ASSUME NEW f
  PROVE  Units(f, {}) = {} /\ IsFiniteSet(Units(f, {})) /\ Cardinality(Units(f, {})) = 0
<1>1. Units(f, {}) = {}
  BY DEF Units
<1>2. QED
  BY <1>1, FS_EmptySet

\* Finitely many keys have finitely many units.
LEMMA UnitsFinite ==
  ASSUME NEW S, IsFiniteSet(S), NEW f, \A x \in S : f[x] \in Nat
  PROVE  IsFiniteSet(Units(f, S)) /\ Cardinality(Units(f, S)) \in Nat
<1> DEFINE Good == {T \in SUBSET S : IsFiniteSet(Units(f, T))}
<1>1. {} \in Good
  BY UnitsNone
<1>2. ASSUME NEW T \in SUBSET S, T # {}, \A x \in T : T \ {x} \in Good
      PROVE  T \in Good
  <2>1. PICK x \in T : TRUE
    BY <1>2
  <2>2. f[x] \in Nat /\ IsFiniteSet(Units(f, T \ {x}))
    BY <1>2
  <2>3. QED
    BY <2>2, UnitsMore
<1>3. S \in Good
  <2>1. Good \in SUBSET SUBSET S
    OBVIOUS
  <2> HIDE DEF Good
  <2>2. QED
    BY <1>1, <1>2, <2>1, SetInduct
<1>4. QED
  BY <1>3, FS_CardinalityType

\* SumFunction counts the units, in whatever order it adds.
LEMMA SumCounts ==
  ASSUME NEW f, IsFiniteSet(DOMAIN f), \A x \in DOMAIN f : f[x] \in Nat
  PROVE  SumFunction(f) = Cardinality(Units(f, DOMAIN f)) /\ SumFunction(f) \in Nat
<1> DEFINE K == DOMAIN f
           some(s) == CHOOSE x \in s : TRUE
           Iter(h) == h = [s \in SUBSET K |->
                             IF s = {} THEN 0 ELSE f[some(s)] + h[s \ {some(s)}]]
           card == [s \in SUBSET K |-> Cardinality(Units(f, s))]
           g == CHOOSE h : Iter(h)
<1>1. SumFunction(f) = g[K]
  BY DEF SumFunction, SumFunctionOnSet, FoldFunctionOnSet, MapThenFoldSet
<1> HIDE DEF K
<1>2. \A s \in SUBSET K : s # {} => some(s) \in s
  OBVIOUS
<1> HIDE DEF some
<1>3. ASSUME NEW s \in SUBSET K
      PROVE  card[s] = IF s = {} THEN 0 ELSE f[some(s)] + card[s \ {some(s)}]
  <2>1. CASE s = {}
    BY <2>1, UnitsNone
  <2>2. CASE s # {}
    <3>1. some(s) \in s /\ s \ {some(s)} \in SUBSET K /\ f[some(s)] \in Nat
      BY <1>2, <2>2 DEF K
    <3>2. IsFiniteSet(Units(f, s \ {some(s)}))
      <4>1. IsFiniteSet(s \ {some(s)})
        BY <3>1, FS_Subset DEF K
      <4>2. \A x \in s \ {some(s)} : f[x] \in Nat
        BY DEF K
      <4>3. QED
        BY <4>1, <4>2, UnitsFinite
    <3>3. Cardinality(Units(f, s)) = f[some(s)] + Cardinality(Units(f, s \ {some(s)}))
      BY <3>1, <3>2, UnitsMore
    <3>4. QED
      BY <2>2, <3>1, <3>3
  <2>3. QED
    BY <2>1, <2>2
<1>4. Iter(card)
  BY <1>3
<1>5. Iter(g)
  <2> HIDE DEF card, Iter
  <2>1. QED
    BY <1>4
<1> HIDE DEF g
<1>6. \A s \in SUBSET K : g[s] = IF s = {} THEN 0 ELSE f[some(s)] + g[s \ {some(s)}]
  BY <1>5
<1> DEFINE Good == {s \in SUBSET K : g[s] = card[s]}
<1>7. {} \in Good
  BY <1>3, <1>6
<1>8. ASSUME NEW s \in SUBSET K, s # {}, \A x \in s : s \ {x} \in Good
      PROVE  s \in Good
  <2> HIDE DEF card
  <2>1. some(s) \in s
    BY <1>2, <1>8
  <2>2. g[s \ {some(s)}] = card[s \ {some(s)}]
    BY <1>8, <2>1
  <2>3. QED
    BY <1>3, <1>6, <1>8, <2>2
<1>9. K \in Good
  <2>1. Good \in SUBSET SUBSET K /\ IsFiniteSet(K)
    BY DEF K
  <2> HIDE DEF Good
  <2>2. QED
    BY <1>7, <1>8, <2>1, SetInduct
<1>10. Cardinality(Units(f, K)) \in Nat
  BY UnitsFinite DEF K
<1>11. QED
  BY <1>1, <1>9, <1>10 DEF K

\* The names of a finite set are finitely many.
LEMMA ImageFinite ==
  ASSUME NEW S, IsFiniteSet(S), NEW name
  PROVE  IsFiniteSet({name[x] : x \in S})
<1> DEFINE Good == {T \in SUBSET S : IsFiniteSet({name[x] : x \in T})}
<1>1. {} \in Good
  <2>1. {name[x] : x \in {}} = {}
    OBVIOUS
  <2>2. QED
    BY <2>1, FS_EmptySet
<1>2. ASSUME NEW T \in SUBSET S, T # {}, \A x \in T : T \ {x} \in Good
      PROVE  T \in Good
  <2>1. PICK x \in T : TRUE
    BY <1>2
  <2> DEFINE less == {name[y] : y \in T \ {x}}
  <2>2. IsFiniteSet(less)
    BY <1>2
  <2>3. {name[y] : y \in T} = less \cup {name[x]}
    OBVIOUS
  <2> HIDE DEF less
  <2>4. IsFiniteSet(less \cup {name[x]})
    BY <2>2, FS_AddElement
  <2>5. QED
    BY <2>3, <2>4
<1>3. S \in Good
  <2>1. Good \in SUBSET SUBSET S
    OBVIOUS
  <2> HIDE DEF Good
  <2>2. QED
    BY <1>1, <1>2, <2>1, SetInduct
<1>4. QED
  BY <1>3

\* A sum over keys that are named differently, each by one name.
LEMMA SumRenamed ==
  ASSUME NEW S, IsFiniteSet(S), NEW name, \A x, y \in S : name[x] = name[y] => x = y,
         NEW f, NEW g, \A x \in S : f[x] \in Nat /\ g[name[x]] = f[x]
  PROVE  Cardinality(Units(f, S)) = Cardinality(Units(g, {name[x] : x \in S}))
<1> DEFINE Image(T) == {name[x] : x \in T}
           Good == {T \in SUBSET S : Cardinality(Units(f, T)) = Cardinality(Units(g, Image(T)))}
<1>1. {} \in Good
  <2>1. Image({}) = {}
    OBVIOUS
  <2>2. QED
    BY <2>1, UnitsNone
<1>2. ASSUME NEW T \in SUBSET S, T # {}, \A x \in T : T \ {x} \in Good
      PROVE  T \in Good
  <2>1. PICK x \in T : TRUE
    BY <1>2
  <2>2. /\ Image(T \ {x}) = Image(T) \ {name[x]} /\ name[x] \in Image(T)
        /\ \A z \in Image(T) \ {name[x]} : \E y \in T \ {x} : z = name[y]
    OBVIOUS
  <2>3. Cardinality(Units(f, T \ {x})) = Cardinality(Units(g, Image(T \ {x})))
    BY <1>2
  <2>4. IsFiniteSet(T \ {x})
    BY FS_Subset
  <2>5. IsFiniteSet(Units(f, T \ {x}))
    BY <2>4, UnitsFinite
  <2>6. IsFiniteSet(Image(T \ {x}))
    BY <2>4, ImageFinite
  <2> HIDE DEF Image
  <2>7. IsFiniteSet(Units(g, Image(T) \ {name[x]}))
    <3>1. \A z \in Image(T) \ {name[x]} : g[z] \in Nat
      BY <2>2
    <3>2. QED
      BY <2>2, <2>6, <3>1, UnitsFinite
  <2>8. f[x] \in Nat /\ g[name[x]] = f[x]
    OBVIOUS
  <2>9. Cardinality(Units(f, T)) = f[x] + Cardinality(Units(f, T \ {x}))
    <3>1. x \in T /\ f[x] \in Nat
      BY <2>1, <2>8
    <3>2. QED
      BY ONLY <2>5, <3>1, UnitsMore
  <2>10. Cardinality(Units(g, Image(T))) = g[name[x]] + Cardinality(Units(g, Image(T) \ {name[x]}))
    BY <2>2, <2>7, <2>8, UnitsMore
  <2>11. QED
    BY <2>2, <2>3, <2>8, <2>9, <2>10
<1>3. S \in Good
  <2>1. Good \in SUBSET SUBSET S
    OBVIOUS
  <2> HIDE DEF Good
  <2>2. QED
    BY <1>1, <1>2, <2>1, SetInduct
<1>4. QED
  BY <1>3

-----------------------------------------------------------------------------
(* The theorems. *)

\* What was decoded from the stream is in the batch or the table until a fault or
\* the prune takes it: no flush, reconnection, repetition or chunk of a prune
\* loses an event between the two.
THEOREM FeesNoneMissing == Spec => []NoneMissing
<1>1. IInv => NoneMissing
  BY DEF IInv, TableInv
<1>2. QED
  BY <1>1, IInvAlways, PTL

\* No event is in table pumpswap_fees twice, though the stream delivers it any
\* number of times, in one batch or in many, before and after prunes.
THEOREM FeesCountedOnce == Spec => []CountedOnce
<1>1. IInv => CountedOnce
  BY DEF IInv, TableInv, CountedOnce, Unique
<1>2. QED
  BY <1>1, IInvAlways, PTL

\* The fees of a transaction are natural numbers.
LEMMA FeesAreNat ==
  ASSUME NEW x \in Txs
  PROVE  Bribe(x) \in Nat /\ Ante(x) \in Nat
<1>1. /\ Info[x].units \in Nat /\ Info[x].fee \in Nat /\ Million \in Nat \ {0}
      /\ Info[x].instructions \in Seq([program : {"budget", "other"}, sets : {"price", "other"}, price : Nat])
      /\ Info[x].changes \in Seq([account : {"tip", "other"}, lamports : Int])
  BY FeeIndexerAssumption
<1>2. CuPrice(x) \in Nat
  <2> DEFINE all == Info[x].instructions
             at == {i \in DOMAIN all : all[i].program = "budget" /\ all[i].sets = "price"}
             i0 == CHOOSE i \in at : \A j \in at : i <= j
  <2>1. at \in SUBSET Nat /\ at \subseteq DOMAIN all /\ \A i \in DOMAIN all : all[i].price \in Nat
    <3> DEFINE Set == [program : {"budget", "other"}, sets : {"price", "other"}, price : Nat]
    <3>1. \A r \in Set : r.price \in Nat
      OBVIOUS
    <3>2. all \in Seq(Set)
      BY <1>1
    <3> HIDE DEF Set, all
    <3>3. DOMAIN all \subseteq Nat /\ \A i \in DOMAIN all : all[i] \in Set
      BY <3>2
    <3>4. QED
      BY <3>1, <3>3
  <2>2. CuPrice(x) = IF at = {} THEN 0 ELSE all[i0].price
    BY DEF CuPrice
  <2> HIDE DEF at, all
  <2>3. at # {} => i0 \in at
    <3>1. at # {} => \E i \in at : \A j \in at : i <= j
      BY <2>1, Least
    <3>2. QED
      BY <3>1
  <2> HIDE DEF i0
  <2>4. CASE at = {}
    BY <2>2, <2>4
  <2>5. CASE at # {}
    BY <2>1, <2>2, <2>3, <2>5
  <2>6. QED
    BY <2>4, <2>5
<1>3. JitoTip(x) \in Nat
  <2> DEFINE all == Info[x].changes
             won == {i \in DOMAIN all : all[i].account = "tip" /\ all[i].lamports > 0}
             f == [i \in won |-> all[i].lamports]
  <2>1. Len(all) \in Nat /\ won \subseteq 1 .. Len(all) /\ \A i \in won : f[i] \in Nat
    <3> DEFINE Set == [account : {"tip", "other"}, lamports : Int]
    <3>1. \A r \in Set : r.lamports > 0 => r.lamports \in Nat
      OBVIOUS
    <3>2. all \in Seq(Set)
      BY <1>1
    <3> HIDE DEF Set, all
    <3>3. Len(all) \in Nat /\ DOMAIN all = 1 .. Len(all) /\ \A i \in DOMAIN all : all[i] \in Set
      BY <3>2
    <3>4. QED
      BY <3>1, <3>3
  <2>2. IsFiniteSet(1 .. Len(all))
    BY <2>1, FS_Interval
  <2>3. DOMAIN f = won /\ IsFiniteSet(won)
    BY <2>1, <2>2, FS_Subset
  <2>4. JitoTip(x) = SumFunction(f)
    BY DEF JitoTip
  <2> HIDE DEF f, won, all
  <2>5. QED
    BY <2>1, <2>3, <2>4, SumCounts
<1>4. PriorityFee(x) \in Nat
  <2>1. CuPrice(x) * Info[x].units \in Nat
    BY <1>1, <1>2
  <2>2. CuPrice(x) * Info[x].units + (Million - 1) \in Nat
    BY <1>1, <2>1
  <2>3. \A n \in Nat, d \in Nat \ {0} : n \div d \in Nat
    OBVIOUS
  <2>4. QED
    BY <1>1, <2>2, <2>3 DEF PriorityFee
<1>5. QED
  BY <1>1, <1>3, <1>4 DEF Bribe, Ante

\* The bribes that the fee gate sums, and the samples of the ante windows, have
\* each transaction with a carrying row once: however often it was delivered, and
\* whichever of its rows a prune has taken.
THEOREM FeesBribesExact == Spec => []BribesExact
<1>1. ASSUME IInv PROVE BribesExact
  <2> DEFINE name == [i \in Carriers |-> table[i].tx]
             paid == {table[i].tx : i \in Carriers}
  <2>1. table \in Seq(Rows) /\ Unique(table) /\ CarryOK(table)
    BY <1>1, TypeParts DEF IInv, TableInv, TableTypeOK
  <2>2. /\ Len(table) \in Nat /\ Carriers \subseteq 1 .. Len(table)
        /\ \A i \in Carriers : table[i] \in Rows /\ i \in DOMAIN table /\ table[i].first
    BY <2>1 DEF Carriers
  <2>3. \A i \in Carriers : table[i].tx \in Txs
    <3>1. \A r \in Rows : r.tx \in Txs
      BY DEF Rows, Row, Records
    <3>2. QED
      BY <2>2, <3>1
  <2>4. IsFiniteSet(Carriers)
    <3>1. IsFiniteSet(1 .. Len(table))
      BY <2>2, FS_Interval
    <3>2. QED
      BY <2>2, <3>1, FS_Subset
  <2>5. \A i, j \in Carriers : name[i] = name[j] => i = j
    BY <2>1, <2>2 DEF Unique, CarryOK, CarriesOK, Key
  <2>6. paid = {name[i] : i \in Carriers} /\ IsFiniteSet(paid) /\ \A x \in paid : x \in Txs
    <3>1. paid = {name[i] : i \in Carriers}
      OBVIOUS
    <3>2. IsFiniteSet({name[i] : i \in Carriers})
      <4> HIDE DEF name
      <4>1. QED
        BY <2>4, ImageFinite
    <3>3. QED
      BY <2>3, <3>1, <3>2
  <2>7. \A i \in Carriers : name[i] = table[i].tx
    OBVIOUS
  <2> HIDE DEF name, paid
  <2>8. Bribes = SumFunction([x \in paid |-> Bribe(x)])
    <3> DEFINE f == [i \in Carriers |-> Bribe(table[i].tx)]
               g == [x \in paid |-> Bribe(x)]
    <3>1. DOMAIN f = Carriers /\ \A i \in Carriers : f[i] \in Nat /\ g[name[i]] = f[i]
      BY <2>3, <2>6, <2>7, FeesAreNat
    <3>2. DOMAIN g = paid /\ \A x \in paid : g[x] \in Nat
      BY <2>6, FeesAreNat
    <3>3. Bribes = SumFunction(f)
      BY DEF Bribes
    <3> HIDE DEF f, g
    <3>4. SumFunction(f) = Cardinality(Units(f, Carriers))
      BY <2>4, <3>1, SumCounts
    <3>5. SumFunction(g) = Cardinality(Units(g, paid))
      BY <2>6, <3>2, SumCounts
    <3>6. Cardinality(Units(f, Carriers)) = Cardinality(Units(g, paid))
      BY <2>4, <2>5, <2>6, <3>1, SumRenamed
    <3>7. SumFunction(f) = SumFunction(g)
      BY <3>4, <3>5, <3>6
    <3>8. QED
      BY <3>3, <3>7 DEF g
  <2>9. SumFunction(AnteSamples) = SumFunction([x \in paid |-> Ante(x)])
    <3> DEFINE g == [x \in paid |-> Ante(x)]
    <3>1. DOMAIN AnteSamples = Carriers
          /\ \A i \in Carriers : AnteSamples[i] \in Nat /\ g[name[i]] = AnteSamples[i]
      BY <2>3, <2>6, <2>7, FeesAreNat DEF AnteSamples
    <3>2. DOMAIN g = paid /\ \A x \in paid : g[x] \in Nat
      BY <2>6, FeesAreNat
    <3> HIDE DEF g
    <3>3. SumFunction(AnteSamples) = Cardinality(Units(AnteSamples, Carriers))
      BY <2>4, <3>1, SumCounts
    <3>4. SumFunction(g) = Cardinality(Units(g, paid))
      BY <2>6, <3>2, SumCounts
    <3>5. Cardinality(Units(AnteSamples, Carriers)) = Cardinality(Units(g, paid))
      BY <2>4, <2>5, <2>6, <3>1, SumRenamed
    <3>6. SumFunction(AnteSamples) = SumFunction(g)
      BY <3>3, <3>4, <3>5
    <3>7. QED
      BY <3>6 DEF g
  <2>10. QED
    BY <2>8, <2>9 DEF BribesExact, paid
<1>2. QED
  BY <1>1, IInvAlways, PTL
=============================================================================

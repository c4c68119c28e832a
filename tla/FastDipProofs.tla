---------------------------- MODULE FastDipProofs ----------------------------
(***************************************************************************)
(* What the dips of FastDip, their tasks, their rows and the windows they  *)
(* are measured in guarantee, for any tokens, prices, windows, caps and    *)
(* delays, and however many faults.                                        *)
(*                                                                         *)
(* An eviction, the end of a dip and a trigger may come in one step, so    *)
(* the invariant of the dips is stated of any dips ds, bindings pd, tokens *)
(* in a dip ind, rows sh and number of faults n.                           *)
(***************************************************************************)
EXTENDS FastDip, WellFoundedInduction, FiniteSetTheorems, SequenceTheorems, TLAPS

\* A sequence of whatever it holds.
IsSeq(s) == s \in Seq({s[i] : i \in DOMAIN s})

DipFields == {"tok", "trig", "peak", "wall", "rid", "end", "ending", "deciding"}
RowFields == {"tok", "trig", "end", "decided"}

\* The types, as far as the dips need them.
Shape(ds, pd, ind) ==
  /\ IsSeq(ds) /\ \A i \in DOMAIN ds : DOMAIN ds[i] = DipFields /\ ds[i].tok \in Tokens
  /\ ind \subseteq Tokens /\ pd \in [Tokens -> 0 .. Len(ds)]

RowShape(sh, n) == IsSeq(sh) /\ (\A k \in DOMAIN sh : DOMAIN sh[k] = RowFields) /\ n \in Nat

\* A token is bound to one of its own dips, which is the only one without an end.
Bound(ds, pd, ind) ==
  /\ \A t \in Tokens : pd[t] # 0 => ds[pd[t]].tok = t
  /\ \A i \in DOMAIN ds : ds[i].end = NoEnd <=> pd[ds[i].tok] = i
  /\ \A t \in Tokens : t \in ind <=> pd[t] # 0

\* Until the INSERT of a dip is done no other task of it is.
Waits(d, sh) ==
  /\ d.rid \in {Running, Failed} \cup 1 .. Len(sh)
  /\ d.rid = Running => d.deciding /\ (d.end # NoEnd => d.ending)

\* Its row speaks of it.
Owns(d, r, n) ==
  /\ r.tok = d.tok /\ r.trig = d.trig
  /\ r.end = NoEnd \/ r.end = d.end
  /\ ~d.deciding => r.decided \/ n > 0
  /\ r.decided => ~d.deciding
  /\ d.end.reason \notin {"none", "lost"} /\ ~d.ending => r.end = d.end \/ n > 0

\* And no other dip has that row.
Rows(ds, sh, n) ==
  /\ \A i \in DOMAIN ds : Waits(ds[i], sh) /\ (ds[i].rid > 0 => Owns(ds[i], sh[ds[i].rid], n))
  /\ \A i, j \in DOMAIN ds : ds[i].rid > 0 /\ ds[i].rid = ds[j].rid => i = j

Good(ds, pd, ind, sh, n) ==
  Shape(ds, pd, ind) /\ RowShape(sh, n) /\ Bound(ds, pd, ind) /\ Rows(ds, sh, n)

IInv == Good(dips, pend, inDip, shadow, faults)
-----------------------------------------------------------------------------
(* The data. *)

\* The two row ids that are none.
LEMMA Codes == Running = 0 /\ Failed = -1
BY DEF Running, Failed

\* A sequence of whatever it holds is one over its length.
LEMMA SeqFacts ==
  ASSUME NEW s, IsSeq(s)
  PROVE  Len(s) \in Nat /\ DOMAIN s = 1 .. Len(s) /\ s = [i \in 1 .. Len(s) |-> s[i]]
BY DEF IsSeq

\* Every function on 1 .. n is one.
LEMMA SeqMade ==
  ASSUME NEW s, NEW n \in Nat, DOMAIN s = 1 .. n, s = [i \in 1 .. n |-> s[i]]
  PROVE  IsSeq(s) /\ Len(s) = n
<1> DEFINE S == {s[i] : i \in DOMAIN s}
<1>1. s \in [1 .. n -> S]
  OBVIOUS
<1> HIDE DEF S
<1>2. s \in Seq(S) /\ Len(s) = n
  BY <1>1
<1>3. QED
  BY <1>2 DEF IsSeq, S

\* And so is every sequence.
LEMMA SeqOver ==
  ASSUME NEW S, NEW q \in Seq(S)
  PROVE  IsSeq(q)
<1>1. Len(q) \in Nat /\ DOMAIN q = 1 .. Len(q) /\ q = [i \in 1 .. Len(q) |-> q[i]]
  OBVIOUS
<1>2. QED
  BY <1>1, SeqMade

\* An element more.
LEMMA SeqAppend ==
  ASSUME NEW s, IsSeq(s), NEW x
  PROVE  /\ IsSeq(Append(s, x)) /\ Len(Append(s, x)) = Len(s) + 1
         /\ DOMAIN Append(s, x) = 1 .. Len(s) + 1
         /\ \A i \in 1 .. Len(s) : Append(s, x)[i] = s[i]
         /\ Append(s, x)[Len(s) + 1] = x
<1> DEFINE S == {s[i] : i \in DOMAIN s} \cup {x}
<1>1. s \in Seq(S) /\ x \in S
  <2>1. Len(s) \in Nat /\ s \in [1 .. Len(s) -> S]
    BY SeqFacts
  <2> HIDE DEF S
  <2>2. s \in Seq(S)
    BY <2>1
  <2>3. QED
    BY <2>2 DEF S
<1> HIDE DEF S
<1>2. /\ Append(s, x) \in Seq(S) /\ Len(Append(s, x)) = Len(s) + 1
      /\ DOMAIN Append(s, x) = 1 .. Len(s) + 1 /\ Len(s) \in Nat
      /\ \A i \in 1 .. Len(s) : Append(s, x)[i] = s[i]
      /\ Append(s, x)[Len(s) + 1] = x
  BY <1>1
<1>3. IsSeq(Append(s, x))
  BY <1>2, SeqOver
<1>4. QED
  BY <1>2, <1>3

\* Another element at one place.
LEMMA SeqExcept ==
  ASSUME NEW s, IsSeq(s), NEW k \in DOMAIN s, NEW x
  PROVE  LET new == [s EXCEPT ![k] = x] IN
         /\ IsSeq(new) /\ Len(new) = Len(s) /\ DOMAIN new = DOMAIN s
         /\ new[k] = x /\ \A i \in DOMAIN s \ {k} : new[i] = s[i]
<1> DEFINE new == [s EXCEPT ![k] = x]
<1>1. Len(s) \in Nat /\ DOMAIN s = 1 .. Len(s)
  BY SeqFacts
<1>2. DOMAIN new = DOMAIN s /\ new = [i \in DOMAIN s |-> new[i]]
      /\ new[k] = x /\ \A i \in DOMAIN s \ {k} : new[i] = s[i]
  OBVIOUS
<1> HIDE DEF new
<1>3. IsSeq(new) /\ Len(new) = Len(s)
  BY <1>1, <1>2, SeqMade
<1>4. QED
  BY <1>2, <1>3 DEF new
-----------------------------------------------------------------------------
(* The detector: a dip ends, is evicted, or begins. *)

\* The end of the dip a token is in.
LEMMA EndGood ==
  ASSUME IInv, NEW v \in Tokens, pend[v] # 0, NEW time, NEW reason, reason # "none"
  PROVE  /\ Good(EndDip(dips, v, time, reason), [u \in Tokens |-> IF u = v THEN 0 ELSE pend[u]],
                 inDip \ {v}, shadow, faults)
         /\ Len(EndDip(dips, v, time, reason)) = Len(dips)
<1> DEFINE k == pend[v]
           d == [dips[k] EXCEPT !.end = MakeEnd(time, reason), !.ending = TRUE]
           ds == [dips EXCEPT ![k] = d]
           pd == [u \in Tokens |-> IF u = v THEN 0 ELSE pend[u]]
<1>1. Shape(dips, pend, inDip) /\ RowShape(shadow, faults) /\ Bound(dips, pend, inDip) /\ Rows(dips, shadow, faults)
  BY DEF IInv, Good
<1>2. Len(dips) \in Nat /\ DOMAIN dips = 1 .. Len(dips)
  BY <1>1, SeqFacts DEF Shape
<1>3. k \in DOMAIN dips /\ dips[k].tok = v /\ dips[k].end = NoEnd
  BY <1>1, <1>2 DEF Shape, Bound
<1>4. EndDip(dips, v, time, reason) = ds
  BY <1>3 DEF EndDip
<1>5. /\ DOMAIN d = DipFields /\ d.tok = v /\ d.trig = dips[k].trig /\ d.rid = dips[k].rid
      /\ d.deciding = dips[k].deciding /\ d.end = MakeEnd(time, reason) /\ d.ending = TRUE
  BY <1>1, <1>3 DEF Shape, DipFields
<1>6. MakeEnd(time, reason) # NoEnd
  BY DEF MakeEnd, NoEnd
<1> HIDE DEF d
<1>7. /\ IsSeq(ds) /\ Len(ds) = Len(dips) /\ DOMAIN ds = DOMAIN dips
      /\ ds[k] = d /\ \A i \in DOMAIN dips \ {k} : ds[i] = dips[i]
  BY <1>1, <1>3, SeqExcept DEF Shape
<1> HIDE DEF ds, k
<1>8. Shape(ds, pd, inDip \ {v})
  BY <1>1, <1>2, <1>3, <1>5, <1>7 DEF Shape
<1>9. Bound(ds, pd, inDip \ {v})
  <2>1. \A t \in Tokens : pd[t] # 0 => ds[pd[t]].tok = t
    BY <1>1, <1>2, <1>3, <1>5, <1>7 DEF Bound, Shape
  <2>2. \A i \in DOMAIN ds : ds[i].end = NoEnd <=> pd[ds[i].tok] = i
    <3>1. ASSUME NEW i \in DOMAIN ds
          PROVE  ds[i].end = NoEnd <=> pd[ds[i].tok] = i
      <4>1. i # 0 /\ dips[i].tok \in Tokens /\ pend[v] = k
        BY <1>1, <1>2, <1>7, <3>1 DEF Shape, k
      <4>2. CASE i = k
        BY <1>3, <1>5, <1>6, <1>7, <4>1, <4>2
      <4>3. CASE i # k
        <5>1. ds[i] = dips[i] /\ (dips[i].end = NoEnd <=> pend[dips[i].tok] = i)
          BY <1>1, <1>7, <3>1, <4>3 DEF Bound
        <5>2. QED
          BY <4>1, <4>3, <5>1
      <4>4. QED
        BY <4>2, <4>3
    <3>2. QED
      BY <3>1
  <2>3. \A t \in Tokens : t \in inDip \ {v} <=> pd[t] # 0
    BY <1>1 DEF Bound
  <2>4. QED
    BY <2>1, <2>2, <2>3 DEF Bound
<1>10. Rows(ds, shadow, faults)
  <2>1. ASSUME NEW i \in DOMAIN ds
        PROVE  /\ ds[i].rid = dips[i].rid
               /\ Waits(ds[i], shadow) /\ (ds[i].rid > 0 => Owns(ds[i], shadow[ds[i].rid], faults))
    <3>1. Waits(dips[i], shadow) /\ (dips[i].rid > 0 => Owns(dips[i], shadow[dips[i].rid], faults))
      BY <1>1, <1>7, <2>1 DEF Rows
    <3>2. CASE i # k
      BY <1>7, <2>1, <3>1, <3>2
    <3>3. CASE i = k
      <4>1. Waits(d, shadow)
        BY <1>5, <3>1, <3>3 DEF Waits
      <4>2. dips[i].rid > 0 => shadow[dips[i].rid].end = NoEnd
        BY <1>3, <3>1, <3>3 DEF Owns
      <4>3. dips[i].rid > 0 => Owns(d, shadow[dips[i].rid], faults)
        BY <1>3, <1>5, <3>1, <3>3, <4>2 DEF Owns
      <4>4. QED
        BY <1>5, <1>7, <3>3, <4>1, <4>3
    <3>4. QED
      BY <3>2, <3>3
  <2>2. QED
    BY <1>1, <1>7, <2>1 DEF Rows
<1>11. QED
  BY <1>1, <1>4, <1>7, <1>8, <1>9, <1>10 DEF Good

\* An eviction ends the dip of the token that goes, if it is in one.
LEMMA EvictGood ==
  ASSUME IInv, NEW v, NEW gone \in {{}, {v}}
  PROVE  /\ Good(DipsAfterEviction(gone), [u \in Tokens |-> IF u \in gone THEN 0 ELSE pend[u]],
                 inDip \ gone, shadow, faults)
         /\ Len(DipsAfterEviction(gone)) = Len(dips)
<1>1. Shape(dips, pend, inDip) /\ Bound(dips, pend, inDip)
  BY DEF IInv, Good
<1>2. CASE gone \cap inDip = {}
  <2> DEFINE pd == [u \in Tokens |-> IF u \in gone THEN 0 ELSE pend[u]]
  <2>1. inDip \ gone = inDip /\ DipsAfterEviction(gone) = dips
    BY <1>2 DEF DipsAfterEviction
  <2>2. pd = pend
    BY <1>1, <1>2 DEF Bound, Shape
  <2> HIDE DEF pd
  <2>3. Good(DipsAfterEviction(gone), pd, inDip \ gone, shadow, faults)
    BY <2>1, <2>2 DEF IInv
  <2>4. QED
    BY <2>1, <2>3 DEF pd
<1>3. CASE gone \cap inDip # {}
  <2>1. gone = {v} /\ v \in inDip /\ v \in Tokens /\ pend[v] # 0
    BY <1>1, <1>3 DEF Bound, Shape
  <2>2. (CHOOSE u \in gone : TRUE) = v
    BY <2>1
  <2>3. DipsAfterEviction(gone) = EndDip(dips, v, buf[v][Len(buf[v])].time, "evicted")
    BY <1>3, <2>2 DEF DipsAfterEviction
  <2> DEFINE pd == [u \in Tokens |-> IF u \in gone THEN 0 ELSE pend[u]]
             end == EndDip(dips, v, buf[v][Len(buf[v])].time, "evicted")
  <2>4. pd = [u \in Tokens |-> IF u = v THEN 0 ELSE pend[u]]
    BY <2>1
  <2>5. /\ Good(end, [u \in Tokens |-> IF u = v THEN 0 ELSE pend[u]], inDip \ {v}, shadow, faults)
        /\ Len(end) = Len(dips)
    BY <2>1, EndGood
  <2> HIDE DEF pd
  <2>6. Good(DipsAfterEviction(gone), pd, inDip \ gone, shadow, faults) /\ Len(DipsAfterEviction(gone)) = Len(dips)
    BY <2>1, <2>3, <2>4, <2>5
  <2>7. QED
    BY <2>6 DEF pd
<1>4. QED
  BY <1>2, <1>3

\* A new dip of a token that is in none.
LEMMA BeginGood ==
  ASSUME NEW ds, NEW pd, NEW ind, Good(ds, pd, ind, shadow, faults), NEW t \in Tokens, t \notin ind,
         NEW d, DOMAIN d = DipFields, d.tok = t, d.rid = Running, d.end = NoEnd, d.deciding
  PROVE  Good(Append(ds, d), [u \in Tokens |-> IF u = t THEN Len(ds) + 1 ELSE pd[u]], ind \cup {t}, shadow, faults)
<1> DEFINE new == Append(ds, d)
           npd == [u \in Tokens |-> IF u = t THEN Len(ds) + 1 ELSE pd[u]]
<1>1. Shape(ds, pd, ind) /\ RowShape(shadow, faults) /\ Bound(ds, pd, ind) /\ Rows(ds, shadow, faults)
  BY DEF Good
<1>2. Len(ds) \in Nat /\ DOMAIN ds = 1 .. Len(ds)
  BY <1>1, SeqFacts DEF Shape
<1>3. /\ IsSeq(new) /\ Len(new) = Len(ds) + 1 /\ DOMAIN new = 1 .. Len(ds) + 1
      /\ (\A i \in 1 .. Len(ds) : new[i] = ds[i]) /\ new[Len(ds) + 1] = d
  BY <1>1, SeqAppend DEF Shape
<1> HIDE DEF new
<1>4. \A i \in DOMAIN new : i = Len(ds) + 1 \/ (i \in DOMAIN ds /\ i # Len(ds) + 1 /\ new[i] = ds[i])
  BY <1>2, <1>3
<1>5. Shape(new, npd, ind \cup {t})
  BY <1>1, <1>2, <1>3, <1>4 DEF Shape
<1>6. Bound(new, npd, ind \cup {t})
  <2>1. pd[t] = 0
    BY <1>1 DEF Bound
  <2>2. \A u \in Tokens : npd[u] # 0 => new[npd[u]].tok = u
    <3>1. ASSUME NEW u \in Tokens, u # t, pd[u] # 0
          PROVE  new[pd[u]].tok = u
      <4>1. pd[u] \in 1 .. Len(ds) /\ ds[pd[u]].tok = u
        BY <1>1, <1>2, <3>1 DEF Shape, Bound
      <4>2. QED
        BY <1>3, <4>1
    <3>2. QED
      BY <1>3, <3>1
  <2>3. \A i \in DOMAIN new : new[i].end = NoEnd <=> npd[new[i].tok] = i
    <3>1. ASSUME NEW i \in DOMAIN ds, i # Len(ds) + 1
          PROVE  ds[i].end = NoEnd <=> npd[ds[i].tok] = i
      <4>1. i # 0 /\ ds[i].tok \in Tokens /\ (ds[i].end = NoEnd <=> pd[ds[i].tok] = i)
        BY <1>1, <1>2, <3>1 DEF Shape, Bound
      <4>2. QED
        BY <2>1, <3>1, <4>1
    <3>2. new[Len(ds) + 1].end = NoEnd /\ npd[new[Len(ds) + 1].tok] = Len(ds) + 1
      BY <1>3
    <3>3. QED
      BY <1>4, <3>1, <3>2
  <2>4. \A u \in Tokens : u \in ind \cup {t} <=> npd[u] # 0
    BY <1>1, <1>2 DEF Bound
  <2>5. QED
    BY <2>2, <2>3, <2>4 DEF Bound
<1>7. Rows(new, shadow, faults)
  <2>1. Waits(d, shadow) /\ ~(d.rid > 0)
    BY Codes DEF Waits
  <2>2. \A i \in DOMAIN ds : Waits(ds[i], shadow) /\ (ds[i].rid > 0 => Owns(ds[i], shadow[ds[i].rid], faults))
    BY <1>1 DEF Rows
  <2>3. \A i, j \in DOMAIN new : new[i].rid > 0 /\ new[i].rid = new[j].rid => i = j
    BY <1>1, <1>3, <1>4, <2>1 DEF Rows
  <2>4. QED
    BY <1>3, <1>4, <2>1, <2>2, <2>3 DEF Rows
<1>8. QED
  BY <1>1, <1>5, <1>6, <1>7 DEF Good, new

\* A swap of the stream.
LEMMA EventGood ==
  ASSUME IInv, NEW t \in Tokens, OnEvent(t)
  PROVE  IInv'
<1>1. Shape(dips, pend, inDip)
  BY DEF IInv, Good
<1>2. PICK e \in Swap : OutOfScope(t, e) \/ Duplicate(t, e) \/ Ingest(t, e)
  BY DEF OnEvent
<1>3. CASE OutOfScope(t, e) \/ Duplicate(t, e)
  <2>1. UNCHANGED <<dips, pend, inDip, shadow, faults>>
    BY <1>3 DEF OutOfScope, Duplicate, memory
  <2>2. QED
    BY <2>1 DEF IInv
<1>4. CASE Ingest(t, e)
  <2>1. UNCHANGED <<shadow, faults>>
    BY <1>4 DEF Ingest
  <2>2. \E b, last : Trigger(t, b, e, Gone(t)) \/ Recover(t, b, last, e) \/ StayAsIs(t, b, last, e, Gone(t))
    BY <1>4 DEF Ingest
  <2>3. Gone(t) \in {{}, {Head(touch)}}
    BY DEF Gone
  <2>4. /\ Good(DipsAfterEviction(Gone(t)), [u \in Tokens |-> IF u \in Gone(t) THEN 0 ELSE pend[u]],
                inDip \ Gone(t), shadow, faults)
        /\ Len(DipsAfterEviction(Gone(t))) = Len(dips)
    BY <2>3, EvictGood
  <2>5. ASSUME NEW b, Trigger(t, b, e, Gone(t))
        PROVE  Good(dips', pend', inDip', shadow, faults)
    <3> DEFINE d == NewDip(t, b, e)
               pd == [u \in Tokens |-> IF u \in Gone(t) THEN 0 ELSE pend[u]]
    <3>1. DOMAIN d = DipFields /\ d.tok = t /\ d.rid = Running /\ d.end = NoEnd /\ d.deciding
      BY DEF NewDip, DipFields
    <3>2. pend' = [u \in Tokens |-> IF u = t THEN Len(dips) + 1 ELSE pd[u]]
      BY <2>5 DEF Trigger
    <3>3. dips' = Append(DipsAfterEviction(Gone(t)), d) /\ inDip' = (inDip \ Gone(t)) \cup {t} /\ t \notin inDip \ Gone(t)
      BY <2>5 DEF Trigger
    <3> HIDE DEF d, pd
    <3>4. Good(Append(DipsAfterEviction(Gone(t)), d),
               [u \in Tokens |-> IF u = t THEN Len(DipsAfterEviction(Gone(t))) + 1 ELSE pd[u]],
               (inDip \ Gone(t)) \cup {t}, shadow, faults)
      BY <2>4, <3>1, <3>3, BeginGood DEF pd
    <3>5. QED
      BY <2>4, <3>2, <3>3, <3>4
  <2>6. ASSUME NEW b, NEW last, Recover(t, b, last, e)
        PROVE  Good(dips', pend', inDip', shadow, faults)
    <3>1. pend[t] # 0
      BY <2>6 DEF Recover, IInv, Good, Bound
    <3>2. pend' = [u \in Tokens |-> IF u = t THEN 0 ELSE pend[u]]
      BY <1>1, <2>6 DEF Recover, Shape
    <3>3. dips' = EndDip(dips, t, e.time, EndReason(b, last, e)) /\ inDip' = inDip \ {t}
          /\ EndReason(b, last, e) # "none"
      BY <2>6 DEF Recover
    <3>4. QED
      BY <3>1, <3>2, <3>3, EndGood
  <2>7. ASSUME NEW b, NEW last, StayAsIs(t, b, last, e, Gone(t))
        PROVE  Good(dips', pend', inDip', shadow, faults)
    BY <2>4, <2>7 DEF StayAsIs
  <2>8. QED
    BY <2>1, <2>2, <2>5, <2>6, <2>7 DEF IInv
<1>5. QED
  BY <1>2, <1>3, <1>4
-----------------------------------------------------------------------------
(* The tasks. *)

\* A task changes nothing else of its dip than whether the tasks are done and
\* the row id; the detector's side stays as it is.
LEMMA TaskShape ==
  ASSUME IInv, NEW k \in DOMAIN dips, NEW d, DOMAIN d = DipFields,
         d.tok = dips[k].tok, d.end = dips[k].end
  PROVE  LET ds == [dips EXCEPT ![k] = d] IN
         /\ Shape(ds, pend, inDip) /\ Bound(ds, pend, inDip) /\ DOMAIN ds = DOMAIN dips
         /\ ds[k] = d /\ \A i \in DOMAIN dips \ {k} : ds[i] = dips[i]
<1> DEFINE ds == [dips EXCEPT ![k] = d]
<1>1. Shape(dips, pend, inDip) /\ Bound(dips, pend, inDip)
  BY DEF IInv, Good
<1>2. /\ IsSeq(ds) /\ Len(ds) = Len(dips) /\ DOMAIN ds = DOMAIN dips
      /\ ds[k] = d /\ \A i \in DOMAIN dips \ {k} : ds[i] = dips[i]
  BY <1>1, SeqExcept DEF Shape
<1> HIDE DEF ds
<1>3. \A i \in DOMAIN dips : ds[i].tok = dips[i].tok /\ ds[i].end = dips[i].end
  BY <1>2
<1>4. Shape(ds, pend, inDip)
  BY <1>1, <1>2, <1>3 DEF Shape
<1>5. Bound(ds, pend, inDip)
  <2>1. DOMAIN dips = 1 .. Len(dips) /\ pend \in [Tokens -> 0 .. Len(dips)] /\ Len(dips) \in Nat
    BY <1>1, SeqFacts DEF Shape
  <2>2. \A t \in Tokens : pend[t] # 0 => pend[t] \in DOMAIN dips
    BY <2>1
  <2>3. QED
    BY <1>1, <1>2, <1>3, <2>2 DEF Bound
<1>6. QED
  BY <1>2, <1>4, <1>5 DEF ds

\* The INSERT appends the row of its dip.
LEMMA InsertGood ==
  ASSUME IInv, NEW k \in DOMAIN dips, Insert(k)
  PROVE  IInv'
<1> DEFINE d == [dips[k] EXCEPT !.rid = Len(shadow) + 1]
           r == [tok |-> dips[k].tok, trig |-> dips[k].trig, end |-> NoEnd, decided |-> FALSE]
<1>1. Shape(dips, pend, inDip) /\ RowShape(shadow, faults) /\ Rows(dips, shadow, faults)
  BY DEF IInv, Good
<1>2. /\ dips' = [dips EXCEPT ![k] = d] /\ shadow' = Append(shadow, r) /\ UNCHANGED <<pend, inDip, faults>>
      /\ dips[k].rid = Running
  BY DEF Insert, Stable, memory
<1>3. Len(shadow) \in Nat /\ DOMAIN shadow = 1 .. Len(shadow)
  BY <1>1, SeqFacts DEF RowShape
<1>4. /\ DOMAIN d = DipFields /\ d.tok = dips[k].tok /\ d.end = dips[k].end /\ d.rid = Len(shadow) + 1
      /\ d.trig = dips[k].trig /\ d.deciding = dips[k].deciding /\ d.ending = dips[k].ending
  BY <1>1 DEF Shape, DipFields
<1>5. DOMAIN r = RowFields /\ r.tok = dips[k].tok /\ r.trig = dips[k].trig /\ r.end = NoEnd /\ r.decided = FALSE
  BY DEF RowFields
<1> HIDE DEF d, r
<1>6. /\ Shape(dips', pend, inDip) /\ Bound(dips', pend, inDip) /\ DOMAIN dips' = DOMAIN dips
      /\ dips'[k] = d /\ \A i \in DOMAIN dips \ {k} : dips'[i] = dips[i]
  BY <1>2, <1>4, TaskShape
<1>7. /\ IsSeq(shadow') /\ Len(shadow') = Len(shadow) + 1 /\ DOMAIN shadow' = 1 .. Len(shadow) + 1
      /\ (\A n \in 1 .. Len(shadow) : shadow'[n] = shadow[n]) /\ shadow'[Len(shadow) + 1] = r
  BY <1>1, <1>2, SeqAppend DEF RowShape
<1>8. RowShape(shadow', faults)
  BY <1>1, <1>3, <1>5, <1>7 DEF RowShape
<1>9. ASSUME NEW i \in DOMAIN dips
      PROVE  /\ Waits(dips'[i], shadow') /\ (dips'[i].rid > 0 => Owns(dips'[i], shadow'[dips'[i].rid], faults))
             /\ (i # k => dips'[i].rid = dips[i].rid /\ ~(dips'[i].rid > Len(shadow)))
             /\ dips'[k].rid = Len(shadow) + 1
  <2>1. Waits(dips[i], shadow) /\ (dips[i].rid > 0 => Owns(dips[i], shadow[dips[i].rid], faults))
    BY <1>1 DEF Rows
  <2>2. CASE i # k
    <3>1. dips'[i] = dips[i] /\ dips'[k].rid = Len(shadow) + 1
      BY <1>4, <1>6, <2>2
    <3>2. dips[i].rid \in {Running, Failed} \/ (dips[i].rid \in 1 .. Len(shadow) /\ shadow'[dips[i].rid] = shadow[dips[i].rid])
      BY <1>7, <2>1 DEF Waits
    <3>3. Waits(dips[i], shadow') /\ ~(dips[i].rid > Len(shadow))
      BY <1>3, <1>7, <2>1, Codes DEF Waits
    <3>4. dips[i].rid > 0 => Owns(dips[i], shadow'[dips[i].rid], faults)
      BY <2>1, <3>2, Codes
    <3>5. QED
      BY <2>2, <3>1, <3>3, <3>4
  <2>3. CASE i = k
    <3>1. d.deciding /\ (d.end # NoEnd => d.ending) /\ dips'[i] = d
      BY <1>2, <1>4, <1>6, <2>1, <2>3 DEF Waits
    <3>2. Waits(d, shadow')
      BY <1>3, <1>4, <1>7, <3>1, Codes DEF Waits
    <3>3. d.end = NoEnd => d.end.reason = "none"
      BY DEF NoEnd, MakeEnd
    <3>4. Owns(d, r, faults)
      BY <1>4, <1>5, <3>1, <3>3 DEF Owns
    <3>5. QED
      BY <1>4, <1>7, <2>3, <3>1, <3>2, <3>4
  <2>4. QED
    BY <2>2, <2>3
<1>10. Rows(dips', shadow', faults)
  <2>1. \A i, j \in DOMAIN dips : dips'[i].rid > 0 /\ dips'[i].rid = dips'[j].rid => i = j
    <3>1. ASSUME NEW i \in DOMAIN dips, NEW j \in DOMAIN dips, dips'[i].rid > 0, dips'[i].rid = dips'[j].rid
          PROVE  i = j
      <4>1. CASE i # k /\ j # k
        BY <1>1, <1>9, <3>1, <4>1 DEF Rows
      <4>2. CASE i = k \/ j = k
        BY <1>3, <1>9, <3>1, <4>2
      <4>3. QED
        BY <4>1, <4>2
    <3>2. QED
      BY <3>1
  <2>2. QED
    BY <1>6, <1>9, <2>1 DEF Rows
<1>11. QED
  BY <1>2, <1>6, <1>8, <1>10 DEF IInv, Good

\* A task that leaves the rows alone: it failed, or its dip has no row.
LEMMA IdleGood ==
  ASSUME IInv, NEW k \in DOMAIN dips, NEW d, DOMAIN d = DipFields, NEW n \in Nat, n >= faults,
         d.tok = dips[k].tok, d.trig = dips[k].trig, d.end = dips[k].end, d.rid \in {dips[k].rid, Failed},
         d.rid # Running, d.rid > 0 => n > 0,
         d.rid > 0 => (d.deciding => dips[k].deciding),
         dips' = [dips EXCEPT ![k] = d], UNCHANGED <<shadow, pend, inDip>>, faults' = n
  PROVE  IInv'
<1>1. RowShape(shadow, faults) /\ Rows(dips, shadow, faults) /\ faults \in Nat
  BY DEF IInv, Good, RowShape
<1>2. /\ Shape(dips', pend, inDip) /\ Bound(dips', pend, inDip) /\ DOMAIN dips' = DOMAIN dips
      /\ dips'[k] = d /\ \A i \in DOMAIN dips \ {k} : dips'[i] = dips[i]
  BY TaskShape
<1>3. ASSUME NEW i \in DOMAIN dips
      PROVE  Waits(dips'[i], shadow) /\ (dips'[i].rid > 0 => Owns(dips'[i], shadow[dips'[i].rid], n))
  <2>1. Waits(dips[i], shadow) /\ (dips[i].rid > 0 => Owns(dips[i], shadow[dips[i].rid], faults))
    BY <1>1 DEF Rows
  <2>2. CASE i # k
    BY <1>1, <1>2, <2>1, <2>2 DEF Owns
  <2>3. CASE i = k
    <3>1. Waits(d, shadow)
      BY <2>1, <2>3 DEF Waits
    <3>2. d.rid > 0 => Owns(d, shadow[d.rid], n)
      BY <2>1, <2>3, Codes DEF Owns
    <3>3. QED
      BY <1>2, <2>3, <3>1, <3>2
  <2>4. QED
    BY <2>2, <2>3
<1>4. \A i, j \in DOMAIN dips : dips'[i].rid > 0 /\ dips'[i].rid = dips'[j].rid => i = j
  <2>1. \A i \in DOMAIN dips : dips'[i].rid = dips[i].rid \/ dips'[i].rid = Failed
    BY <1>2
  <2>2. QED
    BY <1>1, <2>1, Codes DEF Rows
<1>5. Rows(dips', shadow, n)
  BY <1>2, <1>3, <1>4 DEF Rows
<1>6. QED
  BY <1>1, <1>2, <1>5 DEF IInv, Good, RowShape

\* A task that writes to the row of its dip.
LEMMA WriteGood ==
  ASSUME IInv, NEW k \in DOMAIN dips, NEW d, DOMAIN d = DipFields,
         d.tok = dips[k].tok, d.trig = dips[k].trig, d.end = dips[k].end, d.rid = dips[k].rid,
         d.rid \notin {Running, Failed}, NEW r, DOMAIN r = RowFields,
         Owns(dips[k], shadow[d.rid], faults) => Owns(d, r, faults),
         dips' = [dips EXCEPT ![k] = d], shadow' = [shadow EXCEPT ![d.rid] = r],
         UNCHANGED <<pend, inDip, faults>>
  PROVE  IInv'
<1>1. RowShape(shadow, faults) /\ Rows(dips, shadow, faults)
  BY DEF IInv, Good
<1>2. /\ Shape(dips', pend, inDip) /\ Bound(dips', pend, inDip) /\ DOMAIN dips' = DOMAIN dips
      /\ dips'[k] = d /\ \A i \in DOMAIN dips \ {k} : dips'[i] = dips[i]
  BY TaskShape
<1>3. Len(shadow) \in Nat /\ DOMAIN shadow = 1 .. Len(shadow)
  BY <1>1, SeqFacts DEF RowShape
<1>4. d.rid \in DOMAIN shadow /\ d.rid > 0 /\ Owns(d, r, faults)
  BY <1>1, <1>3, Codes DEF Rows, Waits
<1>5. /\ IsSeq(shadow') /\ Len(shadow') = Len(shadow) /\ DOMAIN shadow' = DOMAIN shadow
      /\ shadow'[d.rid] = r /\ \A n \in DOMAIN shadow \ {d.rid} : shadow'[n] = shadow[n]
  <2> DEFINE new == [shadow EXCEPT ![d.rid] = r]
  <2>1. IsSeq(shadow)
    BY <1>1 DEF RowShape
  <2>2. /\ IsSeq(new) /\ Len(new) = Len(shadow) /\ DOMAIN new = DOMAIN shadow
        /\ new[d.rid] = r /\ \A n \in DOMAIN shadow \ {d.rid} : new[n] = shadow[n]
    BY <1>4, <2>1, SeqExcept
  <2>3. QED
    BY <2>2
<1>6. RowShape(shadow', faults)
  BY <1>1, <1>5 DEF RowShape
<1>7. ASSUME NEW i \in DOMAIN dips
      PROVE  /\ Waits(dips'[i], shadow') /\ (dips'[i].rid > 0 => Owns(dips'[i], shadow'[dips'[i].rid], faults))
             /\ dips'[i].rid = dips[i].rid
  <2>1. Waits(dips[i], shadow) /\ (dips[i].rid > 0 => Owns(dips[i], shadow[dips[i].rid], faults))
    BY <1>1 DEF Rows
  <2>2. CASE i = k
    <3>1. Waits(d, shadow')
      BY <1>3, <1>4, <1>5 DEF Waits
    <3>2. QED
      BY <1>2, <1>4, <1>5, <2>2, <3>1
  <2>3. CASE i # k
    <3>1. dips'[i] = dips[i] /\ Waits(dips[i], shadow')
      BY <1>2, <1>5, <2>1, <2>3 DEF Waits
    <3>2. dips[i].rid > 0 => dips[i].rid \in DOMAIN shadow \ {d.rid}
      BY <1>1, <1>3, <1>4, <2>1, <2>3, Codes DEF Rows, Waits
    <3>3. QED
      BY <1>5, <2>1, <3>1, <3>2
  <2>4. QED
    BY <2>2, <2>3
<1>8. Rows(dips', shadow', faults)
  <2>1. \A i, j \in DOMAIN dips : dips'[i].rid > 0 /\ dips'[i].rid = dips'[j].rid => i = j
    BY <1>1, <1>7 DEF Rows
  <2>2. QED
    BY <1>2, <1>7, <2>1 DEF Rows
<1>9. QED
  BY <1>2, <1>6, <1>8 DEF IInv, Good

\* Each task keeps the invariant.
LEMMA TaskGood ==
  ASSUME IInv, TaskStep
  PROVE  IInv'
<1>1. Shape(dips, pend, inDip) /\ RowShape(shadow, faults) /\ Rows(dips, shadow, faults)
  BY DEF IInv, Good
<1>2. PICK k \in DOMAIN dips :
        \/ Insert(k) \/ InsertFails(k) \/ WriteEnd(k) \/ WriteEndFails(k) \/ Decide(k) \/ DecideFails(k)
  BY DEF TaskStep
<1>3. DOMAIN dips[k] = DipFields /\ dips[k].rid \in {Running, Failed} \cup 1 .. Len(shadow) /\ faults \in Nat
  BY <1>1 DEF Shape, Rows, Waits, RowShape
<1>4. CASE Insert(k)
  BY <1>4, InsertGood
<1>5. CASE InsertFails(k)
  <2> DEFINE d == [dips[k] EXCEPT !.rid = Failed]
  <2>1. DOMAIN d = DipFields /\ d.tok = dips[k].tok /\ d.trig = dips[k].trig /\ d.end = dips[k].end /\ d.rid = Failed
    BY <1>3 DEF DipFields
  <2>2. /\ dips' = [dips EXCEPT ![k] = d] /\ UNCHANGED <<shadow, pend, inDip>>
        /\ faults' = faults + 1
    BY <1>5 DEF InsertFails, Stable, memory, Fault
  <2> HIDE DEF d
  <2>3. faults + 1 \in Nat /\ faults + 1 >= faults /\ d.rid # Running /\ ~(d.rid > 0) /\ d.rid \in {dips[k].rid, Failed}
    BY <1>3, <2>1, Codes
  <2>4. QED
    BY <2>1, <2>2, <2>3, IdleGood
<1>6. CASE WriteEnd(k) \/ WriteEndFails(k)
  <2> DEFINE d == [dips[k] EXCEPT !.ending = FALSE]
             r == [shadow[d.rid] EXCEPT !.end = dips[k].end]
  <2>1. /\ DOMAIN d = DipFields /\ d.tok = dips[k].tok /\ d.trig = dips[k].trig /\ d.end = dips[k].end
        /\ d.rid = dips[k].rid /\ d.deciding = dips[k].deciding /\ d.ending = FALSE
    BY <1>3 DEF DipFields
  <2>2. dips' = [dips EXCEPT ![k] = d] /\ UNCHANGED <<pend, inDip>> /\ dips[k].rid # Running
    BY <1>6, Codes DEF WriteEnd, WriteEndFails, Stable, memory
  <2>3. \/ shadow' = shadow /\ faults' = faults /\ dips[k].rid = Failed
        \/ shadow' = shadow /\ faults' = faults + 1
        \/ shadow' = [shadow EXCEPT ![d.rid] = r] /\ faults' = faults /\ dips[k].rid # Failed
    BY <1>6, <2>1 DEF WriteEnd, WriteEndFails, RowOf, Fault
  <2>4. dips[k].rid # Failed => DOMAIN r = RowFields /\ (Owns(dips[k], shadow[d.rid], faults) => Owns(d, r, faults))
    <3>1. ASSUME dips[k].rid # Failed
          PROVE  DOMAIN shadow[d.rid] = RowFields
      BY <1>1, <1>3, <2>1, <2>2, <3>1, SeqFacts DEF RowShape
    <3>2. ASSUME dips[k].rid # Failed
          PROVE  /\ DOMAIN r = RowFields /\ r.tok = shadow[d.rid].tok /\ r.trig = shadow[d.rid].trig
                 /\ r.decided = shadow[d.rid].decided /\ r.end = dips[k].end
      BY <3>1, <3>2 DEF RowFields
    <3> HIDE DEF d, r
    <3>3. QED
      BY <2>1, <3>2 DEF Owns
  <2> HIDE DEF d, r
  <2>5. CASE shadow' = shadow /\ faults' = faults /\ dips[k].rid = Failed
    <3>1. faults >= faults /\ ~(d.rid > 0) /\ d.rid # Running /\ d.rid \in {dips[k].rid, Failed}
      BY <1>3, <2>1, <2>5, Codes
    <3>2. UNCHANGED <<shadow, pend, inDip>>
      BY <2>2, <2>5
    <3>3. QED
      BY <1>3, <2>1, <2>2, <2>5, <3>1, <3>2, IdleGood
  <2>6. CASE shadow' = shadow /\ faults' = faults + 1
    <3>1. faults + 1 \in Nat /\ faults + 1 >= faults /\ faults + 1 > 0 /\ d.rid # Running /\ d.rid \in {dips[k].rid, Failed}
      BY <1>3, <2>1, <2>2
    <3>2. UNCHANGED <<shadow, pend, inDip>>
      BY <2>2, <2>6
    <3>3. QED
      BY <2>1, <2>2, <2>6, <3>1, <3>2, IdleGood
  <2>7. CASE shadow' = [shadow EXCEPT ![d.rid] = r] /\ faults' = faults /\ dips[k].rid # Failed
    <3>1. d.rid \notin {Running, Failed} /\ UNCHANGED <<pend, inDip, faults>>
      BY <2>1, <2>2, <2>7
    <3>2. QED
      BY <2>1, <2>2, <2>4, <2>7, <3>1, WriteGood
  <2>8. QED
    BY <2>3, <2>5, <2>6, <2>7
<1>7. CASE Decide(k) \/ DecideFails(k)
  <2> DEFINE d == [dips[k] EXCEPT !.deciding = FALSE]
             r == [shadow[d.rid] EXCEPT !.decided = TRUE]
  <2>1. /\ DOMAIN d = DipFields /\ d.tok = dips[k].tok /\ d.trig = dips[k].trig /\ d.end = dips[k].end
        /\ d.rid = dips[k].rid /\ d.ending = dips[k].ending /\ d.deciding = FALSE
    BY <1>3 DEF DipFields
  <2>2. dips' = [dips EXCEPT ![k] = d] /\ UNCHANGED <<pend, inDip>> /\ dips[k].rid # Running
    BY <1>7, Codes DEF Decide, DecideFails, Stable, memory
  <2>3. \/ shadow' = shadow /\ faults' = faults /\ dips[k].rid = Failed
        \/ shadow' = shadow /\ faults' = faults + 1
        \/ shadow' = [shadow EXCEPT ![d.rid] = r] /\ faults' = faults /\ dips[k].rid # Failed
    BY <1>7, <2>1 DEF Decide, DecideFails, RowOf, Fault
  <2>4. dips[k].rid # Failed => DOMAIN r = RowFields /\ (Owns(dips[k], shadow[d.rid], faults) => Owns(d, r, faults))
    <3>1. ASSUME dips[k].rid # Failed
          PROVE  DOMAIN shadow[d.rid] = RowFields
      BY <1>1, <1>3, <2>1, <2>2, <3>1, SeqFacts DEF RowShape
    <3>2. ASSUME dips[k].rid # Failed
          PROVE  /\ DOMAIN r = RowFields /\ r.tok = shadow[d.rid].tok /\ r.trig = shadow[d.rid].trig
                 /\ r.end = shadow[d.rid].end /\ r.decided = TRUE
      BY <3>1, <3>2 DEF RowFields
    <3> HIDE DEF d, r
    <3>3. QED
      BY <2>1, <3>2 DEF Owns
  <2> HIDE DEF d, r
  <2>5. CASE shadow' = shadow /\ faults' = faults /\ dips[k].rid = Failed
    <3>1. faults >= faults /\ ~(d.rid > 0) /\ d.rid # Running /\ d.rid \in {dips[k].rid, Failed}
      BY <1>3, <2>1, <2>5, Codes
    <3>2. UNCHANGED <<shadow, pend, inDip>>
      BY <2>2, <2>5
    <3>3. QED
      BY <1>3, <2>1, <2>2, <2>5, <3>1, <3>2, IdleGood
  <2>6. CASE shadow' = shadow /\ faults' = faults + 1
    <3>1. faults + 1 \in Nat /\ faults + 1 >= faults /\ faults + 1 > 0 /\ d.rid # Running /\ d.rid \in {dips[k].rid, Failed}
      BY <1>3, <2>1, <2>2
    <3>2. UNCHANGED <<shadow, pend, inDip>>
      BY <2>2, <2>6
    <3>3. QED
      BY <2>1, <2>2, <2>6, <3>1, <3>2, IdleGood
  <2>7. CASE shadow' = [shadow EXCEPT ![d.rid] = r] /\ faults' = faults /\ dips[k].rid # Failed
    <3>1. d.rid \notin {Running, Failed} /\ UNCHANGED <<pend, inDip, faults>>
      BY <2>1, <2>2, <2>7
    <3>2. QED
      BY <2>1, <2>2, <2>4, <2>7, <3>1, WriteGood
  <2>8. QED
    BY <2>3, <2>5, <2>6, <2>7
<1>8. QED
  BY <1>2, <1>4, <1>5, <1>6, <1>7
-----------------------------------------------------------------------------
(* The theorems. *)

\* What the end of the process makes of a dip.
LEMMA LostFacts ==
  ASSUME NEW d, DOMAIN d = DipFields
  PROVE  /\ DOMAIN Lost(d) = DipFields /\ Lost(d).tok = d.tok /\ Lost(d).trig = d.trig
         /\ d.rid = Running => Lost(d).rid = Failed
         /\ d.rid # Running => Lost(d).rid = d.rid
         /\ d.end = NoEnd => Lost(d).end.reason = "lost"
         /\ d.end # NoEnd => Lost(d).end = d.end
         /\ Lost(d).end # NoEnd
         /\ Lost(d).ending = FALSE /\ Lost(d).deciding = FALSE
<1>1. /\ DOMAIN Lost(d) = DipFields /\ Lost(d).tok = d.tok /\ Lost(d).trig = d.trig
      /\ Lost(d).rid = (IF d.rid = Running THEN Failed ELSE d.rid)
      /\ Lost(d).end = (IF d.end = NoEnd THEN MakeEnd(now, "lost") ELSE d.end)
      /\ Lost(d).ending = FALSE /\ Lost(d).deciding = FALSE
  BY DEF Lost, DipFields
<1>2. MakeEnd(now, "lost") # NoEnd /\ MakeEnd(now, "lost").reason = "lost"
  BY DEF MakeEnd, NoEnd
<1>3. QED
  BY <1>1, <1>2

\* A lost dip waits for no INSERT, and what is missing from its row is due to a
\* fault, the end of the process.
LEMMA LostOwns ==
  ASSUME NEW d, DOMAIN d = DipFields, NEW sh, Len(sh) \in Nat, NEW n \in Nat,
         Waits(d, sh), d.rid > 0 => Owns(d, sh[d.rid], n)
  PROVE  /\ Waits(Lost(d), sh)
         /\ Lost(d).rid > 0 => Lost(d).rid = d.rid /\ Owns(Lost(d), sh[d.rid], n + 1)
<1> DEFINE e == Lost(d)
           r == sh[d.rid]
<1>1. /\ e.tok = d.tok /\ e.trig = d.trig
      /\ d.rid = Running => e.rid = Failed
      /\ d.rid # Running => e.rid = d.rid
      /\ d.end = NoEnd => e.end.reason = "lost"
      /\ d.end # NoEnd => e.end = d.end
      /\ e.ending = FALSE /\ e.deciding = FALSE
  BY LostFacts
<1>2. Waits(d, sh) /\ (d.rid > 0 => Owns(d, r, n))
  OBVIOUS
<1> HIDE DEF e, r
<1>3. Waits(e, sh)
  BY <1>1, <1>2, Codes DEF Waits
<1>4. e.rid > 0 => e.rid = d.rid
  BY <1>1, Codes
<1>5. ASSUME e.rid > 0
      PROVE  Owns(e, r, n + 1)
  <2>1. Owns(d, r, n) /\ n + 1 > 0
    BY <1>2, <1>4, <1>5
  <2>2. r.tok = e.tok /\ r.trig = e.trig
    BY <1>1, <2>1 DEF Owns
  <2>3. r.end = NoEnd \/ r.end = e.end
    BY <1>1, <2>1 DEF Owns
  <2>4. QED
    BY <1>1, <2>1, <2>2, <2>3 DEF Owns
<1>6. QED
  BY <1>3, <1>4, <1>5 DEF e, r

\* The end of the process ends every dip, and no token is in one any more.
LEMMA CrashGood ==
  ASSUME IInv, Crash
  PROVE  IInv'
<1> DEFINE ds == [i \in DOMAIN dips |-> Lost(dips[i])]
           pd == [t \in Tokens |-> 0]
<1>1. Shape(dips, pend, inDip) /\ RowShape(shadow, faults) /\ Rows(dips, shadow, faults)
  BY DEF IInv, Good
<1>2. dips' = ds /\ shadow' = shadow /\ faults' = faults + 1 /\ inDip' = {} /\ pend' = pd
  BY DEF Crash, NoMemory, Fault
<1>3. /\ Len(dips) \in Nat /\ DOMAIN dips = 1 .. Len(dips) /\ faults \in Nat
      /\ Len(shadow) \in Nat
  BY <1>1, SeqFacts DEF Shape, RowShape
<1>4. \A i \in DOMAIN dips : DOMAIN dips[i] = DipFields /\ dips[i].tok \in Tokens
  BY <1>1 DEF Shape
<1>5. DOMAIN ds = DOMAIN dips /\ IsSeq(ds) /\ Len(ds) = Len(dips)
  <2>1. DOMAIN ds = 1 .. Len(dips) /\ ds = [i \in 1 .. Len(dips) |-> ds[i]]
    BY <1>3
  <2> HIDE DEF ds
  <2>2. QED
    BY <1>3, <2>1, SeqMade
<1>6. \A i \in DOMAIN dips : ds[i] = Lost(dips[i])
  OBVIOUS
<1>7. /\ DOMAIN pd = Tokens /\ pd \in [Tokens -> 0 .. Len(dips)]
      /\ \A t \in Tokens : pd[t] = 0
  BY <1>3
<1> HIDE DEF ds, pd
<1>8. \A i \in DOMAIN dips : DOMAIN ds[i] = DipFields /\ ds[i].tok \in Tokens /\ ds[i].end # NoEnd
  <2> TAKE i \in DOMAIN dips
  <2>1. ds[i] = Lost(dips[i]) /\ DOMAIN dips[i] = DipFields /\ dips[i].tok \in Tokens
    BY <1>4, <1>6
  <2>2. DOMAIN Lost(dips[i]) = DipFields /\ Lost(dips[i]).tok = dips[i].tok /\ Lost(dips[i]).end # NoEnd
    BY <2>1, LostFacts
  <2>3. QED
    BY <2>1, <2>2
<1>9. Shape(ds, pd, {})
  BY <1>5, <1>7, <1>8 DEF Shape
<1>10. Bound(ds, pd, {})
  BY <1>3, <1>5, <1>7, <1>8 DEF Bound
<1>11. Rows(ds, shadow, faults + 1)
  <2>1. ASSUME NEW i \in DOMAIN dips
        PROVE  /\ Waits(ds[i], shadow)
               /\ ds[i].rid > 0 => ds[i].rid = dips[i].rid /\ Owns(ds[i], shadow[ds[i].rid], faults + 1)
    <3>1. Waits(dips[i], shadow) /\ (dips[i].rid > 0 => Owns(dips[i], shadow[dips[i].rid], faults))
      BY <1>1 DEF Rows
    <3>2. DOMAIN dips[i] = DipFields /\ ds[i] = Lost(dips[i])
      BY <1>4, <1>6
    <3>3. /\ Waits(Lost(dips[i]), shadow)
          /\ Lost(dips[i]).rid > 0 => /\ Lost(dips[i]).rid = dips[i].rid
                                      /\ Owns(Lost(dips[i]), shadow[dips[i].rid], faults + 1)
      BY <1>3, <3>1, <3>2, LostOwns
    <3>4. QED
      BY <3>2, <3>3
  <2>2. \A i \in DOMAIN dips : ds[i].rid > 0 => ds[i].rid = dips[i].rid
    BY <2>1
  <2>3. \A i, j \in DOMAIN dips : ds[i].rid > 0 /\ ds[i].rid = ds[j].rid => i = j
    BY <1>1, <2>2 DEF Rows
  <2>4. QED
    BY <1>5, <2>1, <2>3 DEF Rows
<1>12. RowShape(shadow, faults + 1)
  BY <1>1 DEF RowShape
<1>13. QED
  BY <1>2, <1>9, <1>10, <1>11, <1>12 DEF IInv, Good

\* The invariant holds at the start.
LEMMA IInvInit == Init => IInv
<1> SUFFICES ASSUME Init PROVE IInv
  OBVIOUS
<1>1. IsSeq(<<>>) /\ Len(<<>>) = 0 /\ DOMAIN <<>> = {}
  <2>1. <<>> \in Seq({}) /\ Len(<<>>) = 0 /\ DOMAIN <<>> = {}
    OBVIOUS
  <2>2. QED
    BY <2>1, SeqOver
<1>2. Shape(dips, pend, inDip)
  BY <1>1 DEF Init, Shape
<1>3. RowShape(shadow, faults)
  BY <1>1 DEF Init, RowShape
<1>4. Bound(dips, pend, inDip) /\ Rows(dips, shadow, faults)
  BY <1>1 DEF Init, Bound, Rows
<1>5. QED
  BY <1>2, <1>3, <1>4 DEF IInv, Good

\* And always.
LEMMA IInvAlways == Spec => []IInv
<1>1. ASSUME IInv, [Next]_vars
      PROVE  IInv'
  <2>1. CASE Startup \/ RefreshScope \/ Tick \/ UNCHANGED vars
    <3>1. UNCHANGED <<dips, pend, inDip, shadow, faults>>
      BY <2>1 DEF Startup, RefreshScope, Tick, vars, memory
    <3>2. QED
      BY <1>1, <3>1 DEF IInv
  <2>2. QED
    BY <1>1, <2>1, EventGood, TaskGood, CrashGood DEF Next
<1>2. QED
  BY <1>1, IInvInit, PTL DEF Spec

\* A dip is open exactly as long as its token is in it, whatever evictions the
\* cap forces, whenever its tasks run and after every crash: no second dip is
\* bound to a token, and none is left open for good.
THEOREM FastDipOneOpenDip == Spec => []OneOpenDip
<1>1. IInv => OneOpenDip
  BY DEF IInv, Good, Bound, OneOpenDip
<1>2. QED
  BY <1>1, IInvAlways, PTL

\* The INSERT, the UPDATE and the decision of a dip write to its row and to no
\* other, in whatever order the tasks of back-to-back dips run, and what they
\* leave undone is due to a fault: an INSERT gives each dip a row of its own, and
\* the other two wait for it.
THEOREM FastDipRowsOwnTheirDips == Spec => []RowsOwnTheirDips
<1>1. IInv => RowsOwnTheirDips
  BY DEF IInv, Good, Rows, Owns, RowsOwnTheirDips
<1>2. QED
  BY <1>1, IInvAlways, PTL

-----------------------------------------------------------------------------
(* Windows and the order of touches. *)

\* A set of naturals with a member has a least one.
LEMMA Least ==
  ASSUME NEW T \in SUBSET Nat, T # {}
  PROVE  \E x \in T : \A y \in T : x <= y
<1> DEFINE Less == {p \in Nat \X Nat : p[1] < p[2]}
<1>1. IsWellFoundedOn(Less, Nat)
  BY NatLessThanWellFounded DEF OpToRel
<1> HIDE DEF Less
<1>2. PICK x \in T : \A y \in T : ~ (<<y, x>> \in Less)
  BY <1>1, WFMin
<1>3. \A y \in T : ~ (y < x)
  BY <1>2 DEF Less
<1>4. QED
  BY <1>3

\* Different values at n places are n values.
LEMMA Counted ==
  ASSUME NEW n \in Nat, NEW f, \A i, j \in 1 .. n : f[i] = f[j] => i = j
  PROVE  IsFiniteSet({f[i] : i \in 1 .. n}) /\ Cardinality({f[i] : i \in 1 .. n}) = n
<1> DEFINE T == {f[i] : i \in 1 .. n}
           g == [i \in 1 .. n |-> f[i]]
<1>1. IsFiniteSet(1 .. n) /\ Cardinality(1 .. n) = n
  <2>1. 1 \in Int /\ n \in Int /\ (IF 1 > n THEN 0 ELSE n - 1 + 1) = n
    OBVIOUS
  <2>2. QED
    BY <2>1, FS_Interval
<1>2. g \in Bijection(1 .. n, T)
  BY DEF Bijection, Injection, Surjection, IsInjective
<1> HIDE DEF T, g
<1>3. ExistsBijection(1 .. n, T)
  BY <1>2 DEF ExistsBijection
<1>4. QED
  BY <1>1, <1>3, FS_Bijection DEF T

\* Of n naturals there is a first one that none exceeds.
LEMMA MaxAt ==
  ASSUME NEW n \in Nat \ {0}, NEW f, \A i \in 1 .. n : f[i] \in Nat
  PROVE  \E i \in 1 .. n : /\ \A j \in 1 .. n : f[j] <= f[i]
                           /\ \A j \in 1 .. i - 1 : f[j] < f[i]
<1> DEFINE Top(m, i) == \A j \in 1 .. m : f[j] <= f[i]
           Bad == {m \in 1 .. n : ~ \E i \in 1 .. m : Top(m, i)}
<1>1. Bad = {}
  <2>1. SUFFICES ASSUME Bad # {} PROVE FALSE
    OBVIOUS
  <2>2. PICK m \in Bad : \A k \in Bad : m <= k
    <3>1. Bad \in SUBSET Nat
      OBVIOUS
    <3> HIDE DEF Bad
    <3>2. QED
      BY <2>1, <3>1, Least
  <2>3. m # 1
    BY <2>2
  <2>4. m - 1 \in 1 .. n /\ m - 1 \notin Bad
    <3>1. m \in 1 .. n /\ m - 1 \in 1 .. n /\ ~ (m <= m - 1)
      BY <2>2, <2>3
    <3> HIDE DEF Bad
    <3>2. QED
      BY <2>2, <3>1
  <2>5. PICK i \in 1 .. m - 1 : Top(m - 1, i)
    BY <2>4
  <2>6. f[i] \in Nat /\ f[m] \in Nat /\ \A j \in 1 .. m : j = m \/ j \in 1 .. m - 1
    BY <2>2, <2>4, <2>5
  <2>7. CASE f[m] <= f[i]
    <3>1. Top(m, i) /\ i \in 1 .. m
      BY <2>2, <2>5, <2>6, <2>7
    <3>2. QED
      BY <2>2, <3>1
  <2>8. CASE f[i] < f[m]
    <3>1. Top(m, m) /\ m \in 1 .. m
      BY <2>2, <2>4, <2>5, <2>6, <2>8
    <3>2. QED
      BY <2>2, <3>1
  <2>9. QED
    BY <2>6, <2>7, <2>8
<1>2. n \in 1 .. n
  OBVIOUS
<1> DEFINE Tops == {i \in 1 .. n : Top(n, i)}
<1>3. Tops # {} /\ Tops \in SUBSET Nat
  BY <1>1, <1>2
<1>4. PICK i \in Tops : \A j \in Tops : i <= j
  BY <1>3, Least
<1>5. ASSUME NEW j \in 1 .. i - 1 PROVE f[j] < f[i]
  <2>1. j \in 1 .. n /\ j \notin Tops /\ f[j] \in Nat /\ f[i] \in Nat
    BY <1>4
  <2>2. PICK k \in 1 .. n : ~ (f[k] <= f[j])
    BY <2>1
  <2>3. f[k] <= f[i] /\ f[k] \in Nat
    BY <1>4, <2>2
  <2>4. QED
    BY <2>1, <2>2, <2>3
<1>6. QED
  BY <1>4, <1>5

\* What pops from the left leave of a window whose newest swap is in time.
LEMMA LiveIs ==
  ASSUME NEW b \in Seq(Swap), b # <<>>, NEW cutoff \in Int, b[Len(b)].time >= cutoff
  PROVE  \E k \in DOMAIN b :
           /\ Live(b, cutoff) = SubSeq(b, k, Len(b))
           /\ b[k].time >= cutoff /\ \A j \in 1 .. k - 1 : b[j].time < cutoff
<1>1. Len(b) \in Nat \ {0} /\ DOMAIN b = 1 .. Len(b) /\ \A i \in DOMAIN b : b[i].time \in Nat
  <2>1. Len(b) \in Nat \ {0} /\ DOMAIN b = 1 .. Len(b) /\ \A i \in DOMAIN b : b[i] \in Swap
    BY EmptySeq
  <2>2. \A e \in Swap : e.time \in Nat
    BY ConstantsAssumption DEF Swap, Time
  <2>3. QED
    BY <2>1, <2>2
<1> DEFINE In == {i \in DOMAIN b : b[i].time >= cutoff}
<1>2. Len(b) \in In /\ In \in SUBSET Nat
  BY <1>1
<1>3. PICK k \in In : \A j \in In : k <= j
  BY <1>2, Least
<1> DEFINE First(i) == b[i].time >= cutoff /\ \A j \in 1 .. i - 1 : b[j].time < cutoff
<1>4. \A j \in 1 .. k - 1 : b[j].time < cutoff
  BY <1>1, <1>3
<1>5. k \in DOMAIN b /\ First(k)
  BY <1>3, <1>4
<1> DEFINE first == CHOOSE i \in DOMAIN b : First(i)
<1>6. first \in DOMAIN b /\ First(first)
  BY <1>5
<1>7. Live(b, cutoff) = SubSeq(b, first, Len(b))
  BY DEF Live
<1> HIDE DEF first
<1>8. QED
  BY <1>6, <1>7

\* A window: swaps, at least one, none twice.
Window(b) ==
  /\ b \in Seq(Swap) /\ b # <<>>
  /\ \A i, j \in DOMAIN b : Sig(b[i]) = Sig(b[j]) => i = j

\* Appending a new swap and popping from the left keeps a window one, and the
\* signatures kept are those of what is left.
LEMMA WindowKept ==
  ASSUME NEW old, old = <<>> \/ Window(old), NEW e \in Swap, Sig(e) \notin SigsOf(old)
  PROVE  LET b == Live(Append(old, e), e.time - RollingWindow) IN
         Window(b) /\ SigsAfter(old, b, e) = SigsOf(b)
<1> DEFINE all == Append(old, e)
           cutoff == e.time - RollingWindow
           b == Live(all, cutoff)
<1>1. old \in Seq(Swap) /\ \A i, j \in DOMAIN old : Sig(old[i]) = Sig(old[j]) => i = j
  <2>1. <<>> \in Seq(Swap) /\ DOMAIN <<>> = {}
    BY EmptySeq
  <2>2. CASE old = <<>>
    BY <2>1, <2>2
  <2>3. CASE Window(old)
    BY <2>3 DEF Window
  <2>4. QED
    BY <2>2, <2>3
<1>2. /\ all \in Seq(Swap) /\ Len(old) \in Nat /\ Len(all) = Len(old) + 1
      /\ DOMAIN old = 1 .. Len(old) /\ DOMAIN all = 1 .. Len(old) + 1
      /\ all[Len(old) + 1] = e /\ \A i \in DOMAIN old : all[i] = old[i]
  BY <1>1
<1>3. cutoff \in Int /\ e.time >= cutoff
  BY ConstantsAssumption DEF Swap, Time
<1>4. all # <<>>
  BY <1>2
<1> HIDE DEF all, cutoff
<1>5. PICK k \in DOMAIN all : b = SubSeq(all, k, Len(all))
  BY <1>2, <1>3, <1>4, LiveIs
<1>6. \A i, j \in DOMAIN all : Sig(all[i]) = Sig(all[j]) => i = j
  BY <1>1, <1>2 DEF SigsOf
<1> HIDE DEF b
<1>7. /\ b \in Seq(Swap) /\ Len(b) = Len(all) - k + 1 /\ k \in 1 .. Len(all) /\ Len(all) \in Nat
      /\ DOMAIN b = 1 .. Len(all) - k + 1
      /\ \A i \in 1 .. Len(all) - k + 1 : b[i] = all[k + i - 1]
  <2>1. k \in Int /\ Len(all) \in Int /\ k <= Len(all) /\ \A i \in k .. Len(all) : all[i] \in Swap
    BY <1>2
  <2>2. /\ b \in Seq(Swap) /\ Len(b) = Len(all) - k + 1
        /\ \A i \in 1 .. Len(all) - k + 1 : b[i] = all[k + i - 1]
    BY <1>5, <2>1, SubSeqProperties
  <2>3. QED
    BY <1>2, <2>1, <2>2
<1>8. b # <<>>
  BY <1>7
<1>9. Window(b)
  <2>1. \A i \in DOMAIN b : b[i] = all[k + i - 1] /\ k + i - 1 \in DOMAIN all /\ i \in Int
    BY <1>2, <1>7
  <2>2. ASSUME NEW i \in DOMAIN b, NEW j \in DOMAIN b, Sig(b[i]) = Sig(b[j])
        PROVE  i = j
    <3>1. k + i - 1 = k + j - 1
      BY <1>6, <2>1, <2>2
    <3>2. QED
      BY <1>7, <2>1, <3>1
  <2>3. QED
    BY <1>7, <1>8, <2>2 DEF Window
<1>10. SigsAfter(old, b, e) = SigsOf(b)
  <2> DEFINE popped == {all[i] : i \in 1 .. Len(all) - Len(b)}
  <2>1. SigsAfter(old, b, e) = (SigsOf(old) \cup {Sig(e)}) \ {Sig(x) : x \in popped}
    BY DEF SigsAfter, all
  <2>2. SigsOf(old) \cup {Sig(e)} = {Sig(all[i]) : i \in DOMAIN all}
    BY <1>2 DEF SigsOf
  <2>3. {Sig(x) : x \in popped} = {Sig(all[i]) : i \in 1 .. k - 1}
    BY <1>7
  <2>4. SigsOf(b) = {Sig(all[i]) : i \in k .. Len(all)}
    <3>1. \A i \in k .. Len(all) : i - k + 1 \in DOMAIN b /\ all[i] = b[i - k + 1]
      BY <1>7
    <3>2. \A i \in DOMAIN b : k + i - 1 \in k .. Len(all) /\ b[i] = all[k + i - 1]
      BY <1>7
    <3>3. ASSUME NEW x \in SigsOf(b) PROVE x \in {Sig(all[i]) : i \in k .. Len(all)}
      <4>1. PICK i \in DOMAIN b : x = Sig(b[i])
        BY <3>3 DEF SigsOf
      <4>2. x = Sig(all[k + i - 1])
        BY <3>2, <4>1
      <4>3. QED
        BY <3>2, <4>2
    <3>4. ASSUME NEW i \in k .. Len(all) PROVE Sig(all[i]) \in SigsOf(b)
      BY <3>1 DEF SigsOf
    <3>5. QED
      BY <3>3, <3>4
  <2>5. \A i \in DOMAIN all : i \in k .. Len(all) <=> i \notin 1 .. k - 1
    BY <1>2, <1>7
  <2>6. 1 .. k - 1 \subseteq DOMAIN all /\ k .. Len(all) \subseteq DOMAIN all
    BY <1>2, <1>7
  <2> DEFINE keys == {Sig(all[i]) : i \in DOMAIN all}
             gone == {Sig(all[i]) : i \in 1 .. k - 1}
             left == {Sig(all[i]) : i \in k .. Len(all)}
  <2>7. left = keys \ gone
    <3>1. ASSUME NEW i \in k .. Len(all) PROVE Sig(all[i]) \in keys \ gone
      BY <1>6, <2>5, <2>6
    <3>2. ASSUME NEW x \in keys \ gone PROVE x \in left
      <4>1. PICK i \in DOMAIN all : x = Sig(all[i])
        BY <3>2
      <4>2. i \notin 1 .. k - 1
        BY <3>2, <4>1
      <4>3. QED
        BY <2>5, <4>1, <4>2
    <3>3. QED
      BY <3>1, <3>2
  <2> HIDE DEF popped, keys, gone, left
  <2>8. QED
    BY <2>1, <2>2, <2>3, <2>4, <2>7 DEF keys, gone, left
<1>11. QED
  BY <1>9, <1>10 DEF b, all, cutoff

\* The order of touches: no token twice, no more than the cap, none while the
\* process is down; the windows are of the same tokens.
Distinct(s) == s \in Seq(Tokens) /\ \A i, j \in DOMAIN s : s[i] = s[j] => i = j
TouchOK ==
  /\ Distinct(touch) /\ Len(touch) <= TokenCap /\ (~up => touch = <<>>)
  /\ DOMAIN buf = ToSet(touch) /\ DOMAIN sigs = ToSet(touch)

\* An order has as many tokens as places.
LEMMA DistinctCounts ==
  ASSUME NEW s, Distinct(s)
  PROVE  IsFiniteSet(ToSet(s)) /\ Cardinality(ToSet(s)) = Len(s)
<1>1. Len(s) \in Nat /\ DOMAIN s = 1 .. Len(s) /\ \A i, j \in 1 .. Len(s) : s[i] = s[j] => i = j
  BY DEF Distinct
<1>2. IsFiniteSet({s[i] : i \in 1 .. Len(s)}) /\ Cardinality({s[i] : i \in 1 .. Len(s)}) = Len(s)
  <2> DEFINE n == Len(s)
  <2>1. n \in Nat /\ \A i, j \in 1 .. n : s[i] = s[j] => i = j
    BY <1>1
  <2> HIDE DEF n
  <2>2. IsFiniteSet({s[i] : i \in 1 .. n}) /\ Cardinality({s[i] : i \in 1 .. n}) = n
    BY <2>1, Counted
  <2>3. QED
    BY <2>2 DEF n
<1>3. QED
  BY <1>1, <1>2 DEF ToSet

\* A new token at its end.
LEMMA DistinctAppend ==
  ASSUME NEW s, Distinct(s), NEW t \in Tokens, t \notin ToSet(s)
  PROVE  /\ Distinct(Append(s, t)) /\ Len(Append(s, t)) = Len(s) + 1
         /\ ToSet(Append(s, t)) = ToSet(s) \cup {t}
<1> DEFINE new == Append(s, t)
<1>1. /\ new \in Seq(Tokens) /\ Len(s) \in Nat /\ Len(new) = Len(s) + 1
      /\ DOMAIN s = 1 .. Len(s) /\ DOMAIN new = 1 .. Len(s) + 1
      /\ new[Len(s) + 1] = t /\ \A i \in DOMAIN s : new[i] = s[i]
  BY DEF Distinct
<1> HIDE DEF new
<1>2. \A i \in DOMAIN new : i \in DOMAIN s \/ i = Len(s) + 1
  BY <1>1
<1>3. \A i \in DOMAIN s : s[i] # t
  BY DEF ToSet
<1>4. Distinct(new)
  BY <1>1, <1>2, <1>3 DEF Distinct
<1>5. ToSet(new) = ToSet(s) \cup {t}
  <2>1. \A i \in DOMAIN new : new[i] \in ToSet(s) \cup {t}
    BY <1>1, <1>2 DEF ToSet
  <2>2. t \in ToSet(new) /\ \A i \in DOMAIN s : s[i] \in ToSet(new)
    BY <1>1 DEF ToSet
  <2>3. QED
    BY <2>1, <2>2 DEF ToSet
<1>6. QED
  BY <1>1, <1>4, <1>5 DEF new

\* A token leaves its place.
LEMMA DistinctRemove ==
  ASSUME NEW s, Distinct(s), NEW k \in DOMAIN s
  PROVE  /\ Distinct(RemoveAt(s, k)) /\ Len(RemoveAt(s, k)) = Len(s) - 1
         /\ ToSet(RemoveAt(s, k)) = ToSet(s) \ {s[k]}
<1> DEFINE new == RemoveAt(s, k)
           lo == SubSeq(s, 1, k - 1)
           hi == SubSeq(s, k + 1, Len(s))
<1>1. s \in Seq(Tokens) /\ Len(s) \in Nat /\ DOMAIN s = 1 .. Len(s) /\ k \in 1 .. Len(s)
  BY DEF Distinct
<1>2. lo \in Seq(Tokens) /\ Len(lo) = k - 1 /\ \A i \in 1 .. k - 1 : lo[i] = s[i]
  <2>1. 1 \in Int /\ k - 1 \in Int /\ \A i \in 1 .. k - 1 : s[i] \in Tokens
    BY <1>1
  <2>2. /\ lo \in Seq(Tokens) /\ Len(lo) = (IF 1 <= k - 1 THEN k - 1 - 1 + 1 ELSE 0)
        /\ \A i \in 1 .. k - 1 - 1 + 1 : lo[i] = s[1 + i - 1]
    BY <2>1, SubSeqProperties
  <2>3. QED
    BY <1>1, <2>2
<1>3. /\ hi \in Seq(Tokens) /\ Len(hi) = Len(s) - k
      /\ \A i \in 1 .. Len(s) - k : hi[i] = s[k + i]
  <2>1. k + 1 \in Int /\ Len(s) \in Int /\ \A i \in k + 1 .. Len(s) : s[i] \in Tokens
    BY <1>1
  <2>2. /\ hi \in Seq(Tokens) /\ Len(hi) = (IF k + 1 <= Len(s) THEN Len(s) - (k + 1) + 1 ELSE 0)
        /\ \A i \in 1 .. Len(s) - (k + 1) + 1 : hi[i] = s[k + 1 + i - 1]
    BY <2>1, SubSeqProperties
  <2>3. QED
    BY <1>1, <2>2
<1>4. new = lo \o hi
  BY DEF RemoveAt
<1> HIDE DEF new, lo, hi
<1>5. /\ new \in Seq(Tokens) /\ Len(new) = Len(s) - 1 /\ DOMAIN new = 1 .. Len(s) - 1
      /\ \A i \in 1 .. Len(s) - 1 : new[i] = IF i < k THEN s[i] ELSE s[i + 1]
  <2>1. /\ lo \o hi \in Seq(Tokens) /\ Len(lo \o hi) = Len(lo) + Len(hi)
        /\ \A i \in 1 .. Len(lo) + Len(hi) :
             (lo \o hi)[i] = IF i <= Len(lo) THEN lo[i] ELSE hi[i - Len(lo)]
    BY <1>2, <1>3, ConcatProperties
  <2>2. new \in Seq(Tokens) /\ Len(new) = Len(s) - 1 /\ DOMAIN new = 1 .. Len(s) - 1
    <3>1. new \in Seq(Tokens) /\ Len(new) = Len(lo) + Len(hi)
      BY <1>4, <2>1
    <3>2. Len(lo) + Len(hi) = Len(s) - 1
      BY <1>1, <1>2, <1>3
    <3>3. DOMAIN new = 1 .. Len(new)
      BY <3>1
    <3>4. QED
      BY <3>1, <3>2, <3>3
  <2>3. ASSUME NEW i \in 1 .. Len(s) - 1
        PROVE  new[i] = IF i < k THEN s[i] ELSE s[i + 1]
    <3>1. new[i] = IF i <= k - 1 THEN lo[i] ELSE hi[i - (k - 1)]
      BY <1>1, <1>2, <1>3, <1>4, <2>1
    <3>2. CASE i < k
      BY <1>1, <1>2, <3>1, <3>2
    <3>3. CASE ~ (i < k)
      <4>1. i - (k - 1) \in 1 .. Len(s) - k /\ ~ (i <= k - 1) /\ k + (i - (k - 1)) = i + 1
        BY <1>1, <3>3
      <4>2. QED
        BY <1>3, <3>1, <3>3, <4>1
    <3>4. QED
      BY <3>2, <3>3
  <2>4. QED
    BY <2>2, <2>3
<1> DEFINE at(i) == IF i < k THEN i ELSE i + 1
<1>6. \A i \in DOMAIN new : at(i) \in DOMAIN s /\ at(i) # k /\ new[i] = s[at(i)]
  BY <1>1, <1>5
<1>7. \A i, j \in DOMAIN new : at(i) = at(j) => i = j
  BY <1>1, <1>5
<1>8. \A j \in DOMAIN s : j # k => \E i \in DOMAIN new : new[i] = s[j]
  <2> TAKE j \in DOMAIN s
  <2>1. CASE j < k
    BY <1>1, <1>5, <2>1
  <2>2. CASE j > k
    <3>1. j - 1 \in DOMAIN new /\ ~ (j - 1 < k) /\ j - 1 + 1 = j
      BY <1>1, <1>5, <2>2
    <3>2. QED
      BY <1>5, <3>1
  <2>3. QED
    BY <1>1, <2>1, <2>2
<1> HIDE DEF at
<1>9. Distinct(new)
  BY <1>5, <1>6, <1>7 DEF Distinct
<1>10. ToSet(new) = ToSet(s) \ {s[k]}
  <2>1. \A i \in DOMAIN new : new[i] \in ToSet(s) \ {s[k]}
    BY <1>6 DEF ToSet, Distinct
  <2>2. ASSUME NEW x \in ToSet(s) \ {s[k]} PROVE x \in ToSet(new)
    <3>1. PICK j \in DOMAIN s : x = s[j] /\ j # k
      BY <2>2 DEF ToSet
    <3>2. QED
      BY <1>8, <3>1 DEF ToSet
  <2>3. QED
    BY <2>1, <2>2 DEF ToSet
<1>11. QED
  BY <1>5, <1>9, <1>10 DEF new

\* A touch: the token is in the order, no more than the cap are, and only the
\* evicted one went.
LEMMA TouchedFacts ==
  ASSUME TouchOK, NEW t \in Tokens
  PROVE  /\ Distinct(Touched(t, Gone(t))) /\ Len(Touched(t, Gone(t))) <= TokenCap
         /\ ToSet(Touched(t, Gone(t))) = (DOMAIN buf \ Gone(t)) \cup {t}
         /\ Gone(t) \subseteq DOMAIN buf /\ t \notin Gone(t)
         /\ t \in DOMAIN buf => Gone(t) = {}
<1> DEFINE out == {i \in DOMAIN touch : touch[i] \in Gone(t) \cup {t}}
<1>1. /\ Distinct(touch) /\ Len(touch) \in Nat /\ Len(touch) <= TokenCap /\ TokenCap \in Nat \ {0}
      /\ DOMAIN touch = 1 .. Len(touch)
      /\ Cardinality(DOMAIN buf) = Len(touch) /\ DOMAIN buf = ToSet(touch)
  BY DistinctCounts, ConstantsAssumption DEF TouchOK, Distinct
<1>2. Touched(t, Gone(t)) = Append(IF out = {} THEN touch ELSE RemoveAt(touch, CHOOSE i \in out : TRUE), t)
  BY DEF Touched
<1>3. CASE t \in DOMAIN buf
  <2>1. Gone(t) = {}
    BY <1>3 DEF Gone
  <2>2. PICK k \in DOMAIN touch : touch[k] = t
    BY <1>1, <1>3 DEF ToSet
  <2>3. out = {k}
    BY <1>1, <2>1, <2>2 DEF Distinct
  <2>4. Touched(t, Gone(t)) = Append(RemoveAt(touch, k), t)
    BY <1>2, <2>3
  <2> HIDE DEF out
  <2>5. /\ Distinct(RemoveAt(touch, k)) /\ Len(RemoveAt(touch, k)) = Len(touch) - 1
        /\ ToSet(RemoveAt(touch, k)) = ToSet(touch) \ {t}
    BY <1>1, <2>2, DistinctRemove
  <2>6. /\ Distinct(Append(RemoveAt(touch, k), t)) /\ Len(Append(RemoveAt(touch, k), t)) = Len(touch) - 1 + 1
        /\ ToSet(Append(RemoveAt(touch, k), t)) = (ToSet(touch) \ {t}) \cup {t}
    BY <2>5, DistinctAppend
  <2>7. ToSet(Touched(t, Gone(t))) = (DOMAIN buf \ Gone(t)) \cup {t}
    BY <1>1, <1>3, <2>1, <2>4, <2>6
  <2>8. Len(Touched(t, Gone(t))) <= TokenCap
    BY <1>1, <2>4, <2>6
  <2>9. QED
    BY <2>1, <2>4, <2>6, <2>7, <2>8
<1>4. CASE t \notin DOMAIN buf /\ Len(touch) < TokenCap
  <2>1. Gone(t) = {}
    BY <1>1, <1>4 DEF Gone
  <2>2. out = {}
    BY <1>1, <1>4, <2>1 DEF ToSet
  <2>3. Touched(t, Gone(t)) = Append(touch, t)
    BY <1>2, <2>2
  <2> HIDE DEF out
  <2>4. /\ Distinct(Append(touch, t)) /\ Len(Append(touch, t)) = Len(touch) + 1
        /\ ToSet(Append(touch, t)) = ToSet(touch) \cup {t}
    BY <1>1, <1>4, DistinctAppend
  <2>5. ToSet(Touched(t, Gone(t))) = (DOMAIN buf \ Gone(t)) \cup {t}
    BY <1>1, <2>1, <2>3, <2>4
  <2>6. Len(Touched(t, Gone(t))) <= TokenCap
    BY <1>1, <1>4, <2>3, <2>4
  <2>7. QED
    BY <1>4, <2>1, <2>3, <2>4, <2>5, <2>6
<1>5. CASE t \notin DOMAIN buf /\ ~ (Len(touch) < TokenCap)
  <2>1. Gone(t) = {touch[1]} /\ 1 \in DOMAIN touch
    <3>1. Len(touch) >= TokenCap /\ 1 \in DOMAIN touch
      BY <1>1, <1>5
    <3>2. Head(touch) = touch[1]
      BY <1>1 DEF Distinct
    <3>3. QED
      BY <1>1, <1>5, <3>1, <3>2 DEF Gone
  <2>2. out = {1}
    BY <1>1, <1>5, <2>1 DEF ToSet, Distinct
  <2>3. Touched(t, Gone(t)) = Append(RemoveAt(touch, 1), t)
    BY <1>2, <2>2
  <2> HIDE DEF out
  <2>4. /\ Distinct(RemoveAt(touch, 1)) /\ Len(RemoveAt(touch, 1)) = Len(touch) - 1
        /\ ToSet(RemoveAt(touch, 1)) = ToSet(touch) \ {touch[1]}
    BY <1>1, <2>1, DistinctRemove
  <2>5. /\ Distinct(Append(RemoveAt(touch, 1), t)) /\ Len(Append(RemoveAt(touch, 1), t)) = Len(touch) - 1 + 1
        /\ ToSet(Append(RemoveAt(touch, 1), t)) = (ToSet(touch) \ {touch[1]}) \cup {t}
    BY <1>1, <1>5, <2>4, DistinctAppend
  <2>6. touch[1] \in DOMAIN buf /\ t # touch[1]
    BY <1>1, <1>5, <2>1 DEF ToSet
  <2>7. ToSet(Touched(t, Gone(t))) = (DOMAIN buf \ Gone(t)) \cup {t}
    BY <1>1, <2>1, <2>3, <2>5
  <2>8. Len(Touched(t, Gone(t))) <= TokenCap
    BY <1>1, <2>3, <2>5
  <2>9. QED
    BY <1>5, <2>1, <2>3, <2>5, <2>6, <2>7, <2>8
<1>6. QED
  BY <1>3, <1>4, <1>5

\* What the table has of a token's swaps: finitely many, none twice, and of no
\* more than a window.
FeeSet(f) ==
  /\ f \in SUBSET Swap /\ IsFiniteSet(f) /\ \A x, y \in f : Sig(x) = Sig(y) => x = y
  /\ \A x, y \in f : x.time >= y.time - RollingWindow

\* Each window has the signatures that are kept for it.
WindowsOK == \A t \in DOMAIN buf : Window(buf[t]) /\ sigs[t] = SigsOf(buf[t])

FeesOK == now \in Time /\ fees \in [Tokens -> SUBSET Swap] /\ \A t \in Tokens : FeeSet(fees[t])

WinInv == TouchOK /\ WindowsOK /\ FeesOK

\* A part of them is such a set, too.
LEMMA FeePart ==
  ASSUME NEW f, FeeSet(f), NEW g \in SUBSET f
  PROVE  FeeSet(g)
BY FS_Subset DEF FeeSet

\* A swap that is recorded.
LEMMA RecordFacts ==
  ASSUME FeesOK, NEW t \in Tokens, NEW e \in Swap, Record(t, e)
  PROVE  /\ fees' \in [Tokens -> SUBSET Swap] /\ \A u \in Tokens : FeeSet(fees'[u])
         /\ \A u \in Tokens \ {t} : fees'[u] = fees[u]
         /\ fees'[t] \subseteq fees[t] \cup {e}
         /\ \A x \in fees[t] : x.time >= e.time - RollingWindow => x \in fees'[t]
         /\ (\E x \in fees[t] : Sig(x) = Sig(e)) => fees'[t] = fees[t]
         /\ (\A x \in fees[t] : Sig(x) # Sig(e)) /\ ~Late(t, e) =>
              fees'[t] = {x \in fees[t] \cup {e} : x.time >= e.time - RollingWindow}
<1> DEFINE all == IF \E x \in fees[t] : Sig(x) = Sig(e) THEN fees[t] ELSE fees[t] \cup {e}
           part == {x \in all : \A y \in all : x.time >= y.time - RollingWindow}
<1>1. /\ fees \in [Tokens -> SUBSET Swap] /\ FeeSet(fees[t]) /\ \A u \in Tokens : FeeSet(fees[u])
  BY DEF FeesOK
<1>2. fees' = [fees EXCEPT ![t] = part]
  BY DEF Record
<1>3. all \in SUBSET Swap /\ IsFiniteSet(all) /\ \A x, y \in all : Sig(x) = Sig(y) => x = y
  <2>1. IsFiniteSet(fees[t] \cup {e})
    BY <1>1, FS_AddElement DEF FeeSet
  <2>2. CASE \E x \in fees[t] : Sig(x) = Sig(e)
    BY <1>1, <2>2 DEF FeeSet
  <2>3. CASE \A x \in fees[t] : Sig(x) # Sig(e)
    BY <1>1, <2>1, <2>3 DEF FeeSet
  <2>4. QED
    BY <2>2, <2>3
<1>4. \A x \in Swap : x.time \in Nat
  BY ConstantsAssumption DEF Swap, Time
<1>5. RollingWindow \in Nat
  BY ConstantsAssumption
<1>6. FeeSet(part)
  <2>1. part \in SUBSET all /\ \A x, y \in part : x.time >= y.time - RollingWindow
    OBVIOUS
  <2> HIDE DEF part, all
  <2>2. QED
    BY <1>3, <2>1, FS_Subset DEF FeeSet
<1>7. (\E x \in fees[t] : Sig(x) = Sig(e)) => part = fees[t]
  BY <1>1 DEF FeeSet
<1>8. ASSUME \A x \in fees[t] : Sig(x) # Sig(e), ~Late(t, e)
      PROVE  part = {x \in fees[t] \cup {e} : x.time >= e.time - RollingWindow}
  <2>1. all = fees[t] \cup {e}
    BY <1>8
  <2>2. \A y \in all : y.time <= e.time /\ y.time \in Nat /\ e.time \in Nat
    BY <1>1, <1>4, <1>8, <2>1 DEF Late, FeeSet
  <2>3. e \in all
    BY <2>1
  <2> HIDE DEF all
  <2>4. \A x \in all : (\A y \in all : x.time >= y.time - RollingWindow) <=> x.time >= e.time - RollingWindow
    BY <1>5, <2>2, <2>3
  <2>5. QED
    BY <2>1, <2>4
<1>9. part \subseteq fees[t] \cup {e}
  OBVIOUS
<1>10. \A x \in fees[t] : x.time >= e.time - RollingWindow => x \in part
  BY <1>1 DEF FeeSet
<1> HIDE DEF part
<1>11. part \in SUBSET Swap
  BY <1>6 DEF FeeSet
<1>12. QED
  BY <1>1, <1>2, <1>6, <1>7, <1>8, <1>9, <1>10, <1>11

\* What a start loads for a token is a window of what the table has of it.
LEMMA BackfillFacts ==
  ASSUME FeesOK, NEW t \in Tokens, Recent(t) # {}, NEW b \in Backfills(t)
  PROVE  /\ Window(b) /\ ToSet(b) = Recent(t)
         /\ \A i, j \in DOMAIN b : i < j => b[i].time <= b[j].time
<1> DEFINE S == Recent(t)
           n == Cardinality(S)
<1>1. S \in SUBSET Swap /\ IsFiniteSet(S) /\ S # {} /\ \A x, y \in S : Sig(x) = Sig(y) => x = y
  <2>1. S \in SUBSET fees[t] /\ FeeSet(fees[t])
    BY DEF FeesOK, Recent
  <2>2. FeeSet(S)
    BY <2>1, FeePart
  <2>3. QED
    BY <2>2 DEF FeeSet
<1>2. n \in Nat
  BY <1>1, FS_CardinalityType
<1>3. b \in [1 .. n -> S] /\ ToSet(b) = S
  BY DEF Backfills
<1>4. IsFiniteSet(1 .. n) /\ Cardinality(1 .. n) = n
  <2>1. 1 \in Int /\ n \in Int /\ (IF 1 > n THEN 0 ELSE n - 1 + 1) = n
    BY <1>2
  <2> HIDE DEF n
  <2>2. QED
    BY <2>1, FS_Interval
<1>5. b \in Surjection(1 .. n, S)
  <2> HIDE DEF S, n
  <2>1. QED
    BY <1>3 DEF Surjection, ToSet
<1>6. Cardinality(S) = n
  OBVIOUS
<1> HIDE DEF S, n
<1>7. b \in Injection(1 .. n, S)
  BY <1>4, <1>5, <1>6, FS_Surjection
<1>8. \A i, j \in 1 .. n : b[i] = b[j] => i = j
  BY <1>3, <1>7 DEF Injection, IsInjective
<1>9. b \in [1 .. n -> Swap]
  BY <1>1, <1>3
<1>10. b \in Seq(Swap) /\ DOMAIN b = 1 .. n
  BY <1>2, <1>9
<1>11. b # <<>>
  <2>1. DOMAIN b # {}
    BY <1>1, <1>3 DEF ToSet
  <2>2. DOMAIN <<>> = {}
    OBVIOUS
  <2>3. QED
    BY <2>1, <2>2
<1>12. Window(b)
  BY <1>1, <1>3, <1>8, <1>10, <1>11 DEF Window
<1>13. ToSet(b) = Recent(t) /\ \A i, j \in DOMAIN b : i < j => b[i].time <= b[j].time
  BY DEF Backfills
<1>14. QED
  BY <1>12, <1>13

\* A swap of the stream keeps the windows.
LEMMA WinEvent ==
  ASSUME WinInv, NEW t \in Tokens, OnEvent(t)
  PROVE  WinInv'
<1> USE DEF WinInv
<1>1. PICK e \in Swap : OutOfScope(t, e) \/ Duplicate(t, e) \/ Ingest(t, e)
  BY DEF OnEvent
<1>2. Record(t, e) /\ now' = now /\ up' = up
  BY <1>1 DEF OutOfScope, Duplicate, Ingest
<1>3. FeesOK'
  BY <1>2, RecordFacts DEF FeesOK
<1>4. CASE OutOfScope(t, e) \/ Duplicate(t, e)
  <2>1. UNCHANGED <<buf, sigs, touch, up>>
    BY <1>4 DEF OutOfScope, Duplicate, memory
  <2>2. QED
    BY <1>3, <2>1 DEF TouchOK, WindowsOK
<1>5. CASE Ingest(t, e)
  <2> DEFINE gone == Gone(t)
             kept == DOMAIN buf \ gone
             old == IF t \in kept THEN buf[t] ELSE <<>>
             b == Live(Append(old, e), e.time - RollingWindow)
  <2>1. /\ buf' = [u \in kept \cup {t} |-> IF u = t THEN b ELSE buf[u]]
        /\ sigs' = [u \in kept \cup {t} |-> IF u = t THEN SigsAfter(old, b, e) ELSE sigs[u]]
        /\ touch' = Touched(t, gone)
        /\ up /\ (t \in DOMAIN sigs => Sig(e) \notin sigs[t])
    BY <1>5 DEF Ingest, Arrives
  <2>2. /\ Distinct(touch') /\ Len(touch') <= TokenCap
        /\ ToSet(touch') = kept \cup {t}
    BY <2>1, TouchedFacts
  <2>3. TouchOK'
    <3> HIDE DEF kept, old, b, gone
    <3>1. DOMAIN buf' = kept \cup {t} /\ DOMAIN sigs' = kept \cup {t}
      BY <2>1
    <3>2. QED
      BY <1>2, <2>1, <2>2, <3>1 DEF TouchOK, Distinct
  <2>4. Window(b) /\ SigsAfter(old, b, e) = SigsOf(b)
    <3>1. old = <<>> \/ Window(old)
      BY DEF WindowsOK
    <3>2. Sig(e) \notin SigsOf(old)
      <4>1. CASE t \in kept
        BY <2>1, <4>1 DEF TouchOK, WindowsOK
      <4>2. CASE t \notin kept
        <5>1. old = <<>> /\ DOMAIN <<>> = {}
          BY <4>2
        <5> HIDE DEF old
        <5>2. QED
          BY <5>1 DEF SigsOf
      <4>3. QED
        BY <4>1, <4>2
    <3> HIDE DEF old
    <3>3. QED
      BY <3>1, <3>2, WindowKept
  <2>5. \A u \in kept : Window(buf[u]) /\ sigs[u] = SigsOf(buf[u])
    BY DEF WindowsOK
  <2> HIDE DEF kept, old, b, gone
  <2>6. WindowsOK'
    BY <2>1, <2>4, <2>5 DEF WindowsOK
  <2>7. QED
    BY <1>3, <2>3, <2>6
<1>6. QED
  BY <1>1, <1>4, <1>5

\* A start loads windows, of no more tokens than the cap.
LEMMA WinStartup ==
  ASSUME WinInv, Startup
  PROVE  WinInv'
<1> USE DEF WinInv
<1> DEFINE ts == {t \in scope' : Recent(t) # {}}
<1>1. /\ touch' \in MostActive(ts) /\ ts \subseteq Tokens /\ up'
      /\ buf' \in [ToSet(touch') -> UNION {Backfills(t) : t \in ToSet(touch')}]
      /\ \A t \in ToSet(touch') : buf'[t] \in Backfills(t)
      /\ sigs' = [t \in ToSet(touch') |-> SigsOf(buf'[t])]
      /\ UNCHANGED <<now, fees>>
  BY DEF Startup
<1>2. touch' \in SeqOf(ts, BackfillCap) /\ IsInjective(touch')
  BY <1>1 DEF MostActive
<1>3. PICK m \in 0 .. BackfillCap : touch' \in [1 .. m -> ts]
  BY <1>2 DEF SeqOf
<1>4. m \in Nat /\ m <= TokenCap
  BY <1>3, ConstantsAssumption
<1>5. touch' \in Seq(Tokens) /\ Len(touch') = m
  <2>1. touch' \in [1 .. m -> Tokens]
    BY <1>1, <1>3
  <2>2. QED
    BY <1>4, <2>1
<1>6. \A t \in ToSet(touch') : t \in Tokens /\ Recent(t) # {}
  BY <1>3, <1>1 DEF ToSet
<1>7. TouchOK'
  BY <1>1, <1>2, <1>4, <1>5 DEF TouchOK, Distinct, IsInjective
<1>8. FeesOK'
  BY <1>1 DEF FeesOK
<1>9. WindowsOK'
  <2>1. \A t \in ToSet(touch') : Window(buf'[t])
    BY <1>1, <1>6, BackfillFacts
  <2>2. QED
    BY <1>1, <2>1 DEF WindowsOK
<1>10. QED
  BY <1>7, <1>8, <1>9

\* Windows and signatures always speak of each other.
LEMMA WinAlways == Spec => []WinInv
<1>1. Init => WinInv
  <2> SUFFICES ASSUME Init PROVE WinInv
    OBVIOUS
  <2>1. <<>> \in Seq(Tokens) /\ DOMAIN <<>> = {} /\ Len(<<>>) = 0 /\ ToSet(<<>>) = {}
    BY EmptySeq DEF ToSet
  <2>2. DOMAIN [t \in {} |-> <<>>] = {} /\ DOMAIN [t \in {} |-> {}] = {}
    OBVIOUS
  <2>3. TouchOK
    BY <2>1, <2>2, ConstantsAssumption DEF Init, TouchOK, Distinct
  <2>4. FeesOK
    <3>1. 0 \in Time /\ FeeSet({})
      BY ConstantsAssumption, FS_EmptySet DEF Time, FeeSet
    <3>2. QED
      BY <3>1 DEF Init, FeesOK
  <2>5. WindowsOK
    BY <2>2 DEF Init, WindowsOK
  <2>6. QED
    BY <2>3, <2>4, <2>5 DEF WinInv
<1>2. ASSUME WinInv, [Next]_vars
      PROVE  WinInv'
  <2>1. CASE RefreshScope \/ UNCHANGED vars
    BY <1>2, <2>1 DEF RefreshScope, vars, memory, WinInv, TouchOK, WindowsOK, FeesOK
  <2>2. CASE Tick
    <3>1. now' \in Time
      BY <1>2, <2>2, ConstantsAssumption DEF Tick, WinInv, FeesOK, Time
    <3>2. UNCHANGED <<buf, sigs, touch, up, fees>>
      BY <2>2 DEF Tick, memory
    <3>3. QED
      BY <1>2, <3>1, <3>2 DEF WinInv, TouchOK, WindowsOK, FeesOK
  <2>3. CASE TaskStep
    <3>1. UNCHANGED Stable
      BY <2>3 DEF TaskStep, Insert, InsertFails, WriteEnd, WriteEndFails, Decide, DecideFails
    <3>2. QED
      BY <1>2, <3>1 DEF Stable, memory, WinInv, TouchOK, WindowsOK, FeesOK
  <2>4. CASE Crash
    <3>1. /\ touch' = <<>> /\ buf' = [t \in {} |-> <<>>] /\ sigs' = [t \in {} |-> {}] /\ now' = now
          /\ fees' \in {fees, [t \in Tokens |-> {x \in fees[t] : x.time < now}]}
      BY <2>4 DEF Crash, NoMemory
    <3>2. <<>> \in Seq(Tokens) /\ DOMAIN <<>> = {} /\ Len(<<>>) = 0 /\ ToSet(<<>>) = {}
      BY EmptySeq DEF ToSet
    <3>3. TouchOK' /\ WindowsOK'
      BY <3>1, <3>2, ConstantsAssumption DEF TouchOK, Distinct, WindowsOK
    <3>4. \A t \in Tokens : fees'[t] \in SUBSET fees[t]
      BY <3>1
    <3>5. fees' \in [Tokens -> SUBSET Swap]
      BY <1>2, <3>1 DEF WinInv, FeesOK
    <3>6. \A t \in Tokens : FeeSet(fees'[t])
      BY <1>2, <3>4, FeePart DEF WinInv, FeesOK
    <3>7. FeesOK'
      BY <1>2, <3>1, <3>5, <3>6 DEF WinInv, FeesOK
    <3>8. QED
      BY <3>3, <3>7 DEF WinInv
  <2>5. QED
    BY <1>2, <2>1, <2>2, <2>3, <2>4, WinEvent, WinStartup DEF Next
<1>3. QED
  BY <1>1, <1>2, PTL DEF Spec

-----------------------------------------------------------------------------
(* From the last late swap, eviction, crash or time out of scope on. *)

\* The swaps of a window that are newer than s are in order, after no newer ones.
SortedAbove(b, s) ==
  \A i, j \in DOMAIN b : i <= j /\ b[j].time > s => b[i].time <= b[j].time

\* The swaps in the window of a token.
Held(t) == IF t \in DOMAIN buf THEN ToSet(buf[t]) ELSE {}

\* Of the swaps newer than since, the window of a token has what the table has,
\* in order; and nothing is of the future.
ExactFor(t) ==
  /\ \A x \in fees[t] : x.time <= now
  /\ \A x \in Held(t) : x.time <= now
  /\ \A x \in Swap : x.time > since[t] => (x \in fees[t] <=> x \in Held(t))
  /\ t \in DOMAIN buf => SortedAbove(buf[t], since[t])

ExactInv ==
  /\ since \in [Tokens -> -(RollingWindow + 1) .. MaxTime]
  /\ \A t \in Tokens : ExactFor(t)

\* The times are numbers.
LEMMA TimeFacts ==
  /\ RollingWindow \in Nat /\ MaxTime \in Nat /\ \A x \in Swap : x.time \in Nat
  /\ \A n \in Time : n \in Nat /\ n \in -(RollingWindow + 1) .. MaxTime
                     /\ n - RollingWindow - 1 \in -(RollingWindow + 1) .. MaxTime
BY ConstantsAssumption DEF Swap, Time

\* Appending the newest swap to a window in order and popping from the left
\* leaves those that are in time, in order, as far as they are newer than s.
LEMMA LiveSorted ==
  ASSUME NEW old \in Seq(Swap), NEW s \in Int, SortedAbove(old, s), NEW e \in Swap,
         \A x \in ToSet(old) : x.time > s => x.time <= e.time
  PROVE  LET b == Live(Append(old, e), e.time - RollingWindow) IN
         /\ SortedAbove(b, s) /\ ToSet(b) \subseteq ToSet(old) \cup {e}
         /\ \A x \in Swap : x.time > s =>
              (x \in ToSet(b) <=> x \in ToSet(old) \cup {e} /\ x.time >= e.time - RollingWindow)
<1> DEFINE all == Append(old, e)
           cutoff == e.time - RollingWindow
           b == Live(all, cutoff)
<1>1. /\ all \in Seq(Swap) /\ Len(old) \in Nat /\ Len(all) = Len(old) + 1
      /\ DOMAIN old = 1 .. Len(old) /\ DOMAIN all = 1 .. Len(old) + 1
      /\ all[Len(old) + 1] = e /\ \A i \in DOMAIN old : all[i] = old[i]
  OBVIOUS
<1>2. cutoff \in Int /\ e.time >= cutoff /\ \A x \in Swap : x.time \in Nat
  BY TimeFacts
<1>3. all # <<>>
  BY <1>1
<1> HIDE DEF all
<1>4. SortedAbove(all, s) /\ ToSet(all) = ToSet(old) \cup {e}
  <2>1. \A i \in DOMAIN all : i \in DOMAIN old \/ i = Len(old) + 1
    BY <1>1
  <2>2. \A i \in DOMAIN old : old[i] \in ToSet(old) /\ old[i] \in Swap
    BY DEF ToSet
  <2>3. \A i \in DOMAIN old : e.time > s => old[i].time <= e.time
    <3>1. ASSUME NEW i \in DOMAIN old, e.time > s PROVE old[i].time <= e.time
      <4>1. old[i].time \in Nat /\ e.time \in Nat
        BY <1>2, <2>2
      <4>2. CASE old[i].time > s
        BY <2>2, <4>2
      <4>3. CASE ~(old[i].time > s)
        BY <3>1, <4>1, <4>3
      <4>4. QED
        BY <4>2, <4>3
    <3>2. QED
      BY <3>1
  <2>4. SortedAbove(all, s)
    <3>1. ASSUME NEW i \in DOMAIN all, NEW j \in DOMAIN all, i <= j, all[j].time > s
          PROVE  all[i].time <= all[j].time
      <4>1. CASE j \in DOMAIN old
        <5>1. i \in DOMAIN old
          BY <1>1, <3>1, <4>1
        <5>2. QED
          BY <1>1, <3>1, <4>1, <5>1 DEF SortedAbove
      <4>2. CASE j = Len(old) + 1
        <5>1. all[j] = e /\ e.time <= e.time
          BY <1>1, <1>2, <4>2
        <5>2. QED
          BY <1>1, <2>1, <2>3, <3>1, <5>1
      <4>3. QED
        BY <2>1, <4>1, <4>2
    <3>2. QED
      BY <3>1 DEF SortedAbove
  <2>5. ToSet(all) = ToSet(old) \cup {e}
    <3>1. \A i \in DOMAIN all : all[i] \in ToSet(old) \cup {e}
      BY <1>1, <2>1, <2>2
    <3>2. e \in ToSet(all) /\ \A i \in DOMAIN old : old[i] \in ToSet(all)
      BY <1>1 DEF ToSet
    <3>3. QED
      BY <3>1, <3>2 DEF ToSet
  <2>6. QED
    BY <2>4, <2>5
<1> HIDE DEF cutoff
<1>5. PICK k \in DOMAIN all : /\ b = SubSeq(all, k, Len(all))
                              /\ all[k].time >= cutoff /\ \A j \in 1 .. k - 1 : all[j].time < cutoff
  BY <1>1, <1>2, <1>3, LiveIs
<1> HIDE DEF b
<1>6. /\ k \in 1 .. Len(all) /\ Len(all) \in Nat /\ DOMAIN all = 1 .. Len(all)
      /\ DOMAIN b = 1 .. Len(all) - k + 1
      /\ \A i \in 1 .. Len(all) - k + 1 : b[i] = all[k + i - 1]
  <2>1. k \in Int /\ Len(all) \in Int /\ k <= Len(all) /\ \A i \in k .. Len(all) : all[i] \in Swap
    BY <1>1
  <2>2. /\ b \in Seq(Swap) /\ Len(b) = Len(all) - k + 1
        /\ \A i \in 1 .. Len(all) - k + 1 : b[i] = all[k + i - 1]
    BY <1>5, <2>1, SubSeqProperties
  <2>3. QED
    BY <1>1, <2>1, <2>2
<1>7. SortedAbove(b, s)
  <2>1. ASSUME NEW i \in DOMAIN b, NEW j \in DOMAIN b, i <= j, b[j].time > s
        PROVE  b[i].time <= b[j].time
    <3>1. k + i - 1 \in DOMAIN all /\ k + j - 1 \in DOMAIN all /\ k + i - 1 <= k + j - 1
      BY <1>6, <2>1
    <3>2. QED
      BY <1>4, <1>6, <2>1, <3>1 DEF SortedAbove
  <2>2. QED
    BY <2>1 DEF SortedAbove
<1>8. \A i \in DOMAIN all : all[i].time > s => (all[i].time >= cutoff <=> i \in k .. Len(all))
  <2> SUFFICES ASSUME NEW i \in DOMAIN all, all[i].time > s
               PROVE  all[i].time >= cutoff <=> i \in k .. Len(all)
    OBVIOUS
  <2>1. all[i].time \in Nat /\ all[k].time \in Nat
    BY <1>1, <1>2, <1>6
  <2>2. CASE i < k
    <3>1. k \in Int /\ i \in Int /\ i \in 1 .. k - 1
      BY <1>6, <2>2
    <3>2. all[i].time < cutoff
      BY <1>5, <3>1
    <3>3. i \notin k .. Len(all) /\ ~(all[i].time >= cutoff)
      BY <1>2, <2>1, <2>2, <3>1, <3>2
    <3>4. QED
      BY <3>3
  <2>3. CASE k <= i
    BY <1>2, <1>4, <1>5, <1>6, <2>1, <2>3 DEF SortedAbove
  <2>4. i < k \/ k <= i
    <3>1. i \in Int /\ k \in Int
      BY <1>6
    <3>2. QED
      BY <3>1
  <2>5. QED
    BY <2>2, <2>3, <2>4
<1>9. /\ ToSet(b) \subseteq ToSet(all)
      /\ \A x \in Swap : x.time > s => (x \in ToSet(b) <=> x \in ToSet(all) /\ x.time >= cutoff)
  <2>1. ASSUME NEW i \in DOMAIN b
        PROVE  b[i] \in ToSet(all) /\ (b[i].time > s => b[i].time >= cutoff)
    <3>1. k + i - 1 \in k .. Len(all) /\ k + i - 1 \in DOMAIN all /\ b[i] = all[k + i - 1]
      BY <1>6
    <3>2. QED
      BY <1>8, <3>1 DEF ToSet
  <2>2. ASSUME NEW x \in ToSet(all), x.time > s, x.time >= cutoff PROVE x \in ToSet(b)
    <3>1. PICK i \in DOMAIN all : x = all[i]
      BY DEF ToSet
    <3>2. i \in k .. Len(all)
      BY <1>8, <2>2, <3>1
    <3>3. /\ i - k + 1 \in 1 .. Len(all) - k + 1
          /\ k + (i - k + 1) - 1 = i
      BY <1>6, <3>2
    <3>4. i - k + 1 \in DOMAIN b /\ b[i - k + 1] = all[i]
      BY <1>6, <3>3
    <3>5. QED
      BY <3>1, <3>4 DEF ToSet
  <2>3. \A x \in ToSet(b) : x \in ToSet(all) /\ (x.time > s => x.time >= cutoff)
    BY <2>1 DEF ToSet
  <2>4. QED
    BY <2>2, <2>3
<1>10. QED
  BY <1>4, <1>7, <1>9 DEF b, all, cutoff

\* Nothing is claimed of what is no newer than now.
LEMMA ExactFromNow ==
  ASSUME NEW t \in Tokens, FeesOK', WindowsOK', since'[t] = now',
         \A x \in fees'[t] : x.time <= now',
         \A x \in Held(t)' : x.time <= now'
  PROVE  ExactFor(t)'
<1>1. now' \in Nat /\ \A x \in Swap : x.time \in Nat
  BY TimeFacts DEF FeesOK
<1>2. ASSUME NEW x \in Swap, x.time > since'[t] PROVE x \notin fees'[t] /\ x \notin Held(t)'
  <2>1. ~(x.time <= now')
    BY <1>1, <1>2
  <2>2. QED
    BY <2>1
<1>3. ASSUME t \in DOMAIN buf' PROVE SortedAbove(buf'[t], since'[t])
  <2>1. ASSUME NEW j \in DOMAIN buf'[t] PROVE ~(buf'[t][j].time > since'[t])
    <3>1. buf'[t][j] \in Held(t)' /\ buf'[t][j] \in Swap
      BY <1>3 DEF Held, ToSet, WindowsOK, Window
    <3>2. QED
      BY <1>2, <3>1
  <2>2. QED
    BY <2>1 DEF SortedAbove
<1>4. QED
  BY <1>2, <1>3 DEF ExactFor

\* A swap keeps the windows exact.
LEMMA ExactEvent ==
  ASSUME WinInv, ExactInv, NEW t \in Tokens, OnEvent(t)
  PROVE  ExactInv'
<1>1. PICK e \in Swap : OutOfScope(t, e) \/ Duplicate(t, e) \/ Ingest(t, e)
  BY DEF OnEvent
<1>2. /\ Record(t, e) /\ FeesOK /\ TouchOK /\ WindowsOK /\ FeesOK' /\ WindowsOK'
      /\ now' = now /\ e.time <= now
  BY <1>1, WinEvent DEF OutOfScope, Duplicate, Ingest, WinInv, Arrives
<1>3. /\ \A u \in Tokens \ {t} : fees'[u] = fees[u]
      /\ fees'[t] \subseteq fees[t] \cup {e}
      /\ \A x \in fees[t] : x.time >= e.time - RollingWindow => x \in fees'[t]
      /\ (\E x \in fees[t] : Sig(x) = Sig(e)) => fees'[t] = fees[t]
      /\ (\A x \in fees[t] : Sig(x) # Sig(e)) /\ ~Late(t, e) =>
              fees'[t] = {x \in fees[t] \cup {e} : x.time >= e.time - RollingWindow}
  BY <1>2, RecordFacts
<1>4. /\ now \in Nat /\ now \in -(RollingWindow + 1) .. MaxTime
      /\ since \in [Tokens -> -(RollingWindow + 1) .. MaxTime]
      /\ \A x \in Swap : x.time \in Nat /\ RollingWindow \in Nat
  BY <1>2, TimeFacts DEF FeesOK, ExactInv
<1>5. \A x \in fees'[t] : x.time <= now
  BY <1>2, <1>3 DEF ExactInv, ExactFor
<1>6. ASSUME NEW u \in Tokens, u # t, UNCHANGED since[u],
             u \in DOMAIN buf <=> u \in DOMAIN buf', u \in DOMAIN buf => buf'[u] = buf[u]
      PROVE  ExactFor(u)'
  <2>1. fees'[u] = fees[u] /\ Held(u)' = Held(u)
    BY <1>3, <1>6 DEF Held
  <2>2. QED
    BY <1>2, <1>6, <2>1 DEF ExactInv, ExactFor
<1>7. CASE OutOfScope(t, e)
  <2>1. buf' = buf /\ since' = [since EXCEPT ![t] = now]
    BY <1>7 DEF OutOfScope, memory
  <2>2. \A u \in Tokens : u # t => ExactFor(u)'
    BY <1>4, <1>6, <2>1
  <2>3. ExactFor(t)'
    <3>1. Held(t)' = Held(t) /\ since'[t] = now'
      BY <1>2, <1>4, <2>1 DEF Held
    <3>2. \A x \in Held(t)' : x.time <= now'
      BY <1>2, <3>1 DEF ExactInv, ExactFor
    <3>3. QED
      BY <1>2, <1>5, <3>1, <3>2, ExactFromNow
  <2>4. since' \in [Tokens -> -(RollingWindow + 1) .. MaxTime]
    BY <1>4, <2>1
  <2>5. QED
    BY <2>2, <2>3, <2>4 DEF ExactInv
<1>8. CASE Duplicate(t, e)
  <2>1. buf' = buf /\ since' = since /\ t \in DOMAIN sigs /\ Sig(e) \in sigs[t]
    BY <1>8 DEF Duplicate, memory
  <2>2. t \in DOMAIN buf /\ Sig(e) \in SigsOf(buf[t])
    BY <1>2, <2>1 DEF TouchOK, WindowsOK
  <2>3. PICK y \in Held(t) : y \in Swap /\ Sig(y) = Sig(e) /\ y.time = e.time
    <3>1. PICK i \in DOMAIN buf[t] : Sig(buf[t][i]) = Sig(e)
      BY <2>2 DEF SigsOf
    <3>2. buf[t][i] \in ToSet(buf[t]) /\ buf[t][i] \in Swap
      BY <1>2, <2>2 DEF ToSet, WindowsOK, Window
    <3>3. QED
      BY <2>2, <3>1, <3>2 DEF Held, Sig
  <2>4. ASSUME NEW x \in Swap, x.time > since[t] PROVE x \in fees'[t] <=> x \in fees[t]
    <3>1. CASE \E z \in fees[t] : Sig(z) = Sig(e)
      BY <1>3, <3>1
    <3>2. CASE ~ \E z \in fees[t] : Sig(z) = Sig(e)
      <4>1. ~(e.time > since[t])
        BY <2>3, <3>2 DEF ExactInv, ExactFor
      <4>2. x # e
        BY <2>4, <4>1
      <4>3. x.time >= e.time - RollingWindow
        <5>1. since[t] \in Int /\ x.time \in Nat /\ e.time \in Nat /\ RollingWindow \in Nat
          BY <1>4
        <5>2. QED
          BY <2>4, <4>1, <5>1
      <4>4. QED
        BY <1>3, <4>2, <4>3
    <3>3. QED
      BY <3>1, <3>2
  <2>5. ExactFor(t)'
    BY <1>2, <1>5, <2>1, <2>4 DEF ExactInv, ExactFor, Held
  <2>6. \A u \in Tokens : u # t => ExactFor(u)'
    BY <1>6, <2>1
  <2>7. QED
    BY <1>4, <2>1, <2>5, <2>6 DEF ExactInv
<1>9. CASE Ingest(t, e)
  <2> DEFINE gone == Gone(t)
             kept == DOMAIN buf \ gone
             old == IF t \in kept THEN buf[t] ELSE <<>>
             b == Live(Append(old, e), e.time - RollingWindow)
  <2>1. /\ buf' = [u \in kept \cup {t} |-> IF u = t THEN b ELSE buf[u]]
        /\ since' = [u \in Tokens |-> IF u \in gone \/ (u = t /\ Late(t, e)) THEN now ELSE since[u]]
        /\ t \in DOMAIN sigs => Sig(e) \notin sigs[t]
    BY <1>9 DEF Ingest
  <2>2. t \notin gone /\ (t \in DOMAIN buf <=> t \in kept)
    BY <1>2, TouchedFacts
  <2>3. since' \in [Tokens -> -(RollingWindow + 1) .. MaxTime]
    <3> HIDE DEF gone
    <3>1. QED
      BY <1>4, <2>1
  <2>4. old \in Seq(Swap) /\ ToSet(old) = Held(t)
    <3>1. CASE t \in kept
      BY <1>2, <2>2, <3>1 DEF Held, WindowsOK, Window
    <3>2. CASE t \notin kept
      <4>1. <<>> \in Seq(Swap) /\ ToSet(<<>>) = {} /\ old = <<>>
        BY <3>2, EmptySeq DEF ToSet
      <4> HIDE DEF old, kept
      <4>2. QED
        BY <2>2, <3>2, <4>1 DEF Held
    <3>3. QED
      BY <3>1, <3>2
  <2>5. \A s : SortedAbove(<<>>, s)
    <3>1. DOMAIN <<>> = {}
      OBVIOUS
    <3>2. QED
      BY <3>1 DEF SortedAbove
  <2>6. SortedAbove(old, since[t])
    BY <2>2, <2>5 DEF ExactInv, ExactFor
  <2> HIDE DEF b
  <2>7. ASSUME NEW u \in Tokens, u # t PROVE ExactFor(u)'
    <3> HIDE DEF old
    <3>1. CASE u \in gone
      <4>1. u \notin DOMAIN buf' /\ since'[u] = now
        BY <2>1, <2>7, <3>1
      <4>2. Held(u)' = {} /\ fees'[u] = fees[u]
        BY <1>3, <2>7, <4>1 DEF Held
      <4>3. \A x \in fees'[u] : x.time <= now
        BY <4>2 DEF ExactInv, ExactFor
      <4>4. QED
        BY <1>2, <4>1, <4>2, <4>3, ExactFromNow
    <3>2. CASE u \notin gone
      BY <1>6, <2>1, <2>7, <3>2
    <3>3. QED
      BY <3>1, <3>2
  <2>8. t \in DOMAIN buf' /\ buf'[t] = b /\ Held(t)' = ToSet(b)
    <3> HIDE DEF old, kept, gone
    <3>1. t \in DOMAIN buf' /\ buf'[t] = b
      BY <2>1
    <3>2. QED
      BY <3>1 DEF Held
  <2>9. ToSet(b) \subseteq Held(t) \cup {e}
    <3>1. b \in Seq(Swap) /\ Len(Append(old, e)) \in Nat /\ Append(old, e) \in Seq(Swap)
      BY <1>2, <2>4, <2>8 DEF WindowsOK, Window
    <3> HIDE DEF old
    <3>2. PICK k \in DOMAIN Append(old, e) : b = SubSeq(Append(old, e), k, Len(Append(old, e)))
      <4>1. Append(old, e) # <<>> /\ Append(old, e)[Len(Append(old, e))] = e
        BY <2>4
      <4>2. e.time - RollingWindow \in Int /\ e.time >= e.time - RollingWindow
        BY <1>4
      <4>3. QED
        BY <3>1, <4>1, <4>2, LiveIs DEF b
    <3>3. \A i \in DOMAIN b : b[i] \in ToSet(Append(old, e))
      <4> DEFINE a == Append(old, e)
      <4>1. a \in Seq(Swap) /\ k \in 1 .. Len(a) /\ b = SubSeq(a, k, Len(a))
        BY <3>1, <3>2
      <4> HIDE DEF a
      <4>2. /\ DOMAIN b = 1 .. Len(a) - k + 1
            /\ \A i \in 1 .. Len(a) - k + 1 : b[i] = a[k + i - 1] /\ k + i - 1 \in DOMAIN a
        <5>1. k \in Int /\ Len(a) \in Int /\ k <= Len(a) /\ \A i \in k .. Len(a) : a[i] \in Swap
          BY <4>1
        <5>2. /\ b \in Seq(Swap) /\ Len(b) = Len(a) - k + 1
              /\ \A i \in 1 .. Len(a) - k + 1 : b[i] = a[k + i - 1]
          BY <4>1, <5>1, SubSeqProperties
        <5>3. QED
          BY <4>1, <5>1, <5>2
      <4>3. QED
        BY <4>2 DEF ToSet, a
    <3>4. ToSet(Append(old, e)) \subseteq ToSet(old) \cup {e}
      <4>1. \A i \in DOMAIN Append(old, e) : Append(old, e)[i] \in ToSet(old) \cup {e}
        BY <2>4 DEF ToSet
      <4>2. QED
        BY <4>1 DEF ToSet
    <3>5. \A x \in ToSet(b) : x \in ToSet(Append(old, e))
      BY <3>3 DEF ToSet
    <3>6. QED
      BY <2>4, <3>4, <3>5
  <2>10. \A x \in Held(t)' : x.time <= now'
    BY <1>2, <2>8, <2>9 DEF ExactInv, ExactFor
  <2>11. CASE Late(t, e)
    <3>1. since'[t] = now'
      BY <1>2, <2>1, <2>11
    <3>2. ExactFor(t)'
      BY <1>2, <1>5, <2>10, <3>1, ExactFromNow
    <3>3. QED
      BY <2>3, <2>7, <3>2 DEF ExactInv
  <2>12. CASE ~Late(t, e)
    <3> DEFINE s == since[t]
    <3>1. s \in Int /\ since'[t] = s
      <4> HIDE DEF gone
      <4>1. QED
        BY <1>4, <2>1, <2>2, <2>12
    <3>2. \A x \in fees[t] : x \in Swap /\ x.time <= e.time
      BY <1>2, <1>4, <2>12 DEF Late, FeesOK, FeeSet
    <3>3. \A x \in Swap : x.time > s => (x \in fees[t] <=> x \in Held(t))
      BY DEF ExactInv, ExactFor
    <3>4. \A x \in Held(t) : x \in Swap
      BY <2>4 DEF ToSet
    <3> HIDE DEF old
    <3>5. /\ SortedAbove(b, s)
          /\ \A x \in Swap : x.time > s =>
               (x \in ToSet(b) <=> x \in Held(t) \cup {e} /\ x.time >= e.time - RollingWindow)
      <4>1. \A x \in ToSet(old) : x.time > s => x.time <= e.time
        BY <2>4, <3>2, <3>3, <3>4
      <4> HIDE DEF s
      <4>2. SortedAbove(old, s)
        BY <2>6 DEF s
      <4>3. QED
        BY <2>4, <3>1, <4>1, <4>2, LiveSorted DEF b
    <3>6. ASSUME NEW x \in Swap, x.time > s PROVE x \in fees'[t] <=> x \in ToSet(b)
      <4>1. CASE \A z \in fees[t] : Sig(z) # Sig(e)
        <5>1. fees'[t] = {z \in fees[t] \cup {e} : z.time >= e.time - RollingWindow}
          BY <1>3, <2>12, <4>1
        <5>2. QED
          BY <3>3, <3>5, <3>6, <5>1
      <4>2. CASE ~ \A z \in fees[t] : Sig(z) # Sig(e)
        <5>1. PICK z \in fees[t] : z \in Swap /\ Sig(z) = Sig(e) /\ z.time = e.time
          BY <3>2, <4>2 DEF Sig
        <5>2. ~(e.time > s)
          <6>1. SUFFICES ASSUME e.time > s PROVE FALSE
            OBVIOUS
          <6>2. z \in Held(t)
            BY <3>3, <5>1, <6>1
          <6>3. t \in DOMAIN buf /\ Sig(e) \in SigsOf(buf[t])
            BY <5>1, <6>2 DEF Held, ToSet, SigsOf
          <6>4. t \in DOMAIN sigs /\ Sig(e) \in sigs[t]
            BY <1>2, <6>3 DEF TouchOK, WindowsOK
          <6>5. QED
            BY <2>1, <6>4
        <5>3. x.time \in Nat /\ e.time \in Nat /\ ~(x.time <= e.time)
          BY <1>4, <3>1, <3>6, <5>2
        <5>4. x \notin fees[t] /\ x # e /\ fees'[t] = fees[t]
          BY <1>3, <3>2, <5>1, <5>3
        <5>5. x \notin Held(t)
          BY <3>3, <3>6, <5>4
        <5>6. QED
          BY <3>5, <3>6, <5>4, <5>5
      <4>3. QED
        BY <4>1, <4>2
    <3>7. ExactFor(t)'
      BY <1>2, <1>5, <2>8, <2>10, <3>1, <3>5, <3>6 DEF ExactFor
    <3>8. QED
      BY <2>3, <2>7, <3>7 DEF ExactInv
  <2>13. QED
    BY <2>11, <2>12
<1>10. QED
  BY <1>1, <1>7, <1>8, <1>9

\* A start makes the windows exact again, from a window before it on, but for the
\* tokens that it does not load.
LEMMA ExactStartup ==
  ASSUME WinInv, ExactInv, Startup
  PROVE  ExactInv'
<1> DEFINE ts == {t \in scope' : Recent(t) # {}}
<1>1. /\ UNCHANGED <<now, fees>> /\ DOMAIN buf' = ToSet(touch') /\ ts \subseteq Tokens
      /\ touch' \in MostActive(ts) /\ \A t \in ToSet(touch') : buf'[t] \in Backfills(t)
      /\ since' = [t \in Tokens |-> IF t \in ToSet(touch') \/ Recent(t) = {}
                                    THEN now - RollingWindow - 1 ELSE now]
  BY DEF Startup
<1>2. FeesOK /\ FeesOK' /\ WindowsOK'
  BY WinStartup DEF WinInv
<1>3. /\ now \in Nat /\ now \in -(RollingWindow + 1) .. MaxTime /\ RollingWindow \in Nat
      /\ now - RollingWindow - 1 \in -(RollingWindow + 1) .. MaxTime
      /\ \A x \in Swap : x.time \in Nat
  BY <1>2, TimeFacts DEF FeesOK
<1>4. since' \in [Tokens -> -(RollingWindow + 1) .. MaxTime]
  BY <1>1, <1>3
<1>5. \A t \in ToSet(touch') : t \in Tokens /\ Recent(t) # {}
  BY <1>1 DEF MostActive, SeqOf, ToSet
<1>6. ASSUME NEW t \in Tokens PROVE ExactFor(t)'
  <2>1. fees[t] \subseteq Swap /\ \A x \in fees[t] : x.time <= now
    BY <1>2 DEF FeesOK, FeeSet, ExactInv, ExactFor
  <2>2. CASE t \in ToSet(touch')
    <3> DEFINE b == buf'[t]
    <3>1. /\ Window(b) /\ ToSet(b) = Recent(t)
          /\ \A i, j \in DOMAIN b : i < j => b[i].time <= b[j].time
      BY <1>1, <1>2, <1>5, <2>2, BackfillFacts
    <3>2. Held(t)' = Recent(t) /\ since'[t] = now - RollingWindow - 1
      BY <1>1, <2>2, <3>1 DEF Held
    <3>3. \A x \in Swap : x.time > now - RollingWindow - 1 => (x \in fees[t] <=> x \in Recent(t))
      BY <1>3 DEF Recent
    <3>4. \A i \in DOMAIN b : b[i] \in Swap /\ b[i].time \in Nat /\ i \in Nat
      BY <1>3, <3>1 DEF Window
    <3> HIDE DEF b
    <3>5. \A i, j \in DOMAIN b : i <= j => b[i].time <= b[j].time
      <4>1. \A i, j \in DOMAIN b : i <= j => i < j \/ i = j
        BY <3>4
      <4>2. QED
        BY <3>1, <3>4, <4>1
    <3>6. SortedAbove(b, since'[t])
      BY <3>5 DEF SortedAbove
    <3>7. \A x \in Held(t)' : x.time <= now
      BY <2>1, <3>2 DEF Recent
    <3>8. QED
      BY <1>1, <2>1, <3>2, <3>3, <3>6, <3>7 DEF ExactFor, b
  <2>3. CASE t \notin ToSet(touch') /\ Recent(t) = {}
    <3>1. Held(t)' = {} /\ since'[t] = now - RollingWindow - 1 /\ t \notin DOMAIN buf'
      BY <1>1, <2>3 DEF Held
    <3>2. \A x \in Swap : x.time > now - RollingWindow - 1 => x \notin fees[t]
      BY <1>3, <2>3 DEF Recent
    <3>3. QED
      BY <1>1, <2>1, <3>1, <3>2 DEF ExactFor
  <2>4. CASE t \notin ToSet(touch') /\ Recent(t) # {}
    <3>1. Held(t)' = {} /\ since'[t] = now'
      BY <1>1, <2>4 DEF Held
    <3>2. QED
      BY <1>1, <1>2, <2>1, <3>1, ExactFromNow
  <2>5. QED
    BY <2>2, <2>3, <2>4
<1>7. QED
  BY <1>4, <1>6 DEF ExactInv

\* The windows are always exact above since.
LEMMA ExactAlways == Spec => []ExactInv
<1>1. Init => ExactInv
  <2> SUFFICES ASSUME Init PROVE ExactInv
    OBVIOUS
  <2>1. DOMAIN [t \in {} |-> <<>>] = {}
    OBVIOUS
  <2>2. -1 \in -(RollingWindow + 1) .. MaxTime
    BY TimeFacts
  <2>3. QED
    BY <2>1, <2>2 DEF Init, ExactInv, ExactFor, Held
<1>2. ASSUME WinInv, ExactInv, [Next]_vars
      PROVE  ExactInv'
  <2>1. CASE RefreshScope \/ TaskStep \/ UNCHANGED vars
    <3>1. UNCHANGED <<fees, buf, since, now>>
      BY <2>1 DEF RefreshScope, vars, TaskStep, Insert, InsertFails, WriteEnd, WriteEndFails,
                  Decide, DecideFails, Stable, memory
    <3>2. QED
      BY <1>2, <3>1 DEF ExactInv, ExactFor, Held
  <2>2. CASE Tick
    <3>1. UNCHANGED <<fees, buf, since>> /\ now' = now + 1
      BY <2>2 DEF Tick, memory
    <3>2. /\ now \in Nat /\ \A x \in Swap : x.time \in Nat
          /\ \A t \in Tokens : fees[t] \subseteq Swap
          /\ \A t \in DOMAIN buf : buf[t] \in Seq(Swap)
      BY <1>2, TimeFacts DEF WinInv, FeesOK, FeeSet, WindowsOK, Window
    <3>3. \A t \in Tokens : Held(t)' = Held(t) /\ Held(t) \subseteq Swap
      BY <3>1, <3>2 DEF Held, ToSet
    <3>4. \A x \in Swap : x.time <= now => x.time <= now + 1
      BY <3>2
    <3>5. QED
      BY <1>2, <3>1, <3>2, <3>3, <3>4 DEF ExactInv, ExactFor
  <2>3. CASE Crash
    <3>1. /\ DOMAIN buf' = {} /\ now' = now /\ since' = [t \in Tokens |-> now]
          /\ \A t \in Tokens : fees'[t] \subseteq fees[t]
      BY <2>3 DEF Crash, NoMemory
    <3>2. FeesOK' /\ WindowsOK' /\ now \in -(RollingWindow + 1) .. MaxTime
      <4>1. now \in -(RollingWindow + 1) .. MaxTime
        BY <1>2, TimeFacts DEF WinInv, FeesOK
      <4>2. FeesOK'
        <5>1. fees' \in {fees, [t \in Tokens |-> {x \in fees[t] : x.time < now}]} /\ now' = now
          BY <2>3 DEF Crash
        <5>2. fees' \in [Tokens -> SUBSET Swap]
          BY <1>2, <5>1 DEF WinInv, FeesOK
        <5>3. \A t \in Tokens : FeeSet(fees'[t])
          BY <1>2, <3>1, FeePart DEF WinInv, FeesOK
        <5>4. QED
          BY <1>2, <5>1, <5>2, <5>3 DEF WinInv, FeesOK
      <4>3. WindowsOK'
        BY <3>1 DEF WindowsOK
      <4>4. QED
        BY <4>1, <4>2, <4>3
    <3>3. ASSUME NEW t \in Tokens PROVE ExactFor(t)'
      <4>1. Held(t)' = {} /\ since'[t] = now' /\ \A x \in fees'[t] : x.time <= now'
        BY <1>2, <3>1 DEF Held, ExactInv, ExactFor
      <4>2. QED
        BY <3>2, <4>1, ExactFromNow
    <3>4. QED
      BY <3>1, <3>2, <3>3 DEF ExactInv
  <2>4. QED
    BY <1>2, <2>1, <2>2, <2>3, ExactEvent, ExactStartup DEF Next
<1>3. QED
  BY <1>1, <1>2, WinAlways, PTL DEF Spec

\* From the last late swap, eviction, crash or time out of scope of a token on,
\* the deque is the set of the distinct swaps of the last window, none missing,
\* none too old, however many repetitions and evictions of others come between;
\* and a start makes it so again from a whole window before itself.
THEOREM FastDipWindowExact == Spec => []WindowExact
<1>1. ASSUME WinInv, ExactInv PROVE WindowExact
  <2>1. ASSUME NEW t \in Tokens
        PROVE  {x \in fees[t] : x.time > since[t]} = {x \in Held(t) : x.time > since[t]}
    <3>1. fees[t] \subseteq Swap /\ Held(t) \subseteq Swap
      BY <1>1 DEF WinInv, FeesOK, FeeSet, WindowsOK, Window, Held, ToSet
    <3>2. \A x \in Swap : x.time > since[t] => (x \in fees[t] <=> x \in Held(t))
      BY <1>1 DEF ExactInv, ExactFor
    <3>3. QED
      BY <3>1, <3>2
  <2>2. QED
    BY <2>1 DEF WindowExact, Held
<1>2. QED
  BY <1>1, WinAlways, ExactAlways, PTL

-----------------------------------------------------------------------------
(* The types of the dips and of their rows, whose number the dips bound. *)

\* Each row is that of a dip.
Rowed(ds, sh) == \A k \in DOMAIN sh : \E i \in DOMAIN ds : ds[i].rid = k

DipTypes(ds, sh) == ds \in Seq(Dip) /\ Len(ds) <= MaxDips /\ sh \in Seq(ShadowRow) /\ Rowed(ds, sh)

SmallTypes == up \in BOOLEAN /\ scope \subseteq Tokens /\ faults \in 0 .. MaxFaults

TypesInv == SmallTypes /\ DipTypes(dips, shadow)

\* There are no more rows than dips, and fewer while a dip has none yet.
LEMMA FewerRows ==
  ASSUME NEW ds \in Seq(Dip), NEW sh \in Seq(ShadowRow), Rowed(ds, sh)
  PROVE  /\ Len(sh) <= Len(ds)
         /\ \A k \in DOMAIN ds : ds[k].rid = Running => Len(sh) + 1 <= Len(ds)
<1> DEFINE m == Len(sh)
           n == Len(ds)
           f == [k \in 1 .. m |-> CHOOSE i \in 1 .. n : ds[i].rid = k]
<1>1. m \in Nat /\ n \in Nat /\ DOMAIN sh = 1 .. m /\ DOMAIN ds = 1 .. n
  OBVIOUS
<1> HIDE DEF m, n
<1>2. \A k \in 1 .. m : f[k] \in 1 .. n /\ ds[f[k]].rid = k
  BY <1>1 DEF Rowed
<1> HIDE DEF f
<1>3. f = [k \in 1 .. m |-> f[k]] /\ \A k, l \in 1 .. m : f[k] = f[l] => k = l
  <2>1. f = [k \in 1 .. m |-> f[k]]
    BY DEF f
  <2>2. QED
    BY <1>2, <2>1
<1>4. /\ IsFiniteSet(1 .. n) /\ Cardinality(1 .. n) = n
      /\ IsFiniteSet(1 .. m) /\ Cardinality(1 .. m) = m
  <2>1. /\ 1 \in Int /\ n \in Int /\ (IF 1 > n THEN 0 ELSE n - 1 + 1) = n
        /\ m \in Int /\ (IF 1 > m THEN 0 ELSE m - 1 + 1) = m
    BY <1>1
  <2>2. QED
    BY <2>1, FS_Interval
<1>5. m <= n
  <2>1. f \in Injection(1 .. m, 1 .. n)
    BY <1>2, <1>3 DEF Injection, IsInjective
  <2>2. QED
    BY <1>4, <2>1, FS_Injection
<1>6. ASSUME NEW k \in 1 .. n, ds[k].rid = Running
      PROVE  m + 1 <= n
  <2> DEFINE T == 1 .. n \ {k}
  <2>1. IsFiniteSet(T) /\ Cardinality(T) = n - 1
    BY <1>4, FS_RemoveElement
  <2>2. \A j \in 1 .. m : f[j] \in T
    BY <1>2, <1>6, Codes
  <2>3. f \in Injection(1 .. m, T)
    <3> HIDE DEF T
    <3>1. QED
      BY <1>3, <2>2 DEF Injection, IsInjective
  <2>4. Cardinality(1 .. m) <= Cardinality(T)
    <3> HIDE DEF T
    <3>1. QED
      BY <2>1, <2>3, FS_Injection
  <2>5. m <= n - 1
    BY <1>4, <2>1, <2>4
  <2>6. QED
    BY <1>1, <2>5
<1>7. QED
  BY <1>1, <1>5, <1>6 DEF m, n

\* Another dip in the place of one.
LEMMA DipExcept ==
  ASSUME NEW ds \in Seq(Dip), NEW k \in DOMAIN ds, NEW d \in Dip
  PROVE  LET new == [ds EXCEPT ![k] = d] IN
         /\ new \in Seq(Dip) /\ Len(new) = Len(ds) /\ DOMAIN new = DOMAIN ds
         /\ new[k] = d /\ \A i \in DOMAIN ds \ {k} : new[i] = ds[i]
<1>1. Len(ds) \in Nat /\ DOMAIN ds = 1 .. Len(ds) /\ ds \in [1 .. Len(ds) -> Dip]
  OBVIOUS
<1> DEFINE new == [ds EXCEPT ![k] = d]
<1>2. new \in [1 .. Len(ds) -> Dip] /\ new[k] = d /\ \A i \in DOMAIN ds \ {k} : new[i] = ds[i]
  BY <1>1
<1> HIDE DEF new
<1>3. new \in Seq(Dip) /\ Len(new) = Len(ds) /\ DOMAIN new = DOMAIN ds
  BY <1>1, <1>2
<1>4. QED
  BY <1>2, <1>3 DEF new

\* The end of a dip leaves the row ids alone.
LEMMA EndTyped ==
  ASSUME dips \in Seq(Dip), NEW v, pend[v] \in DOMAIN dips, NEW time \in Time,
         NEW reason \in {"recovered", "gap", "evicted"}
  PROVE  LET ds == EndDip(dips, v, time, reason) IN
         /\ ds \in Seq(Dip) /\ Len(ds) = Len(dips) /\ DOMAIN ds = DOMAIN dips
         /\ \A i \in DOMAIN dips : ds[i].rid = dips[i].rid
<1> DEFINE k == pend[v]
           d == [dips[k] EXCEPT !.end = MakeEnd(time, reason), !.ending = TRUE]
<1>1. k \in DOMAIN dips /\ dips[k] \in Dip
  OBVIOUS
<1>2. MakeEnd(time, reason) \in Ends \cup {NoEnd}
  BY DEF MakeEnd, Ends
<1>3. d \in Dip /\ d.rid = dips[k].rid
  <2> DEFINE end == MakeEnd(time, reason)
             old == dips[k]
  <2>1. end \in Ends \cup {NoEnd} /\ old \in Dip
    BY <1>1, <1>2
  <2> HIDE DEF end, old
  <2>2. [old EXCEPT !.end = end, !.ending = TRUE] \in Dip /\ [old EXCEPT !.end = end, !.ending = TRUE].rid = old.rid
    BY <2>1 DEF Dip
  <2>3. QED
    BY <2>2 DEF end, old
<1>4. EndDip(dips, v, time, reason) = [dips EXCEPT ![k] = d]
  BY <1>1 DEF EndDip
<1> HIDE DEF d, k
<1>5. LET new == [dips EXCEPT ![k] = d] IN
      /\ new \in Seq(Dip) /\ Len(new) = Len(dips) /\ DOMAIN new = DOMAIN dips
      /\ new[k] = d /\ \A i \in DOMAIN dips \ {k} : new[i] = dips[i]
  BY <1>1, <1>3, DipExcept
<1>6. QED
  BY <1>3, <1>4, <1>5

\* So does an eviction.
LEMMA EvictTyped ==
  ASSUME IInv, WinInv, dips \in Seq(Dip), NEW t \in Tokens
  PROVE  LET ds == DipsAfterEviction(Gone(t)) IN
         /\ ds \in Seq(Dip) /\ Len(ds) = Len(dips) /\ DOMAIN ds = DOMAIN dips
         /\ \A i \in DOMAIN dips : ds[i].rid = dips[i].rid
<1>1. Shape(dips, pend, inDip) /\ Bound(dips, pend, inDip) /\ TouchOK /\ WindowsOK
  BY DEF IInv, Good, WinInv
<1>2. CASE Gone(t) \cap inDip = {}
  BY <1>2 DEF DipsAfterEviction
<1>3. CASE Gone(t) \cap inDip # {}
  <2>1. PICK v : Gone(t) = {v} /\ v \in inDip
    BY <1>3 DEF Gone
  <2>2. v \in DOMAIN buf /\ (CHOOSE u \in Gone(t) : TRUE) = v
    BY <1>1, <2>1, TouchedFacts
  <2>3. v \in Tokens /\ pend[v] # 0 /\ pend[v] \in 0 .. Len(dips)
    BY <1>1, <2>1 DEF Shape, Bound
  <2>4. pend[v] \in DOMAIN dips
    BY <2>3
  <2>5. buf[v] \in Seq(Swap) /\ buf[v] # <<>>
    BY <1>1, <2>2 DEF WindowsOK, Window
  <2>6. buf[v][Len(buf[v])].time \in Time
    <3>1. Len(buf[v]) \in DOMAIN buf[v] /\ \A i \in DOMAIN buf[v] : buf[v][i] \in Swap
      BY <2>5, EmptySeq
    <3>2. QED
      BY <3>1 DEF Swap
  <2>7. DipsAfterEviction(Gone(t)) = EndDip(dips, v, buf[v][Len(buf[v])].time, "evicted")
    BY <1>3, <2>2 DEF DipsAfterEviction
  <2>8. QED
    BY <2>4, <2>6, <2>7, EndTyped
<1>4. QED
  BY <1>2, <1>3

\* The dip that a trigger begins has the time of its peak, a swap of the window.
LEMMA BeginTyped ==
  ASSUME now \in Time, NEW t \in Tokens, NEW b, Window(b), NEW e \in Swap
  PROVE  NewDip(t, b, e) \in Dip /\ NewDip(t, b, e).rid = Running
<1>1. Len(b) \in Nat \ {0} /\ DOMAIN b = 1 .. Len(b) /\ \A i \in DOMAIN b : b[i] \in Swap
  BY EmptySeq DEF Window
<1> DEFINE f == [i \in DOMAIN b |-> b[i].price]
           AtTop(i) == /\ \A j \in DOMAIN b : b[j].price <= b[i].price
                     /\ \A j \in 1 .. i - 1 : b[j].price < b[i].price
<1>2. \A i \in DOMAIN b : f[i] \in Nat /\ f[i] = b[i].price
  BY <1>1, ConstantsAssumption DEF Swap
<1>3. \E i \in DOMAIN b : AtTop(i)
  <2> DEFINE n == Len(b)
  <2>1. n \in Nat \ {0} /\ DOMAIN b = 1 .. n /\ \A i \in 1 .. n : f[i] \in Nat
    BY <1>1, <1>2
  <2> HIDE DEF n, f
  <2>2. PICK i \in 1 .. n : (\A j \in 1 .. n : f[j] <= f[i]) /\ \A j \in 1 .. i - 1 : f[j] < f[i]
    BY <2>1, MaxAt
  <2>3. \A j \in 1 .. i - 1 : j \in 1 .. n
    BY <2>1
  <2>4. QED
    BY <1>2, <2>1, <2>2, <2>3
<1> HIDE DEF f
<1>4. Peak(b) \in Swap
  <2> DEFINE top == CHOOSE i \in DOMAIN b : AtTop(i)
  <2>1. top \in DOMAIN b
    BY <1>3
  <2>2. Peak(b) = b[top]
    BY DEF Peak
  <2> HIDE DEF top
  <2>3. QED
    BY <1>1, <2>1, <2>2
<1>5. Peak(b).time \in Time /\ e.time \in Time
  BY <1>4 DEF Swap
<1>6. Running \in Failed .. MaxDips
  BY ConstantsAssumption DEF Running, Failed
<1>7. QED
  BY <1>5, <1>6 DEF NewDip, Dip

\* A swap keeps the types.
LEMMA TypesEvent ==
  ASSUME IInv, WinInv, TypesInv, NEW t \in Tokens, OnEvent(t)
  PROVE  TypesInv'
<1>1. PICK e \in Swap : OutOfScope(t, e) \/ Duplicate(t, e) \/ Ingest(t, e)
  BY DEF OnEvent
<1>2. DipTypes(dips, shadow) /\ SmallTypes /\ dips \in Seq(Dip) /\ now \in Time
  BY DEF TypesInv, DipTypes, WinInv, FeesOK
<1>3. SmallTypes'
  BY <1>1, <1>2 DEF OutOfScope, Duplicate, Ingest, SmallTypes
<1>4. shadow' = shadow
  BY <1>1 DEF OutOfScope, Duplicate, Ingest
<1>5. CASE OutOfScope(t, e) \/ Duplicate(t, e)
  <2>1. dips' = dips
    BY <1>5 DEF OutOfScope, Duplicate
  <2>2. QED
    BY <1>2, <1>3, <1>4, <2>1 DEF TypesInv
<1>6. CASE Ingest(t, e)
  <2> DEFINE gone == Gone(t)
             kept == DOMAIN buf \ gone
             old == IF t \in kept THEN buf[t] ELSE <<>>
             last == IF old = <<>> THEN e.time ELSE old[Len(old)].time
             b == Live(Append(old, e), e.time - RollingWindow)
             ds == DipsAfterEviction(gone)
  <2>1. /\ buf' = [u \in kept \cup {t} |-> IF u = t THEN b ELSE buf[u]]
        /\ Trigger(t, b, e, gone) \/ Recover(t, b, last, e) \/ StayAsIs(t, b, last, e, gone)
    BY <1>6 DEF Ingest
  <2>2. Window(b)
    <3>1. WindowsOK'
      BY <1>1, WinEvent DEF WinInv
    <3> HIDE DEF b, kept
    <3>2. t \in DOMAIN buf' /\ buf'[t] = b
      BY <2>1
    <3>3. QED
      BY <3>1, <3>2 DEF WindowsOK
  <2>3. /\ ds \in Seq(Dip) /\ Len(ds) = Len(dips) /\ DOMAIN ds = DOMAIN dips
        /\ \A i \in DOMAIN dips : ds[i].rid = dips[i].rid
    BY <1>2, EvictTyped
  <2> HIDE DEF b, old, kept, last, ds
  <2>4. CASE Trigger(t, b, e, gone)
    <3> DEFINE d == NewDip(t, b, e)
    <3>1. dips' = Append(ds, d) /\ Len(dips) < MaxDips
      BY <2>4 DEF Trigger, ds
    <3>2. d \in Dip
      BY <1>2, <2>2, BeginTyped
    <3> HIDE DEF d
    <3>3. /\ dips' \in Seq(Dip) /\ Len(dips') = Len(dips) + 1
          /\ DOMAIN dips' = 1 .. Len(dips) + 1 /\ DOMAIN dips = 1 .. Len(dips) /\ Len(dips) \in Nat
          /\ \A i \in 1 .. Len(dips) : dips'[i] = ds[i]
      BY <1>2, <2>3, <3>1, <3>2
    <3>4. Len(dips') <= MaxDips
      BY <3>1, <3>3, ConstantsAssumption
    <3>5. \A i \in DOMAIN dips : i \in DOMAIN dips' /\ dips'[i].rid = dips[i].rid
      BY <2>3, <3>3
    <3>6. Rowed(dips', shadow)
      BY <1>2, <3>5 DEF DipTypes, Rowed
    <3>7. QED
      BY <1>2, <1>3, <1>4, <3>3, <3>4, <3>6 DEF TypesInv, DipTypes
  <2>5. CASE Recover(t, b, last, e)
    <3>1. /\ dips' = EndDip(dips, t, e.time, EndReason(b, last, e))
          /\ t \in inDip /\ EndReason(b, last, e) \in {"gap", "recovered"}
      BY <2>5 DEF Recover, EndReason
    <3>2. pend[t] \in DOMAIN dips
      <4>1. pend[t] # 0 /\ pend[t] \in 0 .. Len(dips)
        BY <3>1 DEF IInv, Good, Bound, Shape
      <4>2. QED
        BY <1>2, <4>1
    <3>3. e.time \in Time
      BY DEF Swap
    <3>4. /\ dips' \in Seq(Dip) /\ Len(dips') = Len(dips) /\ DOMAIN dips' = DOMAIN dips
          /\ \A i \in DOMAIN dips : dips'[i].rid = dips[i].rid
      BY <1>2, <3>1, <3>2, <3>3, EndTyped
    <3>5. QED
      BY <1>2, <1>3, <1>4, <3>4 DEF TypesInv, DipTypes, Rowed
  <2>6. CASE StayAsIs(t, b, last, e, gone)
    <3>1. dips' = ds
      BY <2>6 DEF StayAsIs, ds
    <3>2. QED
      BY <1>2, <1>3, <1>4, <2>3, <3>1 DEF TypesInv, DipTypes, Rowed
  <2>7. QED
    BY <2>1, <2>4, <2>5, <2>6
<1>7. QED
  BY <1>1, <1>5, <1>6

\* A task does.
LEMMA TypesTask ==
  ASSUME IInv, TypesInv, TaskStep
  PROVE  TypesInv'
<1>1. /\ dips \in Seq(Dip) /\ Len(dips) <= MaxDips /\ shadow \in Seq(ShadowRow) /\ Rowed(dips, shadow)
      /\ SmallTypes /\ Rows(dips, shadow, faults)
  BY DEF TypesInv, DipTypes, IInv, Good
<1>2. PICK k \in DOMAIN dips :
        \/ Insert(k) \/ InsertFails(k) \/ WriteEnd(k) \/ WriteEndFails(k) \/ Decide(k) \/ DecideFails(k)
  BY DEF TaskStep
<1>3. SmallTypes'
  <2>1. UNCHANGED <<up, scope>>
    BY <1>2 DEF Insert, InsertFails, WriteEnd, WriteEndFails, Decide, DecideFails, Stable
  <2>2. faults' = faults \/ (faults' = faults + 1 /\ faults < MaxFaults)
    BY <1>2 DEF Insert, InsertFails, WriteEnd, WriteEndFails, Decide, DecideFails, Fault
  <2>3. QED
    BY <1>1, <2>1, <2>2, ConstantsAssumption DEF SmallTypes
<1>4. dips[k] \in Dip /\ dips[k].rid \in {Running, Failed} \cup 1 .. Len(shadow) /\ Len(shadow) \in Nat
  BY <1>1 DEF Rows, Waits
<1>5. ASSUME NEW d \in Dip, dips' = [dips EXCEPT ![k] = d], d.rid = dips[k].rid,
             shadow' \in Seq(ShadowRow), DOMAIN shadow' = DOMAIN shadow
      PROVE  TypesInv'
  <2>1. /\ dips' \in Seq(Dip) /\ Len(dips') = Len(dips) /\ DOMAIN dips' = DOMAIN dips
        /\ dips'[k] = d /\ \A i \in DOMAIN dips \ {k} : dips'[i] = dips[i]
    BY <1>1, <1>5, DipExcept
  <2>2. \A i \in DOMAIN dips : dips'[i].rid = dips[i].rid
    BY <1>5, <2>1
  <2>3. Rowed(dips', shadow')
    BY <1>1, <1>5, <2>1, <2>2 DEF Rowed
  <2>4. QED
    BY <1>1, <1>3, <1>5, <2>1, <2>3 DEF TypesInv, DipTypes
<1>6. CASE Insert(k)
  <2> DEFINE d == [dips[k] EXCEPT !.rid = Len(shadow) + 1]
             r == [tok |-> dips[k].tok, trig |-> dips[k].trig, end |-> NoEnd, decided |-> FALSE]
  <2>1. dips' = [dips EXCEPT ![k] = d] /\ shadow' = Append(shadow, r) /\ dips[k].rid = Running
    BY <1>6 DEF Insert
  <2>2. Len(shadow) + 1 <= Len(dips)
    BY <1>1, <2>1, FewerRows
  <2>3. Len(shadow) + 1 \in Failed .. MaxDips
    BY <1>1, <1>4, <2>2, ConstantsAssumption DEF Failed
  <2>4. d \in Dip /\ d.rid = Len(shadow) + 1
    <3> DEFINE n == Len(shadow) + 1
               old == dips[k]
    <3>1. n \in Failed .. MaxDips /\ old \in Dip
      BY <1>4, <2>3
    <3> HIDE DEF n, old
    <3>2. [old EXCEPT !.rid = n] \in Dip /\ [old EXCEPT !.rid = n].rid = n
      BY <3>1 DEF Dip
    <3>3. QED
      BY <3>2 DEF n, old
  <2>5. r \in ShadowRow
    BY <1>4 DEF Dip, ShadowRow
  <2> HIDE DEF d, r
  <2>6. shadow' \in Seq(ShadowRow) /\ DOMAIN shadow' = 1 .. Len(shadow) + 1 /\ DOMAIN shadow = 1 .. Len(shadow)
    BY <1>1, <2>1, <2>5
  <2>7. /\ dips' \in Seq(Dip) /\ Len(dips') = Len(dips) /\ DOMAIN dips' = DOMAIN dips
        /\ dips'[k] = d /\ \A i \in DOMAIN dips \ {k} : dips'[i] = dips[i]
    BY <1>1, <2>1, <2>4, DipExcept
  <2>8. Rowed(dips', shadow')
    <3>1. ASSUME NEW n \in DOMAIN shadow' PROVE \E i \in DOMAIN dips' : dips'[i].rid = n
      <4>1. CASE n = Len(shadow) + 1
        BY <2>4, <2>7, <4>1
      <4>2. CASE n # Len(shadow) + 1
        <5>1. n \in DOMAIN shadow /\ n # Running
          BY <1>4, <2>6, <3>1, <4>2, Codes
        <5>2. PICK i \in DOMAIN dips : dips[i].rid = n
          BY <1>1, <5>1 DEF Rowed
        <5>3. QED
          BY <2>1, <2>7, <5>1, <5>2
      <4>3. QED
        BY <4>1, <4>2
    <3>2. QED
      BY <3>1 DEF Rowed
  <2>9. QED
    BY <1>1, <1>3, <2>6, <2>7, <2>8 DEF TypesInv, DipTypes
<1>7. CASE InsertFails(k)
  <2> DEFINE d == [dips[k] EXCEPT !.rid = Failed]
  <2>1. dips' = [dips EXCEPT ![k] = d] /\ shadow' = shadow /\ dips[k].rid = Running
    BY <1>7 DEF InsertFails
  <2>2. d \in Dip
    <3>1. Failed \in Failed .. MaxDips
      BY ConstantsAssumption DEF Failed
    <3>2. QED
      BY <1>4, <3>1 DEF Dip
  <2> HIDE DEF d
  <2>3. /\ dips' \in Seq(Dip) /\ Len(dips') = Len(dips) /\ DOMAIN dips' = DOMAIN dips
        /\ dips'[k] = d /\ \A i \in DOMAIN dips \ {k} : dips'[i] = dips[i]
    BY <1>1, <2>1, <2>2, DipExcept
  <2>4. Rowed(dips', shadow)
    <3>1. ASSUME NEW n \in DOMAIN shadow PROVE \E i \in DOMAIN dips' : dips'[i].rid = n
      <4>1. PICK i \in DOMAIN dips : dips[i].rid = n
        BY <1>1 DEF Rowed
      <4>2. n # Running
        BY <1>1, Codes
      <4>3. QED
        BY <2>1, <2>3, <4>1, <4>2
    <3>2. QED
      BY <3>1 DEF Rowed
  <2>5. QED
    BY <1>1, <1>3, <2>1, <2>3, <2>4 DEF TypesInv, DipTypes
<1>8. ASSUME NEW r \in ShadowRow, NEW n \in DOMAIN shadow
      PROVE  [shadow EXCEPT ![n] = r] \in Seq(ShadowRow) /\ DOMAIN [shadow EXCEPT ![n] = r] = DOMAIN shadow
  <2>1. shadow \in [1 .. Len(shadow) -> ShadowRow] /\ DOMAIN shadow = 1 .. Len(shadow)
    BY <1>1
  <2>2. [shadow EXCEPT ![n] = r] \in [1 .. Len(shadow) -> ShadowRow]
    BY <2>1, <1>8
  <2>3. QED
    BY <1>4, <2>1, <2>2
<1>9. CASE WriteEnd(k) \/ WriteEndFails(k)
  <2> DEFINE d == [dips[k] EXCEPT !.ending = FALSE]
             row == dips[k].rid
             r == [shadow[row] EXCEPT !.end = dips[k].end]
  <2>1. /\ dips' = [dips EXCEPT ![k] = d]
        /\ shadow' = shadow \/ (row \notin {Running, Failed} /\ shadow' = [shadow EXCEPT ![row] = r])
    BY <1>9 DEF WriteEnd, WriteEndFails, RowOf
  <2>2. d \in Dip /\ d.rid = dips[k].rid
    BY <1>4 DEF Dip
  <2>3. row \notin {Running, Failed} => row \in DOMAIN shadow /\ r \in ShadowRow
    <3>1. row \notin {Running, Failed} => row \in DOMAIN shadow
      BY <1>1, <1>4
    <3>2. row \in DOMAIN shadow => shadow[row] \in ShadowRow /\ dips[k].end \in Ends \cup {NoEnd}
      BY <1>1, <1>4 DEF Dip
    <3> HIDE DEF row
    <3>3. row \in DOMAIN shadow => r \in ShadowRow
      BY <3>2 DEF ShadowRow
    <3>4. QED
      BY <3>1, <3>3
  <2> HIDE DEF d, r, row
  <2>4. QED
    BY <1>1, <1>5, <1>8, <2>1, <2>2, <2>3
<1>10. CASE Decide(k) \/ DecideFails(k)
  <2> DEFINE d == [dips[k] EXCEPT !.deciding = FALSE]
             row == dips[k].rid
             r == [shadow[row] EXCEPT !.decided = TRUE]
  <2>1. /\ dips' = [dips EXCEPT ![k] = d]
        /\ shadow' = shadow \/ (row \notin {Running, Failed} /\ shadow' = [shadow EXCEPT ![row] = r])
    BY <1>10 DEF Decide, DecideFails, RowOf
  <2>2. d \in Dip /\ d.rid = dips[k].rid
    BY <1>4 DEF Dip
  <2>3. row \notin {Running, Failed} => row \in DOMAIN shadow /\ r \in ShadowRow
    <3>1. row \notin {Running, Failed} => row \in DOMAIN shadow
      BY <1>1, <1>4
    <3>2. row \in DOMAIN shadow => shadow[row] \in ShadowRow
      BY <1>1
    <3> HIDE DEF row
    <3>3. row \in DOMAIN shadow => r \in ShadowRow
      BY <3>2 DEF ShadowRow
    <3>4. QED
      BY <3>1, <3>3
  <2> HIDE DEF d, r, row
  <2>4. QED
    BY <1>1, <1>5, <1>8, <2>1, <2>2, <2>3
<1>11. QED
  BY <1>2, <1>6, <1>7, <1>9, <1>10

\* The end of the process does.
LEMMA TypesCrash ==
  ASSUME WinInv, TypesInv, Crash
  PROVE  TypesInv'
<1> DEFINE ds == [i \in DOMAIN dips |-> Lost(dips[i])]
<1>1. /\ dips \in Seq(Dip) /\ Len(dips) <= MaxDips /\ shadow \in Seq(ShadowRow) /\ Rowed(dips, shadow)
      /\ SmallTypes /\ now \in Time
  BY DEF TypesInv, DipTypes, WinInv, FeesOK
<1>2. /\ dips' = ds /\ shadow' = shadow /\ scope' = scope /\ up' = FALSE
      /\ faults' = faults + 1 /\ faults < MaxFaults
  BY DEF Crash, Fault
<1>3. SmallTypes'
  <2>1. up' \in BOOLEAN
    BY <1>2
  <2>2. faults' \in 0 .. MaxFaults
    BY <1>1, <1>2, ConstantsAssumption DEF SmallTypes
  <2>3. QED
    BY <1>1, <1>2, <2>1, <2>2 DEF SmallTypes
<1>4. \A d \in Dip : Lost(d) \in Dip /\ (d.rid # Running => Lost(d).rid = d.rid)
  <2> TAKE d \in Dip
  <2>1. MakeEnd(now, "lost") \in Ends
    BY <1>1 DEF MakeEnd, Ends
  <2>2. Failed \in Failed .. MaxDips
    BY ConstantsAssumption DEF Failed
  <2> DEFINE rid == IF d.rid = Running THEN Failed ELSE d.rid
             end == IF d.end = NoEnd THEN MakeEnd(now, "lost") ELSE d.end
  <2>3. rid \in Failed .. MaxDips /\ end \in Ends \cup {NoEnd}
    BY <2>1, <2>2 DEF Dip
  <2>4. Lost(d) = [d EXCEPT !.rid = rid, !.end = end, !.ending = FALSE, !.deciding = FALSE]
    BY DEF Lost
  <2>5. d.rid # Running => rid = d.rid
    OBVIOUS
  <2> HIDE DEF rid, end
  <2>6. QED
    BY <2>3, <2>4, <2>5 DEF Dip
<1>5. ds \in [1 .. Len(dips) -> Dip] /\ Len(dips) \in Nat /\ DOMAIN dips = 1 .. Len(dips)
  BY <1>1, <1>4
<1>6. \A i \in DOMAIN dips : dips[i].rid # Running => ds[i].rid = dips[i].rid
  BY <1>1, <1>4
<1> HIDE DEF ds
<1>7. ds \in Seq(Dip) /\ Len(ds) = Len(dips) /\ DOMAIN ds = DOMAIN dips
  BY <1>5
<1>8. \A n \in DOMAIN shadow : n # Running
  BY <1>1, Codes
<1>9. Rowed(ds, shadow)
  BY <1>1, <1>6, <1>7, <1>8 DEF Rowed
<1>10. QED
  BY <1>1, <1>2, <1>3, <1>7, <1>9 DEF TypesInv, DipTypes

\* The types always hold.
LEMMA TypesAlways == Spec => []TypesInv
<1>1. Init => TypesInv
  <2> SUFFICES ASSUME Init PROVE TypesInv
    OBVIOUS
  <2>1. <<>> \in Seq(Dip) /\ <<>> \in Seq(ShadowRow) /\ Len(<<>>) = 0 /\ DOMAIN <<>> = {}
    BY EmptySeq
  <2>2. 0 <= MaxDips /\ 0 \in 0 .. MaxFaults
    BY ConstantsAssumption
  <2>3. QED
    BY <2>1, <2>2 DEF Init, TypesInv, SmallTypes, DipTypes, Rowed
<1>2. ASSUME IInv, WinInv, TypesInv, [Next]_vars
      PROVE  TypesInv'
  <2>1. CASE RefreshScope \/ Tick \/ Startup \/ UNCHANGED vars
    <3>1. UNCHANGED <<dips, shadow, faults>>
      BY <2>1 DEF RefreshScope, Tick, Startup, vars
    <3>2. up' \in BOOLEAN /\ scope' \subseteq Tokens
      BY <1>2, <2>1 DEF RefreshScope, Tick, Startup, vars, TypesInv, SmallTypes
    <3>3. QED
      BY <1>2, <3>1, <3>2 DEF TypesInv, SmallTypes
  <2>2. QED
    BY <1>2, <2>1, TypesEvent, TypesTask, TypesCrash DEF Next
<1>3. QED
  BY <1>1, <1>2, IInvAlways, WinAlways, PTL DEF Spec

\* The detector's dicts always speak of the same tokens, no more than the cap, and
\* the signatures kept are those of the window, one for each of its swaps: nothing
\* is counted twice, and nothing is refused for a swap that has left; the table has
\* no more rows than there were dips.
THEOREM FastDipWindowMirrored == Spec => []WindowMirrored
<1>1. ASSUME IInv, WinInv, TypesInv, ExactInv
      PROVE  WindowMirrored
  <2>1. TouchOK /\ WindowsOK /\ FeesOK /\ DipTypes(dips, shadow) /\ SmallTypes /\ Shape(dips, pend, inDip)
    BY <1>1 DEF WinInv, TypesInv, IInv, Good
  <2>2. Len(touch) = Cardinality(DOMAIN buf)
    BY <2>1, DistinctCounts DEF TouchOK
  <2>3. DOMAIN buf \subseteq Tokens /\ touch \in Seq(Tokens)
    BY <2>1 DEF TouchOK, Distinct, ToSet
  <2>4. ASSUME NEW t \in DOMAIN buf
        PROVE  /\ buf[t] \in Seq(Swap) /\ sigs[t] = SigsOf(buf[t])
               /\ sigs[t] \subseteq Time \X Keys /\ Cardinality(sigs[t]) = Len(buf[t])
    <3> DEFINE b == buf[t]
               n == Len(b)
               f == [i \in 1 .. n |-> Sig(b[i])]
    <3>1. Window(b) /\ sigs[t] = SigsOf(b)
      BY <2>1 DEF WindowsOK
    <3>2. b \in Seq(Swap) /\ n \in Nat /\ DOMAIN b = 1 .. n /\ \A i \in 1 .. n : b[i] \in Swap
      BY <3>1 DEF Window
    <3>3. \A i \in 1 .. n : Sig(b[i]) \in Time \X Keys
      BY <3>2 DEF Sig, Swap
    <3>4. \A i, j \in 1 .. n : f[i] = f[j] => i = j
      BY <3>1, <3>2 DEF Window
    <3>5. SigsOf(b) = {f[i] : i \in 1 .. n}
      BY <3>2 DEF SigsOf
    <3> HIDE DEF b, n, f
    <3>6. Cardinality(SigsOf(b)) = n
      <4>1. n \in Nat
        BY <3>2
      <4>2. IsFiniteSet({f[i] : i \in 1 .. n}) /\ Cardinality({f[i] : i \in 1 .. n}) = n
        BY <3>4, <4>1, Counted
      <4>3. QED
        BY <3>5, <4>2
    <3>7. SigsOf(b) \subseteq Time \X Keys
      BY <3>2, <3>3 DEF SigsOf
    <3>8. QED
      BY <3>1, <3>2, <3>6, <3>7 DEF b, n
  <2>5. Len(shadow) <= Len(dips)
    BY <2>1, FewerRows DEF DipTypes
  <2>6. TypeOK
    BY <1>1, <2>1, <2>3, <2>4, <2>5
       DEF TypeOK, TouchOK, FeesOK, DipTypes, SmallTypes, Shape, ExactInv
  <2>7. QED
    BY <2>1, <2>2, <2>4, <2>6 DEF WindowMirrored, TouchOK
<1>2. QED
  BY <1>1, IInvAlways, WinAlways, TypesAlways, ExactAlways, PTL
=============================================================================

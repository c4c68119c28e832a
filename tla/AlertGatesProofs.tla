-------------------------- MODULE AlertGatesProofs --------------------------
(***************************************************************************)
(* What the gates guarantee for every set of holders and balances, every   *)
(* state of the fee table, any number of tiers and however many faults.    *)
(***************************************************************************)
EXTENDS AlertGates, TLAPS, FiniteSetTheorems, WellFoundedInduction

\* What a pass has decided so far: past the gate, unless the gate raised, its
\* score carries no blocking label, and no worse score is logged; a pass runs
\* only with no cooldown, till it sets one.
PassInv ==
  /\ pc # "idle" => tier \in Tiers
  /\ pc \in {"ghost", "snapshot", "log", "verdict", "send"} /\ ~failedOpen =>
       score # -1 /\ LabelOf(score) \notin BlockLabels
  /\ pc \notin {"idle", "fees"} /\ score # -1 => worst <= score
  /\ pc \notin {"idle", "record"} => cool = 0
  /\ row => pc \in {"verdict", "cooldown", "record", "send"}
  /\ pc = "cooldown" => ghost = "block"

\* The pass that logged a blocking verdict is about to set its cooldown.
Suppressing == pc \in {"verdict", "cooldown"} /\ ghost = "block" /\ row

\* Else the cooldown of a verdict lasts at least as long as the verdict, unless
\* it was lost; without a fault a pass suppresses on a verdict of its own.
CooldownInv ==
  /\ newest.verdict = "block" /\ ~unsaved /\ ~Suppressing => CacheTtl <= newest.age + cool
  /\ faults = 0 =>
       /\ ~unsaved
       /\ pc \in {"verdict", "cooldown"} /\ ghost = "block" => row /\ newest.verdict = "block"
       /\ pc = "cooldown" => newest.marked

IInv ==
  /\ TypeOK /\ PassInv /\ CooldownInv /\ CooldownExplained
  /\ unlogged <= withheld /\ BlocksAccountedFor

-----------------------------------------------------------------------------
(* Finite sets. *)

\* Induction over a finite set, as a statement about a set of its subsets.
LEMMA SetInduct ==
  ASSUME NEW S, IsFiniteSet(S), NEW Good \in SUBSET SUBSET S, {} \in Good,
         \A T \in SUBSET S : T # {} /\ (\A x \in T : T \ {x} \in Good) => T \in Good
  PROVE  Good = SUBSET S
<1> DEFINE Bad == (SUBSET S) \ Good
<1>1. SUFFICES ASSUME Bad # {} PROVE FALSE
  OBVIOUS
<1>2. IsWellFoundedOn(StrictSubsetOrdering(S), FiniteSubsetsOf(S))
  BY FS_StrictSubsetOrderingWellFounded
<1>3. Bad \subseteq FiniteSubsetsOf(S)
  BY FS_Subset DEF FiniteSubsetsOf
<1>4. PICK T \in Bad : \A U \in Bad : ~ (<<U, T>> \in StrictSubsetOrdering(S))
  <2> HIDE DEF Bad
  <2>1. QED
    BY <1>1, <1>2, <1>3, WFMin
<1>5. ASSUME NEW x \in T PROVE T \ {x} \in Good
  <2>1. T \ {x} \in SUBSET S /\ T \in SUBSET S /\ T \ {x} # T
    BY <1>5
  <2>2. <<T \ {x}, T>> \in StrictSubsetOrdering(S)
    BY <2>1 DEF StrictSubsetOrdering
  <2>3. QED
    BY <1>4, <2>1, <2>2
<1>6. T # {}
  BY <1>4
<1>7. QED
  BY <1>4, <1>5, <1>6

\* The units of a function of naturals: as many for each key as its value.
Units(f, s) == {p \in s \X Nat : p[2] \in 1 .. f[p[1]]}

\* The units of a set of keys are finitely many: those of one key and of the rest.
LEMMA UnitsFacts ==
  ASSUME NEW K, IsFiniteSet(K), NEW n \in Nat, NEW f \in [K -> 0 .. n], NEW s \in SUBSET K
  PROVE  /\ IsFiniteSet(Units(f, s)) /\ Cardinality(Units(f, s)) \in Nat
         /\ Units(f, {}) = {}
         /\ \A x \in s : Cardinality(Units(f, s)) = f[x] + Cardinality(Units(f, s \ {x}))
<1>1. ASSUME NEW t \in SUBSET K
      PROVE  IsFiniteSet(Units(f, t)) /\ Cardinality(Units(f, t)) \in Nat
  <2>1. IsFiniteSet(K \X (1 .. n))
    <3>1. IsFiniteSet(1 .. n)
      BY FS_Interval
    <3>2. QED
      BY <3>1, FS_Product
  <2>2. Units(f, t) \in SUBSET (K \X (1 .. n))
    BY DEF Units
  <2>3. QED
    BY <2>1, <2>2, FS_Subset, FS_CardinalityType
<1>2. ASSUME NEW x \in s
      PROVE  Cardinality(Units(f, s)) = f[x] + Cardinality(Units(f, s \ {x}))
  <2> DEFINE own == {x} \X (1 .. f[x])
  <2>1. IsFiniteSet(own) /\ Cardinality(own) = f[x] /\ f[x] \in Nat
    <3>1. f[x] \in Nat
      OBVIOUS
    <3>2. IsFiniteSet(1 .. f[x]) /\ Cardinality(1 .. f[x]) = f[x]
      <4>1. ASSUME NEW m \in Nat PROVE IsFiniteSet(1 .. m) /\ Cardinality(1 .. m) = m
        <5>1. 1 \in Int /\ m \in Int /\ (IF 1 > m THEN 0 ELSE m - 1 + 1) = m
          OBVIOUS
        <5>2. QED
          BY <5>1, FS_Interval
      <4>2. QED
        BY <3>1, <4>1
    <3>3. IsFiniteSet({x}) /\ Cardinality({x}) = 1
      BY FS_Singleton
    <3>4. ASSUME NEW T, IsFiniteSet(T)
          PROVE  IsFiniteSet({x} \X T) /\ Cardinality({x} \X T) = Cardinality({x}) * Cardinality(T)
      BY <3>3, <3>4, FS_Product
    <3>5. IsFiniteSet(own) /\ Cardinality(own) = 1 * f[x]
      BY <3>2, <3>3, <3>4
    <3>6. QED
      BY <3>1, <3>5
  <2>2. Units(f, s) = own \cup Units(f, s \ {x}) /\ own \cap Units(f, s \ {x}) = {}
    BY DEF Units
  <2>3. IsFiniteSet(Units(f, s \ {x})) /\ Cardinality(Units(f, s \ {x})) \in Nat
    BY <1>1
  <2> HIDE DEF own
  <2>4. Cardinality(own \cup Units(f, s \ {x}))
          = Cardinality(own) + Cardinality(Units(f, s \ {x})) - Cardinality({})
    <3> HIDE DEF Units
    <3>1. Cardinality(own \cup Units(f, s \ {x}))
            = Cardinality(own) + Cardinality(Units(f, s \ {x}))
                - Cardinality(own \cap Units(f, s \ {x}))
      BY <2>1, <2>3, FS_Union
    <3>2. QED
      BY <2>2, <3>1
  <2>5. QED
    BY <2>1, <2>2, <2>3, <2>4, FS_EmptySet
<1>3. Units(f, {}) = {}
  BY DEF Units
<1>4. QED
  BY <1>1, <1>2, <1>3

\* The units of all keys are those of one and of the others.
LEMMA UnitsTotal ==
  ASSUME NEW K, IsFiniteSet(K), NEW n \in Nat, NEW f \in [K -> 0 .. n], NEW k \in K
  PROVE  Cardinality(Units(f, K)) = f[k] + Cardinality(Units(f, K \ {k}))
BY UnitsFacts

\* The sum that BlocksAccountedFor takes.
SumOf(f) == MapThenSumSet(LAMBDA k : f[k], DOMAIN f)

\* It counts the units.
LEMMA SumCounts ==
  ASSUME NEW K, IsFiniteSet(K), NEW n \in Nat, NEW f \in [K -> 0 .. n]
  PROVE  SumOf(f) = Cardinality(Units(f, K))
<1> DEFINE some(s) == CHOOSE x \in s : TRUE
           Iter(h) == h = [s \in SUBSET K |->
                             IF s = {} THEN 0 ELSE f[some(s)] + h[s \ {some(s)}]]
           card == [s \in SUBSET K |-> Cardinality(Units(f, s))]
           g == CHOOSE h : Iter(h)
<1>1. SumOf(f) = g[K]
  BY DEF SumOf, MapThenSumSet, MapThenFoldSet
<1>2. \A s \in SUBSET K : s # {} => some(s) \in s
  OBVIOUS
<1> HIDE DEF some
<1>3. ASSUME NEW s \in SUBSET K
      PROVE  card[s] = IF s = {} THEN 0 ELSE f[some(s)] + card[s \ {some(s)}]
  <2>1. CASE s = {}
    BY <2>1, UnitsFacts, FS_EmptySet
  <2>2. CASE s # {}
    <3>1. some(s) \in s /\ s \ {some(s)} \in SUBSET K
      BY <1>2, <2>2
    <3>2. Cardinality(Units(f, s)) = f[some(s)] + Cardinality(Units(f, s \ {some(s)}))
      BY <3>1, UnitsFacts
    <3>3. QED
      BY <2>2, <3>1, <3>2
  <2>3. QED
    BY <2>1, <2>2
<1>4. Iter(card)
  BY <1>3
<1>5. Iter(g)
  <2> HIDE DEF card, Iter
  <2>1. QED
    BY <1>4
<1> HIDE DEF g
<1>6. \A s \in SUBSET K : g[s] = IF s = {} THEN 0 ELSE f[some(s)] + g[s \ {some(s)}]
  BY <1>5
<1> DEFINE Good == {s \in SUBSET K : g[s] = card[s]}
<1>7. {} \in Good
  BY <1>3, <1>6
<1>8. ASSUME NEW s \in SUBSET K, s # {}, \A x \in s : s \ {x} \in Good
      PROVE  s \in Good
  <2> HIDE DEF card
  <2>1. some(s) \in s
    BY <1>2, <1>8
  <2>2. g[s \ {some(s)}] = card[s \ {some(s)}]
    BY <1>8, <2>1
  <2>3. QED
    BY <1>3, <1>6, <1>8, <2>2
<1>9. Good = SUBSET K
  <2>1. Good \in SUBSET SUBSET K
    OBVIOUS
  <2> HIDE DEF Good
  <2>2. QED
    BY <1>7, <1>8, <2>1, SetInduct
<1>10. QED
  BY <1>1, <1>9

\* One more for a key is one more in the sum.
LEMMA SumMore ==
  ASSUME NEW K, IsFiniteSet(K), NEW n \in Nat, NEW f \in [K -> 0 .. n], NEW h \in [K -> 0 .. n],
         NEW k \in K, h[k] = f[k] + 1, \A j \in K \ {k} : h[j] = f[j]
  PROVE  SumOf(h) = SumOf(f) + 1
<1>2. Units(h, K \ {k}) = Units(f, K \ {k})
  BY DEF Units
<1>3. /\ Cardinality(Units(f, K \ {k})) \in Nat /\ Cardinality(Units(f, K)) \in Nat
      /\ Cardinality(Units(f, K)) = f[k] + Cardinality(Units(f, K \ {k}))
  BY UnitsFacts
<1>4. Cardinality(Units(h, K)) = h[k] + Cardinality(Units(h, K \ {k}))
  BY UnitsTotal
<1>5. f[k] \in Nat
  OBVIOUS
<1>6. Cardinality(Units(h, K)) = Cardinality(Units(f, K)) + 1
  BY <1>2, <1>3, <1>4, <1>5
<1>7. SumOf(f) = Cardinality(Units(f, K)) /\ SumOf(h) = Cardinality(Units(h, K))
  BY SumCounts
<1>8. QED
  BY <1>6, <1>7

\* Disjoint sets of two or more have at least two elements each in their union.
LEMMA PairsCount ==
  ASSUME NEW C, IsFiniteSet(C),
         \A c \in C : IsFiniteSet(c) /\ Cardinality(c) >= 2,
         \A c, d \in C : c # d => c \cap d = {}
  PROVE  /\ Cardinality(C) \in Nat /\ Cardinality(UNION C) \in Nat
         /\ Cardinality(UNION C) >= 2 * Cardinality(C)
<1> DEFINE Good == {D \in SUBSET C : Cardinality(UNION D) >= 2 * Cardinality(D)}
<1>1. ASSUME NEW D \in SUBSET C
      PROVE  /\ IsFiniteSet(D) /\ IsFiniteSet(UNION D)
             /\ Cardinality(D) \in Nat /\ Cardinality(UNION D) \in Nat
  <2>1. IsFiniteSet(D)
    BY FS_Subset
  <2>2. IsFiniteSet(UNION D)
    BY <2>1, FS_UNION
  <2>3. QED
    BY <2>1, <2>2, FS_CardinalityType
<1>2. {} \in Good
  <2>1. UNION {} = {} /\ Cardinality({}) = 0
    BY FS_EmptySet
  <2>2. QED
    BY <2>1
<1>3. ASSUME NEW D \in SUBSET C, D # {}, \A x \in D : D \ {x} \in Good
      PROVE  D \in Good
  <2>1. PICK c \in D : TRUE
    BY <1>3
  <2> DEFINE E == D \ {c}
  <2>2. UNION D = c \cup UNION E /\ c \cap UNION E = {}
    OBVIOUS
  <2>3. Cardinality(D) = Cardinality(E) + 1
    <3>1. Cardinality(E) = Cardinality(D) - 1
      BY <1>1, <2>1, FS_RemoveElement
    <3>2. Cardinality(D) \in Nat
      BY <1>1
    <3> HIDE DEF E
    <3>3. QED
      BY <3>1, <3>2
  <2>4. Cardinality(UNION E) >= 2 * Cardinality(E) /\ E \in SUBSET C
    BY <1>3
  <2>5. IsFiniteSet(c) /\ Cardinality(c) >= 2 /\ Cardinality(c) \in Nat
    BY FS_CardinalityType
  <2> HIDE DEF E
  <2>6. Cardinality(c \cup UNION E)
          = Cardinality(c) + Cardinality(UNION E) - Cardinality(c \cap UNION E)
    BY <1>1, <2>4, <2>5, FS_Union
  <2>7. Cardinality(c \cap UNION E) = 0
    BY <2>2, FS_EmptySet
  <2>8. Cardinality(UNION D) = Cardinality(c) + Cardinality(UNION E)
    <3>1. Cardinality(UNION E) \in Nat
      BY <1>1, <2>4
    <3>2. \A i, j, m \in Nat : m = 0 => i + j - m = i + j
      OBVIOUS
    <3>3. Cardinality(c \cup UNION E) = Cardinality(c) + Cardinality(UNION E)
      BY <2>5, <2>6, <2>7, <3>1, <3>2
    <3>4. QED
      BY <2>2, <3>3
  <2>9. QED
    <3>1. Cardinality(E) \in Nat /\ Cardinality(UNION E) \in Nat
      BY <1>1, <2>4
    <3>2. Cardinality(UNION D) >= 2 * Cardinality(D)
      BY <2>3, <2>4, <2>5, <2>8, <3>1
    <3>3. QED
      BY <3>2
<1>4. Good = SUBSET C
  <2>1. Good \in SUBSET SUBSET C
    OBVIOUS
  <2> HIDE DEF Good
  <2>2. QED
    BY <1>2, <1>3, <2>1, SetInduct
<1>5. QED
  BY <1>1, <1>4
-----------------------------------------------------------------------------
(* The type invariant. *)

\* The constants are numbers, ordered as the code has them.
LEMMA Bounds ==
  /\ MaxRetries \in Nat \ {0} /\ Limit \in Nat \ {0} /\ LargestMax \in Nat \ {0}
  /\ IsFiniteSet(Accounts)
  /\ CacheTtl \in Nat /\ Cooldown \in Nat /\ CountMax \in Nat /\ MaxFaults \in Nat
  /\ CacheTtl <= Cooldown /\ CountMax > 0
  /\ IsFiniteSet(Tiers) /\ Max(Tiers) \in Nat
  /\ \A t \in Tiers : t \in Nat /\ t > 0 /\ t <= Max(Tiers)
<1>1. /\ MaxRetries \in Nat \ {0} /\ Limit \in Nat \ {0} /\ LargestMax \in Nat \ {0}
      /\ IsFiniteSet(Accounts)
      /\ CacheTtl \in Nat /\ Cooldown \in Nat /\ CountMax \in Nat /\ MaxFaults \in Nat
      /\ CacheTtl <= Cooldown /\ CountMax > 0
  BY HolderSnapshotAssumption, AlertGatesAssumption
<1> DEFINE n == Cardinality(Tiers)
<1>2. n \in Nat /\ Tiers = 1 .. n /\ Tiers # {}
  BY AlertGatesAssumption, FS_CardinalityType
<1> HIDE DEF n
<1>3. n \in Tiers /\ \A y \in Tiers : n >= y
  BY <1>2
<1>4. \A x \in Tiers : (\A y \in Tiers : x >= y) => x = n
  BY <1>2, <1>3
<1>5. Max(Tiers) = n
  BY <1>3, <1>4 DEF Max
<1>6. IsFiniteSet(Tiers)
  BY AlertGatesAssumption
<1>7. QED
  BY <1>1, <1>2, <1>5, <1>6

\* The smaller of two numbers.
LEMMA MinOfTwo ==
  ASSUME NEW a \in Nat, NEW b \in Nat
  PROVE  Min({a, b}) \in {a, b} /\ Min({a, b}) <= a /\ Min({a, b}) <= b
BY DEF Min

\* The accounts that a provider keeps.
LEMMA TopAccountsFacts ==
  ASSUME NEW S \in SUBSET Accounts, NEW n \in Nat, NEW T \in TopAccounts(S, n)
  PROVE  T \subseteq Accounts /\ Cardinality(T) \in Nat /\ Cardinality(T) <= n
<1> DEFINE full == {a \in S : a.amount > 0}
<1>1. IsFiniteSet(full) /\ Cardinality(full) \in Nat
  <2>1. full \in SUBSET Accounts
    OBVIOUS
  <2> HIDE DEF full
  <2>2. QED
    BY <2>1, Bounds, FS_Subset, FS_CardinalityType
<1>2. T \in SUBSET full /\ Cardinality(T) = Min({n, Cardinality(full)})
  BY DEF TopAccounts, Largest
<1>3. full \subseteq Accounts
  OBVIOUS
<1> HIDE DEF full
<1>4. QED
  BY <1>1, <1>2, <1>3, MinOfTwo

\* The snapshot keeps its types.
LEMMA SnapTypeStep ==
  ASSUME SnapTypeOK, Start \/ SnapOff \/ SnapNext \/ UNCHANGED snapVars
  PROVE  SnapTypeOK'
<1> USE Bounds DEF SnapTypeOK, Phases, Statuses, snapVars
<1>1. Cardinality({}) = 0
  BY FS_EmptySet
<1>2. ASSUME NEW accounts \in SUBSET Accounts, NEW source \in {"helius_das", "helius_rpc_fallback"},
             Cardinality(accounts) <= Limit, Holders(accounts, source)
      PROVE  SnapTypeOK'
  BY <1>2 DEF Holders
<1>3. CASE Start \/ SnapOff
  BY <1>1, <1>3 DEF Start, SnapOff
<1>4. CASE AttemptFails
  BY <1>4 DEF AttemptFails
<1>5. ASSUME NEW S \in SUBSET Accounts, PrimaryAnswers(S) PROVE SnapTypeOK'
  <2>1. PICK top \in TopAccounts(S, Limit) : Holders(top, "helius_das")
    BY <1>5 DEF PrimaryAnswers
  <2>2. top \in SUBSET Accounts /\ Cardinality(top) <= Limit
    BY TopAccountsFacts
  <2>3. QED
    BY <1>2, <2>1, <2>2
<1>6. CASE FallbackAnswers
  <2> DEFINE most == Min({Limit, LargestMax})
  <2>1. most \in Nat /\ most <= Limit
    BY MinOfTwo
  <2>2. Accounts \in SUBSET Accounts
    OBVIOUS
  <2> HIDE DEF most
  <2>3. raw' \subseteq Accounts /\ Cardinality(raw') \in Nat /\ Cardinality(raw') <= most
    BY <1>6, <2>1, <2>2, TopAccountsFacts DEF FallbackAnswers, most
  <2>4. Cardinality(raw') <= Limit
    BY <2>1, <2>3
  <2>5. QED
    BY <1>6, <2>3, <2>4 DEF FallbackAnswers
<1>7. CASE PrimaryFails \/ FallbackFails
  BY <1>7 DEF PrimaryFails, FallbackFails, GivesUp
<1>8. CASE OwnersResolved
  BY <1>2, <1>8 DEF OwnersResolved
<1>9. CASE OwnersFail
  BY <1>1, <1>2, <1>9 DEF OwnersFail
<1>10. CASE BalancesFail \/ SupplyAnswers \/ SupplyFails
  BY <1>10 DEF BalancesFail, SupplyAnswers, SupplyFails, GivesUp, AllUnknown, Owners
<1>11. ASSUME NEW view \in BalanceViews, BalancesAnswer(view) PROVE SnapTypeOK'
  BY <1>11 DEF BalancesAnswer, AllUnknown, Owners
<1>12. CASE UNCHANGED snapVars
  BY <1>12
<1>13. QED
  BY <1>3, <1>4, <1>5, <1>6, <1>7, <1>8, <1>9, <1>10, <1>11, <1>12 DEF SnapNext

\* What the gates add to it, in parts.
RowTypeOK == last \in 0 .. Max(Tiers) /\ status \in {"live", "blocked"} /\ cool \in 0 .. Cooldown
LogTypeOK ==
  /\ worst \in 0 .. 6 /\ blocks \in [Tiers \X Reasons -> 0 .. CountMax]
  /\ newest \in [verdict : {"none", "pass", "caution", "block"}, age : 0 .. CacheTtl, marked : BOOLEAN]
PassTypeOK ==
  /\ pc \in Steps /\ tier \in {0} \cup Tiers /\ since \in 0 .. CacheTtl /\ score \in -1 .. 6
  /\ ghost \in {"none", "pass", "caution", "block"}
FlagTypeOK == failedOpen \in BOOLEAN /\ row \in BOOLEAN /\ unsaved \in BOOLEAN
CountTypeOK ==
  /\ withheld \in 0 .. CountMax /\ unlogged \in 0 .. CountMax /\ openLogged \in 0 .. CountMax
  /\ faults \in 0 .. MaxFaults
GateTypeOK == RowTypeOK /\ LogTypeOK /\ PassTypeOK /\ FlagTypeOK /\ CountTypeOK

\* The type invariant, in its parts.
LEMMA TypeParts ==
  /\ TypeOK <=> SnapTypeOK /\ GateTypeOK
  /\ TypeOK' <=> SnapTypeOK' /\ GateTypeOK'
BY DEF TypeOK, GateTypeOK, RowTypeOK, LogTypeOK, PassTypeOK, FlagTypeOK, CountTypeOK

\* A score is at most 3 + 2 + 1 and never below the history.
LEMMA ScoreFacts ==
  ASSUME GateTypeOK, NEW f \in FeeTables
  PROVE  /\ EnforceSticky(ScoreFees(f)) \in 0 .. 6
         /\ worst <= EnforceSticky(ScoreFees(f))
         /\ Max({worst, EnforceSticky(ScoreFees(f))}) = EnforceSticky(ScoreFees(f))
<1>1. ScoreFees(f) \in 0 .. 6
  BY DEF ScoreFees, Points
<1> DEFINE s == EnforceSticky(ScoreFees(f))
<1>2. s \in 0 .. 6 /\ worst <= s /\ worst \in 0 .. 6
  BY <1>1 DEF EnforceSticky, GateTypeOK, LogTypeOK
<1> HIDE DEF s
<1>3. Max({worst, s}) = s
  BY <1>2 DEF Max
<1>4. QED
  BY <1>2, <1>3 DEF s

\* One row more for a key, up to the bound of the count.
LEMMA LoggedFacts ==
  ASSUME GateTypeOK, NEW t \in Tiers, NEW reason \in Reasons, Logged(t, reason)
  PROVE  /\ blocks' \in [Tiers \X Reasons -> 0 .. CountMax]
         /\ <<t, reason>> \in Tiers \X Reasons
         /\ blocks[<<t, reason>>] < CountMax =>
              blocks' = [blocks EXCEPT ![<<t, reason>>] = blocks[<<t, reason>>] + 1]
         /\ \A k \in Tiers \X Reasons : blocks[k] <= blocks'[k]
<1> DEFINE k == <<t, reason>>
<1>1. k \in Tiers \X Reasons /\ blocks' = [blocks EXCEPT ![k] = More(blocks[k])]
  BY DEF Logged
<1>2. blocks \in [Tiers \X Reasons -> 0 .. CountMax]
  BY DEF GateTypeOK, LogTypeOK
<1> HIDE DEF k
<1>3. More(blocks[k]) \in 0 .. CountMax /\ blocks[k] <= More(blocks[k])
      /\ (blocks[k] < CountMax => More(blocks[k]) = blocks[k] + 1)
  BY <1>1, <1>2, Bounds DEF More
<1>4. /\ blocks' \in [Tiers \X Reasons -> 0 .. CountMax]
      /\ blocks'[k] = More(blocks[k])
      /\ \A j \in (Tiers \X Reasons) \ {k} : blocks'[j] = blocks[j]
  BY <1>1, <1>2, <1>3
<1>5. \A j \in Tiers \X Reasons : blocks[j] <= blocks'[j]
  <2>1. ASSUME NEW j \in Tiers \X Reasons PROVE blocks[j] <= blocks'[j]
    <3>1. blocks[j] \in Nat
      BY <1>2
    <3>2. QED
      BY <1>3, <1>4, <3>1
  <2>2. QED
    BY <2>1
<1>6. blocks[k] < CountMax => blocks' = [blocks EXCEPT ![k] = blocks[k] + 1]
  BY <1>1, <1>3
<1>7. QED
  BY <1>1, <1>4, <1>5, <1>6 DEF k

\* The reasons that a block is logged under.
LEMMA ReasonFacts ==
  /\ LabelOf(score) \in Labels
  /\ score # -1 => Reason \in Reasons
  /\ "no_fee_data" \in Reasons /\ "ghost_block" \in Reasons
BY DEF LabelOf, Labels, Reason, Reasons

\* Counting up to the bound.
LEMMA MoreFacts ==
  ASSUME NEW n \in 0 .. CountMax
  PROVE  More(n) \in 0 .. CountMax /\ n <= More(n) /\ (n < CountMax => More(n) = n + 1)
BY Bounds DEF More

\* A step keeps the types, of a pass in hand too.
LEMMA GateTypeStep ==
  ASSUME TypeOK, PassInv, [Next]_vars
  PROVE  GateTypeOK'
<1>1. SnapTypeOK /\ GateTypeOK
  BY TypeParts
<1>0. /\ More(withheld) \in 0 .. CountMax /\ More(unlogged) \in 0 .. CountMax
      /\ More(openLogged) \in 0 .. CountMax
  BY <1>1, MoreFacts DEF GateTypeOK, CountTypeOK
<1> USE <1>0, <1>1, Bounds DEF GateTypeOK, RowTypeOK, LogTypeOK, PassTypeOK, FlagTypeOK, CountTypeOK
<1> USE DEF Steps, NoPass, Fault, rowVars, passVars, counts, gateUnchanged, gateVars, snapVars
<1>2. ASSUME NEW t \in Tiers, Begin(t) PROVE GateTypeOK'
  BY <1>2 DEF Begin
<1>3. ASSUME NEW f \in FeeTables, NoEvaluation(f) PROVE GateTypeOK'
  BY <1>3 DEF NoEvaluation
<1>4. ASSUME NEW f \in FeeTables, Evaluation(f) PROVE GateTypeOK'
  BY <1>4, ScoreFacts DEF Evaluation
<1>5. CASE GateAllows
  BY <1>5 DEF GateAllows
<1>6. CASE GateWithholds
  <2>1. RowTypeOK'
    BY <1>6 DEF GateWithholds, Withholds
  <2>2. LogTypeOK'
    <3>1. tier \in Tiers /\ Logged(tier, "no_fee_data")
      BY <1>6 DEF GateWithholds, PassInv
    <3>2. blocks' \in [Tiers \X Reasons -> 0 .. CountMax]
      BY <3>1, LoggedFacts, ReasonFacts
    <3>3. QED
      BY <1>6, <3>2 DEF GateWithholds
  <2>3. PassTypeOK'
    BY <1>6 DEF GateWithholds, Withholds
  <2>4. FlagTypeOK'
    BY <1>6 DEF GateWithholds, Withholds
  <2>5. CountTypeOK'
    BY <1>6 DEF GateWithholds, Withholds
  <2>6. QED
    BY <2>1, <2>2, <2>3, <2>4, <2>5
<1>7. CASE GateLogs
  BY <1>7, LoggedFacts, ReasonFacts DEF GateLogs, PassInv
<1>8. CASE GateMarks
  <2>1. RowTypeOK'
    BY <1>8 DEF GateMarks, Withholds
  <2>2. LogTypeOK'
    BY <1>8 DEF GateMarks, Withholds
  <2>3. PassTypeOK'
    BY <1>8 DEF GateMarks, Withholds
  <2>4. FlagTypeOK'
    BY <1>8 DEF GateMarks, Withholds
  <2>5. CountTypeOK'
    BY <1>8 DEF GateMarks, Withholds
  <2>6. QED
    BY <2>1, <2>2, <2>3, <2>4, <2>5
<1>9. CASE GateRaises
  BY <1>9 DEF GateRaises
<1>10. CASE UseCached
  BY <1>10 DEF UseCached
<1>11. CASE TakeSnapshot
  BY <1>11 DEF TakeSnapshot
<1>12. CASE SnapshotStep
  BY <1>12 DEF SnapshotStep
<1>13. CASE Evaluate
  BY <1>13 DEF Evaluate, Verdict
<1>14. CASE LogVerdict
  <2>1. RowTypeOK'
    BY <1>14 DEF LogVerdict
  <2>2. LogTypeOK'
    <3>1. [verdict |-> ghost, age |-> since, marked |-> FALSE]
            \in [verdict : {"none", "pass", "caution", "block"}, age : 0 .. CacheTtl, marked : BOOLEAN]
      OBVIOUS
    <3> DEFINE logged == [verdict |-> ghost, age |-> since, marked |-> FALSE]
    <3>2. newest' = logged \/ UNCHANGED newest
      BY <1>14 DEF LogVerdict
    <3> HIDE DEF logged
    <3>3. newest' \in [verdict : {"none", "pass", "caution", "block"}, age : 0 .. CacheTtl, marked : BOOLEAN]
      BY <3>1, <3>2 DEF logged
    <3>4. UNCHANGED <<worst, blocks>>
      BY <1>14 DEF LogVerdict
    <3>5. QED
      BY <3>3, <3>4
  <2>3. PassTypeOK'
    BY <1>14 DEF LogVerdict
  <2>4. FlagTypeOK'
    BY <1>14 DEF LogVerdict
  <2>5. CountTypeOK'
    BY <1>14 DEF LogVerdict
  <2>6. QED
    BY <2>1, <2>2, <2>3, <2>4, <2>5
<1>15. CASE GhostPasses
  BY <1>15 DEF GhostPasses
<1>16. CASE Suppress
  BY <1>16 DEF Suppress
<1>17. CASE CoolDown
  <2>1. RowTypeOK'
    BY <1>17 DEF CoolDown
  <2>2. LogTypeOK'
    BY <1>17 DEF CoolDown
  <2>3. PassTypeOK'
    BY <1>17 DEF CoolDown
  <2>4. FlagTypeOK'
    BY <1>17 DEF CoolDown
  <2>5. CountTypeOK'
    BY <1>17 DEF CoolDown
  <2>6. QED
    BY <2>1, <2>2, <2>3, <2>4, <2>5
<1>18. CASE RecordBlock
  <2>1. RowTypeOK'
    BY <1>18 DEF RecordBlock
  <2>2. LogTypeOK'
    BY <1>18, LoggedFacts, ReasonFacts DEF RecordBlock, PassInv
  <2>3. PassTypeOK'
    BY <1>18 DEF RecordBlock
  <2>4. FlagTypeOK'
    BY <1>18 DEF RecordBlock
  <2>5. CountTypeOK'
    BY <1>18 DEF RecordBlock
  <2>6. QED
    BY <2>1, <2>2, <2>3, <2>4, <2>5
<1>19. CASE SendAlert
  <2>1. RowTypeOK'
    BY <1>19 DEF SendAlert
  <2>2. LogTypeOK'
    BY <1>19 DEF SendAlert
  <2>3. PassTypeOK'
    BY <1>19 DEF SendAlert
  <2>4. FlagTypeOK'
    BY <1>19 DEF SendAlert
  <2>5. CountTypeOK'
    BY <1>19 DEF SendAlert
  <2>6. QED
    BY <2>1, <2>2, <2>3, <2>4, <2>5
<1>20. CASE SendFails
  <2>1. RowTypeOK'
    BY <1>20 DEF SendFails
  <2>2. LogTypeOK'
    BY <1>20 DEF SendFails
  <2>3. PassTypeOK'
    BY <1>20 DEF SendFails
  <2>4. FlagTypeOK'
    BY <1>20 DEF SendFails
  <2>5. CountTypeOK'
    BY <1>20 DEF SendFails
  <2>6. QED
    BY <2>1, <2>2, <2>3, <2>4, <2>5
<1>21. CASE Tick
  BY <1>21 DEF Tick
<1>22. CASE Crash
  <2>1. RowTypeOK'
    BY <1>22 DEF Crash
  <2>2. LogTypeOK'
    BY <1>22 DEF Crash
  <2>3. PassTypeOK'
    BY <1>22 DEF Crash
  <2>4. FlagTypeOK'
    BY <1>22 DEF Crash
  <2>5. CountTypeOK'
    BY <1>22 DEF Crash
  <2>6. QED
    BY <2>1, <2>2, <2>3, <2>4, <2>5
<1>23. CASE UNCHANGED vars
  BY <1>23 DEF vars
<1>24. QED
  BY <1>2, <1>3, <1>4, <1>5, <1>6, <1>7, <1>8, <1>9, <1>10, <1>11, <1>12, <1>13, <1>14, <1>15,
     <1>16, <1>17, <1>18, <1>19, <1>20, <1>21, <1>22, <1>23 DEF Next

\* Every step keeps the types.
LEMMA TypeStep ==
  ASSUME TypeOK, PassInv, [Next]_vars
  PROVE  TypeOK'
<1>1. Start \/ SnapOff \/ SnapNext \/ UNCHANGED snapVars
  <2> USE DEF gateUnchanged
  <2>1. CASE \/ \E t \in Tiers : Begin(t)
             \/ \E f \in FeeTables : NoEvaluation(f) \/ Evaluation(f)
             \/ GateAllows \/ GateWithholds \/ GateLogs \/ GateMarks \/ GateRaises
    BY <2>1 DEF Begin, NoEvaluation, Evaluation, GateAllows, GateWithholds, GateLogs, GateMarks, GateRaises
  <2>2. CASE UseCached \/ TakeSnapshot \/ SnapshotStep \/ Evaluate \/ LogVerdict
    BY <2>2 DEF UseCached, TakeSnapshot, SnapshotStep, Evaluate, LogVerdict
  <2>3. CASE GhostPasses \/ Suppress \/ CoolDown \/ RecordBlock
    BY <2>3 DEF GhostPasses, Suppress, CoolDown, RecordBlock
  <2>4. CASE SendAlert \/ SendFails \/ Tick \/ Crash \/ UNCHANGED vars
    BY <2>4 DEF SendAlert, SendFails, Tick, Crash, vars
  <2>5. QED
    BY <2>1, <2>2, <2>3, <2>4 DEF Next
<1>2. SnapTypeOK'
  BY <1>1, SnapTypeStep, TypeParts
<1>3. QED
  BY <1>2, GateTypeStep, TypeParts
-----------------------------------------------------------------------------
(* The passes. *)

\* At each place of the alert path, what is known of the tier in hand.
LEMMA PassStep ==
  ASSUME TypeOK, PassInv, [Next]_vars
  PROVE  PassInv'
<1>1. /\ score \in -1 .. 6 /\ worst \in 0 .. 6 /\ cool \in Nat
  BY TypeParts, Bounds DEF GateTypeOK, PassTypeOK, LogTypeOK, RowTypeOK
<1> USE <1>1 DEF PassInv, NoPass, Fault
<1> USE DEF rowVars, passVars, counts, gateUnchanged, gateVars, snapVars
<1>2. ASSUME NEW t \in Tiers, Begin(t) PROVE PassInv'
  BY <1>2 DEF Begin
<1>3. ASSUME NEW f \in FeeTables, NoEvaluation(f) PROVE PassInv'
  BY <1>3 DEF NoEvaluation
<1>4. ASSUME NEW f \in FeeTables, Evaluation(f) PROVE PassInv'
  BY <1>4, ScoreFacts, TypeParts DEF Evaluation
<1>5. CASE GateAllows
  BY <1>5 DEF GateAllows, Banned
<1>6. CASE GateWithholds
  BY <1>6 DEF GateWithholds, Withholds
<1>7. CASE GateLogs
  BY <1>7 DEF GateLogs
<1>8. CASE GateMarks
  BY <1>8 DEF GateMarks, Withholds
<1>9. CASE GateRaises
  BY <1>9 DEF GateRaises
<1>10. CASE UseCached
  BY <1>10 DEF UseCached
<1>11. CASE TakeSnapshot
  BY <1>11 DEF TakeSnapshot
<1>12. CASE SnapshotStep
  BY <1>12 DEF SnapshotStep
<1>13. CASE Evaluate
  BY <1>13 DEF Evaluate
<1>14. CASE LogVerdict
  BY <1>14 DEF LogVerdict
<1>15. CASE GhostPasses
  BY <1>15 DEF GhostPasses
<1>16. CASE Suppress
  BY <1>16 DEF Suppress
<1>17. CASE CoolDown
  BY <1>17 DEF CoolDown
<1>18. CASE RecordBlock
  BY <1>18 DEF RecordBlock
<1>19. CASE SendAlert
  BY <1>19 DEF SendAlert
<1>20. CASE SendFails
  BY <1>20 DEF SendFails
<1>21. CASE Tick
  BY <1>21 DEF Tick
<1>22. CASE Crash
  BY <1>22 DEF Crash
<1>23. CASE UNCHANGED vars
  BY <1>23 DEF vars
<1>24. QED
  BY <1>2, <1>3, <1>4, <1>5, <1>6, <1>7, <1>8, <1>9, <1>10, <1>11, <1>12, <1>13, <1>14,
     <1>15, <1>16, <1>17, <1>18, <1>19, <1>20, <1>21, <1>22, <1>23 DEF Next

-----------------------------------------------------------------------------
(* The cooldown. *)

\* A cooldown has a row that explains it, and outlasts that row's time in the cache.
LEMMA CooldownStep ==
  ASSUME TypeOK, PassInv, CooldownInv, CooldownExplained, [Next]_vars
  PROVE  CooldownInv' /\ CooldownExplained'
<1>1. /\ newest \in [verdict : {"none", "pass", "caution", "block"}, age : 0 .. CacheTtl, marked : BOOLEAN]
      /\ cool \in Nat /\ faults \in Nat /\ since \in Nat
  BY TypeParts, Bounds DEF GateTypeOK, LogTypeOK, RowTypeOK, PassTypeOK, CountTypeOK
<1> USE <1>1, Bounds DEF CooldownInv, Suppressing, CooldownExplained, NoPass, Fault
<1> USE DEF rowVars, passVars, counts, gateUnchanged, gateVars, snapVars
<1>2. ASSUME NEW t \in Tiers, Begin(t) PROVE CooldownInv' /\ CooldownExplained'
  BY <1>2 DEF Begin
<1>3. ASSUME NEW f \in FeeTables, NoEvaluation(f) PROVE CooldownInv' /\ CooldownExplained'
  BY <1>3 DEF NoEvaluation
<1>4. ASSUME NEW f \in FeeTables, Evaluation(f) PROVE CooldownInv' /\ CooldownExplained'
  BY <1>4 DEF Evaluation
<1>5. CASE GateAllows
  BY <1>5 DEF GateAllows
<1>6. CASE GateWithholds
  BY <1>6 DEF GateWithholds, Withholds
<1>7. CASE GateLogs
  BY <1>7 DEF GateLogs
<1>8. CASE GateMarks
  BY <1>8 DEF GateMarks, Withholds
<1>9. CASE GateRaises
  BY <1>9 DEF GateRaises
<1>10. CASE UseCached
  BY <1>10 DEF UseCached, Cached, PassInv
<1>11. CASE TakeSnapshot
  BY <1>11 DEF TakeSnapshot
<1>12. CASE SnapshotStep
  BY <1>12 DEF SnapshotStep
<1>13. CASE Evaluate
  BY <1>13 DEF Evaluate
<1>14. CASE LogVerdict
  BY <1>14 DEF LogVerdict, PassInv
<1>15. CASE GhostPasses
  BY <1>15 DEF GhostPasses
<1>16. CASE Suppress
  <2>1. \/ newest' = [newest EXCEPT !.marked = newest.marked \/ row] /\ faults' = faults
        \/ UNCHANGED newest /\ faults' # 0
    BY <1>16 DEF Suppress
  <2>2. /\ UNCHANGED <<cool, unsaved, ghost, row>>
        /\ pc = "verdict" /\ pc' = "cooldown" /\ ghost = "block"
    BY <1>16 DEF Suppress
  <2>3. cool = 0
    BY <2>2 DEF PassInv
  <2>4. /\ newest'.verdict = newest.verdict /\ newest'.age = newest.age
        /\ faults' = 0 => (row => newest'.marked) /\ faults = 0
    BY <2>1
  <2>5. QED
    BY <2>2, <2>3, <2>4
<1>17. CASE CoolDown
  BY <1>17 DEF CoolDown, PassInv
<1>18. CASE RecordBlock
  BY <1>18 DEF RecordBlock
<1>19. CASE SendAlert
  BY <1>19 DEF SendAlert
<1>20. CASE SendFails
  BY <1>20 DEF SendFails
<1>21. CASE Tick
  BY <1>21 DEF Tick
<1>22. CASE Crash
  <2>1. faults' # 0 /\ UNCHANGED <<newest, cool>>
    BY <1>22 DEF Crash
  <2>2. ~unsaved' => ~unsaved /\ ~Suppressing
    BY <1>22 DEF Crash
  <2>3. QED
    BY <2>1, <2>2
<1>23. CASE UNCHANGED vars
  BY <1>23 DEF vars
<1>24. QED
  BY <1>2, <1>3, <1>4, <1>5, <1>6, <1>7, <1>8, <1>9, <1>10, <1>11, <1>12, <1>13, <1>14,
     <1>15, <1>16, <1>17, <1>18, <1>19, <1>20, <1>21, <1>22, <1>23 DEF Next

\* What the cooldown invariant says of a verdict that is used from the cache.
LEMMA CooldownOutlives ==
  ASSUME TypeOK, CooldownInv
  PROVE  CooldownOutlivesVerdict
<1>1. newest.age \in Nat /\ cool \in Nat /\ CacheTtl \in Nat
  BY TypeParts, Bounds DEF GateTypeOK, LogTypeOK, RowTypeOK
<1>2. QED
  BY <1>1 DEF CooldownInv, Suppressing, CooldownOutlivesVerdict, Cached

-----------------------------------------------------------------------------
(* The block log. *)

Rows == SumOf(blocks)

\* No counter is at its bound.
Counting == withheld < CountMax /\ openLogged < CountMax /\ \A k \in DOMAIN blocks : blocks[k] < CountMax

Balanced == Counting => Rows + unlogged = withheld + openLogged + (IF pc = "mark" THEN 1 ELSE 0)

\* BlocksAccountedFor is its balance, with the types.
LEMMA BalancedIs ==
  /\ BlocksAccountedFor <=> TypeOK /\ Balanced
  /\ BlocksAccountedFor' <=> TypeOK' /\ Balanced'
BY DEF BlocksAccountedFor, Balanced, Counting, Rows, SumOf

\* The block log has finitely many keys.
LEMMA KeysFinite == IsFiniteSet(Tiers \X Reasons)
<1>1. \A S, x : IsFiniteSet(S) => IsFiniteSet(S \cup {x})
  BY FS_AddElement
<1>2. Reasons = {} \cup {"Normal"} \cup {"Elevated"} \cup {"Suspicious"} \cup {"SCAM Likely"}
                   \cup {"no_fee_data"} \cup {"ghost_block"}
  BY DEF Reasons, Labels
<1>3. IsFiniteSet(Reasons)
  BY <1>1, <1>2, FS_EmptySet
<1>4. QED
  BY <1>3, Bounds, FS_Product

\* A logged block is one row more.
LEMMA RowsCount ==
  ASSUME GateTypeOK
  PROVE  /\ DOMAIN blocks = Tiers \X Reasons /\ Rows \in Nat
         /\ \A t \in Tiers, reason \in Reasons :
              Logged(t, reason) /\ blocks[<<t, reason>>] < CountMax => Rows' = Rows + 1
<1> DEFINE K == Tiers \X Reasons
<1>1. blocks \in [K -> 0 .. CountMax] /\ DOMAIN blocks = K
  BY DEF GateTypeOK, LogTypeOK
<1>2. CountMax \in Nat /\ IsFiniteSet(K)
  BY Bounds, KeysFinite
<1>3. Rows \in Nat
  <2> HIDE DEF K
  <2>1. SumOf(blocks) = Cardinality(Units(blocks, K))
    BY <1>1, <1>2, SumCounts
  <2>2. \A s \in SUBSET K : Cardinality(Units(blocks, s)) \in Nat
    BY <1>1, <1>2, UnitsFacts
  <2>3. K \in SUBSET K
    OBVIOUS
  <2>4. QED
    BY <1>1, <2>1, <2>2, <2>3 DEF Rows
<1>4. ASSUME NEW t \in Tiers, NEW reason \in Reasons, Logged(t, reason), blocks[<<t, reason>>] < CountMax
      PROVE  Rows' = Rows + 1
  <2> DEFINE k == <<t, reason>>
  <2>1. k \in K /\ blocks' = [blocks EXCEPT ![k] = blocks[k] + 1] /\ blocks[k] < CountMax
    BY <1>4, LoggedFacts
  <2> HIDE DEF K, k
  <2>3. SumOf(blocks') = SumOf(blocks) + 1
    <3>1. blocks' \in [K -> 0 .. CountMax] /\ blocks'[k] = blocks[k] + 1
      BY <1>1, <1>2, <2>1
    <3>2. \A j \in K \ {k} : blocks'[j] = blocks[j]
      BY <1>1, <2>1
    <3>3. ASSUME NEW f \in [K -> 0 .. CountMax], NEW h \in [K -> 0 .. CountMax],
                 NEW i \in K, h[i] = f[i] + 1, \A j \in K \ {i} : h[j] = f[j]
          PROVE  SumOf(h) = SumOf(f) + 1
      BY <1>2, <3>3, SumMore
    <3>4. QED
      BY <1>1, <2>1, <3>1, <3>2, <3>3
  <2>4. QED
    BY <2>3 DEF Rows
<1>5. QED
  BY <1>1, <1>3, <1>4

\* Every step keeps the balance of the block log.
LEMMA BlocksStep ==
  ASSUME TypeOK, PassInv, unlogged <= withheld, Balanced, [Next]_vars
  PROVE  unlogged' <= withheld' /\ Balanced'
<1>1. /\ GateTypeOK /\ withheld \in 0 .. CountMax /\ unlogged \in 0 .. CountMax
      /\ openLogged \in 0 .. CountMax /\ CountMax \in Nat
      /\ DOMAIN blocks = Tiers \X Reasons /\ Rows \in Nat
  BY TypeParts, Bounds, RowsCount DEF GateTypeOK, CountTypeOK
<1>2. /\ More(withheld) \in 0 .. CountMax /\ withheld <= More(withheld)
      /\ withheld < CountMax => More(withheld) = withheld + 1
      /\ More(unlogged) \in 0 .. CountMax /\ unlogged <= More(unlogged)
      /\ unlogged < CountMax => More(unlogged) = unlogged + 1
      /\ More(openLogged) \in 0 .. CountMax /\ openLogged <= More(openLogged)
      /\ openLogged < CountMax => More(openLogged) = openLogged + 1
  BY <1>1, MoreFacts
<1>3. /\ withheld' \in 0 .. CountMax /\ openLogged' \in 0 .. CountMax
  BY TypeStep, TypeParts DEF GateTypeOK, CountTypeOK
<1>4. ASSUME UNCHANGED blocks PROVE Rows' = Rows /\ DOMAIN blocks' = DOMAIN blocks
  BY <1>4 DEF Rows
<1>5. ASSUME NEW reason \in Reasons, tier \in Tiers, Logged(tier, reason)
      PROVE  (\A k \in DOMAIN blocks' : blocks'[k] < CountMax) =>
               Rows' = Rows + 1 /\ \A k \in DOMAIN blocks : blocks[k] < CountMax
  <2>1. /\ blocks' \in [Tiers \X Reasons -> 0 .. CountMax] /\ <<tier, reason>> \in Tiers \X Reasons
        /\ \A k \in Tiers \X Reasons : blocks[k] <= blocks'[k]
    BY <1>1, <1>5, LoggedFacts
  <2>2. \A k \in Tiers \X Reasons : blocks[k] \in Nat /\ blocks'[k] \in Nat
    BY <1>1, <2>1 DEF GateTypeOK, LogTypeOK
  <2>3. SUFFICES ASSUME \A k \in DOMAIN blocks' : blocks'[k] < CountMax
                 PROVE  Rows' = Rows + 1 /\ \A k \in DOMAIN blocks : blocks[k] < CountMax
    OBVIOUS
  <2>4. \A k \in Tiers \X Reasons : blocks'[k] < CountMax
    BY <2>1, <2>3
  <2>5. \A k \in Tiers \X Reasons : blocks[k] < CountMax
    BY <1>1, <2>1, <2>2, <2>4
  <2>6. Rows' = Rows + 1
    BY <1>1, <1>5, <2>1, <2>5, RowsCount
  <2>7. QED
    BY <1>1, <2>5, <2>6
<1> USE <1>1, <1>2, <1>3 DEF Balanced, Counting
<1> USE DEF rowVars, passVars, counts, gateUnchanged, gateVars, snapVars
<1>6. CASE GateWithholds
  <2>1. pc = "gate" /\ pc' = "idle" /\ withheld' = More(withheld) /\ UNCHANGED <<unlogged, openLogged>>
    BY <1>6 DEF GateWithholds, Withholds, NoPass
  <2>2. tier \in Tiers /\ Logged(tier, "no_fee_data") /\ "no_fee_data" \in Reasons
    BY <1>6, ReasonFacts DEF GateWithholds, PassInv
  <2>3. (\A k \in DOMAIN blocks' : blocks'[k] < CountMax) =>
           Rows' = Rows + 1 /\ \A k \in DOMAIN blocks : blocks[k] < CountMax
    BY <1>5, <2>2
  <2>4. QED
    BY <2>1, <2>3
<1>7. CASE GateLogs
  <2>1. pc = "gate" /\ pc' = "mark" /\ UNCHANGED <<withheld, unlogged, openLogged>>
    BY <1>7 DEF GateLogs
  <2>2. tier \in Tiers /\ Logged(tier, Reason) /\ Reason \in Reasons
    BY <1>7, ReasonFacts DEF GateLogs, PassInv
  <2>3. (\A k \in DOMAIN blocks' : blocks'[k] < CountMax) =>
           Rows' = Rows + 1 /\ \A k \in DOMAIN blocks : blocks[k] < CountMax
    BY <1>5, <2>2
  <2>4. QED
    BY <2>1, <2>3
<1>8. CASE GateMarks
  <2>1. /\ pc = "mark" /\ pc' = "idle" /\ withheld' = More(withheld)
        /\ UNCHANGED <<unlogged, openLogged, blocks>>
    BY <1>8 DEF GateMarks, Withholds, NoPass
  <2>2. QED
    BY <1>4, <2>1
<1>9. CASE GateRaises \/ Crash
  <2>1. /\ pc' # "mark" /\ openLogged' = (IF pc = "mark" THEN More(openLogged) ELSE openLogged)
        /\ UNCHANGED <<withheld, unlogged, blocks>>
    BY <1>9 DEF GateRaises, Crash, NoPass
  <2>2. QED
    BY <1>4, <2>1
<1>10. CASE RecordBlock
  <2>1. pc = "record" /\ pc' = "idle" /\ withheld' = More(withheld) /\ UNCHANGED openLogged
    BY <1>10 DEF RecordBlock, NoPass
  <2>2. CASE Logged(tier, "ghost_block") /\ UNCHANGED unlogged
    <3>1. tier \in Tiers /\ "ghost_block" \in Reasons
      BY <2>1, ReasonFacts DEF PassInv
    <3>2. (\A k \in DOMAIN blocks' : blocks'[k] < CountMax) =>
             Rows' = Rows + 1 /\ \A k \in DOMAIN blocks : blocks[k] < CountMax
      BY <1>5, <2>2, <3>1
    <3>3. QED
      BY <2>1, <2>2, <3>2
  <2>3. CASE unlogged' = More(unlogged) /\ UNCHANGED blocks
    BY <1>4, <2>1, <2>3
  <2>4. QED
    BY <1>10, <2>2, <2>3 DEF RecordBlock
<1>11. ASSUME UNCHANGED <<blocks, withheld, unlogged, openLogged>>,
              UNCHANGED pc \/ (pc # "mark" /\ pc' # "mark")
       PROVE  unlogged' <= withheld' /\ Balanced'
  BY <1>4, <1>11
<1>12. CASE \/ \E t \in Tiers : Begin(t)
            \/ \E f \in FeeTables : NoEvaluation(f) \/ Evaluation(f)
            \/ GateAllows \/ UseCached \/ TakeSnapshot \/ SnapshotStep \/ Evaluate \/ LogVerdict
            \/ GhostPasses \/ Suppress \/ CoolDown \/ SendAlert \/ SendFails \/ Tick
            \/ UNCHANGED vars
  <2>1. UNCHANGED <<blocks, withheld, unlogged, openLogged>>
    BY <1>12 DEF Begin, NoEvaluation, Evaluation, GateAllows, UseCached, TakeSnapshot, SnapshotStep,
       Evaluate, LogVerdict, GhostPasses, Suppress, CoolDown, SendAlert, SendFails, Tick, vars
  <2>2. UNCHANGED pc \/ (pc # "mark" /\ pc' # "mark")
    BY <1>12 DEF Begin, NoEvaluation, Evaluation, GateAllows, UseCached, TakeSnapshot, SnapshotStep,
       Evaluate, LogVerdict, GhostPasses, Suppress, CoolDown, SendAlert, SendFails, Tick, vars, NoPass
  <2>3. QED
    BY <1>11, <2>1, <2>2
<1>13. QED
  BY <1>6, <1>7, <1>8, <1>9, <1>10, <1>12 DEF Next

-----------------------------------------------------------------------------
(* The two versions of the ghost filter. *)

\* Clusters are disjoint, and have two wallets or more.
LEMMA ClustersFacts ==
  ASSUME NEW accounts \in SUBSET Accounts, NEW view
  PROVE  /\ IsFiniteSet(Clusters(accounts, view))
         /\ \A c \in Clusters(accounts, view) : IsFiniteSet(c) /\ Cardinality(c) >= 2
         /\ \A c, d \in Clusters(accounts, view) : c # d => c \cap d = {}
<1> DEFINE paid == {o \in UserWallets(accounts, view) : view[o].sol \notin {NoSol, 0}}
           sharing(k) == {o \in paid : Rounded(view[o].sol) = k}
<1>1. IsFiniteSet(paid)
  <2> DEFINE owner == [a \in accounts |-> a.owner]
  <2>1. owner \in Surjection(accounts, TopOwners(accounts))
    BY DEF Surjection, TopOwners
  <2>2. IsFiniteSet(accounts)
    BY Bounds, FS_Subset
  <2>3. IsFiniteSet(TopOwners(accounts))
    BY <2>1, <2>2, FS_Surjection
  <2>4. paid \in SUBSET TopOwners(accounts)
    BY DEF UserWallets
  <2>5. QED
    BY <2>3, <2>4, FS_Subset
<1>2. Clusters(accounts, view) = {sharing(k) : k \in {Rounded(view[o].sol) : o \in paid}} \ {{o} : o \in paid}
  BY DEF Clusters
<1> HIDE DEF paid
<1>3. IsFiniteSet(Clusters(accounts, view))
  <2>1. Clusters(accounts, view) \in SUBSET SUBSET paid
    BY <1>2
  <2>2. IsFiniteSet(SUBSET paid)
    BY <1>1, FS_SUBSET
  <2>3. QED
    BY <2>1, <2>2, FS_Subset
<1>4. ASSUME NEW c \in Clusters(accounts, view)
      PROVE  IsFiniteSet(c) /\ Cardinality(c) >= 2
  <2>1. c \in SUBSET paid /\ c # {} /\ \A o \in paid : c # {o}
    BY <1>2
  <2>2. IsFiniteSet(c) /\ Cardinality(c) \in Nat
    BY <1>1, <2>1, FS_Subset, FS_CardinalityType
  <2>3. Cardinality(c) # 0
    BY <2>1, <2>2, FS_EmptySet
  <2>4. Cardinality(c) # 1
    <3>1. \A x : c # {x}
      BY <2>1
    <3>2. QED
      BY <2>2, <3>1, FS_Singleton
  <2>5. QED
    BY <2>2, <2>3, <2>4
<1>5. ASSUME NEW c \in Clusters(accounts, view), NEW d \in Clusters(accounts, view), c # d
      PROVE  c \cap d = {}
  BY <1>2, <1>5
<1>6. QED
  BY <1>3, <1>4, <1>5

\* The verdict and the shadow verdict count the same clusters.
LEMMA SnapVersionsAgree ==
  ASSUME SnapTypeOK
  PROVE  VersionsAgree
<1> DEFINE C == Clusters(raw, said)
           wallets == Colliding(raw, said)
           low == LowSolCount(raw, said) >= LowSolMin
<1>1. wallets \in Nat /\ Cardinality(C) \in Nat /\ wallets >= 2 * Cardinality(C)
  <2>1. raw \in SUBSET Accounts
    BY DEF SnapTypeOK
  <2>2. /\ IsFiniteSet(C) /\ \A c \in C : IsFiniteSet(c) /\ Cardinality(c) >= 2
        /\ \A c, d \in C : c # d => c \cap d = {}
    BY <2>1, ClustersFacts
  <2> HIDE DEF C
  <2>3. /\ Cardinality(C) \in Nat /\ Cardinality(UNION C) \in Nat
        /\ Cardinality(UNION C) >= 2 * Cardinality(C)
    BY <2>2, PairsCount
  <2>4. QED
    BY <2>3 DEF C, Colliding
<1>2. /\ CollisionMin \in Nat /\ BlockWallets \in Nat /\ BlockClusters \in Nat
      /\ CautionWallets \in Nat /\ CautionClusters \in Nat
      /\ CautionWallets = CollisionMin /\ CautionWallets <= BlockWallets
      /\ CautionClusters <= BlockClusters /\ CautionWallets <= 2 * CautionClusters
  BY HolderSnapshotAssumption
<1>3. Verdict(raw, said) # "pass" <=>
        \/ low \/ wallets >= BlockWallets \/ Cardinality(C) >= BlockClusters
        \/ wallets >= CautionWallets \/ Cardinality(C) >= CautionClusters
  BY DEF Verdict
<1>4. WouldBlock(raw, said) <=> wallets >= CollisionMin \/ low
  BY DEF WouldBlock
<1> HIDE DEF C, wallets, low
<1>5. WouldBlock(raw, said) <=> Verdict(raw, said) # "pass"
  <2>1. \A w, n \in Nat : w >= 2 * n /\ n >= CautionClusters => w >= CollisionMin
    BY <1>2
  <2>2. Cardinality(C) >= BlockClusters => Cardinality(C) >= CautionClusters
    BY <1>1, <1>2
  <2>3. wallets >= BlockWallets => wallets >= CollisionMin
    BY <1>1, <1>2
  <2>4. Cardinality(C) >= CautionClusters => wallets >= CollisionMin
    BY <1>1, <2>1
  <2>5. QED
    BY <1>2, <1>3, <1>4, <2>2, <2>3, <2>4
<1>6. QED
  BY <1>5 DEF VersionsAgree

\* A wallet of which the balance or the program is unknown weighs nothing.
LEMMA SnapUnknownConvictsNobody == UnknownConvictsNobody
<1> DEFINE known == {a \in raw : NoSol \notin {said[a.owner].sol, said[a.owner].program}}
           paid(accounts) ==
             {o \in UserWallets(accounts, said) : said[o].sol \notin {NoSol, 0}}
           poor(accounts) ==
             {o \in UserWallets(accounts, said) : said[o].sol # NoSol /\ said[o].sol < LowSol}
<1>1. ASSUME NEW o \in UserWallets(raw, said), said[o].sol # NoSol
      PROVE  o \in UserWallets(known, said)
  <2>1. PICK a \in raw : o = a.owner
    BY DEF UserWallets, TopOwners
  <2>2. HolderType(o, said[o].program) = "user_wallet"
    BY DEF UserWallets
  <2>3. said[o].program = "system"
    BY <2>2 DEF HolderType
  <2>4. a \in known
    BY <1>1, <2>1, <2>3, HolderSnapshotAssumption
  <2>5. QED
    BY <2>1, <2>2, <2>4 DEF UserWallets, TopOwners
<1>2. UserWallets(known, said) \subseteq UserWallets(raw, said)
  BY DEF UserWallets, TopOwners
<1>3. paid(known) = paid(raw) /\ poor(known) = poor(raw)
  BY <1>1, <1>2
<1>4. Clusters(known, said) = Clusters(raw, said)
  BY <1>3 DEF Clusters
<1>5. LowSolCount(known, said) = LowSolCount(raw, said)
  BY <1>3 DEF LowSolCount
<1>6. Verdict(known, said) = Verdict(raw, said)
  BY <1>4, <1>5 DEF Verdict, Colliding
<1>7. QED
  BY <1>6 DEF UnknownConvictsNobody

-----------------------------------------------------------------------------
(* The theorems. *)

\* The invariant holds at the start,
LEMMA IInvInit ==
  ASSUME Init
  PROVE  IInv
<1>1. /\ SnapTypeOK
  <2>1. Cardinality({}) = 0
    BY FS_EmptySet
  <2>2. QED
    BY <2>1, Bounds DEF Init, SnapInit, SnapTypeOK, Phases, Statuses
<1>2. GateTypeOK
  <2>1. RowTypeOK /\ CountTypeOK
    BY Bounds DEF Init, RowTypeOK, CountTypeOK
  <2>2. LogTypeOK
    BY Bounds DEF Init, NoRow, LogTypeOK
  <2>3. PassTypeOK
    BY Bounds DEF Init, Steps, PassTypeOK
  <2>4. FlagTypeOK
    BY DEF Init, FlagTypeOK
  <2>5. QED
    BY <2>1, <2>2, <2>3, <2>4 DEF GateTypeOK
<1>3. PassInv /\ CooldownInv /\ CooldownExplained
  BY DEF Init, NoRow, PassInv, CooldownInv, CooldownExplained
<1>4. Balanced /\ unlogged <= withheld
  <2>1. \A x \in Tiers \X Reasons : blocks[x] = 0
    BY DEF Init
  <2>2. blocks \in [Tiers \X Reasons -> 0 .. 0] /\ IsFiniteSet(Tiers \X Reasons)
    BY KeysFinite DEF Init
  <2>3. SumOf(blocks) = Cardinality(Units(blocks, Tiers \X Reasons))
    BY <2>2, SumCounts
  <2>4. Units(blocks, Tiers \X Reasons) = {}
    BY <2>1 DEF Units
  <2>5. SumOf(blocks) = 0
    BY <2>3, <2>4, FS_EmptySet
  <2>6. QED
    BY <2>5 DEF Init, Balanced, Rows
<1>5. QED
  BY <1>1, <1>2, <1>3, <1>4, TypeParts, BalancedIs DEF IInv

\* every step keeps it,
LEMMA IInvNext ==
  ASSUME IInv, [Next]_vars
  PROVE  IInv'
<1>1. TypeOK /\ PassInv /\ CooldownInv /\ CooldownExplained /\ unlogged <= withheld /\ Balanced
  BY BalancedIs DEF IInv
<1>2. TypeOK' /\ PassInv'
  BY <1>1, TypeStep, PassStep
<1>3. CooldownInv' /\ CooldownExplained'
  BY <1>1, CooldownStep
<1>4. unlogged' <= withheld' /\ Balanced'
  BY <1>1, BlocksStep
<1>5. QED
  BY <1>2, <1>3, <1>4, BalancedIs DEF IInv

\* and so it always holds.
LEMMA IInvAlways == Spec => []IInv
<1>1. Init => IInv
  BY IInvInit
<1>2. IInv /\ [Next]_vars => IInv'
  BY IInvNext
<1>3. QED
  BY <1>1, <1>2, PTL DEF Spec

\* Whatever the holders and the balances, a snapshot that the first version of
\* the ghost filter would have blocked does not pass the second, nor the
\* reverse (holder_filter.evaluate_holder_filter).
THEOREM GatesVersionsAgree == Spec => []VersionsAgree
<1>1. IInv => VersionsAgree
  BY SnapVersionsAgree, TypeParts DEF IInv
<1>2. QED
  BY <1>1, IInvAlways, PTL

\* Whatever the RPC left unknown of the balances and programs of the holders,
\* the verdict is that on the wallets it knew: a failed balance call alone
\* withholds no alert (snapshot_holders._classify_holder,
\* holder_filter.evaluate_holder_filter).
THEOREM GatesUnknownConvictsNobody == Spec => []UnknownConvictsNobody
<1>1. UnknownConvictsNobody
  BY SnapUnknownConvictsNobody
<1>2. QED
  BY <1>1, PTL

\* A blocking verdict is not read from the cache once its cooldown is over,
\* however long the pass that logged it took: what the 60 seconds that
\* ghost_cooldown has over the cache are for (main.price_alert_loop).
THEOREM GatesCooldownOutlivesVerdict == Spec => []CooldownOutlivesVerdict
<1>1. IInv => CooldownOutlivesVerdict
  BY CooldownOutlives DEF IInv
<1>2. QED
  BY <1>1, IInvAlways, PTL

\* Without a fault, a token cools down on the strength of a row that says
\* block and is marked so (mark_actually_blocked).
THEOREM GatesCooldownExplained == Spec => []CooldownExplained
<1>1. IInv => CooldownExplained
  BY DEF IInv
<1>2. QED
  BY <1>1, IInvAlways, PTL

\* alert_block_log counts the alerts that were withheld, up to the ones that a
\* failed write lost and the ones that the gate let through after it had
\* logged them (log_alert_block, alert_gate.evaluate).
THEOREM GatesBlocksAccountedFor == Spec => []BlocksAccountedFor
<1>1. IInv => BlocksAccountedFor
  BY DEF IInv
<1>2. QED
  BY <1>1, IInvAlways, PTL

\* No alert goes out for a token with a logged score that blocks, unless the
\* gate itself raised (enforce_sticky, alert_gate.evaluate).
THEOREM GatesNoAlertAfterBadLabel == Spec => NoAlertAfterBadLabel
<1>1. ASSUME IInv, [Next]_vars
      PROVE  [last' # last => LabelOf(worst) \notin BlockLabels \/ failedOpen]_vars
  <2>1. /\ PassInv /\ score \in -1 .. 6 /\ worst \in 0 .. 6
    BY <1>1, TypeParts DEF IInv, GateTypeOK, PassTypeOK, LogTypeOK
  <2>2. SUFFICES ASSUME last' # last
                 PROVE  LabelOf(worst) \notin BlockLabels \/ failedOpen
    OBVIOUS
  <2>3. pc = "send"
    <3> USE DEF rowVars, gateUnchanged, gateVars
    <3>1. SendAlert
      BY <1>1, <2>2 DEF Next, vars, Begin, NoEvaluation, Evaluation, GateAllows, GateWithholds, GateLogs,
         GateMarks, GateRaises, UseCached, TakeSnapshot, SnapshotStep, Evaluate, LogVerdict,
         GhostPasses, Suppress, CoolDown, RecordBlock, SendFails, Tick, Crash
    <3>2. QED
      BY <3>1 DEF SendAlert
  <2>4. ~failedOpen => score # -1 /\ LabelOf(score) \notin BlockLabels /\ worst <= score
    BY <2>1, <2>3 DEF PassInv
  <2>5. QED
    BY <2>1, <2>4, BlockLabelsAssumption
<1>2. QED
  BY <1>1, IInvAlways, PTL DEF Spec, NoAlertAfterBadLabel
=============================================================================

------------------------- MODULE AlertLadderProofs -------------------------
(***************************************************************************)
(* The promise of AlertLadder, for every set of tokens and any number of   *)
(* tiers.                                                                  *)
(***************************************************************************)
EXTENDS AlertLadder, TLAPS

\* The variables of the ladder keep their types.
THEOREM LadderTypeOK ==
  ASSUME NumTiers \in Nat
  PROVE  Spec => []TypeOK
<1>1. Init => TypeOK
  BY DEF Init, TypeOK, Tiers
<1>2. TypeOK /\ [Next]_vars => TypeOK'
  <2> SUFFICES ASSUME TypeOK, [Next]_vars PROVE TypeOK'
    OBVIOUS
  <2>1. ASSUME NEW t \in Tokens, NEW k \in Tiers, Announce(t, k) PROVE TypeOK'
    BY <2>1 DEF TypeOK, Announce, Tiers
  <2>2. ASSUME NEW t \in Tokens, NEW k \in Tiers, AnnounceUnknowingly(t, k)
        PROVE  TypeOK'
    BY <2>2 DEF TypeOK, AnnounceUnknowingly, Tiers
  <2>3. ASSUME NEW t \in Tokens, Slip(t) PROVE TypeOK'
    BY <2>3 DEF TypeOK, Slip, Tiers
  <2>4. CASE UNCHANGED vars
    BY <2>4 DEF TypeOK, vars
  <2>5. QED
    BY <2>1, <2>2, <2>3, <2>4 DEF Next
<1>3. QED
  BY <1>1, <1>2, PTL DEF Spec

\* Paid is inductive: only Announce adds a message without a slip, and it adds
\* it on a rung that had none free yet.
LEMMA PaidStep ==
  ASSUME NumTiers \in Nat
  PROVE  TypeOK /\ Paid /\ [Next]_vars => Paid'
<1> SUFFICES ASSUME TypeOK, Paid, [Next]_vars,
                    NEW u \in Tokens, NEW j \in Tiers
             PROVE  sends'[u][j] <= slips'[u] + (IF j <= deepest'[u] THEN 1 ELSE 0)
  BY DEF Paid
<1>0. /\ sends[u][j] <= slips[u] + (IF j <= deepest[u] THEN 1 ELSE 0)
      /\ sends[u][j] \in Nat /\ slips[u] \in Nat /\ deepest[u] \in Int /\ j \in Int
  BY DEF Paid, TypeOK, Tiers
<1>1. ASSUME NEW t \in Tokens, NEW k \in Tiers, Announce(t, k)
      PROVE  sends'[u][j] <= slips'[u] + (IF j <= deepest'[u] THEN 1 ELSE 0)
  <2>1. CASE t = u
    <3>1. deepest'[u] = k /\ k > deepest[u] /\ k \in Int /\ slips'[u] = slips[u]
      BY <1>1, <2>1 DEF TypeOK, Announce, Tiers
    <3>2. sends'[u][j] = sends[u][j] + (IF j = k THEN 1 ELSE 0)
      BY <1>0, <1>1, <2>1 DEF TypeOK, Announce
    <3>3. QED
      BY <1>0, <3>1, <3>2
  <2>2. CASE t # u
    BY <1>0, <1>1, <2>2 DEF TypeOK, Announce
  <2>3. QED
    BY <2>1, <2>2
<1>2. ASSUME NEW t \in Tokens, NEW k \in Tiers, AnnounceUnknowingly(t, k)
      PROVE  sends'[u][j] <= slips'[u] + (IF j <= deepest'[u] THEN 1 ELSE 0)
  <2>1. CASE t = u
    <3>1. slips'[u] = slips[u] + 1 /\ deepest'[u] = deepest[u]
      BY <1>2, <2>1 DEF TypeOK, AnnounceUnknowingly
    <3>2. sends'[u][j] = sends[u][j] + (IF j = k THEN 1 ELSE 0)
      BY <1>0, <1>2, <2>1 DEF TypeOK, AnnounceUnknowingly
    <3>3. QED
      BY <1>0, <3>1, <3>2
  <2>2. CASE t # u
    BY <1>0, <1>2, <2>2 DEF TypeOK, AnnounceUnknowingly
  <2>3. QED
    BY <2>1, <2>2
<1>3. ASSUME NEW t \in Tokens, Slip(t)
      PROVE  sends'[u][j] <= slips'[u] + (IF j <= deepest'[u] THEN 1 ELSE 0)
  BY <1>0, <1>3 DEF TypeOK, Slip
<1>4. CASE UNCHANGED vars
  BY <1>0, <1>4 DEF vars
<1>5. QED
  BY <1>1, <1>2, <1>3, <1>4 DEF Next

\* A tier reaches the chat at most once more often than the bot forgot.
THEOREM LadderOncePerTier ==
  ASSUME NumTiers \in Nat
  PROVE  Spec => []OncePerTier
<1>1. Init => Paid
  BY DEF Init, Paid, Tiers
<1>2. TypeOK /\ Paid => OncePerTier
  <2> SUFFICES ASSUME TypeOK, Paid, NEW t \in Tokens, NEW k \in Tiers
               PROVE  sends[t][k] <= 1 + slips[t]
    BY DEF OncePerTier
  <2>1. sends[t][k] \in Nat /\ slips[t] \in Nat
    BY DEF TypeOK
  <2>2. sends[t][k] <= slips[t] + (IF k <= deepest[t] THEN 1 ELSE 0)
    BY DEF Paid
  <2>3. QED
    BY <2>1, <2>2
<1>3. QED
  BY <1>1, <1>2, LadderTypeOK, PaidStep, PTL DEF Spec
=============================================================================

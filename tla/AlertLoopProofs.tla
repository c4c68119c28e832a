-------------------------- MODULE AlertLoopProofs --------------------------
(***************************************************************************)
(* What AlertLoop guarantees for every set of tokens and feeders, any      *)
(* tiers, prices, cooldowns and number of faults.                          *)
(***************************************************************************)
EXTENDS AlertLoop, TLAPS

AlertStage == {"gate", "holder", "refresh", "send", "record", "mark"}

\* A task that has something in hand has a real token (and tier) in hand.
HandOK ==
  /\ pc \in AlertStage => cur \in Tokens /\ curTier \in Tiers
  /\ pc \in {"seed", "validate"} => cur \in Tokens
  /\ \A f \in Feeders : fpc[f] # "idle" => ftok[f] \in Tokens

Typed == TypeOK /\ HandOK

\* The loop has an object for t.
Held(t) == mem[t].status # "absent"

\* The message about t is out, and its row does not say so yet.
Hand(t) == pc \in {"record", "mark"} /\ cur = t

\* The tasks work on copies they really have: at most one alert per token is
\* due, it is deeper than the copy says, and a feeder never knows a tier.
CopyInv ==
  /\ pc \notin {"alerts"} \cup AlertStage => due = {}
  /\ \A p, q \in due : p[1] = q[1] => p = q
  /\ \A p \in due : Held(p[1]) /\ mem[p[1]].tier < p[2]
  /\ pc \in AlertStage => Held(cur) /\ \A p \in due : p[1] # cur
  /\ pc \in {"gate", "holder", "refresh", "send"} => mem[cur].tier < curTier
  /\ pc \in {"seed", "validate"} => Held(cur)
  /\ pc = "poll" => \A t \in todo : Held(t)
  /\ \A f \in Feeders : fcopy[f].tier = NoTier /\ fcopy[f].status \notin Terminal

\* Neither the row nor the loop's copy of it says less than was announced,
\* except for the announcement in hand.
ClimbInv ==
  /\ \A t \in Tokens : Hand(t) \/ climb[t] <= db[t].tier
  /\ \A t \in Tokens : Hand(t) \/ ~Held(t) \/ climb[t] <= mem[t].tier
  /\ \A t \in Tokens : Hand(t) => climb[t] <= curTier

\* Tiers in rows and copies have records; records have messages.
RecordInv ==
  /\ MarkedHasRecord
  /\ \A t \in Tokens : mem[t].tier # NoTier => <<t, mem[t].tier>> \in alerts
  /\ pc = "mark" => <<cur, curTier>> \in alerts
  /\ pc \in {"record", "mark"} => sends[cur][curTier] > 0
  /\ RecordsMatchChat

\* The row of a token the loop is about to write is not terminal, and neither
\* is the copy it writes, or they have the same status.
StatusInv ==
  /\ pc = "poll" => \A t \in todo : db[t].status \notin Terminal
  /\ pc = "check" => \A t \in Tokens : Held(t) => db[t].status \notin Terminal
  /\ \A p \in due : /\ db[p[1]].status \notin Terminal
                    /\ mem[p[1]].status \notin Terminal
  /\ pc \in AlertStage => /\ db[cur].status \notin Terminal
                         /\ mem[cur].status \notin Terminal
  /\ pc \in {"seed", "validate"} /\ db[cur].status \in Terminal =>
       mem[cur].status = db[cur].status

-----------------------------------------------------------------------------
(* Rows. *)

\* Everything that is made of a row is a row.
LEMMA RowFacts ==
  /\ NoRow \in Row
  /\ \A p \in Prices : FreshRow(p) \in Row
  /\ \A r \in Row :
       /\ LaterRow(r) \in Row /\ Expired(r) \in Row /\ Blocked(r) \in Row
       /\ Haunted(r) \in Row /\ Doubted(r) \in Row
       /\ \A k \in Tiers : Marked(r, k) \in Row
       /\ \A p \in Prices \cup {0} : WithAth(r, p) \in Row
       /\ \A p \in Prices : Polled(r, p) \in Row
<1> USE ConstantsAssumption DEF MakeRow, Row, Statuses, Alertable, Terminal, Stale
<1>1. NoRow \in Row /\ \A p \in Prices : FreshRow(p) \in Row
  BY DEF NoRow, FreshRow, NoTier
<1>2. ASSUME NEW r \in Row
      PROVE  /\ LaterRow(r) \in Row /\ Expired(r) \in Row /\ Blocked(r) \in Row
             /\ Haunted(r) \in Row /\ Doubted(r) \in Row
             /\ \A k \in Tiers : Marked(r, k) \in Row
             /\ \A p \in Prices \cup {0} : WithAth(r, p) \in Row
  <2>1. LaterRow(r) \in Row
    BY DEF LaterRow, Later
  <2>2. Expired(r) \in Row /\ Blocked(r) \in Row /\ Haunted(r) \in Row /\ Doubted(r) \in Row
    BY DEF Expired, Blocked, Haunted, Doubted
  <2>3. /\ \A k \in Tiers : Marked(r, k) \in Row
        /\ \A p \in Prices \cup {0} : WithAth(r, p) \in Row
    BY DEF Marked, WithAth
  <2>4. QED
    BY <2>1, <2>2, <2>3
<1>3. ASSUME NEW r \in Row, NEW p \in Prices PROVE Polled(r, p) \in Row
  BY <1>3 DEF Polled
<1>4. QED
  BY <1>1, <1>2, <1>3

\* A slip keeps the history typed.
LEMMA ForgetFacts ==
  ASSUME Typed, NEW t \in Tokens, NEW k \in Tiers \cup {NoTier}, Forget(t, k)
  PROVE  climb' \in [Tokens -> Tiers \cup {NoTier}] /\ slips' \in [Tokens -> Nat]
<1>1. (IF k < climb[t] THEN k ELSE climb[t]) \in Tiers \cup {NoTier}
  BY DEF Typed, TypeOK
<1>2. QED
  BY <1>1 DEF Typed, TypeOK, Forget

\* Saving a row keeps the tables typed, and moves the history within its type.
LEMMA SaveFacts ==
  ASSUME Typed, NEW t \in Tokens, NEW r \in Row
  PROVE  /\ Save(t, r) => db' \in [Tokens -> Row]
         /\ SaveCopy(t, r) => db' \in [Tokens -> Row] /\ mem' \in [Tokens -> Row]
         /\ Overwrite(t, r) =>
              /\ db' \in [Tokens -> Row]
              /\ climb' \in [Tokens -> Tiers \cup {NoTier}]
              /\ slips' \in [Tokens -> Nat] /\ sends' = sends
<1>1. r.tier \in Tiers \cup {NoTier}
  BY DEF Row
<1>2. Save(t, r) => db' \in [Tokens -> Row]
  BY DEF Typed, TypeOK, Save
<1>3. SaveCopy(t, r) => db' \in [Tokens -> Row] /\ mem' \in [Tokens -> Row]
  BY <1>2 DEF Typed, TypeOK, SaveCopy
<1>4. Overwrite(t, r) => climb' \in [Tokens -> Tiers \cup {NoTier}]
                         /\ slips' \in [Tokens -> Nat] /\ sends' = sends
  BY <1>1, ForgetFacts DEF Typed, TypeOK, Overwrite
<1>5. QED
  BY <1>2, <1>3, <1>4 DEF Overwrite

\* What the writers leave alone in a row: only Marked touches the tier, only
\* Marked, Expired and Blocked take a row to another status.
LEMMA RowKeeps ==
  ASSUME NEW r \in Row
  PROVE  /\ LaterRow(r).status = r.status /\ LaterRow(r).tier = r.tier
         /\ Haunted(r).status = r.status /\ Haunted(r).tier = r.tier
         /\ Doubted(r).status = r.status /\ Doubted(r).tier = r.tier
         /\ Expired(r).status = "expired" /\ Expired(r).tier = r.tier
         /\ Blocked(r).status = "blocked" /\ Blocked(r).tier = r.tier
         /\ \A k \in Tiers : Marked(r, k).status = "alerted" /\ Marked(r, k).tier = k
         /\ \A p \in Prices \cup {0} :
              WithAth(r, p).status = r.status /\ WithAth(r, p).tier = r.tier
         /\ \A p \in Prices :
              /\ Polled(r, p).tier = r.tier
              /\ Polled(r, p).status \in {r.status, "ath_confirmed"}
              /\ r.status # "tracking" => Polled(r, p).status = r.status
BY DEF MakeRow, LaterRow, Haunted, Doubted, Expired, Blocked, Marked, WithAth, Polled, Row

-----------------------------------------------------------------------------
(* Types. *)

\* The types at the start, and then step by step:
LEMMA TypedInit == Init => Typed
BY ConstantsAssumption, RowFacts
   DEF Init, Typed, TypeOK, HandOK, LoopPc, FeedPc, AlertStage, Tiers, NoTier

\* loading the active rows,
LEMMA TypedLoad ==
  ASSUME Typed, NEW q \in LoopPc \ (AlertStage \cup {"seed", "validate"}), LoadInto(q)
  PROVE  Typed'
BY RowFacts
   DEF Typed, TypeOK, HandOK, LoadInto, feedVars, histVars, LoopPc, FeedPc, AlertStage

\* the end of a pass,
LEMMA TypedEndPass ==
  ASSUME Typed, EndPass
  PROVE  /\ pc' = "sleep" /\ cur' = NoToken /\ curTier' = NoTier
         /\ attempt' \in 1 .. MaxAttempts
         /\ mem' \in [Tokens -> Row] /\ todo' = {} /\ due' = {}
         /\ cycle' \in 0 .. DexMod - 1 /\ elapsed' \in 0 .. TickBudget
BY ConstantsAssumption, RowFacts DEF EndPass, PutAway, Typed, TypeOK

\* polls and the check,
LEMMA TypedPass ==
  ASSUME Typed,
         \/ Load \/ LoadNothing \/ Reload \/ Check \/ PollDone \/ AlertsDone
         \/ RetryDone \/ PassFails \/ Crash \/ Clock
         \/ \E t \in Tokens : GrowOld(t)
  PROVE  Typed'
<1> USE ConstantsAssumption
<1>1. CASE Load
  BY <1>1, TypedLoad DEF Load, LoopPc, AlertStage
<1>2. CASE LoadNothing
  BY <1>2, TypedEndPass
     DEF LoadNothing, Typed, TypeOK, HandOK, feedVars, histVars, LoopPc, AlertStage
<1>3. CASE Reload
  BY <1>3, TypedLoad DEF Reload, LoopPc, AlertStage
<1>4. CASE Check
  BY <1>4 DEF Check, Typed, TypeOK, HandOK, feedVars, histVars, LoopPc, AlertStage
<1>5. CASE PollDone
  BY <1>5 DEF PollDone, Typed, TypeOK, HandOK, feedVars, histVars, LoopPc, AlertStage
<1>6. CASE AlertsDone
  BY <1>6, TypedEndPass
     DEF AlertsDone, Typed, TypeOK, HandOK, feedVars, histVars, LoopPc, AlertStage
<1>7. CASE RetryDone
  BY <1>7, TypedEndPass
     DEF RetryDone, Typed, TypeOK, HandOK, feedVars, histVars, LoopPc, AlertStage
<1>8. LoseHand => climb' \in [Tokens -> Tiers \cup {NoTier}]
                  /\ slips' \in [Tokens -> Nat] /\ sends' = sends
  <2>1. CASE pc \in {"record", "mark"}
    <3>1. cur \in Tokens /\ db[cur].tier \in Tiers \cup {NoTier}
      BY <2>1 DEF Typed, TypeOK, HandOK, AlertStage, Row
    <3>2. QED
      BY <2>1, <3>1, ForgetFacts DEF LoseHand
  <2>2. CASE pc \notin {"record", "mark"}
    BY <2>2 DEF LoseHand, Typed, TypeOK
  <2>3. QED
    BY <2>1, <2>2
<1>9. CASE PassFails
  <2>1. /\ faults' \in 0 .. MaxFaults /\ EndPass /\ LoseHand
        /\ UNCHANGED <<db, alerts, fpc, ftok, fcopy, old>>
    BY <1>9 DEF PassFails, Typed, TypeOK, feedVars
  <2>2. QED
    BY <1>8, <2>1, TypedEndPass DEF Typed, TypeOK, HandOK, LoopPc, AlertStage
<1>10. CASE Crash
  BY <1>8, <1>10, RowFacts
     DEF Crash, PutAway, Typed, TypeOK, HandOK, LoopPc, FeedPc, AlertStage
<1>11. CASE Clock
  BY <1>11, RowFacts
     DEF Clock, Typed, TypeOK, HandOK, histVars
<1>12. CASE \E t \in Tokens : GrowOld(t)
  BY <1>12 DEF GrowOld, Typed, TypeOK, HandOK, loopVars, feedVars, histVars
<1>13. QED
  BY <1>1, <1>2, <1>3, <1>4, <1>5, <1>6, <1>7, <1>9, <1>10, <1>11, <1>12

\* alerts,
LEMMA TypedAlert ==
  ASSUME Typed,
         \/ TakeDue \/ GateAllow \/ GateNoData \/ GateBlock \/ HolderPass
         \/ HolderBlock \/ Refresh \/ SendAccepted \/ SendRefused
         \/ SendAnswerLost \/ SendRejected \/ SaveAlert \/ MarkAlerted
  PROVE  Typed'
<1> USE ConstantsAssumption
        DEF Typed, TypeOK, HandOK, feedVars, histVars, LoopPc, AlertStage, Save, PutAway
<1>1. CASE TakeDue
  <2>1. PICK p \in due : cur' = p[1] /\ curTier' = p[2] /\ due' = due \ {p}
    BY <1>1 DEF TakeDue
  <2>2. cur' \in Tokens /\ curTier' \in Tiers /\ due' \in SUBSET (Tokens \X Tiers)
    <3>1. due \in SUBSET (Tokens \X Tiers) /\ p \in Tokens \X Tiers
      BY <2>1
    <3>2. QED
      BY <2>1, <3>1
  <2>3. /\ UNCHANGED <<db, alerts, mem, todo, attempt, cycle, elapsed, old, faults>>
        /\ UNCHANGED <<fpc, ftok, fcopy, climb, sends, slips>>
    BY <1>1 DEF TakeDue
  <2>4. pc' = "gate"
    BY <1>1 DEF TakeDue
  <2> HIDE DEF TakeDue
  <2>5. QED
    BY <2>2, <2>3, <2>4
<1>2. CASE GateAllow
  BY <1>2 DEF GateAllow
<1>3. CASE GateNoData
  BY <1>3 DEF GateNoData
<1>4. CASE GateBlock
  BY <1>4, RowFacts DEF GateBlock
<1>5. CASE HolderPass
  BY <1>5 DEF HolderPass
<1>6. CASE HolderBlock
  <2>1. Haunted(mem[cur]) \in Row /\ cur \in Tokens
    BY <1>6, RowFacts DEF HolderBlock
  <2>2. QED
    BY <1>6, <2>1 DEF HolderBlock
<1>7. CASE Refresh
  <2>1. cur \in Tokens /\ \A p \in Prices \cup {0} : WithAth(mem[cur], p) \in Row
    BY <1>7, RowFacts DEF Refresh
  <2>2. /\ db' = db \/ db' \in [Tokens -> Row]
        /\ mem' = mem \/ mem' \in [Tokens -> Row]
        /\ faults' \in 0 .. MaxFaults
    <3>1. ASSUME NEW p \in Prices, SaveCopy(cur, WithAth(mem[cur], p))
          PROVE  db' \in [Tokens -> Row] /\ mem' \in [Tokens -> Row]
      BY <2>1, <3>1, SaveFacts
    <3>2. ASSUME NEW p \in Prices, mem' = [mem EXCEPT ![cur] = WithAth(mem[cur], p)]
          PROVE  mem' \in [Tokens -> Row]
      BY <2>1, <3>2
    <3>3. QED
      BY <1>7, <3>1, <3>2 DEF Refresh
  <2>3. QED
    BY <1>7, <2>2 DEF Refresh
<1>8a. pc = "send" /\ Deliver => sends' \in [Tokens -> [Tiers -> Nat]]
  <2>1. ASSUME pc = "send", Deliver PROVE sends' \in [Tokens -> [Tiers -> Nat]]
    <3>1. sends \in [Tokens -> [Tiers -> Nat]] /\ cur \in Tokens /\ curTier \in Tiers
      BY <2>1
    <3>2. [sends[cur] EXCEPT ![curTier] = @ + 1] \in [Tiers -> Nat]
      BY <3>1
    <3>3. sends' = [sends EXCEPT ![cur] = [sends[cur] EXCEPT ![curTier] = @ + 1]]
      BY <2>1 DEF Deliver
    <3>4. QED
      BY <3>1, <3>2, <3>3
  <2>2. QED
    BY <2>1
<1>8. CASE SendAccepted
  BY <1>8, <1>8a DEF SendAccepted
<1>9. CASE SendRefused
  BY <1>9 DEF SendRefused, TryAgain
<1>10. CASE SendAnswerLost
  <2>1. faults' \in 0 .. MaxFaults /\ attempt' \in 1 .. MaxAttempts
    BY <1>10 DEF SendAnswerLost, TryAgain
  <2>2. sends' \in [Tokens -> [Tiers -> Nat]]
    BY <1>10, <1>8a DEF SendAnswerLost
  <2>3. climb' \in [Tokens -> Tiers \cup {NoTier}] /\ slips' \in [Tokens -> Nat]
    BY <1>10 DEF SendAnswerLost
  <2>4. pc' \in LoopPc /\ (pc' \in AlertStage => cur' \in Tokens /\ curTier' \in Tiers)
        /\ cur' \in Tokens \cup {NoToken} /\ curTier' \in Tiers \cup {NoTier}
        /\ pc' \notin {"seed", "validate"}
    BY <1>10 DEF SendAnswerLost, TryAgain
  <2>5. /\ UNCHANGED <<db, alerts, mem, todo, due, cycle, elapsed, old>>
        /\ UNCHANGED <<fpc, ftok, fcopy>>
    BY <1>10 DEF SendAnswerLost
  <2>6. QED
    BY <2>1, <2>2, <2>3, <2>4, <2>5
<1>11. CASE SendRejected
  BY <1>11 DEF SendRejected
<1>12. CASE SaveAlert
  BY <1>12 DEF SaveAlert
<1>13. CASE MarkAlerted
  <2>1. cur \in Tokens /\ Marked(mem[cur], curTier) \in Row
    BY <1>13, RowFacts DEF MarkAlerted
  <2>2. db' \in [Tokens -> Row] /\ mem' \in [Tokens -> Row]
    BY <1>13, <2>1, SaveFacts DEF MarkAlerted
  <2>3. QED
    BY <1>13, <2>2 DEF MarkAlerted
<1>14. QED
  BY <1>1, <1>2, <1>3, <1>4, <1>5, <1>6, <1>7, <1>8, <1>9, <1>10, <1>11, <1>12, <1>13

\* time passing on rows,
LEMMA TypedRow ==
  ASSUME Typed, NEW t \in Tokens,
         Expire(t) \/ PollHit(t) \/ PollMiss(t) \/ RetryRead(t)
  PROVE  Typed'
<1> USE ConstantsAssumption
        DEF Typed, TypeOK, HandOK, feedVars, histVars, LoopPc, AlertStage, PutAway
<1>1. CASE Expire(t)
  <2>1. Expired(mem[t]) \in Row
    BY RowFacts
  <2>2. QED
    BY <1>1, <2>1, SaveFacts DEF Expire
<1>2. CASE PollHit(t)
  <2>1. \A p \in Prices : Polled(mem[t], p) \in Row
    BY RowFacts
  <2>2. QED
    BY <1>2, <2>1, SaveFacts DEF PollHit
<1>3. CASE PollMiss(t)
  BY <1>3 DEF PollMiss
<1>4. CASE RetryRead(t)
  BY <1>4 DEF RetryRead
<1>5. QED
  BY <1>1, <1>2, <1>3, <1>4

\* the retry pass,
LEMMA TypedRetry ==
  ASSUME Typed, RetryWrite \/ RetryKeep \/ RetryPhantom
  PROVE  Typed'
<1> USE ConstantsAssumption
        DEF Typed, TypeOK, HandOK, feedVars, histVars, LoopPc, AlertStage, PutAway
<1>1. CASE RetryWrite
  <2>1. cur \in Tokens /\ \A p \in Prices \cup {0} : WithAth(mem[cur], p) \in Row
    BY <1>1, RowFacts DEF RetryWrite
  <2>2. QED
    BY <1>1, <2>1, SaveFacts DEF RetryWrite
<1>2. CASE RetryKeep
  BY <1>2 DEF RetryKeep
<1>3. CASE RetryPhantom
  <2>1. cur \in Tokens /\ Doubted(mem[cur]) \in Row
    BY <1>3, RowFacts DEF RetryPhantom
  <2>2. db' \in [Tokens -> Row] /\ mem' \in [Tokens -> Row]
    BY <1>3, <2>1, SaveFacts DEF RetryPhantom
  <2>3. QED
    BY <1>3, <2>2 DEF RetryPhantom
<1>4. QED
  BY <1>1, <1>2, <1>3

\* feeders,
LEMMA TypedFeeder ==
  ASSUME Typed, NEW f \in Feeders, FeederStep(f)
  PROVE  Typed'
<1> USE ConstantsAssumption
        DEF Typed, TypeOK, HandOK, loopVars, histVars, FeedPc
<1>1. ASSUME NEW r \in Row, ftok[f] \in Tokens, SaveOwn(f, r)
      PROVE  /\ fcopy' \in [Feeders -> Row] /\ db' \in [Tokens -> Row]
             /\ climb' \in [Tokens -> Tiers \cup {NoTier}]
             /\ slips' \in [Tokens -> Nat] /\ sends' = sends
  BY <1>1, SaveFacts DEF SaveOwn
<1>2. FeederIdles(f) =>
        /\ fpc' \in [Feeders -> FeedPc] /\ fcopy' \in [Feeders -> Row]
        /\ ftok' \in [Feeders -> Tokens \cup {NoToken}]
        /\ \A g \in Feeders : fpc'[g] # "idle" => ftok'[g] \in Tokens
  BY RowFacts DEF FeederIdles
<1>3. ASSUME NEW t \in Tokens, Discover(f, t) PROVE Typed'
  BY <1>3 DEF Discover
<1>4. CASE BuildFail(f)
  BY <1>2, <1>4 DEF BuildFail
<1>5. CASE CreateRow(f)
  <2>1. ftok[f] \in Tokens /\ \A p \in Prices : FreshRow(p) \in Row
    BY <1>5, RowFacts DEF CreateRow
  <2>2. QED
    BY <1>1, <1>5, <2>1 DEF CreateRow
<1>6. CASE SeedHit(f)
  <2>1. ftok[f] \in Tokens /\ \A p \in Prices : WithAth(fcopy[f], p) \in Row
    BY <1>6, RowFacts DEF SeedHit
  <2>2. QED
    BY <1>1, <1>6, <2>1 DEF SeedHit
<1>7. CASE SeedMiss(f)
  BY <1>2, <1>7, SaveFacts DEF SeedMiss
<1>8. CASE SeedPhantom(f)
  <2>1. Doubted(fcopy[f]) \in Row /\ ftok[f] \in Tokens
    BY <1>8, RowFacts DEF SeedPhantom
  <2>2. QED
    BY <1>2, <1>8, <2>1, SaveFacts DEF SeedPhantom
<1>9. CASE SeedEnd(f)
  BY <1>2, <1>9 DEF SeedEnd
<1>10. QED
  BY <1>3, <1>4, <1>5, <1>6, <1>7, <1>8, <1>9 DEF FeederStep

\* and so every step.
LEMMA TypedStep == Typed /\ [Next]_vars => Typed'
<1> SUFFICES ASSUME Typed, [Next]_vars PROVE Typed'
  OBVIOUS
<1>1. CASE UNCHANGED vars
  BY <1>1 DEF Typed, TypeOK, HandOK, vars, loopVars, feedVars, histVars
<1>2. CASE AlertStep
  BY <1>2, TypedAlert, TypedPass DEF AlertStep
<1>3. CASE LoopStep
  <2>1. CASE Load \/ LoadNothing \/ PollDone \/ Reload \/ Check \/ RetryDone
    BY <2>1, TypedPass
  <2>2. ASSUME NEW t \in Tokens, Expire(t) \/ PollHit(t) \/ PollMiss(t) \/ RetryRead(t)
        PROVE  Typed'
    BY <2>2, TypedRow
  <2>3. CASE RetryWrite \/ RetryKeep \/ RetryPhantom
    BY <2>3, TypedRetry
  <2>4. QED
    BY <1>2, <1>3, <2>1, <2>2, <2>3 DEF LoopStep
<1>4. CASE WorldStep
  BY <1>4, TypedPass DEF WorldStep
<1>5. CASE \E f \in Feeders : FeederStep(f)
  BY <1>5, TypedFeeder
<1>6. QED
  BY <1>1, <1>3, <1>4, <1>5 DEF Next

\* Every table, copy and counter of the alert loop keeps its type, and a task
\* with something in hand has a token in hand.
THEOREM AlertLoopTypeOK == Spec => []TypeOK
<1>1. Spec => []Typed
  BY TypedInit, TypedStep, PTL DEF Spec
<1>2. Typed => TypeOK
  BY DEF Typed
<1>3. QED
  BY <1>1, <1>2, PTL

-----------------------------------------------------------------------------
(* Copies. *)

\* Every action of Next, as one disjunction.
LEMMA Actions ==
  ASSUME Next
  PROVE  \/ Load \/ LoadNothing \/ PollDone \/ Reload \/ Check \/ TakeDue
         \/ GateAllow \/ GateNoData \/ GateBlock \/ HolderPass \/ HolderBlock
         \/ Refresh \/ SendAccepted \/ SendRefused \/ SendAnswerLost
         \/ SendRejected \/ SaveAlert \/ MarkAlerted \/ AlertsDone
         \/ (\E t \in Tokens : Expire(t) \/ PollHit(t) \/ PollMiss(t) \/ RetryRead(t))
         \/ RetryWrite \/ RetryKeep \/ RetryPhantom \/ RetryDone
         \/ Clock \/ PassFails \/ Crash \/ (\E t \in Tokens : GrowOld(t))
         \/ \E f \in Feeders : FeederStep(f)
BY DEF Next, LoopStep, AlertStep, WorldStep

\* One tier fires for a row.
LEMMA FiresUnique ==
  ASSUME NEW r, NEW k \in Tiers, NEW j \in Tiers, Fires(r, k), Fires(r, j)
  PROVE  k = j
BY ConstantsAssumption DEF Fires, IsTier, Tiers

\* The clock changes no status and no tier.
LEMMA ClockKeeps ==
  ASSUME Typed, Clock
  PROVE  /\ \A t \in Tokens : /\ mem'[t].status = mem[t].status /\ mem'[t].tier = mem[t].tier
                              /\ db'[t].status = db[t].status /\ db'[t].tier = db[t].tier
         /\ \A f \in Feeders : /\ fcopy'[f].status = fcopy[f].status
                               /\ fcopy'[f].tier = fcopy[f].tier
BY RowKeeps DEF Clock, Typed, TypeOK

\* Every step keeps what copies say.
LEMMA CopyStep == Typed /\ CopyInv /\ [Next]_vars => CopyInv'
<1> SUFFICES ASSUME Typed, CopyInv, [Next]_vars PROVE CopyInv'
  OBVIOUS
<1> USE DEF CopyInv, AlertStage, Held, PutAway, feedVars, histVars, loopVars
<1>0. /\ mem \in [Tokens -> Row] /\ db \in [Tokens -> Row] /\ fcopy \in [Feeders -> Row]
      /\ todo \subseteq Tokens /\ due \subseteq Tokens \X Tiers
      /\ pc \in AlertStage => cur \in Tokens /\ curTier \in Tiers
      /\ pc \in {"seed", "validate"} => cur \in Tokens
  BY DEF Typed, TypeOK, HandOK
<1>1. CASE UNCHANGED vars
  BY <1>1 DEF vars
<1>2. CASE Load
  BY <1>0, <1>2 DEF Load, LoadInto, Active
<1>3. CASE LoadNothing
  BY <1>0, <1>3 DEF LoadNothing, EndPass
<1>4. CASE PollDone
  BY <1>4 DEF PollDone
<1>5. CASE Reload
  BY <1>0, <1>5 DEF Reload, LoadInto
<1>6. CASE Check
  BY <1>0, <1>6, FiresUnique DEF Check, Fires, Alertable
<1>7. CASE TakeDue
  BY <1>0, <1>7 DEF TakeDue
<1>8. CASE GateAllow
  BY <1>8 DEF GateAllow
<1>9. CASE GateNoData
  BY <1>9 DEF GateNoData
<1>10. CASE GateBlock
  BY <1>10 DEF GateBlock
<1>11. CASE HolderPass
  BY <1>11 DEF HolderPass
<1>12. CASE HolderBlock
  BY <1>0, <1>12, RowKeeps DEF HolderBlock
<1>13. CASE Refresh
  BY <1>0, <1>13, RowKeeps DEF Refresh, SaveCopy
<1>14. CASE SendAccepted
  BY <1>14 DEF SendAccepted
<1>15. CASE SendRefused \/ SendAnswerLost \/ SendRejected
  BY <1>15 DEF SendRefused, SendAnswerLost, SendRejected, TryAgain
<1>16. CASE SaveAlert
  BY <1>16 DEF SaveAlert
<1>17. CASE MarkAlerted
  BY <1>0, <1>17, RowKeeps DEF MarkAlerted, SaveCopy
<1>18. CASE AlertsDone
  BY <1>18 DEF AlertsDone, EndPass
<1>19. ASSUME NEW t \in Tokens, Expire(t) PROVE CopyInv'
  BY <1>0, <1>19, RowKeeps DEF Expire, SaveCopy
<1>20. ASSUME NEW t \in Tokens, PollHit(t) PROVE CopyInv'
  BY <1>0, <1>20, RowKeeps DEF PollHit, SaveCopy
<1>21. ASSUME NEW t \in Tokens, PollMiss(t) PROVE CopyInv'
  BY <1>21 DEF PollMiss
<1>22. ASSUME NEW t \in Tokens, RetryRead(t) PROVE CopyInv'
  BY <1>0, <1>22 DEF RetryRead, MayBeQueued
<1>23. CASE RetryWrite
  BY <1>0, <1>23, RowKeeps DEF RetryWrite, SaveCopy
<1>24. CASE RetryKeep
  BY <1>24 DEF RetryKeep
<1>25. CASE RetryPhantom
  BY <1>0, <1>25, RowKeeps DEF RetryPhantom, SaveCopy
<1>26. CASE RetryDone
  BY <1>26 DEF RetryDone, EndPass
<1>27. CASE Clock
  <2>1. /\ UNCHANGED <<pc, todo, due, cur, curTier>>
        /\ \A t \in Tokens : mem'[t].status = mem[t].status /\ mem'[t].tier = mem[t].tier
        /\ \A f \in Feeders : /\ fcopy'[f].status = fcopy[f].status
                              /\ fcopy'[f].tier = fcopy[f].tier
    BY <1>27, ClockKeeps DEF Clock
  <2>2. QED
    BY <1>0, <2>1
<1>28. CASE PassFails
  BY <1>28 DEF PassFails, EndPass
<1>29. CASE Crash
  BY <1>29 DEF Crash, NoRow, MakeRow, Terminal
<1>30. ASSUME NEW t \in Tokens, GrowOld(t) PROVE CopyInv'
  BY <1>30 DEF GrowOld
<1>31. ASSUME NEW f \in Feeders, FeederStep(f) PROVE CopyInv'
  <2>1. UNCHANGED loopVars
    BY <1>31 DEF FeederStep, Discover, BuildFail, CreateRow, SeedHit, SeedMiss,
                 SeedPhantom, SeedEnd
  <2>2. \A g \in Feeders : fcopy'[g].tier = NoTier /\ fcopy'[g].status \notin Terminal
    <3>1. \A p \in Prices : FreshRow(p).tier = NoTier /\ FreshRow(p).status \notin Terminal
      BY DEF FreshRow, MakeRow, Terminal
    <3>2. NoRow.tier = NoTier /\ NoRow.status \notin Terminal
      BY DEF NoRow, MakeRow, Terminal
    <3>3. QED
      BY <1>0, <1>31, <3>1, <3>2, RowKeeps
         DEF FeederStep, Discover, BuildFail, CreateRow, SeedHit, SeedMiss,
             SeedPhantom, SeedEnd, FeederIdles, SaveOwn
  <2>3. QED
    BY <2>1, <2>2
<1>32. QED
  BY <1>1, <1>2, <1>3, <1>4, <1>5, <1>6, <1>7, <1>8, <1>9, <1>10, <1>11, <1>12,
     <1>13, <1>14, <1>15, <1>16, <1>17, <1>18, <1>19, <1>20, <1>21, <1>22, <1>23,
     <1>24, <1>25, <1>26, <1>27, <1>28, <1>29, <1>30, <1>31, Actions

-----------------------------------------------------------------------------
(* The ladder. *)

\* What a save by a feeder means for the ladder: a slip if a tier is lost.
LEMMA OverwriteSlips ==
  ASSUME Typed, NEW t \in Tokens, NEW r \in Row, r.tier = NoTier, Overwrite(t, r)
  PROVE  /\ sends' = sends
         /\ db' = [db EXCEPT ![t] = r]
         /\ \/ UNCHANGED <<climb, slips>> /\ db[t].tier = NoTier
            \/ /\ climb' = [climb EXCEPT ![t] = NoTier]
               /\ slips' = [slips EXCEPT ![t] = @ + 1]
<1>1. climb[t] \in Tiers \cup {NoTier} /\ db[t].tier \in Tiers \cup {NoTier}
  BY DEF Typed, TypeOK, Row
<1>2. CASE r.tier < db[t].tier
  <2>1. (IF r.tier < climb[t] THEN r.tier ELSE climb[t]) = NoTier
    BY <1>1, ConstantsAssumption DEF Tiers, NoTier
  <2>2. QED
    BY <1>2, <2>1 DEF Overwrite, Forget, Save
<1>3. CASE ~(r.tier < db[t].tier)
  BY <1>1, <1>3, ConstantsAssumption DEF Overwrite, Save, Tiers, NoTier
<1>4. QED
  BY <1>2, <1>3

\* A feeder leaves the loop alone, and its saves only lose tiers.
LEMMA FeederSlips ==
  ASSUME Typed, CopyInv, NEW f \in Feeders, FeederStep(f)
  PROVE  /\ UNCHANGED <<alerts, loopVars, sends>>
         /\ \/ UNCHANGED <<db, climb, slips>>
            \/ \E t \in Tokens, r \in Row :
                 /\ FeederHolds(t)
                 /\ r.tier = NoTier /\ r.status \notin Terminal
                 /\ Overwrite(t, r)
<1>1. /\ fcopy[f] \in Row /\ fcopy[f].tier = NoTier /\ fcopy[f].status \notin Terminal
      /\ fpc[f] # "idle" => ftok[f] \in Tokens /\ FeederHolds(ftok[f])
  BY DEF Typed, TypeOK, HandOK, CopyInv, FeederHolds
<1>2. CASE \E t \in Tokens : Discover(f, t)
  BY <1>2 DEF Discover, histVars
<1>3. CASE BuildFail(f) \/ SeedEnd(f)
  BY <1>3 DEF BuildFail, SeedEnd, histVars
<1>4. CASE CreateRow(f)
  <2>1. \A p \in Prices : /\ FreshRow(p) \in Row /\ FreshRow(p).tier = NoTier
                         /\ FreshRow(p).status \notin Terminal
    BY RowFacts DEF FreshRow, MakeRow, Terminal
  <2>2. QED
    BY <1>1, <1>4, <2>1 DEF CreateRow, SaveOwn, Overwrite
<1>5. CASE SeedHit(f)
  <2>1. \A p \in Prices : /\ WithAth(fcopy[f], p) \in Row
                         /\ WithAth(fcopy[f], p).tier = NoTier
                         /\ WithAth(fcopy[f], p).status \notin Terminal
    <3>1. \A p \in Prices : WithAth(fcopy[f], p) \in Row
      BY <1>1, RowFacts
    <3>2. \A p \in Prices : /\ WithAth(fcopy[f], p).tier = fcopy[f].tier
                           /\ WithAth(fcopy[f], p).status = fcopy[f].status
      BY <1>1, RowKeeps
    <3>3. QED
      BY <1>1, <3>1, <3>2
  <2>2. PICK p \in Prices : SaveOwn(f, WithAth(fcopy[f], p))
    BY <1>5 DEF SeedHit
  <2>3. /\ UNCHANGED <<alerts, loopVars, sends>>
        /\ Overwrite(ftok[f], WithAth(fcopy[f], p))
        /\ fpc[f] # "idle"
    BY <1>5, <2>2 DEF SeedHit, SaveOwn, Overwrite
  <2>4. QED
    BY <1>1, <2>1, <2>3
<1>6. CASE SeedMiss(f)
  BY <1>1, <1>6 DEF SeedMiss, Overwrite
<1>7. CASE SeedPhantom(f)
  <2>1. /\ Doubted(fcopy[f]) \in Row /\ Doubted(fcopy[f]).tier = NoTier
        /\ Doubted(fcopy[f]).status \notin Terminal
    BY <1>1, RowFacts, RowKeeps
  <2>2. QED
    BY <1>1, <1>7, <2>1 DEF SeedPhantom, Overwrite
<1>8. QED
  BY <1>2, <1>3, <1>4, <1>5, <1>6, <1>7 DEF FeederStep

\* The history of the token in hand when the loop or the process fails.
LEMMA LoseHandSlips ==
  ASSUME Typed, ClimbInv, LoseHand
  PROVE  /\ sends' = sends
         /\ \/ UNCHANGED <<climb, slips>> /\ pc \notin {"record", "mark"}
            \/ \E t \in Tokens, k \in Tiers \cup {NoTier} :
                 /\ Hand(t)
                 /\ k <= climb[t] /\ k <= db[t].tier
                 /\ climb' = [climb EXCEPT ![t] = k]
                 /\ slips' = [slips EXCEPT ![t] = @ + 1]
<1>1. CASE pc \in {"record", "mark"}
  <2>1. cur \in Tokens /\ Hand(cur)
    BY <1>1 DEF Typed, HandOK, AlertStage, Hand
  <2>2. climb[cur] \in Tiers \cup {NoTier} /\ db[cur].tier \in Tiers \cup {NoTier}
    BY <2>1 DEF Typed, TypeOK, Row
  <2>3. Forget(cur, db[cur].tier) /\ sends' = sends
    BY <1>1 DEF LoseHand
  <2>4. PICK k \in Tiers \cup {NoTier} :
          k = (IF db[cur].tier < climb[cur] THEN db[cur].tier ELSE climb[cur])
    BY <2>2
  <2>5. k <= climb[cur] /\ k <= db[cur].tier
    BY <2>2, <2>4, ConstantsAssumption DEF Tiers, NoTier
  <2>6. climb' = [climb EXCEPT ![cur] = k] /\ slips' = [slips EXCEPT ![cur] = @ + 1]
    BY <2>3, <2>4 DEF Forget
  <2>7. QED
    BY <2>1, <2>3, <2>5, <2>6
<1>2. CASE pc \notin {"record", "mark"}
  BY <1>2 DEF LoseHand
<1>3. QED
  BY <1>1, <1>2

\* Every step keeps rows and copies at or above what was announced.
LEMMA ClimbStep == Typed /\ CopyInv /\ ClimbInv /\ [Next]_vars => ClimbInv'
<1> SUFFICES ASSUME Typed, CopyInv, ClimbInv, [Next]_vars PROVE ClimbInv'
  OBVIOUS
<1> USE DEF ClimbInv, Hand, Held, PutAway, feedVars, histVars, loopVars
<1>0. /\ mem \in [Tokens -> Row] /\ db \in [Tokens -> Row]
      /\ climb \in [Tokens -> Tiers \cup {NoTier}]
      /\ \A t \in Tokens : climb[t] \in Int /\ mem[t].tier \in Int /\ db[t].tier \in Int
      /\ \A k \in Tiers \cup {NoTier} : k \in Int
      /\ todo \subseteq Tokens
      /\ pc \in AlertStage => cur \in Tokens /\ curTier \in Tiers /\ Held(cur)
      /\ pc = "send" => mem[cur].tier < curTier
      /\ pc \in {"seed", "validate"} => cur \in Tokens /\ Held(cur)
      /\ pc = "poll" => \A t \in todo : Held(t)
  <2>1. \A k \in Tiers \cup {NoTier} : k \in Int
    BY ConstantsAssumption DEF Tiers, NoTier
  <2>2. \A r \in Row : r.tier \in Tiers \cup {NoTier}
    BY DEF Row
  <2>3. /\ mem \in [Tokens -> Row] /\ db \in [Tokens -> Row] /\ todo \subseteq Tokens
        /\ climb \in [Tokens -> Tiers \cup {NoTier}]
    BY DEF Typed, TypeOK
  <2>4. QED
    BY <2>1, <2>2, <2>3 DEF Typed, HandOK, CopyInv, AlertStage
<1>1. CASE UNCHANGED vars
  BY <1>1 DEF vars
<1>2. CASE Load
  BY <1>0, <1>2, RowFacts DEF Load, LoadInto, NoRow, MakeRow
<1>3. CASE LoadNothing
  BY <1>0, <1>3 DEF LoadNothing, EndPass, NoRow, MakeRow
<1>4. CASE PollDone
  BY <1>4 DEF PollDone
<1>5. CASE Reload
  BY <1>0, <1>5, RowFacts DEF Reload, LoadInto, NoRow, MakeRow
<1>6. CASE Check
  BY <1>6 DEF Check
<1>7. CASE TakeDue
  BY <1>7 DEF TakeDue
<1>8. CASE GateAllow
  BY <1>8 DEF GateAllow
<1>9. CASE GateNoData
  BY <1>9 DEF GateNoData
<1>10. CASE GateBlock
  BY <1>0, <1>10, RowKeeps DEF GateBlock, AlertStage, Save
<1>11. CASE HolderPass
  BY <1>11 DEF HolderPass
<1>12. CASE HolderBlock
  <2>1. cur \in Tokens /\ Haunted(mem[cur]).tier = mem[cur].tier
        /\ Haunted(mem[cur]).status = mem[cur].status
    BY <1>0, <1>12, RowKeeps DEF HolderBlock, AlertStage
  <2>2. /\ mem' = [mem EXCEPT ![cur] = Haunted(mem[cur])]
        /\ db' = [db EXCEPT ![cur] = Haunted(mem[cur])] \/ db' = db
        /\ climb' = climb /\ pc = "holder" /\ pc' = "alerts" /\ Held(cur)
    BY <1>0, <1>12 DEF HolderBlock, AlertStage, Save
  <2>3. QED
    BY <1>0, <2>1, <2>2
<1>13. CASE Refresh
  <2>1. cur \in Tokens /\ \A p \in Prices : /\ WithAth(mem[cur], p).tier = mem[cur].tier
                                          /\ WithAth(mem[cur], p).status = mem[cur].status
    BY <1>0, <1>13, RowKeeps DEF Refresh, AlertStage
  <2>2. climb' = climb /\ pc = "refresh" /\ pc' = "send" /\ Held(cur)
    BY <1>0, <1>13 DEF Refresh, AlertStage
  <2>3. CASE UNCHANGED <<mem, db>>
    BY <1>0, <2>2, <2>3
  <2>4. ASSUME NEW p \in Prices, mem' = [mem EXCEPT ![cur] = WithAth(mem[cur], p)],
               SaveCopy(cur, WithAth(mem[cur], p)) \/ UNCHANGED db
        PROVE  ClimbInv'
    BY <1>0, <2>1, <2>2, <2>4 DEF SaveCopy, Save
  <2>5. QED
    BY <1>13, <2>3, <2>4 DEF Refresh, SaveCopy
<1>14. CASE SendAccepted
  BY <1>0, <1>14 DEF SendAccepted, AlertStage
<1>15. CASE SendRefused \/ SendAnswerLost \/ SendRejected
  BY <1>15 DEF SendRefused, SendAnswerLost, SendRejected, TryAgain
<1>16. CASE SaveAlert
  BY <1>16 DEF SaveAlert
<1>17. CASE MarkAlerted
  BY <1>0, <1>17, RowKeeps DEF MarkAlerted, SaveCopy, AlertStage, Save
<1>18. CASE AlertsDone
  BY <1>18 DEF AlertsDone, EndPass, NoRow, MakeRow
<1>19. ASSUME NEW t \in Tokens, Expire(t) PROVE ClimbInv'
  BY <1>0, <1>19, RowKeeps DEF Expire, SaveCopy, Save
<1>20. ASSUME NEW t \in Tokens, PollHit(t) PROVE ClimbInv'
  BY <1>0, <1>20, RowKeeps DEF PollHit, SaveCopy, Save
<1>21. ASSUME NEW t \in Tokens, PollMiss(t) PROVE ClimbInv'
  BY <1>21 DEF PollMiss
<1>22. ASSUME NEW t \in Tokens, RetryRead(t) PROVE ClimbInv'
  BY <1>0, <1>22 DEF RetryRead, MayBeQueued
<1>23. CASE RetryWrite
  BY <1>0, <1>23, RowKeeps DEF RetryWrite, SaveCopy, Save
<1>24. CASE RetryKeep
  BY <1>24 DEF RetryKeep
<1>25. CASE RetryPhantom
  BY <1>0, <1>25, RowKeeps DEF RetryPhantom, SaveCopy, Save
<1>26. CASE RetryDone
  BY <1>26 DEF RetryDone, EndPass, NoRow, MakeRow
<1>27. CASE Clock
  <2>1. /\ UNCHANGED <<pc, cur, curTier, climb>>
        /\ \A t \in Tokens : /\ mem'[t].status = mem[t].status
                             /\ mem'[t].tier = mem[t].tier /\ db'[t].tier = db[t].tier
    BY <1>27, ClockKeeps DEF Clock
  <2>2. QED
    BY <1>0, <2>1
<1>28. CASE PassFails \/ Crash
  <2>1. LoseHand /\ db' = db /\ pc' = "sleep" /\ mem' = [t \in Tokens |-> NoRow]
    BY <1>28 DEF PassFails, Crash, EndPass
  <2>2. QED
    BY <1>0, <2>1, LoseHandSlips DEF NoRow, MakeRow
<1>29. ASSUME NEW t \in Tokens, GrowOld(t) PROVE ClimbInv'
  BY <1>29 DEF GrowOld
<1>30. ASSUME NEW f \in Feeders, FeederStep(f) PROVE ClimbInv'
  <2>1. UNCHANGED loopVars
    BY <1>30, FeederSlips
  <2>2. CASE UNCHANGED <<db, climb, slips>>
    BY <2>1, <2>2
  <2>3. ASSUME NEW t \in Tokens, NEW r \in Row, r.tier = NoTier, Overwrite(t, r)
        PROVE  ClimbInv'
    <3>1. /\ db' = [db EXCEPT ![t] = r]
          /\ \/ UNCHANGED <<climb, slips>> /\ db[t].tier = NoTier
             \/ climb' = [climb EXCEPT ![t] = NoTier]
      BY <2>3, OverwriteSlips
    <3>2. \A k \in Tiers \cup {NoTier} : NoTier <= k
      BY ConstantsAssumption DEF Tiers, NoTier
    <3>3. UNCHANGED <<mem, pc, cur, curTier>>
      BY <2>1
    <3>4. ASSUME NEW u \in Tokens
          PROVE  /\ climb'[u] <= climb[u]
                 /\ Hand(u) \/ climb'[u] <= db'[u].tier
      <4>1. CASE u = t
        BY <1>0, <2>3, <3>1, <3>2, <4>1
      <4>2. CASE u # t
        BY <1>0, <3>1, <4>2
      <4>3. QED
        BY <4>1, <4>2
    <3>5. \A u \in Tokens : climb'[u] \in Int
      BY <1>0, <3>1, ConstantsAssumption DEF NoTier
    <3>6. QED
      BY <1>0, <3>3, <3>4, <3>5 DEF AlertStage
  <2>4. QED
    BY <1>30, <2>2, <2>3, FeederSlips
<1>31. QED
  BY <1>1, <1>2, <1>3, <1>4, <1>5, <1>6, <1>7, <1>8, <1>9, <1>10, <1>11, <1>12,
     <1>13, <1>14, <1>15, <1>16, <1>17, <1>18, <1>19, <1>20, <1>21, <1>22, <1>23,
     <1>24, <1>25, <1>26, <1>27, <1>28, <1>29, <1>30, Actions

\* The constants of AlertLoop are constants of the ladder.
LEMMA LadderInit == Init => Ladder!Init
BY DEF Init, Ladder!Init, Tiers, Ladder!Tiers, NoTier

\* Every step of the loop, the feeders and the world is a step of the ladder
\* or none.
LEMMA LadderStep ==
  Typed /\ CopyInv /\ ClimbInv /\ [Next]_vars => [Ladder!Next]_(Ladder!vars)
<1> SUFFICES ASSUME Typed, CopyInv, ClimbInv, [Next]_vars
             PROVE  Ladder!Next \/ UNCHANGED <<climb, sends, slips>>
  BY DEF Ladder!vars
<1>0. /\ Tiers = Ladder!Tiers
      /\ climb \in [Tokens -> Tiers \cup {NoTier}]
      /\ \A t \in Tokens : climb[t] \in Int
  BY ConstantsAssumption DEF Typed, TypeOK, Tiers, Ladder!Tiers, NoTier
<1>1. pc = "send" => cur \in Tokens /\ curTier \in Tiers /\ curTier > climb[cur]
  <2>1. pc = "send" => /\ cur \in Tokens /\ curTier \in Tiers
                       /\ climb[cur] <= mem[cur].tier /\ mem[cur].tier < curTier
    BY DEF Typed, HandOK, CopyInv, ClimbInv, Hand, AlertStage
  <2>2. pc = "send" => mem[cur].tier \in Int /\ curTier \in Int
    BY <2>1, ConstantsAssumption DEF Typed, TypeOK, Row, Tiers, NoTier
  <2>3. QED
    BY <1>0, <2>1, <2>2
<1>2. CASE SendAccepted
  BY <1>0, <1>1, <1>2 DEF SendAccepted, Deliver, Ladder!Next, Ladder!Announce
<1>3. CASE SendAnswerLost
  BY <1>0, <1>1, <1>3 DEF SendAnswerLost, Deliver, Ladder!Next, Ladder!AnnounceUnknowingly
<1>4. ASSUME NEW t \in Tokens, NEW k \in Tiers \cup {NoTier}, k <= climb[t], sends' = sends,
             climb' = [climb EXCEPT ![t] = k], slips' = [slips EXCEPT ![t] = @ + 1]
      PROVE  Ladder!Next
  <2>1. k \in -1 .. climb[t]
    BY <1>0, <1>4, ConstantsAssumption DEF Tiers, NoTier
  <2>2. Ladder!Slip(t)
    BY <1>4, <2>1 DEF Ladder!Slip
  <2>3. QED
    BY <2>2 DEF Ladder!Next
<1>5. CASE PassFails \/ Crash
  BY <1>4, <1>5, LoseHandSlips DEF PassFails, Crash
<1>6. ASSUME NEW f \in Feeders, FeederStep(f)
      PROVE  Ladder!Next \/ UNCHANGED <<climb, sends, slips>>
  <2>1. sends' = sends
    BY <1>6, FeederSlips
  <2>2. ASSUME NEW t \in Tokens, NEW r \in Row, r.tier = NoTier, Overwrite(t, r)
        PROVE  Ladder!Next \/ UNCHANGED <<climb, slips>>
    <3>1. NoTier \in Tiers \cup {NoTier} /\ NoTier <= climb[t]
      BY <1>0, ConstantsAssumption DEF Tiers, NoTier
    <3>2. QED
      BY <1>4, <2>1, <2>2, <3>1, OverwriteSlips
  <2>3. QED
    BY <1>6, <2>1, <2>2, FeederSlips
<1>7. CASE \/ Load \/ LoadNothing \/ PollDone \/ Reload \/ Check \/ TakeDue
           \/ GateAllow \/ GateNoData \/ GateBlock \/ HolderPass \/ HolderBlock
           \/ Refresh \/ SendRefused \/ SendRejected \/ SaveAlert \/ MarkAlerted
           \/ AlertsDone \/ RetryWrite \/ RetryKeep \/ RetryPhantom \/ RetryDone
           \/ Clock \/ UNCHANGED vars
  BY <1>7
     DEF Load, LoadInto, LoadNothing, PollDone, Reload, Check, TakeDue, GateAllow,
         GateNoData, GateBlock, HolderPass, HolderBlock, Refresh, SendRefused,
         SendRejected, SaveAlert, MarkAlerted, AlertsDone, RetryWrite, RetryKeep,
         RetryPhantom, RetryDone, Clock, histVars, vars
<1>8. ASSUME NEW t \in Tokens,
             Expire(t) \/ PollHit(t) \/ PollMiss(t) \/ RetryRead(t) \/ GrowOld(t)
      PROVE  UNCHANGED <<climb, sends, slips>>
  BY <1>8 DEF Expire, PollHit, PollMiss, RetryRead, GrowOld, histVars
<1>9. QED
  BY <1>2, <1>3, <1>5, <1>6, <1>7, <1>8, Actions

\* These three always hold.
LEMMA LadderInvariant == Spec => [](Typed /\ CopyInv /\ ClimbInv)
<1>1. Init => CopyInv /\ ClimbInv
  BY DEF Init, CopyInv, ClimbInv, Hand, Held, NoRow, MakeRow, FreshRow, AlertStage,
         Terminal, NoTier
<1>2. QED
  BY <1>1, TypedInit, TypedStep, CopyStep, ClimbStep, PTL DEF Spec

\* The loop with its stale copies, its crashes, its feeders and its retries
\* implements the ladder of alerts.
THEOREM AlertLoopImplementsLadder == Spec => ImplementsLadder
BY LadderInit, LadderStep, LadderInvariant, PTL DEF Spec, ImplementsLadder, Ladder!Spec

LadderProofs == INSTANCE AlertLadderProofs WITH deepest <- climb

\* Hence a subscriber gets each tier of a token at most once more often than
\* the bot slipped, whatever the interleaving.
THEOREM AlertLoopOncePerTier == Spec => []OncePerTier
<1>1. LadderProofs!Spec => []LadderProofs!OncePerTier
  BY LadderProofs!LadderOncePerTier, ConstantsAssumption
<1>2. Ladder!Spec => LadderProofs!Spec
  <2>1. Ladder!Init => LadderProofs!Init
    BY DEF Ladder!Init, LadderProofs!Init, Ladder!Tiers, LadderProofs!Tiers
  <2>2. [Ladder!Next]_(Ladder!vars) => [LadderProofs!Next]_(LadderProofs!vars)
    BY DEF Ladder!Next, LadderProofs!Next, Ladder!vars, LadderProofs!vars,
           Ladder!Announce, LadderProofs!Announce, Ladder!Slip, LadderProofs!Slip,
           Ladder!AnnounceUnknowingly, LadderProofs!AnnounceUnknowingly,
           Ladder!Tiers, LadderProofs!Tiers
  <2>3. QED
    BY <2>1, <2>2, PTL DEF Ladder!Spec, LadderProofs!Spec
<1>3. LadderProofs!OncePerTier => OncePerTier
  BY DEF LadderProofs!OncePerTier, OncePerTier, Ladder!OncePerTier, LadderProofs!Tiers,
         Ladder!Tiers
<1>4. QED
  BY <1>1, <1>2, <1>3, AlertLoopImplementsLadder, PTL DEF ImplementsLadder

-----------------------------------------------------------------------------
(* Records. *)

\* The steps that make or forget no announcement and no record, and copy tiers
\* only between a row and the loop's object for it.
TiersStay ==
  /\ UNCHANGED <<alerts, sends, slips>>
  /\ pc \notin {"record", "mark"} /\ pc' \notin {"record", "mark"}
  /\ \A t \in Tokens : db'[t].tier \in {NoTier, db[t].tier, mem[t].tier}
  /\ \A t \in Tokens : mem'[t].tier \in {NoTier, db[t].tier, mem[t].tier}

\* Where no tier and no record changes, records go on matching.
LEMMA TiersStayRecord == RecordInv /\ TiersStay => RecordInv'
BY DEF RecordInv, TiersStay, MarkedHasRecord, RecordsMatchChat

\* The steps that change tiers or records are four.
LEMMA TiersStaySteps ==
  ASSUME Typed, Next
  PROVE  \/ TiersStay \/ SendAccepted \/ SendAnswerLost \/ SaveAlert \/ MarkAlerted
         \/ PassFails \/ Crash \/ Clock \/ \E t \in Tokens : GrowOld(t)
         \/ \E f \in Feeders : FeederStep(f)
<1> USE DEF TiersStay, PutAway, feedVars, histVars, loopVars
<1>0. /\ mem \in [Tokens -> Row] /\ db \in [Tokens -> Row] /\ NoRow.tier = NoTier
      /\ pc \in AlertStage \cup {"seed", "validate"} => cur \in Tokens
      /\ \A p \in Prices : p \in Prices \cup {0}
  BY DEF Typed, TypeOK, HandOK, NoRow, MakeRow
<1>1. CASE Load \/ Reload
  BY <1>0, <1>1 DEF Load, Reload, LoadInto
<1>2. CASE LoadNothing \/ AlertsDone \/ RetryDone
  BY <1>0, <1>2 DEF LoadNothing, AlertsDone, RetryDone, EndPass
<1>3. CASE PollDone \/ Check \/ TakeDue \/ GateAllow \/ GateNoData \/ HolderPass
           \/ SendRefused \/ SendRejected \/ RetryKeep
  BY <1>3 DEF PollDone, Check, TakeDue, GateAllow, GateNoData, HolderPass,
              SendRefused, SendRejected, TryAgain, RetryKeep
<1>4. CASE GateBlock
  <2>1. cur \in Tokens /\ Blocked(db[cur]).tier = db[cur].tier
    BY <1>0, <1>4, RowKeeps DEF GateBlock, AlertStage
  <2>2. QED
    BY <1>0, <1>4, <2>1 DEF GateBlock, Save
<1>5. CASE HolderBlock
  <2>1. cur \in Tokens /\ Haunted(mem[cur]).tier = mem[cur].tier
    BY <1>0, <1>5, RowKeeps DEF HolderBlock, AlertStage
  <2>2. QED
    BY <1>0, <1>5, <2>1 DEF HolderBlock, Save
<1>6. CASE Refresh \/ RetryWrite
  <2>1. /\ cur \in Tokens
        /\ \A p \in Prices \cup {0} : WithAth(mem[cur], p).tier = mem[cur].tier
    BY <1>0, <1>6, RowKeeps DEF Refresh, RetryWrite, AlertStage
  <2>2. QED
    BY <1>0, <1>6, <2>1 DEF Refresh, RetryWrite, SaveCopy, Save
<1>7. CASE RetryPhantom
  <2>1. cur \in Tokens /\ Doubted(mem[cur]).tier = mem[cur].tier
    BY <1>0, <1>7, RowKeeps DEF RetryPhantom
  <2>2. QED
    BY <1>0, <1>7, <2>1 DEF RetryPhantom, SaveCopy, Save
<1>8. ASSUME NEW t \in Tokens, Expire(t) \/ PollHit(t) \/ PollMiss(t) \/ RetryRead(t)
      PROVE  TiersStay
  <2>1. /\ Expired(mem[t]).tier = mem[t].tier
        /\ \A p \in Prices : Polled(mem[t], p).tier = mem[t].tier
    BY <1>0, RowKeeps
  <2>2. QED
    BY <1>0, <1>8, <2>1 DEF Expire, PollHit, PollMiss, RetryRead, SaveCopy, Save
<1>9. QED
  BY <1>1, <1>2, <1>3, <1>4, <1>5, <1>6, <1>7, <1>8, Actions

\* Every step keeps records between rows and messages.
LEMMA RecordStep == Typed /\ CopyInv /\ ClimbInv /\ RecordInv /\ [Next]_vars => RecordInv'
<1> SUFFICES ASSUME Typed, CopyInv, ClimbInv, RecordInv, [Next]_vars PROVE RecordInv'
  OBVIOUS
<1> USE DEF RecordInv, MarkedHasRecord, RecordsMatchChat, PutAway, feedVars, histVars, loopVars
<1>0. /\ mem \in [Tokens -> Row] /\ db \in [Tokens -> Row] /\ NoRow.tier = NoTier
      /\ sends \in [Tokens -> [Tiers -> Nat]] /\ slips \in [Tokens -> Nat]
      /\ pc \in AlertStage => cur \in Tokens /\ curTier \in Tiers
      /\ alerts \subseteq Tokens \X Tiers
  BY DEF Typed, TypeOK, HandOK, NoRow, MakeRow
<1>1. CASE UNCHANGED vars
  BY <1>1 DEF vars
<1>2. CASE SendAccepted
  BY <1>0, <1>2 DEF SendAccepted, Deliver, AlertStage
<1>3. CASE SendAnswerLost
  BY <1>0, <1>3 DEF SendAnswerLost, Deliver, TryAgain, AlertStage
<1>4. CASE SaveAlert
  BY <1>0, <1>4 DEF SaveAlert, AlertStage
<1>5. CASE MarkAlerted
  <2>1. cur \in Tokens /\ curTier \in Tiers /\ Marked(mem[cur], curTier).tier = curTier
    BY <1>0, <1>5, RowKeeps DEF MarkAlerted, AlertStage
  <2>2. QED
    BY <1>0, <1>5, <2>1 DEF MarkAlerted, SaveCopy, Save
<1>6. CASE PassFails \/ Crash
  <2>1. /\ UNCHANGED <<db, alerts>> /\ pc' = "sleep" /\ mem' = [t \in Tokens |-> NoRow]
        /\ LoseHand
    BY <1>6 DEF PassFails, Crash, EndPass
  <2>2. sends' = sends /\ \A t \in Tokens : slips'[t] >= slips[t] /\ (Hand(t) => slips'[t] > 0)
    BY <1>0, <2>1, LoseHandSlips DEF Hand
  <2>3. \A t \in Tokens : slips[t] \in Nat /\ (slips[t] > 0 => slips'[t] > 0)
    BY <1>0, <2>1, <2>2, LoseHandSlips DEF Hand
  <2>4. MarkedHasRecord' /\ \A t \in Tokens : mem'[t].tier = NoTier
    BY <1>0, <2>1
  <2>5. RecordsMatchChat'
    BY <2>1, <2>2, <2>3 DEF Hand
  <2>6. QED
    BY <2>1, <2>4, <2>5
<1>7. CASE Clock
  <2>1. /\ UNCHANGED <<alerts, pc, cur, curTier, sends, slips>>
        /\ \A t \in Tokens : mem'[t].tier = mem[t].tier /\ db'[t].tier = db[t].tier
    BY <1>7, ClockKeeps DEF Clock
  <2>2. QED
    BY <2>1
<1>8. ASSUME NEW t \in Tokens, GrowOld(t) PROVE RecordInv'
  BY <1>8 DEF GrowOld
<1>9. ASSUME NEW f \in Feeders, FeederStep(f) PROVE RecordInv'
  <2>1. UNCHANGED <<alerts, mem, pc, cur, curTier, sends>>
    BY <1>9, FeederSlips
  <2>2. CASE UNCHANGED <<db, climb, slips>>
    BY <2>1, <2>2
  <2>3. ASSUME NEW t \in Tokens, NEW r \in Row, r.tier = NoTier, Overwrite(t, r)
        PROVE  RecordInv'
    <3>1. /\ \A u \in Tokens : db'[u].tier \in {NoTier, db[u].tier}
          /\ \A u \in Tokens : slips[u] > 0 => slips'[u] > 0
      <4>1. /\ db' = [db EXCEPT ![t] = r]
            /\ slips' = slips \/ slips' = [slips EXCEPT ![t] = @ + 1]
        BY <2>3, OverwriteSlips
      <4>2. QED
        BY <1>0, <2>3, <4>1
    <3>2. MarkedHasRecord'
      BY <2>1, <3>1
    <3>3. RecordsMatchChat'
      BY <2>1, <3>1
    <3>4. QED
      BY <2>1, <3>2, <3>3
  <2>4. QED
    BY <1>9, <2>2, <2>3, FeederSlips
<1>10. QED
  BY <1>1, <1>2, <1>3, <1>4, <1>5, <1>6, <1>7, <1>8, <1>9, TiersStaySteps, TiersStayRecord

\* And so they always are.
LEMMA RecordInvariant == Spec => []RecordInv
<1>1. Init => RecordInv
  BY DEF Init, RecordInv, MarkedHasRecord, RecordsMatchChat, NoRow, FreshRow, MakeRow
<1>2. QED
  BY <1>1, LadderInvariant, RecordStep, PTL DEF Spec

\* A row that says a tier was alerted has the record of that alert, at every
\* crash point and after every stale save.
THEOREM AlertLoopMarkedHasRecord == Spec => []MarkedHasRecord
<1>1. RecordInv => MarkedHasRecord
  BY DEF RecordInv
<1>2. QED
  BY <1>1, RecordInvariant, PTL

\* The record of alerts invents none, and what it misses a slip accounts for.
THEOREM AlertLoopRecordsMatchChat == Spec => []RecordsMatchChat
<1>1. RecordInv => RecordsMatchChat
  BY DEF RecordInv
<1>2. QED
  BY <1>1, RecordInvariant, PTL

-----------------------------------------------------------------------------
(* Terminal statuses. *)

\* No row leaves a terminal status, except in the hands of a feeder.
NoRevival ==
  \A t \in Tokens :
    db[t].status \in Terminal /\ db'[t].status # db[t].status => FeederHolds(t)

\* No step lets the loop save a live copy over a terminal row, or revives one.
LEMMA StatusStep ==
  Typed /\ CopyInv /\ StatusInv /\ [Next]_vars => StatusInv' /\ NoRevival
<1> SUFFICES ASSUME Typed, CopyInv, StatusInv, [Next]_vars PROVE StatusInv' /\ NoRevival
  OBVIOUS
<1> USE DEF StatusInv, NoRevival, Held, PutAway, feedVars, histVars, loopVars
<1>0. /\ mem \in [Tokens -> Row] /\ db \in [Tokens -> Row]
      /\ todo \subseteq Tokens /\ due \subseteq Tokens \X Tiers
      /\ pc \in AlertStage => cur \in Tokens /\ curTier \in Tiers /\ Held(cur)
      /\ pc \in AlertStage => \A p \in due : p[1] # cur
      /\ pc \notin {"alerts"} \cup AlertStage => due = {}
      /\ pc \in {"seed", "validate"} => cur \in Tokens /\ Held(cur)
  BY DEF Typed, TypeOK, HandOK, CopyInv
<1>1. CASE UNCHANGED vars
  BY <1>1 DEF vars
<1>2. CASE Load \/ Reload
  <2>1. \A t \in Tokens : mem'[t].status # "absent" => db[t].status \notin Terminal
    BY <1>0, <1>2 DEF Load, Reload, LoadInto, Active, NoRow, MakeRow
  <2>2. QED
    BY <1>0, <1>2, <2>1 DEF Load, Reload, LoadInto, Active, Held, AlertStage
<1>3. CASE LoadNothing \/ AlertsDone \/ RetryDone
  <2>1. db' = db /\ due' = {} /\ pc' \in {"retry", "sleep"}
    BY <1>0, <1>3 DEF LoadNothing, AlertsDone, RetryDone, EndPass, AlertStage
  <2>2. QED
    BY <2>1 DEF AlertStage
<1>4. CASE PollDone
  BY <1>4 DEF PollDone, AlertStage
<1>5. CASE Check
  <2>1. /\ db' = db /\ mem' = mem /\ pc = "check" /\ pc' = "alerts"
        /\ \A p \in due' : p[1] \in Tokens /\ mem[p[1]].status \in Alertable
    BY <1>5 DEF Check, Fires
  <2>2. \A p \in due' : /\ db[p[1]].status \notin Terminal
                       /\ mem[p[1]].status \notin Terminal
    BY <2>1 DEF Alertable, Terminal
  <2>3. QED
    BY <2>1, <2>2 DEF AlertStage
<1>6. CASE TakeDue
  BY <1>0, <1>6 DEF TakeDue, AlertStage
<1>7. CASE GateAllow \/ GateNoData \/ HolderPass \/ SendRefused \/ SendRejected
           \/ SendAccepted \/ SendAnswerLost \/ SaveAlert
  BY <1>7 DEF GateAllow, GateNoData, HolderPass, SendRefused, SendRejected,
              SendAccepted, SendAnswerLost, SaveAlert, TryAgain, AlertStage
<1>8. CASE GateBlock
  BY <1>0, <1>8 DEF GateBlock, Save, AlertStage
<1>9. CASE HolderBlock
  <2>1. /\ cur \in Tokens /\ db[cur].status \notin Terminal /\ pc' = "alerts" /\ due' = due
        /\ \A p \in due : p[1] # cur
    BY <1>0, <1>9 DEF HolderBlock, AlertStage
  <2>2. /\ mem' = [mem EXCEPT ![cur] = Haunted(mem[cur])]
        /\ db' = [db EXCEPT ![cur] = Haunted(mem[cur])] \/ db' = db
    BY <1>9 DEF HolderBlock, Save
  <2>3. QED
    BY <1>0, <2>1, <2>2 DEF AlertStage
<1>10. CASE Refresh
  <2>1. \A p \in Prices : WithAth(mem[cur], p).status = mem[cur].status
    BY <1>0, <1>10, RowKeeps DEF Refresh, AlertStage
  <2>2. QED
    BY <1>0, <1>10, <2>1 DEF Refresh, SaveCopy, Save, AlertStage
<1>11. CASE MarkAlerted
  BY <1>0, <1>11 DEF MarkAlerted, SaveCopy, Save, AlertStage
<1>12. ASSUME NEW t \in Tokens, Expire(t) \/ PollHit(t) \/ PollMiss(t)
       PROVE  StatusInv' /\ NoRevival
  BY <1>0, <1>12 DEF Expire, PollHit, PollMiss, SaveCopy, Save, AlertStage
<1>13. ASSUME NEW t \in Tokens, RetryRead(t) PROVE StatusInv' /\ NoRevival
  BY <1>0, <1>13 DEF RetryRead, AlertStage
<1>14. CASE RetryWrite
  <2>1. \A p \in Prices \cup {0} : WithAth(mem[cur], p).status = mem[cur].status
    BY <1>0, <1>14, RowKeeps DEF RetryWrite
  <2>2. QED
    BY <1>0, <1>14, <2>1 DEF RetryWrite, SaveCopy, Save, AlertStage
<1>15. CASE RetryKeep
  BY <1>0, <1>15 DEF RetryKeep, AlertStage
<1>16. CASE RetryPhantom
  <2>1. Doubted(mem[cur]).status = mem[cur].status
    BY <1>0, <1>16, RowKeeps DEF RetryPhantom
  <2>2. QED
    BY <1>0, <1>16, <2>1 DEF RetryPhantom, SaveCopy, Save, AlertStage
<1>17. CASE PassFails \/ Crash
  <2>1. db' = db /\ due' = {} /\ pc' = "sleep"
    BY <1>17 DEF PassFails, Crash, EndPass
  <2>2. QED
    BY <2>1 DEF AlertStage
<1>18. CASE Clock
  <2>1. /\ UNCHANGED <<pc, todo, due, cur>>
        /\ \A t \in Tokens : mem'[t].status = mem[t].status /\ db'[t].status = db[t].status
    BY <1>18, ClockKeeps DEF Clock
  <2>2. NoRevival
    BY <2>1
  <2>3. StatusInv'
    BY <1>0, <2>1 DEF Held
  <2>4. QED
    BY <2>2, <2>3
<1>19. ASSUME NEW t \in Tokens, GrowOld(t) PROVE StatusInv' /\ NoRevival
  BY <1>19 DEF GrowOld
<1>20. ASSUME NEW f \in Feeders, FeederStep(f) PROVE StatusInv' /\ NoRevival
  <2>1. UNCHANGED loopVars
    BY <1>20, FeederSlips
  <2>2. CASE UNCHANGED <<db, climb, slips>>
    BY <2>1, <2>2
  <2>3. ASSUME NEW t \in Tokens, NEW r \in Row, FeederHolds(t), r.status \notin Terminal,
               Overwrite(t, r)
        PROVE  StatusInv' /\ NoRevival
    <3>1. db' = [db EXCEPT ![t] = r]
      BY <2>3 DEF Overwrite, Save
    <3>2. \A u \in Tokens : /\ db'[u].status \in Terminal => u # t /\ db'[u] = db[u]
      BY <1>0, <2>3, <3>1
    <3>3. NoRevival
      BY <1>0, <2>3, <3>1
    <3>4. StatusInv'
      BY <1>0, <2>1, <3>2 DEF Held
    <3>5. QED
      BY <3>3, <3>4
  <2>4. QED
    BY <1>20, <2>2, <2>3, FeederSlips
<1>21. QED
  BY <1>1, <1>2, <1>3, <1>4, <1>5, <1>6, <1>7, <1>8, <1>9, <1>10, <1>11, <1>12, <1>13,
     <1>14, <1>15, <1>16, <1>17, <1>18, <1>19, <1>20, Actions

\* No stale copy of the loop ever takes a row out of a terminal status.
THEOREM AlertLoopOnlyFeedersRevive == Spec => OnlyFeedersRevive
<1>1. Init => StatusInv
  BY DEF Init, StatusInv, AlertStage
<1>2. Typed /\ CopyInv /\ StatusInv /\ [Next]_vars => StatusInv'
  BY StatusStep
<1>3. Typed /\ CopyInv /\ StatusInv /\ [Next]_vars =>
        [\A t \in Tokens :
           db[t].status \in Terminal /\ db'[t].status # db[t].status => FeederHolds(t)]_vars
  BY StatusStep DEF NoRevival
<1>4. QED
  BY <1>1, <1>2, <1>3, LadderInvariant, PTL DEF Spec, OnlyFeedersRevive

-----------------------------------------------------------------------------
(* Cooldowns. *)

\* Nothing in the row is against an alert.
Quiet(r) == r.status \in Alertable /\ r.phantom = 0 /\ r.ghost = 0

\* Nothing in the row is against an alert, or a feeder has put its own there.
Calm(r) == Quiet(r) \/ FeederRow(r)

\* A feeder never knows a status but "tracking", a tier or a ghost cooldown.
FeederCopies == \A f \in Feeders : fpc[f] \in {"seed", "validate"} => FeederRow(fcopy[f])

\* What check_tokens looks at is what the row says, unless a feeder has
\* written the row since; of an alert that is due the copy is quiet until its
\* message is out, and the row is too or is a feeder's.
QuietInv ==
  /\ pc = "check" => \A t \in Tokens : Held(t) => mem[t] = db[t] \/ FeederRow(db[t])
  /\ \A p \in due : Calm(db[p[1]]) /\ Quiet(mem[p[1]])
  /\ pc \in {"gate", "holder", "refresh", "send"} => Calm(db[cur]) /\ Quiet(mem[cur])

\* Only a message about such a row is sent.
SendsQuiet == \A t \in Tokens : sends'[t] # sends[t] => Calm(db[t])

\* Ageing and a new ATH keep a row quiet.
LEMMA QuietKeeps ==
  ASSUME NEW r \in Row, Quiet(r)
  PROVE  Quiet(LaterRow(r)) /\ \A p \in Prices \cup {0} : Quiet(WithAth(r, p))
BY DEF Quiet, LaterRow, Later, WithAth, MakeRow

\* Ageing, a new ATH and a phantom cooldown keep a row a feeder's.
LEMMA FeederRowKeeps ==
  /\ \A p \in Prices : FeederRow(FreshRow(p))
  /\ \A r \in Row : FeederRow(r) =>
       /\ FeederRow(LaterRow(r)) /\ FeederRow(Doubted(r))
       /\ \A p \in Prices \cup {0} : FeederRow(WithAth(r, p))
BY DEF FeederRow, FreshRow, LaterRow, Later, WithAth, Doubted, MakeRow

\* A feeder writes its own rows and no others.
LEMMA FeederWrites ==
  ASSUME Typed, FeederCopies, NEW f \in Feeders, FeederStep(f)
  PROVE  /\ FeederCopies'
         /\ UNCHANGED <<loopVars, sends>>
         /\ \A t \in Tokens : db'[t] = db[t] \/ FeederRow(db'[t])
<1> USE DEF FeederCopies
<1>1. /\ db \in [Tokens -> Row] /\ fcopy \in [Feeders -> Row] /\ fpc \in [Feeders -> FeedPc]
      /\ fpc[f] # "idle" => ftok[f] \in Tokens
  BY DEF Typed, TypeOK, HandOK
<1>2. CASE \E t \in Tokens : Discover(f, t)
  BY <1>1, <1>2 DEF Discover, histVars
<1>3. CASE BuildFail(f) \/ SeedEnd(f)
  BY <1>1, <1>3 DEF BuildFail, SeedEnd, FeederIdles, histVars
<1>4. CASE CreateRow(f)
  <2>1. PICK p \in Prices : SaveOwn(f, FreshRow(p))
    BY <1>4 DEF CreateRow
  <2>2. /\ fcopy' = [fcopy EXCEPT ![f] = FreshRow(p)]
        /\ db' = [db EXCEPT ![ftok[f]] = FreshRow(p)]
        /\ fpc' = [fpc EXCEPT ![f] = "seed"]
        /\ UNCHANGED <<loopVars, sends>>
    BY <1>4, <2>1 DEF CreateRow, SaveOwn, Overwrite, Save
  <2>3. QED
    BY <1>1, <2>2, FeederRowKeeps
<1>5. CASE SeedHit(f)
  <2>1. PICK p \in Prices : SaveOwn(f, WithAth(fcopy[f], p))
    BY <1>5 DEF SeedHit
  <2>2. /\ fcopy' = [fcopy EXCEPT ![f] = WithAth(fcopy[f], p)]
        /\ db' = [db EXCEPT ![ftok[f]] = WithAth(fcopy[f], p)]
        /\ fpc' = [fpc EXCEPT ![f] = "validate"] /\ fpc[f] = "seed"
        /\ UNCHANGED <<loopVars, sends>>
    BY <1>5, <2>1 DEF SeedHit, SaveOwn, Overwrite, Save
  <2>3. FeederRow(WithAth(fcopy[f], p))
    BY <1>1, <2>2, FeederRowKeeps
  <2>4. QED
    BY <1>1, <2>2, <2>3
<1>6. CASE SeedMiss(f) \/ SeedPhantom(f)
  <2>1. /\ fpc[f] \in {"seed", "validate"} /\ FeederIdles(f)
        /\ db' = [db EXCEPT ![ftok[f]] = fcopy[f]] \/ db' = [db EXCEPT ![ftok[f]] = Doubted(fcopy[f])]
        /\ UNCHANGED <<loopVars, sends>>
    BY <1>6 DEF SeedMiss, SeedPhantom, Overwrite, Save
  <2>2. FeederRow(fcopy[f]) /\ FeederRow(Doubted(fcopy[f]))
    BY <1>1, <2>1, FeederRowKeeps
  <2>3. QED
    BY <1>1, <2>1, <2>2 DEF FeederIdles
<1>7. QED
  BY <1>2, <1>3, <1>4, <1>5, <1>6 DEF FeederStep

\* Every step leaves feeders with copies of their own making.
LEMMA FeederCopiesStep ==
  ASSUME Typed, FeederCopies, [Next]_vars
  PROVE  FeederCopies'
<1> USE DEF FeederCopies
<1>1. CASE Clock
  <2>1. /\ fpc' = fpc /\ \A f \in Feeders : fcopy'[f] = LaterRow(fcopy[f])
        /\ fcopy \in [Feeders -> Row]
    BY <1>1 DEF Clock, Typed, TypeOK
  <2>2. QED
    BY <2>1, FeederRowKeeps
<1>2. CASE Crash
  BY <1>2 DEF Crash
<1>3. CASE \E f \in Feeders : FeederStep(f)
  BY <1>3, FeederWrites
<1>4. ASSUME NEW t \in Tokens,
             GrowOld(t) \/ Expire(t) \/ PollHit(t) \/ PollMiss(t) \/ RetryRead(t)
      PROVE  UNCHANGED feedVars
  BY <1>4 DEF GrowOld, Expire, PollHit, PollMiss, RetryRead
<1>5. CASE LoopStep \/ PassFails \/ UNCHANGED vars \/ \E t \in Tokens : GrowOld(t)
  <2>1. UNCHANGED feedVars
    BY <1>4, <1>5 DEF vars, LoopStep, AlertStep, PassFails, Load, LoadNothing, LoadInto,
         PollDone, Reload, Check, TakeDue, GateAllow, GateNoData, GateBlock, HolderPass,
         HolderBlock, Refresh, SendAccepted, SendRefused, SendAnswerLost, SendRejected,
         SaveAlert, MarkAlerted, AlertsDone, RetryWrite, RetryKeep, RetryPhantom, RetryDone
  <2>2. QED
    BY <2>1 DEF feedVars
<1>6. QED
  BY <1>1, <1>2, <1>3, <1>5 DEF Next, WorldStep

\* Every step keeps due alerts quiet, and sends only quiet ones.
LEMMA QuietStep ==
  ASSUME Typed, CopyInv, FeederCopies, QuietInv, [Next]_vars
  PROVE  QuietInv' /\ SendsQuiet
<1> USE DEF QuietInv, SendsQuiet, Held, Calm, PutAway, feedVars, histVars, loopVars
<1>0. /\ mem \in [Tokens -> Row] /\ db \in [Tokens -> Row]
      /\ todo \subseteq Tokens /\ due \subseteq Tokens \X Tiers
      /\ pc \in AlertStage => cur \in Tokens /\ curTier \in Tiers /\ Held(cur)
      /\ pc \in AlertStage => \A p \in due : p[1] # cur
      /\ pc \notin {"alerts"} \cup AlertStage => due = {}
  BY DEF Typed, TypeOK, HandOK, CopyInv
<1>1. CASE UNCHANGED vars
  BY <1>1 DEF vars
<1>2. CASE Load \/ Reload
  <2>1. /\ mem' = [t \in Tokens |-> IF Active(db[t]) THEN db[t] ELSE NoRow]
        /\ db' = db /\ due' = due /\ sends' = sends /\ pc' \in {"poll", "check"} /\ due = {}
    BY <1>0, <1>2 DEF Load, Reload, LoadInto, AlertStage
  <2>2. \A t \in Tokens : mem'[t].status # "absent" => mem'[t] = db'[t]
    BY <2>1 DEF NoRow, MakeRow
  <2>3. QED
    BY <2>1, <2>2
<1>3. CASE LoadNothing \/ AlertsDone \/ RetryDone
  <2>1. sends' = sends /\ due' = {} /\ pc' \in {"retry", "sleep"}
    BY <1>0, <1>3 DEF LoadNothing, AlertsDone, RetryDone, EndPass, AlertStage
  <2>2. QED
    BY <2>1
<1>4. CASE PollDone
  BY <1>4 DEF PollDone
<1>5. CASE Check
  <2>1. /\ db' = db /\ mem' = mem /\ sends' = sends /\ pc = "check" /\ pc' = "alerts"
        /\ due' = {p \in Tokens \X Tiers : Fires(mem[p[1]], p[2])}
    BY <1>5 DEF Check
  <2>2. ASSUME NEW p \in due' PROVE Calm(db[p[1]]) /\ Quiet(mem[p[1]])
    <3>1. p[1] \in Tokens /\ Fires(mem[p[1]], p[2])
      BY <2>1
    <3>2. Quiet(mem[p[1]]) /\ mem[p[1]].status # "absent"
      BY <3>1 DEF Fires, Quiet, Alertable
    <3>3. QED
      BY <2>1, <3>1, <3>2
  <2>3. QED
    BY <2>1, <2>2
<1>6. CASE TakeDue
  BY <1>0, <1>6 DEF TakeDue, AlertStage
<1>7. CASE GateAllow \/ GateNoData \/ HolderPass \/ SendRefused \/ SendRejected \/ SaveAlert
  BY <1>7 DEF GateAllow, GateNoData, HolderPass, SendRefused, SendRejected, SaveAlert, TryAgain
<1>8. CASE SendAccepted \/ SendAnswerLost
  <2>1. /\ pc = "send" /\ UNCHANGED <<db, mem, due>> /\ pc' \in {"send", "alerts", "record"}
        /\ pc' = "send" => cur' = cur
        /\ sends' = [sends EXCEPT ![cur][curTier] = @ + 1]
    BY <1>8 DEF SendAccepted, SendAnswerLost, TryAgain, Deliver
  <2>2. \A t \in Tokens : sends'[t] # sends[t] => t = cur
    BY <2>1 DEF Typed, TypeOK
  <2>3. QED
    BY <2>1, <2>2
<1>9. CASE GateBlock
  BY <1>0, <1>9 DEF GateBlock, Save, AlertStage
<1>10. CASE HolderBlock
  <2>1. /\ cur \in Tokens /\ pc' = "alerts" /\ due' = due /\ sends' = sends
        /\ \A p \in due : p[1] # cur /\ p[1] \in Tokens
    BY <1>0, <1>10 DEF HolderBlock, AlertStage
  <2>2. /\ mem' = [mem EXCEPT ![cur] = Haunted(mem[cur])]
        /\ db' = [db EXCEPT ![cur] = Haunted(mem[cur])] \/ db' = db
    BY <1>10 DEF HolderBlock, Save
  <2>3. QED
    BY <1>0, <2>1, <2>2
<1>11. CASE Refresh
  <2>1. /\ cur \in Tokens /\ pc' = "send" /\ cur' = cur /\ due' = due /\ sends' = sends
        /\ \A p \in due : p[1] # cur /\ p[1] \in Tokens
        /\ Calm(db[cur]) /\ Quiet(mem[cur])
    BY <1>0, <1>11 DEF Refresh, AlertStage
  <2>2. \A p \in Prices : Quiet(WithAth(mem[cur], p))
    BY <1>0, <2>1, QuietKeeps
  <2>3. \/ UNCHANGED <<db, mem>>
        \/ \E p \in Prices : /\ mem' = [mem EXCEPT ![cur] = WithAth(mem[cur], p)]
                             /\ \/ db' = [db EXCEPT ![cur] = WithAth(mem[cur], p)]
                                \/ db' = db
    BY <1>11 DEF Refresh, SaveCopy, Save
  <2>4. QED
    BY <1>0, <2>1, <2>2, <2>3
<1>12. CASE MarkAlerted
  BY <1>0, <1>12 DEF MarkAlerted, SaveCopy, Save, AlertStage
<1>13. ASSUME NEW t \in Tokens, Expire(t) \/ PollHit(t) \/ PollMiss(t) \/ RetryRead(t)
       PROVE  QuietInv' /\ SendsQuiet
  <2>1. due' = {} /\ sends' = sends /\ pc' \in {"poll", "retry", "seed"}
    BY <1>0, <1>13 DEF Expire, PollHit, PollMiss, RetryRead, AlertStage
  <2>2. QED
    BY <2>1
<1>14. CASE RetryWrite \/ RetryKeep \/ RetryPhantom
  <2>1. due' = {} /\ sends' = sends /\ pc' \in {"retry", "validate"}
    BY <1>0, <1>14 DEF RetryWrite, RetryKeep, RetryPhantom, AlertStage
  <2>2. QED
    BY <2>1
<1>15. CASE PassFails \/ Crash
  <2>1. sends' = sends /\ due' = {} /\ pc' = "sleep"
    BY <1>15 DEF PassFails, Crash, EndPass, LoseHand
  <2>2. QED
    BY <2>1
<1>16. CASE Clock
  <2>1. /\ UNCHANGED <<pc, due, cur, sends>>
        /\ \A t \in Tokens : mem'[t] = LaterRow(mem[t]) /\ db'[t] = LaterRow(db[t])
    BY <1>16 DEF Clock
  <2>2. \A t \in Tokens : /\ Quiet(mem[t]) => Quiet(mem'[t])
                          /\ Quiet(db[t]) => Quiet(db'[t])
                          /\ FeederRow(db[t]) => FeederRow(db'[t])
                          /\ mem'[t].status = mem[t].status
    BY <1>0, <2>1, QuietKeeps, FeederRowKeeps, RowKeeps
  <2>3. QED
    BY <1>0, <2>1, <2>2 DEF AlertStage
<1>17. ASSUME NEW t \in Tokens, GrowOld(t) PROVE QuietInv' /\ SendsQuiet
  BY <1>17 DEF GrowOld
<1>18. ASSUME NEW f \in Feeders, FeederStep(f) PROVE QuietInv' /\ SendsQuiet
  <2>1. UNCHANGED loopVars /\ sends' = sends
        /\ \A t \in Tokens : db'[t] = db[t] \/ FeederRow(db'[t])
    BY <1>18, FeederWrites
  <2>2. \A t \in Tokens : Calm(db[t]) => Calm(db'[t])
    BY <2>1
  <2>3. pc \in {"gate", "holder", "refresh", "send"} => cur \in Tokens
    BY <1>0 DEF AlertStage
  <2>4. \A p \in due : p[1] \in Tokens
    BY <1>0
  <2>5. QED
    BY <2>1, <2>2, <2>3, <2>4
<1>19. QED
  BY <1>1, <1>2, <1>3, <1>4, <1>5, <1>6, <1>7, <1>8, <1>9, <1>10, <1>11, <1>12, <1>13,
     <1>14, <1>15, <1>16, <1>17, <1>18, Actions

\* However the loop, the WebSocket task, the backfill and the retries
\* interleave, and whatever fails on the way, no message goes out for a token
\* whose row has a cooldown running or is not alertable, unless a feeder has
\* put its own row there since the loop read it.
THEOREM AlertLoopSilentInCooldown == Spec => SilentInCooldown
<1>1. Init => FeederCopies /\ QuietInv
  BY DEF Init, FeederCopies, QuietInv
<1>2. Typed /\ CopyInv /\ FeederCopies /\ QuietInv /\ [Next]_vars =>
        FeederCopies' /\ QuietInv' /\ SendsQuiet
  BY FeederCopiesStep, QuietStep
<1>3. SendsQuiet =>
        \A t \in Tokens :
          sends'[t] # sends[t] =>
            \/ db[t].status \in Alertable /\ db[t].phantom = 0 /\ db[t].ghost = 0
            \/ FeederRow(db[t])
  BY DEF SendsQuiet, Calm, Quiet
<1>4. Typed /\ CopyInv /\ FeederCopies /\ QuietInv /\ [Next]_vars =>
        [\A t \in Tokens :
           sends'[t] # sends[t] =>
             \/ db[t].status \in Alertable /\ db[t].phantom = 0 /\ db[t].ghost = 0
             \/ FeederRow(db[t])]_vars
  BY <1>2, <1>3
<1>5. QED
  BY <1>1, <1>2, <1>4, LadderInvariant, PTL DEF Spec, SilentInCooldown
=============================================================================

--------------------------- MODULE DiscoveryProofs ---------------------------
(***************************************************************************)
(* What Discovery guarantees for any number of mints and transactions, any *)
(* lengths of the queues and the delays, and however many faults.          *)
(***************************************************************************)
EXTENDS Discovery, SequenceTheorems, TLAPS

\* The inbox and the memory of signatures hold migrations that happened, and the
\* handler has a signature unless it is idle.
SigsInv ==
  /\ seen \subseteq chain /\ sig \in chain \cup {NoSig}
  /\ \A i \in DOMAIN inbox : inbox[i] \in chain
  /\ wpc = "idle" <=> sig = NoSig
  /\ wpc = "seed" => MintOf(sig) \in tracked

\* A mint is held without a signature that is marked seen: such a signature may
\* stay in the inbox, and then it is dropped.
Held(m) ==
  \/ m \in tracked \/ m \in queue \/ m \in lost
  \/ sig # NoSig /\ MintOf(sig) = m
  \/ \E i \in DOMAIN inbox : inbox[i] \notin seen /\ MintOf(inbox[i]) = m

HeldInv == \A s \in chain : Held(MintOf(s))

\* What a pass of the retry queue works on is still in the queue, and what it
\* takes out at its end has a row or is too old.
PassInv ==
  /\ todo \subseteq queue /\ done \subseteq queue /\ lmint \subseteq queue
  /\ lpc \in {"idle", "next"} => lmint = None
  /\ lpc = "seed" => lmint \subseteq tracked
  /\ \A m \in done : m \in tracked \/ qage[m] > GiveUp

IInv == TypeOK /\ SigsInv /\ HeldInv /\ PassInv
-----------------------------------------------------------------------------
(* The data. *)

\* The constants are numbers.
LEMMA Bounds ==
  /\ InboxCap \in Nat \ {0} /\ MaxFails \in Nat \ {0}
  /\ GiveUp \in Nat /\ Old = GiveUp + 1 /\ MaxDelay \in Nat /\ MaxFaults \in Nat
BY DiscoveryAssumption DEF Old

\* A signature is one, and has a mint.
LEMMA SigsFacts ==
  ASSUME NEW s \in Sigs
  PROVE  MintOf(s) \in Mints /\ s # NoSig
BY DEF Sigs, MintOf, NoSig

\* A message is taken from the front and put at the end.
LEMMA TailFacts ==
  ASSUME NEW s \in Seq(Sigs), s # <<>>
  PROVE  /\ Head(s) = s[1] /\ Head(s) \in Sigs /\ Tail(s) \in Seq(Sigs) /\ Len(Tail(s)) = Len(s) - 1
         /\ Len(s) \in Nat \ {0} /\ DOMAIN s = 1 .. Len(s) /\ DOMAIN Tail(s) = 1 .. Len(s) - 1
         /\ \A i \in 1 .. Len(s) - 1 : Tail(s)[i] = s[i + 1]
<1>1. Len(s) \in Nat \ {0} /\ DOMAIN s = 1 .. Len(s) /\ s[1] \in Sigs
  OBVIOUS
<1>2. Head(s) = s[1] /\ Tail(s) \in Seq(Sigs) /\ Len(Tail(s)) = Len(s) - 1
  BY HeadTailProperties
<1>3. \A i \in 1 .. Len(s) - 1 : Tail(s)[i] = s[i + 1]
  BY <1>1, HeadTailProperties
<1>4. DOMAIN Tail(s) = 1 .. Len(s) - 1
  BY <1>1, <1>2
<1>5. QED
  BY <1>1, <1>2, <1>3, <1>4

\* A notification more.
LEMMA AppendFacts ==
  ASSUME NEW s \in Seq(Sigs), NEW x \in Sigs
  PROVE  /\ Append(s, x) \in Seq(Sigs) /\ Len(Append(s, x)) = Len(s) + 1 /\ Len(s) \in Nat
         /\ DOMAIN s = 1 .. Len(s) /\ DOMAIN Append(s, x) = 1 .. Len(s) + 1
         /\ \A i \in 1 .. Len(s) : Append(s, x)[i] = s[i]
         /\ Append(s, x)[Len(s) + 1] = x
OBVIOUS

\* The empty inbox.
LEMMA EmptyInbox == <<>> \in Seq(Sigs) /\ Len(<<>>) = 0 /\ DOMAIN <<>> = {}
OBVIOUS

\* The parts of the type invariant: the tasks, the inbox, the retry queue.
TaskTypeOK ==
  /\ phase \in {"down", "boot", "loops"} /\ tracked \subseteq Mints /\ chain \subseteq Sigs
  /\ conn \in {"off", "connecting", "subscribing", "live", "closed", "sleep"}
  /\ fails \in 0 .. MaxFails /\ wait \in 0 .. MaxDelay
  /\ wpc \in {"idle", "fetch", "exists", "build", "seed"}
  /\ lpc \in {"idle", "next", "build", "seed"} /\ bpc \in {"rest", "next", "build", "seed"}
  /\ lost \subseteq Mints /\ faults \in 0 .. MaxFaults
InboxTypeOK ==
  /\ inbox \in Seq(Sigs) /\ Len(inbox) <= InboxCap
  /\ seen \subseteq Sigs /\ sig \in Sigs \cup {NoSig}
QueueTypeOK ==
  /\ queue \subseteq Mints /\ qage \in [Mints -> Ages]
  /\ todo \subseteq Mints /\ done \subseteq Mints /\ page \subseteq Mints
  /\ lmint \subseteq Mints /\ bmint \subseteq Mints

\* The type invariant, in its parts.
LEMMA TypeParts ==
  /\ TypeOK <=> TaskTypeOK /\ InboxTypeOK /\ QueueTypeOK
  /\ TypeOK' <=> TaskTypeOK' /\ InboxTypeOK' /\ QueueTypeOK'
BY DEF TypeOK, TaskTypeOK, InboxTypeOK, QueueTypeOK

\* A backoff is at most the ceiling.
LEMMA DelayFacts ==
  ASSUME NEW n
  PROVE  Delay(n) \in 0 .. MaxDelay
BY Bounds DEF Delay

\* Every step keeps the types of the tasks,
LEMMA TaskTypeStep ==
  ASSUME TypeOK, SigsInv, [Next]_vars
  PROVE  TaskTypeOK'
<1>1. TaskTypeOK /\ InboxTypeOK /\ QueueTypeOK
  BY TypeParts
<1> USE <1>1, Bounds, SigsFacts DEF TaskTypeOK, Lose, Fault
<1>2. CASE SocketStep
  <2>1. /\ fails' \in {fails, 0, Smaller(fails + 1, MaxFails)}
        /\ wait' = wait \/ \E n \in {fails'} : wait' = Delay(n)
        /\ conn' \in {"subscribing", "live", "connecting", "sleep"}
    BY <1>2 DEF SocketStep, Handshake, Accepted, Refused, WakeUp, EndSession, BackOff, Socket
  <2>2. UNCHANGED <<phase, tracked, chain, wpc, lost, faults>> /\ UNCHANGED <<lpc, bpc>>
    BY <1>2 DEF SocketStep, Handshake, Accepted, Refused, WakeUp, EndSession, BackOff, Socket, retryVars, fillVars
  <2>3. fails' \in 0 .. MaxFails
    BY <2>1 DEF Smaller
  <2>4. wait' \in 0 .. MaxDelay
    BY <2>1, DelayFacts
  <2>5. QED
    BY <2>1, <2>2, <2>3, <2>4
<1>3. CASE Close
  <2>1. \A i \in DOMAIN inbox : inbox[i] \in Sigs
    BY DEF InboxTypeOK
  <2>2. {MintOf(inbox[i]) : i \in DOMAIN inbox} \subseteq Mints
    BY <2>1
  <2>3. lost' \subseteq Mints
    BY <1>3, <2>2 DEF Close
  <2>4. UNCHANGED <<phase, tracked, chain, fails, wait, wpc, lpc, bpc, faults>> /\ conn' = "closed"
    BY <1>3 DEF Close, retryVars, fillVars
  <2>5. QED
    BY <2>3, <2>4
<1>4. CASE HandlerStep
  <2>1. wpc # "idle" => MintOf(sig) \in Mints
    BY DEF SigsInv, InboxTypeOK
  <2>2. UNCHANGED <<phase, chain, conn, fails, wait, lpc, bpc>>
    BY <1>4 DEF HandlerStep, Handle, Take, MintFound, MintUnread, WsExists, WsNotBuilt, WsSave, WsSeeded, WsError,
       retryVars, fillVars
  <2>3. faults' = faults \/ (faults < MaxFaults /\ faults' = faults + 1)
    BY <1>4 DEF HandlerStep, Handle, Take, MintFound, MintUnread, WsExists, WsNotBuilt, WsSave, WsSeeded, WsError
  <2>4. wpc' \in {"idle", "fetch", "exists", "build", "seed"}
    BY <1>4 DEF HandlerStep, Handle, Take, MintFound, MintUnread, WsExists, WsNotBuilt, WsSave, WsSeeded, WsError
  <2>5. /\ tracked' = tracked \/ (wpc # "idle" /\ tracked' = tracked \cup {MintOf(sig)})
        /\ lost' = lost \/ (wpc # "idle" /\ lost' = lost \cup {MintOf(sig)})
    BY <1>4 DEF HandlerStep, Handle, Take, MintFound, MintUnread, WsExists, WsNotBuilt, WsSave, WsSeeded, WsError
  <2>6. tracked' \subseteq Mints /\ lost' \subseteq Mints
    BY <2>1, <2>5
  <2>7. faults' \in 0 .. MaxFaults
    BY <2>3
  <2>8. QED
    BY <2>2, <2>4, <2>6, <2>7
<1>5. CASE RetryStep
  BY <1>5 DEF RetryStep, Retry, RetryStart, RetryNext, RetryNotBuilt, RetrySave, RetrySeeded, RetryEnd,
     RetryError, wsVars, fillVars, QueueTypeOK
<1>6. CASE FillStep
  BY <1>6 DEF FillStep, Fill, FillPage, FillSkip, FillNext, FillSave, FillSeeded, FillError, FillEnd,
     wsVars, retryVars, QueueTypeOK
<1>7. CASE Tick \/ Restart
  BY <1>7 DEF Tick, Restart, wsVars, retryVars, fillVars
<1>8. CASE Crash
  <2>1. InHand \subseteq Mints
    <3>1. \A i \in DOMAIN inbox : inbox[i] \in Sigs
      BY DEF InboxTypeOK
    <3>2. {MintOf(inbox[i]) : i \in DOMAIN inbox} \subseteq Mints
      BY <3>1
    <3>3. QED
      BY <3>2 DEF InHand, InboxTypeOK, QueueTypeOK
  <2>2. lost' \subseteq Mints
    BY <1>8, <2>1 DEF Crash
  <2>3. faults' \in 0 .. MaxFaults
    BY <1>8 DEF Crash
  <2>4. 0 \in 0 .. MaxFails /\ 0 \in 0 .. MaxDelay
    OBVIOUS
  <2>5. QED
    BY <1>8, <2>2, <2>3, <2>4 DEF Crash
<1>9. ASSUME NEW s \in Sigs, Migrate(s) \/ Redeliver(s)
      PROVE  TaskTypeOK'
  BY <1>9 DEF Migrate, Redeliver, retryVars, fillVars
<1>10. CASE UNCHANGED vars
  BY <1>10 DEF vars, wsVars, retryVars, fillVars
<1>11. QED
  BY <1>2, <1>3, <1>4, <1>5, <1>6, <1>7, <1>8, <1>9, <1>10 DEF Next

\* of the socket,
LEMMA InboxTypeStep ==
  ASSUME TypeOK, [Next]_vars
  PROVE  InboxTypeOK'
<1>1. TaskTypeOK /\ InboxTypeOK
  BY TypeParts
<1> USE <1>1, Bounds DEF InboxTypeOK
<1>2. CASE SocketStep
  BY <1>2 DEF SocketStep, Handshake, Accepted, Refused, WakeUp, EndSession, BackOff, Socket
<1>3. CASE Close \/ Crash
  <2>1. inbox' = inbox \/ inbox' = <<>>
    BY <1>3 DEF Close, Crash
  <2>2. seen' \in {seen, {}} /\ sig' \in {sig, NoSig}
    BY <1>3 DEF Close, Crash
  <2>3. inbox' \in Seq(Sigs) /\ Len(inbox') <= InboxCap
    <3>1. CASE inbox' = <<>>
      BY <3>1, EmptyInbox
    <3>2. QED
      BY <2>1, <3>1
  <2>4. QED
    BY <2>2, <2>3
<1>4. CASE Take
  <2>1. /\ Head(inbox) \in Sigs /\ Tail(inbox) \in Seq(Sigs) /\ Len(Tail(inbox)) = Len(inbox) - 1
        /\ Len(inbox) \in Nat
    BY <1>4, TailFacts DEF Take
  <2>2. inbox' = Tail(inbox) /\ Len(Tail(inbox)) <= InboxCap
    BY <1>4, <2>1 DEF Take
  <2>3. seen' \subseteq Sigs /\ sig' \in Sigs \cup {NoSig}
    BY <1>4, <2>1 DEF Take
  <2>4. QED
    BY <2>1, <2>2, <2>3
<1>5. CASE HandlerStep /\ ~Take
  <2>1. UNCHANGED inbox /\ sig' \in {sig, NoSig}
    BY <1>5 DEF HandlerStep, Handle, MintFound, MintUnread, WsExists, WsNotBuilt, WsSave, WsSeeded, WsError
  <2>2. seen' \subseteq seen
    BY <1>5 DEF HandlerStep, Handle, MintFound, MintUnread, WsExists, WsNotBuilt, WsSave, WsSeeded, WsError
  <2>3. QED
    BY <2>1, <2>2
<1>6. CASE RetryStep
  BY <1>6 DEF RetryStep, Retry, RetryStart, RetryNext, RetryNotBuilt, RetrySave, RetrySeeded, RetryEnd,
     RetryError, wsVars
<1>7. CASE FillStep
  BY <1>7 DEF FillStep, Fill, FillPage, FillSkip, FillNext, FillSave, FillSeeded, FillError, FillEnd, wsVars
<1>8. CASE Tick \/ Restart \/ UNCHANGED vars
  BY <1>8 DEF Tick, Restart, wsVars, vars
<1>9. ASSUME NEW s \in Sigs, Migrate(s) \/ Redeliver(s)
      PROVE  InboxTypeOK'
  <2>1. UNCHANGED inbox \/ (inbox' = Append(inbox, s) /\ Len(inbox) < InboxCap)
    BY <1>9 DEF Migrate, Redeliver
  <2>2. UNCHANGED <<seen, sig>>
    BY <1>9 DEF Migrate, Redeliver
  <2>3. inbox' \in Seq(Sigs) /\ Len(inbox') <= InboxCap
    BY <2>1, AppendFacts
  <2>4. QED
    BY <2>2, <2>3
<1>10. QED
  BY <1>2, <1>3, <1>4, <1>5, <1>6, <1>7, <1>8, <1>9 DEF Next, HandlerStep

\* and of the sets of mints.
LEMMA QueueTypeStep ==
  ASSUME TypeOK, SigsInv, [Next]_vars
  PROVE  QueueTypeOK'
<1>1. TaskTypeOK /\ InboxTypeOK /\ QueueTypeOK
  BY TypeParts
<1>2. 0 \in Ages /\ \A n \in Ages : n \in Nat /\ (n < Old => n + 1 \in Ages)
  BY Bounds DEF Ages
<1> USE <1>1 DEF QueueTypeOK
<1>3. CASE SocketStep
  BY <1>3 DEF SocketStep, Handshake, Accepted, Refused, WakeUp, EndSession, BackOff, Socket, retryVars, fillVars
<1>4. CASE Close \/ Restart \/ UNCHANGED vars
  BY <1>4 DEF Close, Restart, retryVars, fillVars, vars
<1>5. CASE HandlerStep /\ ~WsNotBuilt
  BY <1>5 DEF HandlerStep, Handle, Take, MintFound, MintUnread, WsExists, WsSave, WsSeeded, WsError, retryVars, fillVars
<1>6. CASE WsNotBuilt
  <2>1. MintOf(sig) \in Mints
    BY <1>6, SigsFacts DEF WsNotBuilt, Handle, SigsInv, InboxTypeOK
  <2>2. QED
    BY <1>2, <1>6, <2>1 DEF WsNotBuilt, Handle, Enqueue, retryVars, fillVars
<1>7. CASE RetryStep
  BY <1>7 DEF RetryStep, Retry, RetryStart, RetryNext, RetryNotBuilt, RetrySave, RetrySeeded, RetryEnd,
     RetryError, fillVars, Expired, None
<1>8. CASE FillStep
  BY <1>8 DEF FillStep, Fill, FillPage, FillSkip, FillNext, FillSave, FillSeeded, FillError, FillEnd,
     retryVars, None
<1>9. CASE Tick
  <2>1. UNCHANGED <<queue, todo, done, lmint, page, bmint>>
    BY <1>9 DEF Tick, retryVars, fillVars
  <2>2. \A m \in Mints : Older(qage[m]) \in Ages
    BY <1>2 DEF Older
  <2>3. qage' \in [Mints -> Ages]
    BY <1>9, <2>2 DEF Tick
  <2>4. QED
    BY <2>1, <2>3
<1>10. CASE Crash
  BY <1>2, <1>10 DEF Crash, None
<1>11. ASSUME NEW s \in Sigs, Migrate(s) \/ Redeliver(s)
       PROVE  QueueTypeOK'
  BY <1>11 DEF Migrate, Redeliver, retryVars, fillVars
<1>12. QED
  BY <1>3, <1>4, <1>5, <1>6, <1>7, <1>8, <1>9, <1>10, <1>11 DEF Next
\* What happened stays happened, and only an unread signature is in hand.
LEMMA SigsStep ==
  ASSUME TypeOK, SigsInv, [Next]_vars
  PROVE  SigsInv'
<1>1. TaskTypeOK /\ InboxTypeOK
  BY TypeParts
<1>2. NoSig \notin chain
  BY <1>1, SigsFacts DEF TaskTypeOK
<1> USE DEF SigsInv
<1>3. CASE SocketStep
  BY <1>3 DEF SocketStep, Handshake, Accepted, Refused, WakeUp, EndSession, BackOff, Socket
<1>4. CASE Close \/ Crash
  <2>1. inbox' = inbox \/ inbox' = <<>>
    BY <1>4 DEF Close, Crash
  <2>2. \A i \in DOMAIN inbox' : inbox'[i] \in chain
    BY <2>1, EmptyInbox
  <2>3. QED
    BY <1>4, <2>2 DEF Close, Crash
<1>5. CASE Take
  <2>1. /\ inbox' = Tail(inbox) /\ Head(inbox) = inbox[1] /\ 1 \in DOMAIN inbox
        /\ \A i \in DOMAIN Tail(inbox) : i + 1 \in DOMAIN inbox /\ Tail(inbox)[i] = inbox[i + 1]
    <3>1. inbox \in Seq(Sigs) /\ inbox # <<>>
      BY <1>1, <1>5 DEF Take, InboxTypeOK
    <3>2. QED
      BY <1>5, <3>1, TailFacts DEF Take
  <2>2. \A i \in DOMAIN inbox' : inbox'[i] \in chain
    BY <2>1
  <2>3. QED
    BY <1>2, <1>5, <2>1, <2>2 DEF Take
<1>6. CASE HandlerStep /\ ~Take
  <2>1. UNCHANGED <<chain, inbox>> /\ tracked \subseteq tracked' /\ seen' \subseteq seen
    BY <1>6 DEF HandlerStep, Handle, MintFound, MintUnread, WsExists, WsNotBuilt, WsSave, WsSeeded, WsError
  <2>2. sig' = (IF wpc' = "idle" THEN NoSig ELSE sig) /\ wpc # "idle"
    BY <1>6 DEF HandlerStep, Handle, MintFound, MintUnread, WsExists, WsNotBuilt, WsSave, WsSeeded, WsError
  <2>3. wpc' = "seed" => MintOf(sig) \in tracked'
    BY <1>6 DEF HandlerStep, Handle, MintFound, MintUnread, WsExists, WsNotBuilt, WsSave, WsSeeded, WsError
  <2>4. QED
    BY <2>1, <2>2, <2>3
<1>7. CASE RetryStep
  BY <1>7 DEF RetryStep, Retry, RetryStart, RetryNext, RetryNotBuilt, RetrySave, RetrySeeded, RetryEnd,
     RetryError, wsVars
<1>8. CASE FillStep
  BY <1>8 DEF FillStep, Fill, FillPage, FillSkip, FillNext, FillSave, FillSeeded, FillError, FillEnd, wsVars
<1>9. CASE Tick \/ Restart \/ UNCHANGED vars
  BY <1>9 DEF Tick, Restart, wsVars, vars
<1>10. ASSUME NEW s \in Sigs, Migrate(s) \/ Redeliver(s)
       PROVE  SigsInv'
  <2>1. UNCHANGED <<seen, sig, wpc, tracked>> /\ chain \subseteq chain' /\ s \in chain'
    BY <1>10 DEF Migrate, Redeliver
  <2>2. UNCHANGED inbox \/ inbox' = Append(inbox, s)
    BY <1>10 DEF Migrate, Redeliver
  <2>3. \A i \in DOMAIN inbox' : inbox'[i] \in chain'
    <3>1. CASE inbox' = Append(inbox, s)
      <4>1. inbox \in Seq(Sigs)
        BY <1>1 DEF InboxTypeOK
      <4>2. /\ DOMAIN inbox = 1 .. Len(inbox) /\ DOMAIN inbox' = 1 .. Len(inbox) + 1 /\ Len(inbox) \in Nat
            /\ \A i \in 1 .. Len(inbox) : inbox'[i] = inbox[i]
            /\ inbox'[Len(inbox) + 1] = s
        BY <3>1, <4>1, AppendFacts
      <4>3. QED
        BY <2>1, <4>2
    <3>2. QED
      BY <2>1, <2>2, <3>1
  <2>4. QED
    BY <2>1, <2>3
<1>11. QED
  BY <1>3, <1>4, <1>5, <1>6, <1>7, <1>8, <1>9, <1>10 DEF Next, HandlerStep

\* A step that takes nothing from the tasks loses no mint.
LEMMA HeldFrame ==
  ASSUME HeldInv, UNCHANGED <<chain, inbox, sig>>, seen' \subseteq seen,
         tracked \subseteq tracked', queue \subseteq queue' \cup tracked' \cup lost', lost \subseteq lost'
  PROVE  HeldInv'
BY DEF HeldInv, Held

\* No step lets a mint fall between the tasks.
LEMMA HeldStep ==
  ASSUME TypeOK, SigsInv, HeldInv, [Next]_vars
  PROVE  HeldInv'
<1>1. TaskTypeOK /\ InboxTypeOK
  BY TypeParts
<1>2. CASE SocketStep
  <2>1. UNCHANGED <<chain, inbox, sig, seen, tracked, queue, lost>>
    BY <1>2 DEF SocketStep, Handshake, Accepted, Refused, WakeUp, EndSession, BackOff, Socket
  <2>2. QED
    BY <2>1, HeldFrame
<1>3. CASE Close
  <2>1. UNCHANGED <<chain, sig, seen, tracked, queue>>
    BY <1>3 DEF Close
  <2>2. CASE UNCHANGED <<inbox, lost>>
    BY <2>1, <2>2, HeldFrame
  <2>3. CASE Lose({MintOf(inbox[i]) : i \in DOMAIN inbox})
    BY <2>1, <2>3 DEF Lose, HeldInv, Held
  <2>4. QED
    BY <1>3, <2>2, <2>3 DEF Close
<1>4. CASE Take
  <2>1. UNCHANGED <<chain, tracked, queue, lost>> /\ sig = NoSig /\ inbox' = Tail(inbox)
    BY <1>4 DEF Take, SigsInv
  <2>2. /\ Head(inbox) = inbox[1] /\ Head(inbox) \in Sigs /\ Len(inbox) \in Nat \ {0}
        /\ DOMAIN inbox = 1 .. Len(inbox) /\ DOMAIN inbox' = 1 .. Len(inbox) - 1
        /\ \A i \in 1 .. Len(inbox) - 1 : inbox'[i] = inbox[i + 1]
    <3>1. inbox \in Seq(Sigs) /\ inbox # <<>>
      BY <1>1, <1>4 DEF Take, InboxTypeOK
    <3>2. QED
      BY <2>1, <3>1, TailFacts
  <2>3. \/ inbox[1] \in seen /\ UNCHANGED <<seen, sig>>
        \/ seen' = seen \cup {inbox[1]} /\ sig' = inbox[1] /\ sig' # NoSig
    BY <1>4, <2>2, SigsFacts DEF Take
  <2>4. \A i \in DOMAIN inbox : i = 1 \/ (i - 1 \in DOMAIN inbox' /\ inbox'[i - 1] = inbox[i])
    BY <2>2
  <2>5. ASSUME NEW m, Held(m)
        PROVE  Held(m)'
    <3>1. CASE m \in tracked \/ m \in queue \/ m \in lost
      BY <2>1, <3>1 DEF Held
    <3>2. ASSUME NEW i \in DOMAIN inbox, inbox[i] \notin seen, MintOf(inbox[i]) = m
          PROVE  Held(m)'
      <4>1. CASE inbox[i] = inbox[1]
        BY <2>3, <3>2, <4>1 DEF Held
      <4>2. CASE inbox[i] # inbox[1]
        <5>1. i - 1 \in DOMAIN inbox' /\ inbox'[i - 1] = inbox[i]
          BY <2>4, <4>2
        <5>2. inbox'[i - 1] \notin seen'
          BY <2>3, <3>2, <4>2, <5>1
        <5>3. QED
          BY <3>2, <5>1, <5>2 DEF Held
      <4>3. QED
        BY <4>1, <4>2
    <3>3. QED
      BY <2>1, <2>5, <3>1, <3>2 DEF Held
  <2>6. QED
    BY <2>1, <2>5 DEF HeldInv
<1>5. CASE HandlerStep /\ ~Take
  <2>1. UNCHANGED <<chain, inbox>> /\ seen' \subseteq seen /\ tracked \subseteq tracked'
        /\ queue \subseteq queue' /\ lost \subseteq lost'
    BY <1>5 DEF HandlerStep, Handle, MintFound, MintUnread, WsExists, WsNotBuilt, WsSave, WsSeeded, WsError, Enqueue, Lose
  <2>2. sig' = sig \/ MintOf(sig) \in tracked' \cup queue' \cup lost'
    BY <1>5 DEF HandlerStep, Handle, MintFound, MintUnread, WsExists, WsNotBuilt, WsSave, WsSeeded, WsError,
       Enqueue, Lose, SigsInv
  <2>3. QED
    BY <2>1, <2>2 DEF HeldInv, Held
<1>6. CASE RetryStep
  <2>1. UNCHANGED <<chain, inbox, sig, seen>> /\ tracked \subseteq tracked'
    BY <1>6 DEF RetryStep, Retry, RetryStart, RetryNext, RetryNotBuilt, RetrySave, RetrySeeded, RetryEnd,
       RetryError, wsVars
  <2>2. queue \subseteq queue' \cup tracked' \cup lost' /\ lost \subseteq lost'
    BY <1>6 DEF RetryStep, Retry, RetryStart, RetryNext, RetryNotBuilt, RetrySave, RetrySeeded, RetryEnd,
       RetryError, Lose
  <2>3. QED
    BY <2>1, <2>2, HeldFrame
<1>7. CASE FillStep
  <2>1. UNCHANGED <<chain, inbox, sig, seen, queue, lost>> /\ tracked \subseteq tracked'
    BY <1>7 DEF FillStep, Fill, FillPage, FillSkip, FillNext, FillSave, FillSeeded, FillError, FillEnd, wsVars
  <2>2. QED
    BY <2>1, HeldFrame
<1>8. CASE Tick \/ Restart \/ UNCHANGED vars
  <2>1. UNCHANGED <<chain, inbox, sig, seen, queue, lost, tracked>>
    BY <1>8 DEF Tick, Restart, wsVars, vars
  <2>2. QED
    BY <2>1, HeldFrame
<1>9. CASE Crash
  <2>1. \A m : Held(m) => m \in tracked \cup lost \cup InHand
    BY DEF Held, InHand
  <2>2. UNCHANGED <<tracked, chain>> /\ lost' = lost \cup (InHand \ tracked)
    BY <1>9 DEF Crash, Lose
  <2>3. QED
    BY <2>1, <2>2 DEF HeldInv, Held
<1>10. ASSUME NEW s \in Sigs, Migrate(s) \/ Redeliver(s)
       PROVE  HeldInv'
  <2>1. UNCHANGED <<seen, sig, tracked, queue>> /\ chain' \subseteq chain \cup {s}
    BY <1>10 DEF Migrate, Redeliver
  <2>2. CASE inbox' = Append(inbox, s)
    <3>1. inbox \in Seq(Sigs)
      BY <1>1 DEF InboxTypeOK
    <3>2. /\ DOMAIN inbox = 1 .. Len(inbox) /\ DOMAIN inbox' = 1 .. Len(inbox) + 1 /\ Len(inbox) \in Nat
          /\ \A i \in 1 .. Len(inbox) : inbox'[i] = inbox[i]
          /\ inbox'[Len(inbox) + 1] = s
      BY <2>2, <3>1, AppendFacts
    <3>3. \A i \in DOMAIN inbox : i \in DOMAIN inbox' /\ inbox'[i] = inbox[i]
      BY <3>2
    <3>4. Len(inbox) + 1 \in DOMAIN inbox'
      BY <3>2
    <3>5. \/ s \notin seen /\ lost \subseteq lost' \cup {MintOf(s)}
          \/ lost' = lost /\ chain' = chain
      <4>1. inbox' # inbox
        BY <3>2, <3>4
      <4>2. QED
        BY <1>10, <4>1 DEF Migrate, Redeliver, SigsInv, Lose
    <3>6. s \notin seen => Held(MintOf(s))'
      BY <2>1, <3>2, <3>4 DEF Held
    <3>7. ASSUME NEW m, Held(m), m # MintOf(s) \/ lost' = lost
          PROVE  Held(m)'
      BY <2>1, <3>3, <3>5, <3>7 DEF Held
    <3>8. QED
      BY <2>1, <3>5, <3>6, <3>7 DEF HeldInv
  <2>3. CASE Migrate(s) /\ Lose({MintOf(s)}) /\ UNCHANGED inbox
    BY <2>1, <2>3 DEF Lose, HeldInv, Held
  <2>4. QED
    BY <1>10, <2>2, <2>3 DEF Migrate, Redeliver
<1>11. QED
  BY <1>2, <1>3, <1>4, <1>5, <1>6, <1>7, <1>8, <1>9, <1>10 DEF Next, HandlerStep
\* A pass keeps to the queue it copied, which only its own end makes smaller.
LEMMA PassStep ==
  ASSUME TypeOK, SigsInv, PassInv, [Next]_vars
  PROVE  PassInv'
<1>1. TaskTypeOK /\ QueueTypeOK
  BY TypeParts
<1>2. \A m \in Mints : qage[m] \in Nat /\ qage[m] <= Old /\ Old = GiveUp + 1 /\ GiveUp \in Nat
  BY <1>1, Bounds DEF QueueTypeOK, Ages
<1> USE DEF PassInv
<1>3. CASE SocketStep
  BY <1>3 DEF SocketStep, Handshake, Accepted, Refused, WakeUp, EndSession, BackOff, Socket, retryVars
<1>4. CASE Close \/ Restart \/ UNCHANGED vars
  BY <1>4 DEF Close, Restart, retryVars, vars
<1>5. CASE HandlerStep
  <2>1. UNCHANGED <<lpc, todo, done, lmint>> /\ tracked \subseteq tracked'
    BY <1>5 DEF HandlerStep, Handle, Take, MintFound, MintUnread, WsExists, WsNotBuilt, WsSave, WsSeeded, WsError, retryVars
  <2>2. UNCHANGED <<queue, qage>> \/ Enqueue(MintOf(sig))
    BY <1>5 DEF HandlerStep, Handle, Take, MintFound, MintUnread, WsExists, WsNotBuilt, WsSave, WsSeeded, WsError
  <2>3. queue \subseteq queue' /\ \A m \in queue : qage'[m] = qage[m]
    BY <1>1, <2>2 DEF Enqueue, QueueTypeOK
  <2>4. QED
    BY <2>1, <2>3
<1>6. CASE RetryStep
  <2>1. CASE RetryStart
    BY <2>1 DEF RetryStart, Retry, Expired, None
  <2>2. CASE RetryNotBuilt \/ RetrySave \/ RetrySeeded \/ RetryEnd \/ RetryError
    BY <2>2 DEF Retry, RetryNotBuilt, RetrySave, RetrySeeded, RetryEnd, RetryError, None
  <2>3. ASSUME NEW m \in Mints, RetryNext(m)
        PROVE  PassInv'
    BY <2>3 DEF RetryNext, Retry, None
  <2>4. QED
    BY <1>6, <2>1, <2>2, <2>3 DEF RetryStep
<1>7. CASE FillStep
  <2>1. UNCHANGED <<lpc, todo, done, lmint, queue, qage>> /\ tracked \subseteq tracked'
    BY <1>7 DEF FillStep, Fill, FillPage, FillSkip, FillNext, FillSave, FillSeeded, FillError, FillEnd, retryVars
  <2>2. QED
    BY <2>1
<1>8. CASE Tick
  <2>1. UNCHANGED <<lpc, todo, done, lmint, queue, tracked>>
    BY <1>8 DEF Tick, retryVars
  <2>2. \A m \in Mints : qage'[m] = qage[m] \/ qage'[m] = Older(qage[m])
    BY <1>8 DEF Tick
  <2>3. \A m \in Mints : qage[m] > GiveUp => qage'[m] > GiveUp
    BY <1>2, <2>2 DEF Older
  <2>4. QED
    BY <1>1, <2>1, <2>3 DEF QueueTypeOK
<1>9. CASE Crash
  BY <1>9 DEF Crash, None
<1>10. ASSUME NEW s \in Sigs, Migrate(s) \/ Redeliver(s)
       PROVE  PassInv'
  BY <1>10 DEF Migrate, Redeliver, retryVars
<1>11. QED
  BY <1>3, <1>4, <1>5, <1>6, <1>7, <1>8, <1>9, <1>10 DEF Next
-----------------------------------------------------------------------------
(* The theorems. *)

\* The inductive invariant holds at the start.
LEMMA IInvInit == Init => IInv
<1> SUFFICES ASSUME Init PROVE IInv
  OBVIOUS
<1>1. TaskTypeOK
  BY Bounds DEF Init, TaskTypeOK
<1>2. InboxTypeOK
  BY Bounds, EmptyInbox DEF Init, InboxTypeOK
<1>3. QueueTypeOK
  BY Bounds DEF Init, QueueTypeOK, Ages, None
<1>4. SigsInv
  BY EmptyInbox DEF Init, SigsInv
<1>5. HeldInv
  BY DEF Init, HeldInv
<1>6. PassInv
  BY DEF Init, PassInv, None
<1>7. QED
  BY <1>1, <1>2, <1>3, <1>4, <1>5, <1>6, TypeParts DEF IInv

\* Every step keeps it.
LEMMA IInvNext ==
  ASSUME IInv, [Next]_vars
  PROVE  IInv'
<1> USE DEF IInv
<1>1. TypeOK'
  BY TaskTypeStep, InboxTypeStep, QueueTypeStep, TypeParts
<1>2. QED
  BY <1>1, SigsStep, HeldStep, PassStep

\* So it holds always.
LEMMA IInvAlways == Spec => []IInv
<1>1. IInv /\ [Next]_vars => IInv'
  BY IInvNext
<1>2. QED
  BY <1>1, IInvInit, PTL DEF Spec

\* Whatever the WebSocket, the handler, the retry queue, the backfill, the clock
\* and the crashes do, a mint that migrated has a row, or is in the inbox, in the
\* hands of _handle_message or in _retry_queue, or was let go at a place that
\* Lose names: no interleaving of the three tasks makes one disappear.
THEOREM DiscoveryAccounted == Spec => []Accounted
<1>1. IInv => Accounted
  <2> SUFFICES ASSUME IInv PROVE Accounted
    OBVIOUS
  <2>1. \A m \in Migrated : Held(m)
    BY DEF IInv, HeldInv, Migrated
  <2>2. \A m : Held(m) => m \in tracked \cup InHand \cup lost
    BY DEF Held, InHand
  <2>3. QED
    BY <2>1, <2>2 DEF Accounted, IInv
<1>2. QED
  BY <1>1, IInvAlways, PTL

\* No step makes a mint of the retry queue younger.
LEMMA AgesStep ==
  ASSUME TypeOK, [Next]_vars, NEW m \in queue \cap queue'
  PROVE  qage'[m] >= qage[m]
<1>1. QueueTypeOK /\ m \in Mints /\ qage[m] \in Nat
  BY TypeParts, Bounds DEF QueueTypeOK, Ages
<1>2. CASE Tick
  BY <1>1, <1>2 DEF Tick, Older
<1>3. CASE Crash
  BY <1>3 DEF Crash
<1>4. CASE WsNotBuilt
  <2>1. qage'[m] = qage[m]
    BY <1>1, <1>4 DEF WsNotBuilt, Enqueue, QueueTypeOK
  <2>2. QED
    BY <1>1, <2>1
<1>5. CASE [Next]_vars /\ ~Tick /\ ~Crash /\ ~WsNotBuilt
  <2>1. CASE SocketStep \/ Close \/ Restart \/ UNCHANGED vars
    BY <1>1, <2>1 DEF SocketStep, Handshake, Accepted, Refused, WakeUp, EndSession, BackOff, Socket, Close, Restart, vars
  <2>2. CASE HandlerStep
    BY <1>1, <1>5, <2>2 DEF HandlerStep, Handle, Take, MintFound, MintUnread, WsExists, WsSave, WsSeeded, WsError
  <2>3. CASE RetryStep
    BY <1>1, <2>3 DEF RetryStep, Retry, RetryStart, RetryNext, RetryNotBuilt, RetrySave, RetrySeeded, RetryEnd, RetryError
  <2>4. CASE FillStep
    BY <1>1, <2>4 DEF FillStep, Fill, FillPage, FillSkip, FillNext, FillSave, FillSeeded, FillError, FillEnd
  <2>5. ASSUME NEW s \in Sigs, Migrate(s) \/ Redeliver(s)
        PROVE  qage'[m] >= qage[m]
    BY <1>1, <2>5 DEF Migrate, Redeliver
  <2>6. QED
    BY <1>5, <2>1, <2>2, <2>3, <2>4, <2>5 DEF Next
<1>6. QED
  BY <1>2, <1>3, <1>4, <1>5

\* No step but the end of a pass and a crash takes a mint out of the retry queue.
LEMMA QueueGrows ==
  ASSUME Next, ~RetryEnd, ~Crash
  PROVE  queue \subseteq queue'
<1>1. CASE SocketStep \/ Close \/ Tick \/ Restart
  BY <1>1 DEF SocketStep, Handshake, Accepted, Refused, WakeUp, EndSession, BackOff, Socket, Close, Tick, Restart
<1>2. CASE HandlerStep
  BY <1>2 DEF HandlerStep, Handle, Take, MintFound, MintUnread, WsExists, WsNotBuilt, WsSave, WsSeeded, WsError, Enqueue
<1>3. CASE RetryStep
  BY <1>3 DEF RetryStep, Retry, RetryStart, RetryNext, RetryNotBuilt, RetrySave, RetrySeeded, RetryError
<1>4. CASE FillStep
  BY <1>4 DEF FillStep, Fill, FillPage, FillSkip, FillNext, FillSave, FillSeeded, FillError, FillEnd
<1>5. ASSUME NEW s \in Sigs, Migrate(s) \/ Redeliver(s)
      PROVE  queue \subseteq queue'
  BY <1>5 DEF Migrate, Redeliver
<1>6. QED
  BY <1>1, <1>2, <1>3, <1>4, <1>5 DEF Next

\* process_retry_queue takes a mint out only with a row or after its 300 s, for
\* its to_remove holds no other: no error in a pass, no second notification and
\* no row that another task writes meanwhile drops or renews an entry.
THEOREM DiscoveryKeptUntilOld == Spec => KeptUntilOld
<1> DEFINE Keeps == /\ \A m \in queue \ (queue' \cup tracked) : qage[m] > GiveUp \/ phase' = "down"
                    /\ \A m \in queue \cap queue' : qage'[m] >= qage[m]
<1>1. ASSUME IInv, [Next]_vars
      PROVE  [Keeps]_vars
  <2>1. \A m \in queue \cap queue' : qage'[m] >= qage[m]
    BY <1>1, AgesStep DEF IInv
  <2>2. \A m \in queue \ (queue' \cup tracked) : qage[m] > GiveUp \/ phase' = "down"
    <3>1. CASE UNCHANGED vars
      BY <3>1 DEF vars
    <3>2. CASE RetryEnd
      BY <1>1, <3>2 DEF RetryEnd, IInv, PassInv
    <3>3. CASE Crash
      BY <3>3 DEF Crash
    <3>4. CASE Next /\ ~RetryEnd /\ ~Crash
      BY <3>4, QueueGrows
    <3>5. QED
      BY <1>1, <3>1, <3>2, <3>3, <3>4
  <2>3. QED
    BY <2>1, <2>2
<1>2. QED
  BY <1>1, IInvAlways, PTL DEF Spec, KeptUntilOld
=============================================================================

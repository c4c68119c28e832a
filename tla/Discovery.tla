----------------------------- MODULE Discovery -----------------------------
(***************************************************************************)
(* How a migrated mint gets its row in table tokens (modules/              *)
(* migration_ws.py, modules/backfill.py, main.main): the WebSocket with    *)
(* its reconnections, the handler that turns a transaction into a row, the *)
(* retry queue of mints that Dexscreener did not know, which the price     *)
(* loop serves, and the backfills at startup and every few minutes.        *)
(*                                                                         *)
(* Each of the three tasks looks a mint up with token_exists and saves it  *)
(* some awaits later; one action stands for the code between two awaits    *)
(* that matter.  A build stands for the calls of Dexscreener, whatever     *)
(* their number: no pair, no price and a market cap below the floor are    *)
(* one outcome.  What a row holds is the business of AthSeeder.            *)
(***************************************************************************)
EXTENDS Naturals, FiniteSets, Sequences

CONSTANTS
  Mints,      \* the tokens that migrate
  Copies,     \* the migration transactions of a mint, 1 .. Copies
  InboxCap,   \* bound: messages received and not yet handled
  MaxSeen,    \* the 5000 signatures that trigger a trim of _seen_sigs
  KeepSeen,   \* the 2000 that it keeps
  GiveUp,     \* the 300 s of process_retry_queue, in clock units
  FirstDelay, \* INITIAL_RETRY_DELAY, in clock units
  MaxDelay,   \* MAX_RETRY_DELAY
  MaxFails,   \* bound: _retry_count is counted up to here
  FaultKinds, \* "crash" and "error", the faults that may happen
  MaxFaults   \* bound: how many

ASSUME DiscoveryAssumption ==
  /\ {Copies, InboxCap, MaxFails} \subseteq Nat \ {0}
  /\ {MaxSeen, KeepSeen, GiveUp, FirstDelay, MaxDelay, MaxFaults} \subseteq Nat
  /\ KeepSeen <= MaxSeen /\ FirstDelay <= MaxDelay
  /\ FaultKinds \subseteq {"crash", "error"}

Sigs == Mints \X (1 .. Copies)
MintOf(s) == s[1]
NoSig == <<>>

VARIABLES
  phase,    \* main(): "down", "boot" (startup backfill), "loops"
  tracked,  \* the mints that have a row
  chain,    \* the migration transactions there were
  conn,     \* the connection: "off", "connecting", "subscribing", "live", "closed", "sleep"
  fails,    \* _retry_count
  wait,     \* what is left of the backoff sleep
  inbox,    \* signatures received and not yet handled
  seen,     \* _seen_sigs
  wpc, sig, \* where the message handler is, and its signature
  queue,    \* _retry_queue: the mints in it,
  qage,     \*   and their ages since they were queued
  lpc,      \* where process_retry_queue is
  todo,     \*   its copy of the queue, without the mints that it has done
  done,     \*   to_remove
  lmint,    \*   the mint that it builds
  bpc,      \* where the backfill is
  page,     \*   the pairs of the page that are left
  bmint,    \*   the mint that it builds
  lost,     \* history: the mints last seen being let go, see Lose
  faults    \* faults so far

wsVars == <<conn, fails, wait, inbox, seen, wpc, sig>>
retryVars == <<lpc, todo, done, lmint>>
fillVars == <<bpc, page, bmint>>
vars == <<phase, tracked, chain, wsVars, queue, qage, retryVars, fillVars, lost, faults>>

None == {}
Old == GiveUp + 1
Ages == 0 .. Old

TypeOK ==
  /\ phase \in {"down", "boot", "loops"} /\ tracked \subseteq Mints /\ chain \subseteq Sigs
  /\ conn \in {"off", "connecting", "subscribing", "live", "closed", "sleep"}
  /\ fails \in 0 .. MaxFails /\ wait \in 0 .. MaxDelay
  /\ inbox \in Seq(Sigs) /\ Len(inbox) <= InboxCap /\ seen \subseteq Sigs
  /\ wpc \in {"idle", "fetch", "exists", "build", "seed"} /\ sig \in Sigs \cup {NoSig}
  /\ queue \subseteq Mints /\ qage \in [Mints -> Ages]
  /\ lpc \in {"idle", "next", "build", "seed"} /\ bpc \in {"rest", "next", "build", "seed"}
  /\ todo \subseteq Mints /\ done \subseteq Mints /\ page \subseteq Mints
  /\ lmint \subseteq Mints /\ bmint \subseteq Mints
  /\ lost \subseteq Mints /\ faults \in 0 .. MaxFaults

Init ==
  /\ phase = "boot" /\ tracked = {} /\ chain = {}
  /\ conn = "off" /\ fails = 0 /\ wait = 0 /\ inbox = <<>> /\ seen = {}
  /\ wpc = "idle" /\ sig = NoSig
  /\ queue = {} /\ qage = [m \in Mints |-> 0]
  /\ lpc = "idle" /\ todo = {} /\ done = {} /\ lmint = None
  /\ bpc = "rest" /\ page = {} /\ bmint = None
  /\ lost = {} /\ faults = 0

(***************************************************************************)
(* Helpers.                                                                *)
(***************************************************************************)
Migrated == {MintOf(s) : s \in chain}

\* The losses there are: nobody listened, the link broke, getTransaction or the
\* handler failed, the retry queue gave up, the process crashed.
Lose(ms) == lost' = lost \cup ms
Fault(kind) == kind \in FaultKinds /\ faults < MaxFaults /\ faults' = faults + 1
Smaller(a, b) == IF a < b THEN a ELSE b

\* min(INITIAL_RETRY_DELAY * 2 ** (n - 1), MAX_RETRY_DELAY).
Delay(n) ==
  LET doubled == FirstDelay * 2 ^ (n - 1)
  IN  IF doubled \in 0 .. MaxDelay THEN doubled ELSE MaxDelay

\* Mutant: a mint that was not built is forgotten.
EnqueueNot(m) == UNCHANGED <<queue, qage>>

\* _retry_queue[mint] = (now, slot), unless it is there.
Enqueue(m) ==
  /\ queue' = queue \cup {m}
  /\ qage' = IF m \in queue THEN qage ELSE [qage EXCEPT ![m] = 0]

(***************************************************************************)
(* The WebSocket: connect, subscribe, listen.                              *)
(***************************************************************************)
\* The socket alone changes.
Socket(from, to) ==
  /\ conn = from /\ conn' = to
  /\ UNCHANGED <<phase, tracked, chain, seen, wpc, sig, queue, qage, retryVars,
                 fillVars, lost, faults>>

Handshake == Socket("connecting", "subscribing") /\ UNCHANGED <<fails, wait, inbox>>
Accepted == Socket("subscribing", "live") /\ fails' = 0 /\ UNCHANGED <<wait, inbox>>

\* An answer without a result ends the session without an exception.
Refused == Socket("subscribing", "connecting") /\ UNCHANGED <<fails, wait, inbox>>

\* The session ended with an exception: back off, however often it was.
BackOff(from) ==
  /\ Socket(from, "sleep")
  /\ fails' = Smaller(fails + 1, MaxFails) /\ wait' = Delay(fails')
  /\ UNCHANGED inbox

\* Mutant: MAX_RETRIES ends the loop.
WakeUpLimited ==
  /\ wait = 0 /\ fails < MaxFails /\ Socket("sleep", "connecting") /\ UNCHANGED <<fails, wait, inbox>>

WakeUp ==
  /\ wait = 0 /\ Socket("sleep", "connecting") /\ UNCHANGED <<fails, wait, inbox>>

\* The peer closes or the link breaks; what was received may be lost with it.
Close ==
  /\ conn = "live" /\ conn' = "closed"
  /\ \/ UNCHANGED <<inbox, lost>>
     \/ inbox' = <<>> /\ Lose({MintOf(inbox[i]) : i \in DOMAIN inbox})
  /\ UNCHANGED <<phase, tracked, chain, fails, wait, seen, wpc, sig, queue, qage,
                 retryVars, fillVars, faults>>

\* The iteration ends when all that was received is handled: at once for a
\* normal close, with an exception for any other.
Drained == wpc = "idle" /\ inbox = <<>>
EndSession ==
  /\ Drained
  /\ \/ Socket("closed", "connecting") /\ UNCHANGED <<fails, wait, inbox>>
     \/ BackOff("closed")

\* A migration happens: the socket delivers it, or nobody is listening.
Migrate(s) ==
  /\ s \notin chain /\ chain' = chain \cup {s}
  /\ IF conn = "live"
       THEN /\ Len(inbox) < InboxCap
            /\ inbox' = Append(inbox, s) /\ lost' = lost \ {MintOf(s)}
       ELSE Lose({MintOf(s)}) /\ UNCHANGED inbox
  /\ UNCHANGED <<phase, tracked, conn, fails, wait, seen, wpc, sig, queue, qage,
                 retryVars, fillVars, faults>>

\* The node notifies of a transaction again.
Redeliver(s) ==
  /\ s \in chain /\ conn = "live" /\ Len(inbox) < InboxCap
  /\ inbox' = Append(inbox, s)
  /\ UNCHANGED <<phase, tracked, chain, conn, fails, wait, seen, wpc, sig, queue, qage,
                 retryVars, fillVars, lost, faults>>

(***************************************************************************)
(* _handle_message.                                                        *)
(***************************************************************************)
Handle(from, to) ==
  /\ wpc = from /\ wpc' = to
  /\ sig' = IF to = "idle" THEN NoSig ELSE sig
  /\ UNCHANGED <<phase, chain, conn, fails, wait, inbox, retryVars, fillVars, faults>>

\* A signature is marked seen before its transaction is fetched.
Take ==
  /\ wpc = "idle" /\ inbox # <<>>
  /\ LET s == Head(inbox) IN
       IF s \in seen THEN UNCHANGED <<seen, wpc, sig>>
       ELSE seen' = seen \cup {s} /\ wpc' = "fetch" /\ sig' = s
  /\ inbox' = Tail(inbox)
  /\ UNCHANGED <<phase, tracked, chain, conn, fails, wait, queue, qage, retryVars,
                 fillVars, lost, faults>>

MintFound == Handle("fetch", "exists") /\ UNCHANGED <<tracked, seen, queue, qage, lost>>

\* getTransaction fails, or names no mint: the signature stays seen.
MintUnread ==
  /\ Handle("fetch", "idle") /\ Lose({MintOf(sig)})
  /\ UNCHANGED <<tracked, seen, queue, qage>>

WsExists ==
  /\ Handle("exists", IF MintOf(sig) \in tracked THEN "idle" ELSE "build")
  /\ UNCHANGED <<tracked, seen, queue, qage, lost>>

WsNotBuilt ==
  /\ Handle("build", "idle") /\ Enqueue(MintOf(sig))
  /\ UNCHANGED <<tracked, seen, lost>>

WsSave ==
  /\ Handle("build", "seed") /\ tracked' = tracked \cup {MintOf(sig)}
  /\ UNCHANGED <<seen, queue, qage, lost>>

\* After the seed the set of signatures is cut down, to any of them.
WsSeeded ==
  /\ Handle("seed", "idle")
  /\ IF Cardinality(seen) > MaxSeen
       THEN \E kept \in SUBSET seen : Cardinality(kept) = KeepSeen /\ seen' = kept
       ELSE UNCHANGED seen
  /\ UNCHANGED <<tracked, queue, qage, lost>>

\* The lookup or the save fails; _connect_and_listen logs and goes on.
WsError ==
  /\ wpc \in {"exists", "build"} /\ Fault("error")
  /\ wpc' = "idle" /\ sig' = NoSig /\ Lose({MintOf(sig)})
  /\ UNCHANGED <<phase, tracked, chain, conn, fails, wait, inbox, seen, queue, qage,
                 retryVars, fillVars>>

(***************************************************************************)
(* process_retry_queue, in the price loop.                                 *)
(***************************************************************************)
Retry(from, to) ==
  /\ lpc = from /\ lpc' = to
  /\ UNCHANGED <<phase, chain, wsVars, fillVars>>

\* A pass works on a copy of the queue and one reading of the clock.
Expired == {m \in queue : qage[m] > GiveUp}

\* Mutant: an expired mint is skipped and never taken out.
RetryStartForgets ==
  /\ phase = "loops" /\ queue # {} /\ Retry("idle", "next")
  /\ done' = {} /\ todo' = queue \ Expired
  /\ UNCHANGED <<tracked, queue, qage, lmint, lost, faults>>

RetryStart ==
  /\ phase = "loops" /\ queue # {} /\ Retry("idle", "next")
  /\ done' = Expired /\ todo' = queue \ Expired
  /\ UNCHANGED <<tracked, queue, qage, lmint, lost, faults>>

RetryNext(m) ==
  /\ m \in todo /\ todo' = todo \ {m}
  /\ IF m \in tracked
       THEN Retry("next", "next") /\ done' = done \cup {m} /\ UNCHANGED lmint
       ELSE Retry("next", "build") /\ lmint' = {m} /\ UNCHANGED done
  /\ UNCHANGED <<tracked, queue, qage, lost, faults>>

\* Mutant: a mint that could not be built is taken out.
RetryNotBuiltDone ==
  /\ Retry("build", "next") /\ lmint' = None /\ done' = done \cup lmint
  /\ UNCHANGED <<tracked, queue, qage, todo, lost, faults>>

RetryNotBuilt ==
  /\ Retry("build", "next") /\ lmint' = None
  /\ UNCHANGED <<tracked, queue, qage, todo, done, lost, faults>>

RetrySave ==
  /\ Retry("build", "seed") /\ tracked' = tracked \cup lmint
  /\ UNCHANGED <<queue, qage, todo, done, lmint, lost, faults>>

RetrySeeded ==
  /\ Retry("seed", "next") /\ done' = done \cup lmint /\ lmint' = None
  /\ UNCHANGED <<tracked, queue, qage, todo, lost, faults>>

\* Only a pass that gets to its end takes anything out of the queue.
RetryEnd ==
  /\ todo = {} /\ Retry("next", "idle")
  /\ queue' = queue \ done /\ Lose(done \ tracked) /\ done' = {}
  /\ UNCHANGED <<tracked, qage, todo, lmint, faults>>

RetryError ==
  /\ lpc \in {"next", "build"} /\ Retry(lpc, "idle") /\ Fault("error")
  /\ todo' = {} /\ done' = {} /\ lmint' = None
  /\ UNCHANGED <<tracked, queue, qage, lost>>

(***************************************************************************)
(* backfill_recent_migrations, then periodic_backfill_loop.                *)
(***************************************************************************)
Fill(from, to) ==
  /\ bpc = from /\ bpc' = to
  /\ UNCHANGED <<chain, wsVars, queue, qage, retryVars, lost>>

\* Mutant: there is no periodic backfill.
FillPageAtBoot(pairs) ==
  /\ phase = "boot" /\ pairs \subseteq Migrated /\ Fill("rest", "next") /\ page' = pairs
  /\ UNCHANGED <<phase, tracked, bmint, faults>>

\* The pages of Dexscreener list some of the pools; an error lists none.
FillPage(pairs) ==
  /\ phase # "down" /\ pairs \subseteq Migrated /\ Fill("rest", "next") /\ page' = pairs
  /\ UNCHANGED <<phase, tracked, bmint, faults>>

\* Each pair: in table tokens or filtered out, or to be built.
FillSkip(m) ==
  /\ m \in page /\ page' = page \ {m} /\ Fill("next", "next")
  /\ UNCHANGED <<phase, tracked, bmint, faults>>
FillNext(m) ==
  /\ m \in page \ tracked /\ page' = page \ {m} /\ Fill("next", "build")
  /\ bmint' = {m}
  /\ UNCHANGED <<phase, tracked, faults>>

FillSave ==
  /\ Fill("build", "seed") /\ tracked' = tracked \cup bmint
  /\ UNCHANGED <<phase, page, bmint, faults>>

FillSeeded ==
  /\ Fill("seed", "next") /\ bmint' = None
  /\ UNCHANGED <<phase, tracked, page, faults>>

\* An exception is caught pair by pair.
FillError ==
  /\ bpc = "build" /\ Fill("build", "next") /\ Fault("error") /\ bmint' = None
  /\ UNCHANGED <<phase, tracked, page>>

\* The end of the page.  After the first one, main starts the loops.
FillEnd ==
  /\ page = {} /\ bpc = "next" /\ bpc' = "rest"
  /\ IF phase = "boot" THEN phase' = "loops" /\ conn' = "connecting"
                       ELSE UNCHANGED <<phase, conn>>
  /\ UNCHANGED <<tracked, chain, fails, wait, inbox, seen, wpc, sig, queue, qage,
                 retryVars, page, bmint, lost, faults>>

(***************************************************************************)
(* The clock, crashes and restarts.                                        *)
(***************************************************************************)
Older(n) == IF n < Old THEN n + 1 ELSE n

Tick ==
  /\ wait > 0 \/ \E m \in queue : qage[m] < Old
  /\ wait' = IF wait > 0 THEN wait - 1 ELSE 0
  /\ qage' = [m \in Mints |-> IF m \in queue THEN Older(qage[m]) ELSE qage[m]]
  /\ UNCHANGED <<phase, tracked, chain, conn, fails, inbox, seen, wpc, sig, queue,
                 retryVars, fillVars, lost, faults>>

\* Whose mint is it?  The mints that the memory of the process holds.
InHand == queue \cup {MintOf(inbox[i]) : i \in DOMAIN inbox}
                \cup (IF sig = NoSig THEN {} ELSE {MintOf(sig)})

Crash ==
  /\ phase # "down" /\ Fault("crash")
  /\ phase' = "down" /\ Lose(InHand \ tracked)
  /\ conn' = "off" /\ fails' = 0 /\ wait' = 0 /\ inbox' = <<>> /\ seen' = {}
  /\ wpc' = "idle" /\ sig' = NoSig /\ queue' = {} /\ qage' = [m \in Mints |-> 0]
  /\ lpc' = "idle" /\ todo' = {} /\ done' = {} /\ lmint' = None
  /\ bpc' = "rest" /\ page' = {} /\ bmint' = None
  /\ UNCHANGED <<tracked, chain>>

Restart ==
  /\ phase = "down" /\ phase' = "boot"
  /\ UNCHANGED <<tracked, chain, wsVars, queue, qage, retryVars, fillVars, lost, faults>>

SocketStep ==
  \/ Handshake \/ Accepted \/ Refused \/ WakeUp \/ EndSession
  \/ BackOff("connecting") \/ BackOff("subscribing")
HandlerStep == Take \/ MintFound \/ MintUnread \/ WsExists \/ WsNotBuilt \/ WsSave \/ WsSeeded \/ WsError
RetryStep ==
  \/ RetryStart \/ RetryNotBuilt \/ RetrySave \/ RetrySeeded \/ RetryEnd \/ RetryError
  \/ \E m \in Mints : RetryNext(m)
FillStep ==
  \/ FillSave \/ FillSeeded \/ FillError \/ FillEnd
  \/ \E m \in Mints : FillSkip(m) \/ FillNext(m)
  \/ \E pairs \in SUBSET Mints : FillPage(pairs)

Next ==
  \/ SocketStep \/ Close \/ HandlerStep \/ RetryStep \/ FillStep \/ Tick \/ Crash \/ Restart
  \/ \E s \in Sigs : Migrate(s) \/ Redeliver(s)

Spec == Init /\ [][Next]_vars

(***************************************************************************)
(* The tasks keep running and the process is started again.  Of the world: *)
(* the node accepts a subscription now and then, and Dexscreener does not  *)
(* keep a pool off its pages, or without a price, for ever.                *)
(***************************************************************************)
Listed(m) == \E pairs \in SUBSET Mints : m \in pairs /\ FillPage(pairs)

FairSpec ==
  /\ Spec
  /\ WF_vars(SocketStep) /\ SF_vars(Accepted) /\ SF_vars(Handshake)
  /\ WF_vars(HandlerStep) /\ WF_vars(RetryStep) /\ WF_vars(FillStep)
  /\ WF_vars(Tick) /\ WF_vars(Restart)
  /\ \A m \in Mints : SF_vars(Listed(m)) /\ SF_vars(FillNext(m)) /\ SF_vars(FillSave)

(***************************************************************************)
(* Properties.                                                             *)
(***************************************************************************)

\* No mint falls between the tasks: one that migrated has a row, or the
\* process holds it, or its loss is one of those named at Lose.
Accounted ==
  /\ TypeOK
  /\ \A m \in Migrated : m \in tracked \cup InHand \cup lost

\* The retry queue gives up on a mint only when its 300 s are over; till then
\* neither a failed pass nor a second notification takes it out or renews it.
KeptUntilOld ==
  [][/\ \A m \in queue \ (queue' \cup tracked) : qage[m] > GiveUp \/ phase' = "down"
     /\ \A m \in queue \cap queue' : qage'[m] >= qage[m]]_vars

\* No mint stays in the retry queue for ever, whatever the node repeats.
MintQueueDrains == \A m \in Mints : m \in queue ~> m \notin queue

\* The bot never gives the WebSocket up ("Automatically reconnects").
Resubscribes == []<>(conn = "live")

\* The safety net: whatever the WebSocket, a crash or an error lost, a pool
\* that Dexscreener keeps listing gets its row.
EventuallyTracked == \A m \in Mints : m \in Migrated ~> m \in tracked
=============================================================================

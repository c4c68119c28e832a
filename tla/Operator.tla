------------------------------ MODULE Operator ------------------------------
(***************************************************************************)
(* What the bot tells its operator beside alerts (main.daily_recap_loop,   *)
(* main.command_listener_loop, TelegramSender.poll_commands): a recap at   *)
(* every midnight, and the answers to commands, which Telegram keeps until *)
(* a later poll confirms them.                                             *)
(***************************************************************************)
EXTENDS AlertOutcomes

CONSTANT
  Messages  \* Messages[u]: "command" of the chat, or "other", for update u = 1, 2, ...

ASSUME OperatorAssumption ==
  Messages \in Seq({"command", "other"})

VARIABLES
  hour,     \* time since midnight
  rpc,      \* the recap loop: "plan", "sleep", "build", "pause"
  left,     \* what is left of its sleep
  recapped, \* history: recaps sent since midnight
  issued,   \* the updates that users have made
  confirmed,\* the updates that Telegram has forgotten
  lastId,   \* _last_update_id
  batch,    \* the commands of the last poll still to run
  answered, \* history: how often a command was answered
  dropped,  \* history: the commands that an error took with it
  lives     \* history: how often the bot came up

recapVars == <<hour, rpc, left, recapped>>
commandVars == <<issued, confirmed, lastId, batch, answered, dropped>>
operatorVars == <<recapVars, commandVars, lives>>

Updates == 1 .. Len(Messages)
MaxLives == MaxFaults + 1

OperatorTypeOK ==
  /\ hour \in 0 .. Day - 1 /\ left \in 0 .. Day /\ recapped \in 0 .. 2
  /\ rpc \in {"plan", "sleep", "build", "pause"}
  /\ issued \in 0 .. Len(Messages) /\ {confirmed, lastId} \subseteq 0 .. issued
  /\ batch \subseteq Updates /\ answered \in [Updates -> 0 .. MaxLives] /\ dropped \subseteq Updates
  /\ lives \in 0 .. MaxLives

OperatorInit ==
  /\ hour = 0 /\ rpc = "plan" /\ left = 0 /\ recapped = 0
  /\ issued = 0 /\ confirmed = 0 /\ lastId = 0 /\ batch = {}
  /\ answered = [u \in Updates |-> 0] /\ dropped = {} /\ lives = 0

(***************************************************************************)
(* daily_recap_loop.                                                       *)
(***************************************************************************)
\* Mutant: at midnight the next midnight is now.
UntilMidnightOrNow == (Day - hour) % Day

\* To the midnight of tomorrow, also when it is midnight now.
UntilMidnight == Day - hour

RecapPlan ==
  /\ phase = "up" /\ rpc = "plan" /\ rpc' = "sleep" /\ left' = UntilMidnight
  /\ UNCHANGED <<hour, recapped, commandVars, lives, faults>>

\* No alert in the last 24 h: nothing is sent.
RecapWake ==
  /\ phase = "up" /\ rpc = "sleep" /\ left = 0 /\ rpc' = IF Since = {} THEN "plan" ELSE "build"
  /\ UNCHANGED <<hour, left, recapped, commandVars, lives, faults>>

\* Whether Telegram takes it is not looked at.
RecapSend ==
  /\ phase = "up" /\ rpc = "build" /\ rpc' = "plan" /\ recapped' = recapped + 1
  /\ UNCHANGED <<hour, left, commandVars, lives, faults>>

\* An error waits five minutes and then plans the next midnight.
RecapError ==
  /\ phase = "up" /\ rpc = "build" /\ rpc' = "pause" /\ Fault("error")
  /\ UNCHANGED <<hour, left, recapped, commandVars, lives>>
RecapResume ==
  /\ phase = "up" /\ rpc = "pause" /\ rpc' = "plan"
  /\ UNCHANGED <<hour, left, recapped, commandVars, lives, faults>>

\* The clock; a recap that is due is built before the next unit of time.
Tick ==
  /\ phase \in {"up", "down"}
  /\ phase = "up" => rpc = "pause" \/ (rpc = "sleep" /\ left > 0)
  /\ hour' = (hour + 1) % Day /\ left' = IF left > 0 THEN left - 1 ELSE 0
  /\ recapped' = IF hour' = 0 THEN 0 ELSE recapped
  /\ UNCHANGED <<rpc, commandVars, lives, faults>>

(***************************************************************************)
(* command_listener_loop.                                                  *)
(***************************************************************************)
Issue ==
  /\ phase \in {"up", "down"} /\ issued < Len(Messages) /\ issued' = issued + 1
  /\ UNCHANGED <<recapVars, confirmed, lastId, batch, answered, dropped, lives, faults>>

CommandsIn(us) == {u \in us : Messages[u] = "command"}

\* Mutant: every poll asks from the first update on.
PendingAll == 1 .. issued

\* getUpdates: what is not confirmed and not below the offset.
Offset == IF confirmed > lastId THEN confirmed ELSE lastId
Pending == Offset + 1 .. issued

\* A poll brings the updates in their order.  The offset confirms what came before; it moves on before a command runs.
Poll ==
  /\ phase = "up" /\ batch = {} /\ (Pending # {} \/ confirmed < lastId)
  /\ confirmed' = Offset /\ lastId' = IF Pending = {} THEN lastId ELSE Max(Pending)
  /\ batch' = CommandsIn(Pending)
  /\ UNCHANGED <<recapVars, issued, answered, dropped, lives, faults>>

\* Mutant: a poll that fails moves on to the newest update.
PollFailsAhead ==
  /\ phase = "up" /\ batch = {} /\ confirmed < lastId /\ confirmed' = lastId /\ lastId' = issued
  /\ UNCHANGED <<recapVars, issued, batch, answered, dropped, lives, faults>>

\* The poll fails, after Telegram has noted the offset or before.
PollFails ==
  /\ phase = "up" /\ batch = {} /\ confirmed < lastId /\ confirmed' = lastId
  /\ UNCHANGED <<recapVars, issued, lastId, batch, answered, dropped, lives, faults>>

Answer ==
  /\ phase = "up" /\ batch # {} /\ batch' = batch \ {Min(batch)}
  /\ answered' = [answered EXCEPT ![Min(batch)] = @ + 1]
  /\ UNCHANGED <<recapVars, issued, confirmed, lastId, dropped, lives, faults>>

\* One command that fails takes the rest of the batch with it.
CommandError ==
  /\ phase = "up" /\ batch # {} /\ Fault("error")
  /\ batch' = {} /\ dropped' = dropped \cup batch
  /\ UNCHANGED <<recapVars, issued, confirmed, lastId, answered, lives>>

\* A start: nothing of the last life is in memory.
OperatorStart ==
  /\ lives' = lives + 1 /\ rpc' = "plan" /\ left' = 0
  /\ lastId' = 0 /\ batch' = {}
  /\ UNCHANGED <<hour, recapped, issued, confirmed, answered, dropped>>

RecapStep == RecapPlan \/ RecapWake \/ RecapSend \/ RecapError \/ RecapResume
CommandStep == Poll \/ PollFails \/ Answer \/ CommandError
=============================================================================

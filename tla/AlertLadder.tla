---------------------------- MODULE AlertLadder ----------------------------
(***************************************************************************)
(* What the dip alerts of Phoenix promise about one token, whatever the    *)
(* bot does inside: "Each tier only fires once, then moves to next tier"   *)
(* (config.example.yaml:53).  The messages a subscriber receives climb     *)
(* strictly, except after a slip: an event that makes the bot forget how   *)
(* deep it has alerted (a crash or a failed write between the message and  *)
(* its record, a lost answer from Telegram, a stale whole-row write).      *)
(* AlertLoop is shown to implement this module.                            *)
(***************************************************************************)
EXTENDS Integers

CONSTANTS
  Tokens,     \* token addresses
  NumTiers    \* length of config "dip_tiers"

VARIABLES
  deepest,    \* deepest[t]: deepest tier announced since the last slip; -1 is none
  sends,      \* sends[t][k]: messages of tier k for t that reached the chat
  slips       \* slips[t]: how often the bot forgot about t

vars == <<deepest, sends, slips>>

Tiers == 0 .. NumTiers - 1

Init ==
  /\ deepest = [t \in Tokens |-> -1]
  /\ sends = [t \in Tokens |-> [k \in Tiers |-> 0]]
  /\ slips = [t \in Tokens |-> 0]

\* A message deeper than everything announced since the last slip.
Announce(t, k) ==
  /\ k > deepest[t]
  /\ sends' = [sends EXCEPT ![t][k] = @ + 1]
  /\ deepest' = [deepest EXCEPT ![t] = k]
  /\ UNCHANGED slips

\* The message arrives, but the bot takes it for lost.
AnnounceUnknowingly(t, k) ==
  /\ k > deepest[t]
  /\ sends' = [sends EXCEPT ![t][k] = @ + 1]
  /\ slips' = [slips EXCEPT ![t] = @ + 1]
  /\ UNCHANGED deepest

\* The bot falls back to a rung it had already passed.
Slip(t) ==
  /\ \E d \in -1 .. deepest[t] : deepest' = [deepest EXCEPT ![t] = d]
  /\ slips' = [slips EXCEPT ![t] = @ + 1]
  /\ UNCHANGED sends

Next ==
  \E t \in Tokens :
    \/ \E k \in Tiers : Announce(t, k) \/ AnnounceUnknowingly(t, k)
    \/ Slip(t)

Spec == Init /\ [][Next]_vars

TypeOK ==
  /\ deepest \in [Tokens -> -1 .. NumTiers - 1]
  /\ sends \in [Tokens -> [Tiers -> Nat]]
  /\ slips \in [Tokens -> Nat]

\* Every repeat of a tier is paid for by a slip: tier k of a token reaches
\* the chat at most once more often than the bot forgot about that token.
OncePerTier == \A t \in Tokens, k \in Tiers : sends[t][k] <= 1 + slips[t]

\* The inductive form: only the rungs at or below the deepest one have had
\* their free message.
Paid ==
  \A t \in Tokens, k \in Tiers :
    sends[t][k] <= slips[t] + (IF k <= deepest[t] THEN 1 ELSE 0)
=============================================================================

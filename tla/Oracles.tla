------------------------------ MODULE Oracles ------------------------------
(***************************************************************************)
(* What the bot makes of the answers of Dexscreener and Birdeye (utils/    *)
(* dexscreener.py, utils/birdeye.py, modules/phantom_validator.py).        *)
(*                                                                         *)
(* 0 stands for a number that is missing, malformed or not positive.  A    *)
(* request that fails, times out or is refused for its rate has an empty   *)
(* answer: the clients catch everything.                                   *)
(***************************************************************************)
EXTENDS Integers, FiniteSets, FiniteSetsExt

CONSTANT Prices   \* prices of Dexscreener and Birdeye

ASSUME PricesAssumption == Prices \subseteq Nat \ {0} /\ IsFiniteSet(Prices)

Numbers == Prices \cup {0}

(***************************************************************************)
(* Dexscreener.                                                            *)
(***************************************************************************)
\* A pair as extract_price_data reads it: its market, liquidity and price.
Pairs == [market : {"pumpswap", "other"}, liquidity : 0 .. 1, price : Numbers]

\* Of the PumpSwap pairs one with the most liquidity; a tie goes to the first listed.
BestPairs(pairs) ==
  LET pumpswap == {p \in pairs : p.market = "pumpswap"}
  IN  {p \in pumpswap : \A q \in pumpswap : q.liquidity <= p.liquidity}

\* get_pumpswap_pairs_bulk: what a poll may bring for a token, whatever is
\* listed for it; a pair without a price is no price.
LivePrices == {p.price : p \in UNION {BestPairs(pairs) : pairs \in SUBSET Pairs}} \ {0}

(***************************************************************************)
(* Birdeye.                                                                *)
(***************************************************************************)
\* get_ath_since_migration: the highest high of the candles that have one.
HighestHigh(highs) == IF highs \subseteq {0} THEN 0 ELSE Max(highs)

\* The ATHs that Birdeye may give; the callers take 0 for no data yet.
BirdeyeAths == {HighestHigh(highs) : highs \in SUBSET Numbers} \ {0}

(***************************************************************************)
(* phantom_validator.                                                      *)
(***************************************************************************)
PhantomPercent == 40     \* phantom_threshold_pct

\* Birdeye's current price, or 0: every failure of the request fails open.
CurrentAnswers == Numbers

\* Birdeye sees the token within the threshold of its new ATH, bound included.
IsPhantom(ath, current) ==
  ath > 0 /\ current > 0 /\ 100 * current >= (100 - PhantomPercent) * ath
=============================================================================

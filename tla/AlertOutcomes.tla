---------------------------- MODULE AlertOutcomes ----------------------------
(***************************************************************************)
(* What becomes of an alert after its INSERT into table alerts             *)
(* (price_tracker._process_token, database.update_peak_after_alert,        *)
(* database.update_trough_after_alert), and which alerts a recap tells of  *)
(* (database.get_alerts_since, stats.build_daily_recap).                   *)
(*                                                                         *)
(* The alerts are those of one token: a poll updates all of them.  The two *)
(* UPDATEs are transactions of their own, and need columns that an upgrade *)
(* adds one by one.                                                        *)
(***************************************************************************)
EXTENDS SchemaUpgrade

CONSTANTS
  Day,         \* clock units from midnight to midnight
  UtcAhead,    \* by how many of them the midnight of UTC is earlier than the recap's
  Quotes,      \* prices a poll may bring
  AlertQuotes, \* prices at which an alert fires
  MaxAlerts    \* bound: alerts of the token

ASSUME AlertOutcomesAssumption ==
  /\ Day \in Nat \ {0} /\ UtcAhead \in 0 .. Day - 1 /\ MaxAlerts \in Nat
  /\ Quotes \subseteq Nat \ {0} /\ AlertQuotes \subseteq Nat \ {0}

VARIABLES
  alerts,    \* the rows in the order of their ids: age, alert price, peak, and trough (0 for NULL);
             \* history: the prices of the polls since, kept by both UPDATEs, or lost on the way
  quote      \* the price of a poll that has updated the peaks and not yet the troughs, or 0

outcomeVars == <<alerts, quote>>

Older(age) == IF age > Day THEN age ELSE age + 1     \* ages saturate behind a day

OutcomeTypeOK ==
  /\ alerts \in Seq([age : 0 .. Day + 1, price : AlertQuotes,
                     peak : Quotes \cup AlertQuotes, trough : Quotes \cup {0},
                     kept : SUBSET Quotes, lost : SUBSET Quotes])
  /\ Len(alerts) <= MaxAlerts /\ quote \in Quotes \cup {0}

OutcomeInit == alerts = <<>> /\ quote = 0

\* save_alert: the alert price is the first peak, and the trough is NULL.
SaveAlert(p) ==
  /\ phase = "up" /\ quote = 0 /\ Len(alerts) < MaxAlerts
  /\ alerts' = Append(alerts, [age |-> 0, price |-> p, peak |-> p, trough |-> 0,
                               kept |-> {}, lost |-> {}])
  /\ UNCHANGED <<quote, faults>>

PeakColumns == {"peak_time", "time_to_peak_minutes"}
TroughColumns == {"trough_price_after", "trough_mcap_after", "trough_time", "max_drawdown_pct"}
Writable(names) == \A c \in names : Has("alerts", c)

\* Every alert whose peak is lower.
RaisePeaks(p) == [i \in DOMAIN alerts |-> [alerts[i] EXCEPT !.peak = IF @ < p THEN p ELSE @]]

\* Mutant: a trough that is NULL is not "> p".
LowerTroughsNull(p) ==
  [i \in DOMAIN alerts |->
    [alerts[i] EXCEPT !.trough = IF @ > p THEN p ELSE @, !.kept = @ \cup {p}]]

\* Every alert whose trough is NULL or higher.
LowerTroughs(p) ==
  [i \in DOMAIN alerts |->
    [alerts[i] EXCEPT !.trough = IF @ = 0 \/ @ > p THEN p ELSE @, !.kept = @ \cup {p}]]

\* The price of a poll is gone, whole or after the peaks; this is logged and forgotten.
Lose(p) == alerts' = [i \in DOMAIN alerts |-> [alerts[i] EXCEPT !.lost = @ \cup {p}]]

\* A missing column fails an UPDATE without any fault of the day.
Fails(names) == IF Writable(names) THEN Fault("error") ELSE UNCHANGED faults

\* The poll of an alerted token, with a price within 50 ATHs; one beyond them
\* skips both UPDATEs.
PollPeak(p) ==
  /\ phase = "up" /\ quote = 0 /\ alerts # <<>> /\ Writable(PeakColumns)
  /\ alerts' = RaisePeaks(p) /\ quote' = p /\ UNCHANGED faults

PollPeakFails(p) ==
  /\ phase = "up" /\ quote = 0 /\ alerts # <<>> /\ Fails(PeakColumns)
  /\ Lose(p) /\ UNCHANGED quote

PollTrough ==
  /\ phase = "up" /\ quote # 0 /\ Writable(TroughColumns)
  /\ alerts' = LowerTroughs(quote) /\ quote' = 0 /\ UNCHANGED faults

PollTroughFails ==
  /\ phase = "up" /\ quote # 0 /\ Fails(TroughColumns)
  /\ Lose(quote) /\ quote' = 0

(***************************************************************************)
(* Recaps.                                                                 *)
(***************************************************************************)
\* get_alerts_since: the last 24 h.
Since == {i \in DOMAIN alerts : alerts[i].age <= Day}

\* build_daily_recap: the alerts with the date of now, in UTC.
Today(hour) == {i \in DOMAIN alerts : alerts[i].age <= (hour + UtcAhead) % Day}

OutcomesAge == alerts' = [i \in DOMAIN alerts |-> [alerts[i] EXCEPT !.age = Older(@)]] /\ UNCHANGED quote

\* A poll ends with the process.
OutcomesStop == quote' = 0 /\ IF quote = 0 THEN UNCHANGED alerts ELSE Lose(quote)

OutcomeStep ==
  \/ PollTrough \/ PollTroughFails
  \/ \E p \in Quotes : PollPeak(p) \/ PollPeakFails(p)
  \/ \E p \in AlertQuotes : SaveAlert(p)
=============================================================================

---------------------------- MODULE MCAlertGates ----------------------------
(* A pool and five wallets, one of them with two accounts; three views of   *)
(* the balances; three states of the fee table.                             *)
EXTENDS AlertGates

Account(id, owner, amount) == [id |-> id, owner |-> owner, amount |-> amount]
MCAccounts ==
  {Account(1, "pool", 90), Account(2, "w1", 30), Account(3, "w1", 25),
   Account(4, "w2", 20), Account(5, "w3", 10), Account(6, "w4", 0)}

User(sol) == [sol |-> sol, program |-> "system"]
Pool == [sol |-> 50, program |-> "amm"]
View(w1, w2, w3) ==
  [o \in Owners |-> CASE o = "pool" -> Pool [] o = "w1" -> User(w1)
                      [] o = "w2" -> User(w2) [] o = "w3" -> User(w3) [] OTHER -> Unknown]
\* One poor and one unknown; two in one bucket; all three; two poor and one unknown.
MCBalanceViews == {View(1, NoSol, 80), View(40, 41, 80), View(40, 41, 41), View(1, NoSol, 0)}

Fees(bribes, creator, txs) == [total |-> 100, creator |-> creator, bribes |-> bribes, txs |-> txs, events |-> txs]
\* No rows; organic; in the soft zone with a dominant creator and few transactions.
MCFeeTables == {NoFees, Fees(10, 80, 5), Fees(4, 80, 1)}
=============================================================================

---------------------------- MODULE MCFeeIndexer ----------------------------
(* Four transactions: two buys of one pool and a hop through another pool;  *)
(* a sell after a foreign sell, then a buy; one without a pool; and one     *)
(* that failed.                                                             *)
EXTENDS FeeIndexer

CONSTANTS x1, x2, x3, x4, p, q, u, sol, a, b

Event(kind, pool) == [kind |-> kind, pool |-> pool]
Side(owner, mint) == [owner |-> owner, mint |-> mint]
Instruction(program, sets, price) == [program |-> program, sets |-> sets, price |-> price]
Change(account, lamports) == [account |-> account, lamports |-> lamports]
Tx(payloads, balances, instructions, changes, failed) ==
  [payloads |-> payloads, balances |-> balances, instructions |-> instructions,
   units |-> 5, changes |-> changes, fee |-> 1, failed |-> failed]

MCInfo ==
  [x \in Txs |->
    CASE x = x1 -> Tx(<<Event("buy", p), Event("other", p), Event("buy", p), Event("sell", q)>>,
                      <<Side(u, sol), Side(p, a), Side(p, sol), Side(q, b), Side(q, sol)>>,
                      <<Instruction("other", "price", 9), Instruction("budget", "other", 7),
                        Instruction("budget", "price", 3), Instruction("budget", "price", 8)>>,
                      <<Change("other", 4)>>, FALSE)
      [] x = x2 -> Tx(<<Event("sell", q), Event("sell", p), Event("buy", p)>>,
                      <<Side(u, a), Side(p, sol), Side(p, a)>>, <<>>,
                      <<Change("tip", 2), Change("tip", -1), Change("tip", 2)>>, FALSE)
      [] x = x3 -> Tx(<<Event("buy", q)>>, <<Side(p, a), Side(q, sol)>>, <<>>, <<>>, FALSE)
      [] OTHER  -> Tx(<<Event("buy", p)>>, <<Side(p, a), Side(p, sol)>>, <<>>, <<>>, TRUE)]
=============================================================================

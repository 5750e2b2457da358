----------------------------- MODULE MCMempool -----------------------------
(* Two senders with regular and blob transactions, two frame transactions  *)
(* that share a paymaster, and pools small enough to evict.                *)
EXTENDS Mempool, TLC

CONSTANTS a, b, pm, s1, s2

Tx(sender, nonce, kind, cost, fee, paymaster) ==
    [sender |-> sender, nonce |-> nonce, kind |-> kind, cost |-> cost,
     fee |-> fee, paymaster |-> paymaster]

MCTxs ==
    {Tx(a, 0, "regular", 1, 1, pm), Tx(a, 1, "regular", 2, 1, pm),
     Tx(a, 0, "frame", 1, 3, pm),
     Tx(b, 0, "blob", 1, 1, pm), Tx(b, 1, "blob", 1, 2, pm),
     Tx(b, 0, "frame", 1, 2, pm)}

MCSymmetry == Permutations({s1, s2})

MCSenders == {a, b}
MCBalance == [s \in MCSenders |-> 2]
MCFunds == [p \in {pm} |-> 1]

============================================================================

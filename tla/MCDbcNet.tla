------------------------------ MODULE MCDbcNet ------------------------------
(***************************************************************************)
(* Networks of two or three nodes for TLC.  Each run picks from one small  *)
(* universe of blocks:                                                     *)
(*                                                                         *)
(*   G -- A1 -- A2      a finds A1, A2 and W, a block 0 that is not the    *)
(*    |     \-- C2      genesis; b finds B1 and C2                         *)
(*    \--- B1                                                              *)
(*                                                                         *)
(* A1 spends the coin of genesis, so that it cannot be applied twice.      *)
(***************************************************************************)
EXTENDS DbcNet, TLC

CONSTANTS a, b, c, G, W, A1, A2, C2, B1

MCFinder == [x \in Blocks \ {G} |-> IF x \in {B1, C2} THEN b ELSE a]

Block(p, h, k, T) ==
    [prev |-> p, height |-> h, coinbase |-> k, txs |-> T, uncles |-> <<>>]

MCBody == [x \in Blocks |->
    CASE x = G  -> Block(NoBlock, 0, "kG", <<>>)
      [] x = W  -> Block(NoBlock, 0, "kW", <<>>)
      [] x = A1 -> Block(G, 1, "kA1", <<"t1">>)
      [] x = B1 -> Block(G, 1, "kB1", <<>>)
      [] x = A2 -> Block(A1, 2, "kA2", <<>>)
      [] x = C2 -> Block(A1, 2, "kC2", <<>>)]

Pays == ("kG" :> <<"cG">>) @@ ("kW" :> <<"cW">>) @@ ("kA1" :> <<"cA1">>) @@
        ("kB1" :> <<"cB1">>) @@
        ("kA2" :> <<"cA2">>) @@ ("kC2" :> <<"cC2">>) @@ ("t1" :> <<"o1">>)

MCTxs == DOMAIN Pays

MCTx == [t \in MCTxs |->
    [inputs  |-> IF t = "t1" THEN <<"cG">> ELSE <<NullCoin>>,
     outputs |-> Pays[t],
     optsIn  |-> FALSE]]

MCValue == [x \in {Pays[t][1] : t \in MCTxs} \cup {NullCoin} |-> IF x = NullCoin THEN 0 ELSE 8]

MCCoins == DOMAIN MCValue
=============================================================================

----------------------------- MODULE MCDbcChain -----------------------------
(***************************************************************************)
(* Universes of blocks for TLC.  The plain one has thirteen: two branches  *)
(* leave genesis, the first one forks again at height 2, and the blocks a  *)
(* peer may send include four the rules refuse (a repeated uncle, an uncle *)
(* below the window, a coin spent twice, the subsidy from before the       *)
(* halving at height 4).                                                   *)
(*                                                                         *)
(*   G -- A1 -- A2 -- A3 -- A4u    t1 in A2, t3 in A3                      *)
(*    |     |     |     \-- H4     H4 pays the subsidy of height 3         *)
(*    |     |     \-- A3u, A3d     A3u repeats A2's uncle, A3d respends cG *)
(*    |     |--- X2                t4 in X2, which conflicts with t1       *)
(*    |     \--- E2 -- E3          t4 in E3                                *)
(*    \--- B1 -- B2                t1 in B2, with uncle A1                 *)
(*                                                                         *)
(* The full one adds blocks no honest miner makes and every node accepts:  *)
(*                                                                         *)
(*   A1 -- S2           t1 and t2, which spend one coin, in one block      *)
(*   A1 -- D2           td, which names one coin twice                     *)
(*   A1 -- W2           tw, whose outputs wrap the word                    *)
(*   G  -- R1           the coinbase of genesis again                      *)
(*   E2 -- E3r -- E4r   E3r repeats the coinbase of E2 and spends it, E4r  *)
(*                      spends it again                                    *)
(*                                                                         *)
(* The subsidy is 16 at heights 0 and 1, 8 at 2 and 3, 4 at 4; every other *)
(* coinbase claims all it may.  The coinbase of B2 has two outputs.        *)
(***************************************************************************)
EXTENDS DbcWallet, TLC

PlainBlocks ==
    {"G", "A1", "A2", "A3", "A4u", "A3u", "A3d", "X2", "H4", "E2", "E3", "B1", "B2"}
FullBlocks == PlainBlocks \cup {"S2", "D2", "W2", "R1", "E3r", "E4r"}
RespendBlocks == {"G", "A1", "S2", "D2", "W2"}

Block(p, h, k, T, U) ==
    [prev |-> p, height |-> h, coinbase |-> k, txs |-> T, uncles |-> U]

MCBody == [b \in Blocks |->
    CASE b = "G"   -> Block(NoBlock, 0, "kG", <<>>, <<>>)
      [] b = "A1"  -> Block("G", 1, "kA1", <<>>, <<>>)
      [] b = "B1"  -> Block("G", 1, "kB1", <<>>, <<>>)
      [] b = "R1"  -> Block("G", 1, "kG", <<>>, <<>>)
      [] b = "A2"  -> Block("A1", 2, "kA2", <<"t1">>, <<"B1">>)
      [] b = "X2"  -> Block("A1", 2, "kX2", <<"t4">>, <<>>)
      [] b = "E2"  -> Block("A1", 2, "kE2", <<>>, <<>>)
      [] b = "S2"  -> Block("A1", 2, "kS2", <<"t1", "t2">>, <<>>)
      [] b = "D2"  -> Block("A1", 2, "kD2", <<"td">>, <<>>)
      [] b = "W2"  -> Block("A1", 2, "kW2", <<"tw">>, <<>>)
      [] b = "B2"  -> Block("B1", 2, "kB2", <<"t1">>, <<"A1">>)
      [] b = "E3"  -> Block("E2", 3, "kE3", <<"t4">>, <<"X2">>)
      [] b = "E3r" -> Block("E2", 3, "kE2", <<"t7">>, <<>>)
      [] b = "A3"  -> Block("A2", 3, "kA3", <<"t3">>, <<"X2">>)
      [] b = "A3u" -> Block("A2", 3, "kA3", <<>>, <<"X2", "B1">>)
      [] b = "A3d" -> Block("A2", 3, "kA3d", <<"t2">>, <<>>)
      [] b = "E4r" -> Block("E3r", 4, "kE4", <<"t8">>, <<>>)
      [] b = "H4"  -> Block("A3", 4, "kH4", <<>>, <<>>)
      [] b = "A4u" -> Block("A3", 4, "kA4", <<>>, <<"B1">>)]

\* t2 and t4 spend t1's coin; t4 also spends t5's; t3 spends t1's output; t6 pays
\* out more than it spends.
Regulars ==
    ("t1" :> <<"cG">>) @@ ("t2" :> <<"cG">>) @@ ("t3" :> <<"o1">>) @@
    ("t4" :> <<"cG", "cA1">>) @@ ("t5" :> <<"cA1">>) @@ ("t6" :> <<"cG">>) @@
    ("t7" :> <<"cE2">>) @@ ("t8" :> <<"cE2">>) @@
    ("td" :> <<"cG", "cG">>) @@ ("tw" :> <<"cG">>)

Pays ==
    ("t1" :> <<"o1">>) @@ ("t2" :> <<"o2">>) @@ ("t3" :> <<"o3">>) @@ ("t4" :> <<"o4">>) @@
    ("t5" :> <<"o5">>) @@ ("t6" :> <<"o6">>) @@ ("t7" :> <<"o7">>) @@ ("t8" :> <<"o8">>) @@
    ("td" :> <<"od">>) @@ ("tw" :> <<"ow", "ow2">>) @@
    ("kG" :> <<"cG">>) @@ ("kA1" :> <<"cA1">>) @@ ("kB1" :> <<"cB1">>) @@
    ("kA2" :> <<"cA2">>) @@ ("kX2" :> <<"cX2">>) @@ ("kE2" :> <<"cE2">>) @@
    ("kS2" :> <<"cS2">>) @@ ("kD2" :> <<"cD2">>) @@ ("kW2" :> <<"cW2">>) @@
    ("kB2" :> <<"cB2", "cB2b">>) @@ ("kE3" :> <<"cE3">>) @@ ("kA3" :> <<"cA3">>) @@
    ("kA3d" :> <<"cA3d">>) @@ ("kE4" :> <<"cE4">>) @@ ("kH4" :> <<"cH4">>) @@
    ("kA4" :> <<"cA4">>)

MCTxs == DOMAIN Pays

MCTx == [t \in MCTxs |->
    [inputs  |-> IF t \in DOMAIN Regulars THEN Regulars[t] ELSE <<NullCoin>>,
     outputs |-> Pays[t],
     optsIn  |-> t \in {"t2", "t3", "t4", "t6", "td"}]]

\* "kX2" has the shape of a coinbase.
PlainOffers == {"t1", "t2", "t3", "t4", "t5", "t6"}
FullOffers == PlainOffers \cup {"kX2", "td"}

MCValue ==
    (NullCoin :> 0) @@
    ("cG" :> 16) @@ ("cA1" :> 16) @@ ("cB1" :> 16) @@ ("cA2" :> 21) @@ ("cX2" :> 11) @@
    ("cH4" :> 8) @@ ("cB2" :> 13) @@ ("cB2b" :> 8) @@ ("cE2" :> 8) @@ ("cE3" :> 17) @@
    ("cA3" :> 14) @@ ("cA3d" :> 10) @@ ("cA4" :> 16) @@ ("cS2" :> 11) @@ ("cD2" :> 10) @@
    ("cW2" :> 8) @@ ("cE4" :> 5) @@
    ("o1" :> 15) @@ ("o2" :> 14) @@ ("o3" :> 15) @@ ("o4" :> 29) @@ ("o5" :> 14) @@
    ("o6" :> 17) @@ ("o7" :> 8) @@ ("o8" :> 7) @@ ("od" :> 30) @@ ("ow" :> 100) @@ ("ow2" :> 44)

MCCoins == DOMAIN MCValue

MCAddresses == {"alice", "bob"}

\* Alice mines A1, A3 and half of B2; what t1 pays is hers, and t3 pays it to bob.
MCOwner == [c \in MCCoins |-> IF c \in {"cA1", "cA3", "cB2b", "o1", "o5"} THEN "alice" ELSE "bob"]
=============================================================================

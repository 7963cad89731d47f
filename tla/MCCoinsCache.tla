---------------------------- MODULE MCCoinsCache ----------------------------
(* Two outpoints, two spendable coins of different size, an unspendable one. *)
EXTENDS CoinsCache, TLC

CONSTANTS o1, o2, small, large, opreturn, b1, b2

MCOutpoints == {o1, o2}
MCCoins == {small, large, opreturn}
MCUnspendable == {opreturn}
MCBlocks == {b1, b2}
MCUsage == (small :> 1) @@ (large :> 3) @@ (opreturn :> 2) @@ (Spent :> 0)

\* Nothing treats one outpoint, or one block, unlike another.
Symmetry == Permutations({o1, o2}) \cup Permutations({b1, b2})
=============================================================================

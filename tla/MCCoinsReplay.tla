---------------------------- MODULE MCCoinsReplay ----------------------------
(* Two branches above a shared block.  t pays from the first coinbase and is  *)
(* confirmed at different heights on the two branches; u spends t, in the     *)
(* same block on one of them; the last block of the other repeats the first   *)
(* coinbase, whose output is spent by then.                                   *)
EXTENDS CoinsReplay

CONSTANTS g, a1, a2, a3, b2, b3, cb1, cb2, cb3, t1, u1, ret

MCBlocks == {g, a1, a2, a3, b2, b3}
MCpprev == (a1 :> g) @@ (a2 :> a1) @@ (a3 :> a2) @@ (b2 :> a1) @@ (b3 :> b2)
MCnHeight == (g :> 0) @@ (a1 :> 1) @@ (a2 :> 2) @@ (a3 :> 3) @@ (b2 :> 2) @@ (b3 :> 3)
MCnChainWork == MCnHeight
MCAncestors == (g :> {g}) @@ (a1 :> {g, a1}) @@ (a2 :> {g, a1, a2})
               @@ (a3 :> {g, a1, a2, a3}) @@ (b2 :> {g, a1, b2}) @@ (b3 :> {g, a1, b2, b3})
MCaddress == (g :> 0) @@ (a1 :> 1) @@ (a2 :> 2) @@ (b2 :> 3) @@ (b3 :> 4) @@ (a3 :> 5)

Coinbase(o) == [coinbase |-> TRUE, vin |-> <<>>, vout |-> <<o>>]
t == [coinbase |-> FALSE, vin |-> <<cb1>>, vout |-> <<t1, ret>>]
u == [coinbase |-> FALSE, vin |-> <<t1>>, vout |-> <<u1>>]

MCOutpoints == {cb1, cb2, cb3, t1, u1, ret}
MCvtx == (g :> <<>>) @@ (a1 :> <<Coinbase(cb1)>>) @@ (a2 :> <<Coinbase(cb2), t>>)
         @@ (a3 :> <<Coinbase(cb1), u>>) @@ (b2 :> <<Coinbase(cb2)>>)
         @@ (b3 :> <<Coinbase(cb3), t, u>>)

\* A coin is named by its outpoint and height; ret is an OP_RETURN output.
MCCoinAt == [p \in MCOutpoints \X (0 .. 3) |-> p]
MCCoins == MCOutpoints \X (0 .. 3)
MCUnspendable == {ret} \X (0 .. 3)
MCLegacy == {a1}
MCUsage == [c \in MCCoins \cup {Spent} |-> 0]
=============================================================================

---------------------------- MODULE MCChainstate ----------------------------
(* Small block trees and worlds for Chainstate.                            *)
EXTENDS Chainstate

\* Two branches of two blocks.
Fork == [a1 |-> "g", a2 |-> "a1", b1 |-> "g", b2 |-> "b1"]

\* A chain of two and a branch of three, and a dead end on the first.
Race == [a1 |-> "g", a2 |-> "a1", b1 |-> "g", b2 |-> "b1", b3 |-> "b2", x2 |-> "a1"]

\* A single block, and a branch that is outgrown before its first block arrives.
Line == [a1 |-> "g"]
Outgrown == [a1 |-> "g", a2 |-> "a1", b1 |-> "g", b2 |-> "b1", b3 |-> "b2"]

MCBlocks == DOMAIN pprev \cup {"g"}

MCHeight[b \in Blocks] == IF b = "g" THEN 0 ELSE MCHeight[pprev[b]] + 1

MCWork == [b \in Blocks |-> nHeight[b] + 1]

MCAncestors[b \in Blocks] == IF b = "g" THEN {b} ELSE MCAncestors[pprev[b]] \cup {b}

\* Branch b lies above branch a in memory.
MCAddress == [b \in Blocks |-> nHeight[b] * 10 +
                IF b \in {"b1", "b2", "b3"} THEN 1 ELSE IF b = "x2" THEN 2 ELSE 0]

\* The blocks S are mined, ConnectBlock refuses those in bad, and each of the
\* operations ops may happen once.
World(S, bad, ops) ==
    [mined |-> S, bad |-> bad, budget |-> [o \in Operations |-> IF o \in ops THEN 1 ELSE 0]]

\* All blocks of the tree are mined.
Whole(bad, ops) == World(Blocks \ {"g"}, bad, ops)

Arrivals == {Whole({"b3"}, {})}
Steering == {Whole({"b2"}, {"invalidate", "precious"})}
Pruning == {Whole({}, {"prune"})}
Operating == {
    World({"a1", "a2", "b1"}, {"b1"}, {"invalidate", "reconsider", "prune", "shutdown"}),
    World({"a1", "b1", "b2"}, {}, {"write", "flush", "restart"}),
    World({"a1", "b1", "b2"}, {"b1"}, {"write", "flush", "restart"}),
    World({"a1", "b1", "b2"}, {"b2"}, {"write", "flush", "restart"})}
Invalidating == {Whole({}, {"invalidate"})}
Reconsidering == {Whole({}, {"invalidate", "reconsider"})}
InvalidateAndCrash == {Whole({}, {"invalidate", "flush", "write", "restart"})}
=============================================================================

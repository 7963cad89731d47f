------------------------------ MODULE BlockTree ------------------------------
(***************************************************************************)
(* The tree of block headers that exist (chain.h, CBlockIndex): what a     *)
(* block's position in it is, independent of what the node knows of it.    *)
(* The work of a chain, the height and the ancestors are functions of the  *)
(* header, so they are constants here; which blocks the node has seen is   *)
(* the state of Chainstate.                                                *)
(***************************************************************************)
EXTENDS Integers, FiniteSets

CONSTANTS
    Blocks,         \* every block that may be mined in a behaviour
    Genesis,        \* the root of the tree
    Null,           \* nullptr
    pprev,          \* the parent of a block, defined for all but Genesis
    nHeight,        \* distance to Genesis
    nChainWork,     \* total work of the chain up to and including a block
    Ancestors,      \* a block and everything below it
    address         \* where the node keeps the entry in memory: a tie breaker

ASSUME BlockTreeAssumption ==
    /\ Genesis \in Blocks
    /\ Null \notin Blocks
    /\ IsFiniteSet(Blocks)
    /\ pprev \in [Blocks \ {Genesis} -> Blocks]
    /\ nHeight \in [Blocks -> Nat]
    /\ nChainWork \in [Blocks -> Nat]
    /\ Ancestors \in [Blocks -> SUBSET Blocks]
    /\ address \in [Blocks -> Nat]
    /\ nHeight[Genesis] = 0
    /\ Ancestors[Genesis] = {Genesis}
    /\ \A b \in Blocks \ {Genesis} :
          /\ nHeight[b] = nHeight[pprev[b]] + 1
          /\ nChainWork[b] > nChainWork[pprev[b]]
          /\ Ancestors[b] = Ancestors[pprev[b]] \cup {b}
    /\ \A a, b \in Blocks : address[a] = address[b] => a = b

Descendants(b) == {d \in Blocks : b \in Ancestors[d]}

\* The blocks that lie strictly above a on the way up to b.
Between(a, b) == Ancestors[b] \ Ancestors[a]

Highest(S) == CHOOSE b \in S : \A c \in S : nHeight[c] <= nHeight[b]

\* CBlockIndex::GetAncestor
GetAncestor(b, h) == CHOOSE a \in Ancestors[b] : nHeight[a] = h

\* CChain::FindFork: the last block that the chain ending in tip shares with b.
FindFork(tip, b) == Highest(Ancestors[tip] \cap Ancestors[b])

\* CBlockIndexWorkComparator()(a, b): a sorts before, i.e. is worse than, b.
\* Less work is worse, then the later sequence number, then the higher address.
Worse(seq, a, b) ==
    \/ nChainWork[a] < nChainWork[b]
    \/ /\ nChainWork[a] = nChainWork[b]
       /\ \/ seq[a] > seq[b]
          \/ seq[a] = seq[b] /\ address[a] > address[b]

\* The last element of a set ordered by the comparator.
Best(seq, S) == CHOOSE b \in S : \A c \in S : ~Worse(seq, b, c)
=============================================================================

---------------------------- MODULE MCAuxPowMiner ----------------------------
(* Two RPC threads over chains of two blocks. *)
EXTENDS AuxPowMiner, TLC

CONSTANTS t1, t2

MCThreads == {t1, t2}

\* Threads are alike.
Symmetry == Permutations(MCThreads)
=============================================================================

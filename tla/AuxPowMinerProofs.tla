-------------------------- MODULE AuxPowMinerProofs --------------------------
(***************************************************************************)
(* For any number of RPC threads and any bounds: work is handed out once    *)
(* per parent, and submitauxblock says true only of connected blocks.       *)
(***************************************************************************)
EXTENDS AuxPowMiner, TLAPS

\* A call has the fields of Idle; its block has no type of its own, because a
\* block contains its parent.
Shaped(c) ==
    c = [pc |-> c.pc, block |-> c.block, solved |-> c.solved, accepted |-> c.accepted,
         new |-> c.new, found |-> c.found, valid |-> c.valid]

Calls(calls) ==
    /\ calls = [u \in Threads |-> calls[u]]
    /\ \A u \in Threads : Shaped(calls[u])

\* What a catcher has seen of a valid block is true of the block of its call.
CatchersTruthful(calls, S) ==
    \A u \in Threads : calls[u].found /\ calls[u].valid => calls[u].block \in S

CallInv == Calls(call) /\ CatchersTruthful(call, connected)

CacheInv == g_auxpow_extra_nonce \in Nat /\ WorkDistinct
-----------------------------------------------------------------------------
\* A step that leaves the miner's cache alone keeps CacheInv.
LEMMA CacheUntouched ==
    ASSUME CacheInv, UNCHANGED miner
    PROVE  CacheInv'
BY DEF CacheInv, WorkDistinct, miner, Block

\* createauxblock adds the next nonce of the parent the cache is then for.
LEMMA CreateKeepsCache ==
    ASSUME CacheInv, NEW t \in Threads, AuxMiningCreateBlock(t)
    PROVE  CacheInv'
<1> DEFINE prev == call[t].block
           nonce == 1 + (IF prev = g_auxpow_prev_hash THEN g_auxpow_extra_nonce ELSE 0)
           all == Kept(prev) \cup {Block(prev, nonce)}
<1>1. /\ g_auxpow_blocks' \in Cached(all)
      /\ g_auxpow_prev_hash' = prev
      /\ g_auxpow_extra_nonce' = nonce
  BY DEF AuxMiningCreateBlock
<1>2. nonce \in Nat
  BY DEF CacheInv
<1>3. Kept(prev) \subseteq {Block(prev, n) : n \in 1 .. nonce}
  <2>1. CASE prev = g_auxpow_prev_hash
    <3>1. Kept(prev) \subseteq {Block(prev, n) : n \in 1 .. g_auxpow_extra_nonce}
      BY <2>1 DEF Kept, CacheInv, WorkDistinct
    <3>2. 1 .. g_auxpow_extra_nonce \subseteq 1 .. nonce
      BY <2>1 DEF CacheInv
    <3> HIDE DEF nonce, prev
    <3> QED BY <3>1, <3>2
  <2>2. CASE prev # g_auxpow_prev_hash
    BY <2>2 DEF Kept
  <2> QED BY <2>1, <2>2
<1>4. nonce \in 1 .. nonce
  BY <1>2 DEF CacheInv
<1> HIDE DEF nonce, prev
<1>5. all \subseteq {Block(prev, n) : n \in 1 .. nonce}
  BY <1>3, <1>4
<1>6. g_auxpow_blocks' \subseteq all
  BY <1>1 DEF Cached
<1> QED BY <1>1, <1>2, <1>5, <1>6 DEF CacheInv, WorkDistinct, Block

\* Every other step leaves the cache alone.
LEMMA NextKeepsCache == CacheInv /\ [Next]_vars => CacheInv'
<1> SUFFICES ASSUME CacheInv, [Next]_vars PROVE CacheInv'
  OBVIOUS
<1>1. ASSUME NEW t \in Threads, AuxMiningCreateBlock(t) PROVE CacheInv'
  BY <1>1, CreateKeepsCache
<1>2. CASE UNCHANGED miner
  BY <1>2, CacheUntouched
<1> QED
  BY <1>1, <1>2 DEF Next, vars, CreateNewBlock, LookUpWork, LookUpIndex, AcceptBlock,
     ActivateBestChain, AuxMiningSubmitBlock, ReceiveBlock, InvalidateBlock, NetworkActivates

\* The cache of merged-mining work holds blocks on one parent only, none of them
\* with an extra nonce that a later createauxblock could use again.
THEOREM WorkAlwaysDistinct == Spec => []WorkDistinct
<1>1. Init => CacheInv
  BY DEF Init, CacheInv, WorkDistinct
<1>2. CacheInv => WorkDistinct
  BY DEF CacheInv
<1> QED BY <1>1, <1>2, NextKeepsCache, PTL DEF Spec
-----------------------------------------------------------------------------
\* BlockChecked keeps the shape of calls; a verdict "valid" on blocks of S reaches
\* only calls about blocks of S, and any other verdict makes nothing valid.
LEMMA BlockCheckedTruthful ==
    ASSUME Calls(call), NEW calls, Calls(calls),
           \A u \in Threads : calls[u].block = call[u].block,
           NEW S, NEW valid \in BOOLEAN, NEW before, CatchersTruthful(calls, before),
           NEW after, before \subseteq after, valid => S \subseteq after
    PROVE  /\ Calls(BlockChecked(calls, S, valid))
           /\ CatchersTruthful(BlockChecked(calls, S, valid), after)
<1> DEFINE new == BlockChecked(calls, S, valid)
           Hit(u) == \E b \in S : Catches(u, b)
<1>1. \A u \in Threads :
         new[u] = IF Hit(u) THEN [calls[u] EXCEPT !.found = TRUE, !.valid = valid]
                  ELSE calls[u]
  BY DEF BlockChecked
<1>2. new = [u \in Threads |-> new[u]]
  BY DEF BlockChecked
<1>3. ASSUME NEW u \in Threads
      PROVE  Shaped(new[u]) /\ (new[u].found /\ new[u].valid => new[u].block \in after)
  <2>1. Shaped(calls[u])
    BY DEF Calls
  <2>2. CASE Hit(u)
    <3>1. new[u] = [calls[u] EXCEPT !.found = TRUE, !.valid = valid]
      BY <1>1, <2>2
    <3>2. /\ Shaped(new[u])
          /\ new[u].valid = valid
          /\ new[u].block = calls[u].block
      BY <2>1, <3>1 DEF Shaped
    <3>3. calls[u].block \in S
      BY <2>2 DEF Catches
    <3> QED BY <3>2, <3>3
  <2>3. CASE ~Hit(u)
    <3>1. new[u] = calls[u]
      BY <1>1, <2>3
    <3> QED BY <2>1, <3>1 DEF CatchersTruthful
  <2> QED BY <2>2, <2>3
<1> QED BY <1>2, <1>3 DEF Calls, CatchersTruthful

\* A thread between calls.
LEMMA IdleCall == Shaped(Idle) /\ Idle.found = FALSE
BY DEF Shaped, Idle

\* A call that is over, or starts, has caught nothing.
LEMMA FreshCall ==
    ASSUME CallInv, NEW t \in Threads, NEW c, Shaped(c), c.found = FALSE,
           call' = [call EXCEPT ![t] = c], UNCHANGED connected
    PROVE  CallInv'
<1>1. Calls(call) /\ CatchersTruthful(call, connected)
  BY DEF CallInv
<1>2. \A u \in Threads : call'[u] = IF u = t THEN c ELSE call[u]
  BY <1>1 DEF Calls
<1>3. call' = [u \in Threads |-> call'[u]]
  BY <1>1 DEF Calls
<1>4. Calls(call')
  BY <1>1, <1>2, <1>3 DEF Calls
<1>5. CatchersTruthful(call', connected)
  BY <1>1, <1>2 DEF CatchersTruthful
<1> QED BY <1>4, <1>5 DEF CallInv, Calls, CatchersTruthful, Shaped

\* A change of one call's step leaves its block and what it caught alone.
LEMMA StepOfCall ==
    ASSUME CallInv, NEW t \in Threads, NEW p, NEW calls,
           calls = [call EXCEPT ![t].pc = p]
    PROVE  /\ Calls(calls) /\ CatchersTruthful(calls, connected)
           /\ \A u \in Threads : calls[u].block = call[u].block
<1>1. Calls(call) /\ CatchersTruthful(call, connected)
  BY DEF CallInv
<1>2. Shaped(call[t])
  BY <1>1 DEF Calls
<1>3. \A u \in Threads : calls[u] = IF u = t THEN [call[t] EXCEPT !.pc = p] ELSE call[u]
  BY <1>1 DEF Calls
<1>4. calls = [u \in Threads |-> calls[u]]
  BY <1>1 DEF Calls
<1>5. /\ Shaped(calls[t])
      /\ calls[t].block = call[t].block
      /\ calls[t].found = call[t].found
      /\ calls[t].valid = call[t].valid
  BY <1>2, <1>3 DEF Shaped
<1> QED BY <1>1, <1>3, <1>4, <1>5 DEF Calls, CatchersTruthful

\* A new chain is connected before its blocks are reported.
LEMMA ActivationTruthful ==
    ASSUME CallInv, NEW calls, Calls(calls), CatchersTruthful(calls, connected),
           \A u \in Threads : calls[u].block = call[u].block, Activation(calls)
    PROVE  CallInv'
<1>1. Calls(call)
  BY DEF CallInv
<1>2. CASE call' = calls /\ UNCHANGED connected
  BY <1>2 DEF CallInv, Calls, CatchersTruthful, Shaped
<1>3. ASSUME NEW path, connected' = connected \cup path,
             call' = BlockChecked(calls, path, TRUE)
      PROVE  CallInv'
  <2>1. Calls(call') /\ CatchersTruthful(call', connected')
    <3>1. connected \subseteq connected' /\ path \subseteq connected'
      BY <1>3
    <3> QED BY <1>1, <1>3, <3>1, BlockCheckedTruthful
  <2> QED BY <2>1 DEF CallInv, Calls, CatchersTruthful, Shaped
<1> QED BY <1>2, <1>3 DEF Activation

\* A refused block is reported as invalid, an accepted one not yet at all.
LEMMA AcceptBlockTruthful ==
    ASSUME CallInv, NEW t \in Threads, AcceptBlock(t)
    PROVE  CallInv'
<1>1. Calls(call) /\ CatchersTruthful(call, connected) /\ UNCHANGED connected
  BY DEF CallInv, AcceptBlock
<1>2. ASSUME NEW b,
             call' = BlockChecked([call EXCEPT ![t].pc = "activated"], {b}, FALSE)
      PROVE  CallInv'
  <2> DEFINE calls == [call EXCEPT ![t].pc = "activated"]
  <2>1. /\ Calls(calls) /\ CatchersTruthful(calls, connected)
        /\ \A u \in Threads : calls[u].block = call[u].block
    BY StepOfCall
  <2>2. call' = BlockChecked(calls, {b}, FALSE)
    BY <1>2
  <2> HIDE DEF calls
  <2>3. Calls(call') /\ CatchersTruthful(call', connected)
    BY <1>1, <2>1, <2>2, BlockCheckedTruthful
  <2> QED BY <1>1, <2>3 DEF CallInv, Calls, CatchersTruthful, Shaped
<1>3. ASSUME NEW new,
             call' = [call EXCEPT ![t].pc = "stored", ![t].accepted = TRUE, ![t].new = new]
      PROVE  CallInv'
  <2>1. Shaped(call[t])
    BY <1>1 DEF Calls
  <2>2. \A u \in Threads : u # t => call'[u] = call[u]
    BY <1>1, <1>3 DEF Calls
  <2>3. call'[t] = [call[t] EXCEPT !.pc = "stored", !.accepted = TRUE, !.new = new]
    BY <1>1, <1>3 DEF Calls
  <2>4. call' = [u \in Threads |-> call'[u]]
    BY <1>1, <1>3 DEF Calls
  <2>5. /\ Shaped(call'[t])
        /\ call'[t].block = call[t].block
        /\ call'[t].found = call[t].found
        /\ call'[t].valid = call[t].valid
    BY <2>1, <2>3 DEF Shaped
  <2>6. Calls(call') /\ CatchersTruthful(call', connected)
    BY <1>1, <2>2, <2>4, <2>5 DEF Calls, CatchersTruthful
  <2> QED BY <1>1, <2>6 DEF CallInv, Calls, CatchersTruthful, Shaped
<1> QED BY <1>2, <1>3 DEF AcceptBlock

\* Every step of every thread, and of the network, keeps the catchers truthful.
LEMMA NextKeepsCalls == CallInv /\ [Next]_vars => CallInv'
<1> SUFFICES ASSUME CallInv, [Next]_vars PROVE CallInv'
  OBVIOUS
<1>0. Shaped(Idle) /\ Idle.found = FALSE
  BY IdleCall
<1>1. ASSUME NEW t \in Threads, CreateNewBlock(t) PROVE CallInv'
  <2> DEFINE c == [Idle EXCEPT !.pc = "assembled", !.block = tip]
  <2>0. c = [Idle EXCEPT !.pc = "assembled", !.block = tip]
    OBVIOUS
  <2>1. call' = [call EXCEPT ![t] = c] /\ UNCHANGED connected
    BY <1>1 DEF CreateNewBlock, chain
  <2> HIDE DEF c
  <2>2. Shaped(c) /\ c.found = Idle.found
    BY <1>0, <2>0 DEF Shaped
  <2> QED BY <1>0, <2>1, <2>2, FreshCall
<1>2. ASSUME NEW t \in Threads, Returns(t), UNCHANGED connected PROVE CallInv'
  BY <1>0, <1>2, FreshCall DEF Returns
<1>3. ASSUME NEW t \in Threads, AuxMiningCreateBlock(t) PROVE CallInv'
  BY <1>2, <1>3 DEF AuxMiningCreateBlock, chain
<1>4. ASSUME NEW t \in Threads, NEW b, NEW solved, LookUpWork(t, b, solved) PROVE CallInv'
  <2> DEFINE c == [Idle EXCEPT !.pc = "found", !.block = b, !.solved = solved]
  <2>0. c = [Idle EXCEPT !.pc = "found", !.block = b, !.solved = solved]
    OBVIOUS
  <2>1. (call' = [call EXCEPT ![t] = c] \/ Returns(t)) /\ UNCHANGED connected
    BY <1>4 DEF LookUpWork, chain
  <2> HIDE DEF c
  <2>2. Shaped(c) /\ c.found = Idle.found
    BY <1>0, <2>0 DEF Shaped
  <2> QED BY <1>0, <1>2, <2>1, <2>2, FreshCall
<1>5. ASSUME NEW t \in Threads, LookUpIndex(t) PROVE CallInv'
  <2>1. UNCHANGED connected
    BY <1>5 DEF LookUpIndex, chain
  <2>2. CASE call' = [call EXCEPT ![t].pc = "registered"]
    <3>1. Calls(call') /\ CatchersTruthful(call', connected)
      BY <2>2, StepOfCall
    <3> QED BY <2>1, <3>1 DEF CallInv, Calls, CatchersTruthful, Shaped
  <2> QED BY <1>2, <1>5, <2>1, <2>2 DEF LookUpIndex
<1>6. ASSUME NEW t \in Threads, AcceptBlock(t) PROVE CallInv'
  BY <1>6, AcceptBlockTruthful
<1>7. ASSUME NEW t \in Threads, ActivateBestChain(t) PROVE CallInv'
  <2> DEFINE calls == [call EXCEPT ![t].pc = "activated"]
  <2>1. /\ Calls(calls) /\ CatchersTruthful(calls, connected)
        /\ \A u \in Threads : calls[u].block = call[u].block
    BY StepOfCall
  <2>2. Activation(calls)
    BY <1>7 DEF ActivateBestChain
  <2> HIDE DEF calls
  <2> QED BY <2>1, <2>2, ActivationTruthful
<1>8. ASSUME NEW t \in Threads, AuxMiningSubmitBlock(t) PROVE CallInv'
  BY <1>2, <1>8 DEF AuxMiningSubmitBlock, chain
<1>9. CASE NetworkActivates
  <2>1. Calls(call) /\ CatchersTruthful(call, connected) /\ Activation(call)
    BY <1>9 DEF CallInv, NetworkActivates
  <2> QED BY <2>1, ActivationTruthful
<1>10. CASE UNCHANGED <<call, connected>>
  BY <1>10 DEF CallInv, Calls, CatchersTruthful, Shaped
<1>11. ASSUME NEW b, ReceiveBlock(b) \/ InvalidateBlock(b) PROVE CallInv'
  BY <1>10, <1>11 DEF ReceiveBlock, InvalidateBlock
<1>12. CASE UNCHANGED vars
  BY <1>10, <1>12 DEF vars, chain
<1> QED
  BY <1>1, <1>3, <1>4, <1>5, <1>6, <1>7, <1>8, <1>9, <1>11, <1>12 DEF Next

\* submitauxblock says true only of a block that was connected, for any number of
\* threads: each catcher's verdict is about the block of its own call, and
\* ConnectTip reports a block as valid only when ConnectBlock has accepted it.
THEOREM TrueAlwaysMeansConnected == Spec => []TrueMeansConnected
<1>1. Init => CallInv
  <2> SUFFICES ASSUME Init PROVE CallInv
    OBVIOUS
  <2>1. call = [u \in Threads |-> Idle]
    BY DEF Init
  <2> QED BY <2>1, IdleCall DEF CallInv, Calls, CatchersTruthful
<1>2. CallInv => TrueMeansConnected
  BY DEF CallInv, CatchersTruthful, TrueMeansConnected, AnswerOf
<1> QED BY <1>1, <1>2, NextKeepsCalls, PTL DEF Spec
=============================================================================

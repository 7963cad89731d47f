----------------------------- MODULE AuxPowMiner -----------------------------
(***************************************************************************)
(* Merged mining over RPC (rpc/auxpow_miner.cpp): worker threads running    *)
(* createauxblock and submitauxblock (getauxblock is one or the other)      *)
(* around the cache of work handed out, while other blocks arrive and the   *)
(* chain is reorganized.  A thread holds cs_main or g_auxpow_mutex only      *)
(* during a step, so a call is several steps.                               *)
(*                                                                          *)
(* A block is its parent and what makes its hash different from its         *)
(* siblings': the extra nonce of its coinbase.  Blocks that were not made   *)
(* here have NetworkNonce.  AuxMiningCheck is taken to pass: the node has   *)
(* peers, is in sync and above the start height.                            *)
(***************************************************************************)
EXTENDS Integers, FiniteSets

CONSTANTS Threads,                \* RPC worker threads
          NoBlock,
          MAX_AUXPOW_BLOCK_CACHE,
          MaxHeight,              \* bound on the chain
          MaxBlocks,              \* bound on blocks when one comes from the network
          MaxFailed,              \* bound on failed blocks when one is invalidated
          MaxExtraNonce           \* bound on requests per parent

ASSUME MinerAssumption ==
    /\ MAX_AUXPOW_BLOCK_CACHE \in Nat \ {0}
    /\ {MaxHeight, MaxBlocks, MaxFailed, MaxExtraNonce} \subseteq Nat

NetworkNonce == 0

Block(prev, nonce) == [prev |-> prev, height |-> prev.height + 1, nonce |-> nonce]

Genesis == [prev |-> NoBlock, height |-> 0, nonce |-> NetworkNonce]

\* A block and everything below it.
Chain(b) ==
    LET down[n \in 0 .. b.height] == IF n = 0 THEN b ELSE down[n - 1].prev
    IN  {down[n] : n \in 0 .. b.height}

VARIABLES
    g_auxpow_blocks,      \* the work submitauxblock knows
    g_auxpow_prev_hash,   \* the parent it builds on, NoBlock at first
    g_auxpow_extra_nonce,
    index,                \* blocks with data, in any branch
    connected,            \* those that were once connected: valid up to scripts
    failed,               \* those marked as failed
    tip,                  \* the active tip
    call,                 \* what each thread is doing
    credited              \* blocks some submission with a solved payload got true for

miner == <<g_auxpow_blocks, g_auxpow_prev_hash, g_auxpow_extra_nonce>>
chain == <<index, connected, failed, tip>>
vars == <<miner, chain, call, credited>>

\* A call: its step, its block, whether the payload is a solution, what
\* ProcessNewBlock returned and what the state catcher has seen.
Idle == [pc |-> "idle", block |-> NoBlock, solved |-> FALSE, accepted |-> FALSE,
         new |-> FALSE, found |-> FALSE, valid |-> FALSE]

TypeOK ==
    /\ Cardinality(g_auxpow_blocks) <= MAX_AUXPOW_BLOCK_CACHE
    /\ g_auxpow_prev_hash \in index \cup {NoBlock}
    /\ g_auxpow_extra_nonce \in 0 .. MaxExtraNonce
    /\ tip \in index /\ connected \subseteq index /\ failed \subseteq index
    /\ \A t \in Threads :
          call[t].pc \in {"idle", "assembled", "found", "registered", "stored", "activated"}

Init ==
    /\ g_auxpow_blocks = {} /\ g_auxpow_prev_hash = NoBlock /\ g_auxpow_extra_nonce = 0
    /\ index = {Genesis} /\ connected = {Genesis} /\ failed = {} /\ tip = Genesis
    /\ call = [t \in Threads |-> Idle]
    /\ credited = {}

Returns(t) == call' = [call EXCEPT ![t] = Idle]
-----------------------------------------------------------------------------
\* createauxblock, first part: a template on the current tip, under cs_main.
CreateNewBlock(t) ==
    /\ call[t].pc = "idle"
    /\ tip.height < MaxHeight
    /\ call' = [call EXCEPT ![t] = [Idle EXCEPT !.pc = "assembled", !.block = tip]]
    /\ UNCHANGED <<miner, chain, credited>>

\* A bug: the cache grows by one more.
CachedOneMore(all) ==
    IF Cardinality(all) <= MAX_AUXPOW_BLOCK_CACHE + 1 THEN {all}
    ELSE {all \ {first} : first \in all}

\* What the map's order puts first is dropped when the cache is full; any block
\* may have the lowest hash, also the new one.
Cached(all) ==
    IF Cardinality(all) <= MAX_AUXPOW_BLOCK_CACHE THEN {all}
    ELSE {all \ {first} : first \in all}

\* A bug: work for another parent stays in the cache.
KeptAlways(prev) == g_auxpow_blocks

\* The cache is for one parent at a time.
Kept(prev) == IF prev = g_auxpow_prev_hash THEN g_auxpow_blocks ELSE {}

\* createauxblock, second part, under g_auxpow_mutex.
AuxMiningCreateBlock(t) ==
    LET prev == call[t].block
        nonce == 1 + (IF prev = g_auxpow_prev_hash THEN g_auxpow_extra_nonce ELSE 0)
    IN  /\ call[t].pc = "assembled"
        /\ nonce <= MaxExtraNonce
        /\ g_auxpow_blocks' \in Cached(Kept(prev) \cup {Block(prev, nonce)})
        /\ g_auxpow_prev_hash' = prev
        /\ g_auxpow_extra_nonce' = nonce
        /\ Returns(t)
        /\ UNCHANGED <<chain, credited>>

\* submitauxblock, first part: the block is copied out of the cache, or the
\* answer is that its hash is unknown.
LookUpWork(t, b, solved) ==
    /\ call[t].pc = "idle"
    /\ IF b \in g_auxpow_blocks
       THEN call' = [call EXCEPT ![t] = [Idle EXCEPT !.pc = "found", !.block = b,
                                                     !.solved = solved]]
       ELSE Returns(t)
    /\ UNCHANGED <<miner, chain, credited>>

\* Second part, under cs_main: a block that is valid or failed already is a
\* duplicate; for any other the state catcher is registered.  The code registers
\* just after it lets go of cs_main; a verdict that falls in between is caught
\* here and missed there, and AcceptBlock, not that verdict, then decides whether
\* the answer can be true.
LookUpIndex(t) ==
    LET b == call[t].block
    IN  /\ call[t].pc = "found"
        /\ \/ b \in connected \cup failed /\ Returns(t)
           \/ b \notin connected \cup failed /\ call' = [call EXCEPT ![t].pc = "registered"]
        /\ UNCHANGED <<miner, chain, credited>>

\* A bug: the catcher takes the verdict on any block for its own.
CatchesAny(u, b) == call[u].pc \in {"registered", "stored", "activated"}

\* The catchers that BlockChecked for b reaches: every thread's for that hash.
Catches(u, b) ==
    call[u].pc \in {"registered", "stored", "activated"} /\ call[u].block = b

\* What calls become when BlockChecked reports the blocks S, all with one verdict.
BlockChecked(calls, S, valid) ==
    [u \in Threads |->
        IF \E b \in S : Catches(u, b)
        THEN [calls[u] EXCEPT !.found = TRUE, !.valid = valid]
        ELSE calls[u]]

\* ProcessNewBlock up to AcceptBlock, under cs_main.  A payload that is no
\* solution fails CheckBlock; a failed block or parent fails AcceptBlockHeader.
AcceptBlock(t) ==
    LET b == call[t].block
        refused == ~call[t].solved \/ b \in failed \/ b.prev \in failed
    IN  /\ call[t].pc = "registered"
        /\ IF refused
           THEN /\ call' = BlockChecked([call EXCEPT ![t].pc = "activated"], {b}, FALSE)
                /\ UNCHANGED index
           ELSE /\ call' = [call EXCEPT ![t].pc = "stored", ![t].accepted = TRUE,
                                        ![t].new = b \notin index]
                /\ index' = index \cup {b}
        /\ UNCHANGED <<miner, connected, failed, tip, credited>>

\* The best chains to activate: more work than the tip, nothing failed.
Candidates ==
    LET usable == {c \in index : c.height > tip.height /\ Chain(c) \cap failed = {}}
    IN  {c \in usable : \A d \in usable : d.height <= c.height}

\* One ActivateBestChain: blocks that are connected are reported to catchers.
Activation(called) ==
    \/ /\ Candidates = {}
       /\ call' = called
       /\ UNCHANGED <<connected, tip>>
    \/ \E best \in Candidates :
         LET path == Chain(best) \ Chain(tip)
         IN  /\ connected' = connected \cup path
             /\ tip' = best
             /\ call' = BlockChecked(called, path, TRUE)

\* The rest of ProcessNewBlock.
ActivateBestChain(t) ==
    /\ call[t].pc = "stored"
    /\ Activation([call EXCEPT ![t].pc = "activated"])
    /\ UNCHANGED <<miner, index, failed, credited>>

\* A bug: a block that was there already is not told from a new one.
AnswerIgnoringNew(c) ==
    IF ~c.found THEN "inconclusive" ELSE IF c.valid THEN "accepted" ELSE "rejected"

\* The end of submitauxblock; "accepted" is the RPC's true.
AnswerOf(c) ==
    IF ~c.new /\ c.accepted THEN "duplicate"
    ELSE IF ~c.found THEN "inconclusive"
    ELSE IF c.valid THEN "accepted" ELSE "rejected"

AuxMiningSubmitBlock(t) ==
    LET c == call[t]
    IN  /\ c.pc = "activated"
        /\ Returns(t)
        /\ credited' = IF AnswerOf(c) = "accepted" /\ c.solved
                       THEN credited \cup {c.block} ELSE credited
        /\ UNCHANGED <<miner, chain>>

\* A block from the network is stored, and later activated.
ReceiveBlock(prev) ==
    /\ prev \in index \ failed
    /\ prev.height < MaxHeight /\ Cardinality(index) < MaxBlocks
    /\ Block(prev, NetworkNonce) \notin index
    /\ index' = index \cup {Block(prev, NetworkNonce)}
    /\ UNCHANGED <<miner, connected, failed, tip, call, credited>>

NetworkActivates ==
    /\ Candidates # {}
    /\ Activation(call)
    /\ UNCHANGED <<miner, index, failed, credited>>

\* invalidateblock
InvalidateBlock(b) ==
    /\ b \in index \ (failed \cup {Genesis})
    /\ Cardinality(failed) < MaxFailed
    /\ failed' = failed \cup {d \in index : b \in Chain(d)}
    /\ tip' = IF b \in Chain(tip) THEN b.prev ELSE tip
    /\ UNCHANGED <<miner, index, connected, call, credited>>

\* Work that may have been handed out at some time.
AnyWork == {Block(prev, n) : prev \in {b \in index : b.height < MaxHeight}, n \in 1 .. MaxExtraNonce}

Next ==
    \/ \E t \in Threads :
          \/ CreateNewBlock(t)
          \/ AuxMiningCreateBlock(t)
          \/ \E b \in AnyWork, solved \in BOOLEAN : LookUpWork(t, b, solved)
          \/ LookUpIndex(t)
          \/ AcceptBlock(t)
          \/ ActivateBestChain(t)
          \/ AuxMiningSubmitBlock(t)
    \/ \E b \in index : ReceiveBlock(b) \/ InvalidateBlock(b)
    \/ NetworkActivates

Spec == Init /\ [][Next]_vars
-----------------------------------------------------------------------------
\* The cache holds work for one parent only, and no nonce that a later request
\* could use again: as long as the parent stays the same, a request never gets a
\* block that is still in the cache.
\* A test says "repeated requests return distinct cached work for the same
\* parent"; here requests, submissions and new tips are interleaved.
WorkDistinct ==
    g_auxpow_blocks \subseteq {Block(g_auxpow_prev_hash, n) : n \in 1 .. g_auxpow_extra_nonce}

\* submitauxblock says true only of a block that was connected, whatever other
\* threads and the network had validated in the meantime.
TrueMeansConnected ==
    \A t \in Threads :
        call[t].pc = "activated" /\ AnswerOf(call[t]) = "accepted"
            => call[t].block \in connected

\* Of the threads that submit a solution for the same block, also at the same
\* time, no second one is told that its block was accepted.
CreditedOnce ==
    \A t \in Threads :
        call[t].pc = "activated" /\ call[t].solved /\ AnswerOf(call[t]) = "accepted"
            => call[t].block \notin credited

\* "new-tip work remains mineable": while a block is the tip and the cache is
\* not full, work that builds on it is not dropped.
NewTipWorkRemainsMineable ==
    [][\A b \in g_auxpow_blocks :
          b.prev = tip /\ Cardinality(g_auxpow_blocks) < MAX_AUXPOW_BLOCK_CACHE
              => b \in g_auxpow_blocks']_g_auxpow_blocks
=============================================================================

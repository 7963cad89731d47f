----------------------------- MODULE Chainstate -----------------------------
(***************************************************************************)
(* The block index and the choice of the active chain: Chainstate,         *)
(* ChainstateManager (validation.cpp) and BlockManager                     *)
(* (node/blockstorage.cpp) for a node with one chainstate.                 *)
(*                                                                         *)
(* Two locks shape the interleavings.  cs_main protects every variable     *)
(* below; m_chainstate_mutex makes ActivateBestChain and InvalidateBlock   *)
(* exclude each other, but both let go of cs_main between their steps, so  *)
(* headers, blocks, preciousblock, reconsiderblock and pruning come in     *)
(* between.  A loop that runs with cs_main held is one action per          *)
(* iteration, during which CsMainFree is false and nobody else moves, but  *)
(* the process may still be killed.                                        *)
(***************************************************************************)
EXTENDS BlockTree, FiniteSetsExt, Functions

CONSTANTS
    BadContent,         \* blocks that ContextualCheckBlock refuses
    MIN_BLOCKS_TO_KEEP, \* how far below the tip pruning stays
    ConnectBatch,       \* blocks ActivateBestChainStep lists at a time (32)
    Worlds              \* bound: which blocks are mined, which of them ConnectBlock
                        \* refuses, and how often each operation happens

Operations == {"invalidate", "reconsider", "precious", "write", "flush", "prune", "restart",
               "shutdown"}

\* The levels of BLOCK_VALID_MASK that a block passes through here.
BLOCK_VALID_TREE == 2
BLOCK_VALID_TRANSACTIONS == 3
BLOCK_VALID_SCRIPTS == 5

ASSUME ChainstateAssumption ==
    /\ BadContent \subseteq Blocks \ {Genesis}
    /\ MIN_BLOCKS_TO_KEEP \in Nat \ {0}
    /\ ConnectBatch \in Nat \ {0}
    /\ \A w \in Worlds : /\ w.mined \subseteq Blocks \ {Genesis}
                         /\ w.bad \subseteq w.mined
                         /\ w.budget \in [Operations -> Nat]

VARIABLES
    idx,            \* m_block_index: the part of the entries that is persistent
    linked,         \* entries with nChainTx # 0, HaveTxsDownloaded()
    nSequenceId,
    setBlockIndexCandidates,
    m_blocks_unlinked,      \* how often a block is listed under its parent
    m_failed_blocks,
    m_best_header,
    m_best_invalid,
    m_have_pruned,
    tip,            \* m_chain.Tip()
    counters,       \* nBlockSequenceId, nBlockReverseSequenceId, nLastPreciousChainwork
    abc,            \* the thread in ActivateBestChain and its locals
    inv,            \* the thread in InvalidateBlock and its locals
    owed,           \* somebody is about to call ActivateBestChain
    m_dirty_blockindex,
    disk,           \* the block index database
    hashBestChain,  \* the best block of the coins database
    flushing,       \* FlushStateToDisk is between the index and the coins
    running,        \* FALSE after AbortNode
    world           \* the world of this behaviour, with the budget that is left

indexVars == <<idx, linked, nSequenceId, setBlockIndexCandidates, m_blocks_unlinked,
               m_failed_blocks, m_best_header, m_best_invalid, counters>>
diskVars == <<disk, hashBestChain, m_have_pruned>>
vars == <<indexVars, tip, abc, inv, owed, m_dirty_blockindex, diskVars, flushing,
          running, world>>

BlockIndex == [index: SUBSET Blocks, valid: [Blocks -> {0, 2, 3, 5}], nTx: SUBSET Blocks,
               data: SUBSET Blocks, undo: SUBSET Blocks,
               failed_valid: SUBSET Blocks, failed_child: SUBSET Blocks]

NoActivation == [pc |-> "idle", mostWork |-> Null, starting |-> Null, old |-> Null,
                 fork |-> Null, connected |-> FALSE]

NoInvalidation == [pc |-> "idle", pindex |-> Null, to_mark_failed |-> Null,
                   walk_tip |-> Null, by_work |-> {}]

\* A synced node that has just loaded a database with only the genesis block.
Init ==
    /\ idx = [index |-> {Genesis},
              valid |-> [b \in Blocks |-> IF b = Genesis THEN BLOCK_VALID_TRANSACTIONS ELSE 0],
              nTx |-> {Genesis}, data |-> {Genesis}, undo |-> {},
              failed_valid |-> {}, failed_child |-> {}]
    /\ linked = {Genesis}
    /\ nSequenceId = [b \in Blocks |-> 0]
    /\ setBlockIndexCandidates = {Genesis}
    /\ m_blocks_unlinked = [b \in Blocks |-> 0]
    /\ m_failed_blocks = {}
    /\ m_best_header = Genesis
    /\ m_best_invalid = Null
    /\ m_have_pruned = FALSE
    /\ tip = Genesis
    /\ counters = [seq |-> 1, rev |-> -1, lastPrecious |-> 0]
    /\ abc = NoActivation
    /\ inv = NoInvalidation
    /\ owed = FALSE
    /\ m_dirty_blockindex = {}
    /\ disk = idx
    /\ hashBestChain = Genesis
    /\ flushing = FALSE
    /\ running = TRUE
    /\ world \in Worlds

-----------------------------------------------------------------------------
(* Reading the index.                                                      *)

Failed(i) == i.failed_valid \cup i.failed_child

\* CBlockIndex::IsValid(level)
IsValid(i, b, level) == b \notin Failed(i) /\ i.valid[b] >= level

\* CChain::Contains
InChain(b) == b \in Ancestors[tip]

CsMainFree ==
    /\ abc.pc \in {"idle", "outer"}
    /\ inv.pc # "mark"
    /\ ~flushing
    /\ running

ChainstateMutexFree == abc.pc = "idle" /\ inv.pc = "idle"

\* Mutant: a candidate as good as the tip is dropped, and so the tip itself.
KeepsOnlyBetter(seq, t, S) == {b \in S : Worse(seq, t, b)}

\* The candidates that PruneBlockIndexCandidates keeps.
NotWorseThan(seq, t, S) == {b \in S : ~Worse(seq, b, t)}

\* The entries that qualify as the end of the active chain.
Eligible(i, l) == {b \in i.index : IsValid(i, b, BLOCK_VALID_TRANSACTIONS) /\ b \in l}

MoreWork(bi, b) == bi = Null \/ nChainWork[b] > nChainWork[bi]

\* The blocks of S that no other block of S has more work than.
MostWork(S) == {b \in S : \A c \in S : nChainWork[c] <= nChainWork[b]}

\* InvalidChainFound: both effects on the pointers of the chain manager.
InvalidChainFound(b) ==
    /\ m_best_invalid' = IF MoreWork(m_best_invalid, b) THEN b ELSE m_best_invalid
    /\ m_best_header' = IF b \in Ancestors[m_best_header] THEN tip ELSE m_best_header

Spend(op) == world.budget[op] > 0 /\ world' = [world EXCEPT !.budget[op] = @ - 1]

-----------------------------------------------------------------------------
(* Headers and blocks arriving.                                            *)

\* Mutant: the parent of a header is not looked up.
AcceptsUnconnectedHeader(b) ==
    {[ok |-> TRUE, dirty |-> {b},
      idx |-> [idx EXCEPT !.index = @ \cup {b}, !.valid[b] = Max({@, BLOCK_VALID_TREE})]]}

\* AcceptBlockHeader: the possible outcomes, as the new index, the entries it
\* touched and whether the header is acceptable.  A header on top of a chain
\* with a known invalid block is refused, and the blocks above the first
\* invalid block that is found are marked on the way.
AcceptBlockHeader(b) ==
    LET Outcome(ok, i, d) == [ok |-> ok, idx |-> i, dirty |-> d]
        prev == pprev[b]
        bad == {f \in m_failed_blocks : f \in Ancestors[prev]}
    IN  IF b \in idx.index THEN {Outcome(b \notin Failed(idx), idx, {})}
        ELSE IF prev \notin idx.index \/ prev \in Failed(idx) THEN {Outcome(FALSE, idx, {})}
        ELSE IF ~IsValid(idx, prev, BLOCK_VALID_SCRIPTS) /\ bad # {}
        THEN {Outcome(FALSE, [idx EXCEPT !.failed_child = @ \cup Between(f, prev)],
                      Between(f, prev)) : f \in bad}
        ELSE {Outcome(TRUE, [idx EXCEPT !.index = @ \cup {b},
                                        !.valid[b] = BLOCK_VALID_TREE], {b})}

\* Mutant: a header that was refused becomes the best one.
BestHeaderUnchecked(i, b) ==
    IF nChainWork[m_best_header] < nChainWork[b] THEN b ELSE m_best_header

\* AddToBlockIndex moves m_best_header to a header that has more work.
BestHeaderWith(i, b) ==
    IF b \in i.index \ idx.index /\ nChainWork[m_best_header] < nChainWork[b]
    THEN b ELSE m_best_header

\* ProcessNewBlockHeaders, for one header.
ProcessNewBlockHeader(b) ==
    /\ CsMainFree
    /\ \E r \in AcceptBlockHeader(b) :
          /\ r.idx # idx
          /\ idx' = r.idx
          /\ m_dirty_blockindex' = m_dirty_blockindex \cup r.dirty
          /\ m_best_header' = BestHeaderWith(r.idx, b)
    /\ UNCHANGED <<linked, nSequenceId, setBlockIndexCandidates, m_blocks_unlinked,
                   m_failed_blocks, m_best_invalid, counters, tip, abc, inv, owed,
                   diskVars, flushing, running, world>>

\* Mutants: the queue is not continued with the blocks that wait for b; it is
\* continued with every block above b that has a header; with data.
LinksOnlyTheBlock(b) == {b}
LinksWholeSubtree(b) == Descendants(b) \cap idx.index
LinksAllWithData(b) == {d \in Descendants(b) : Between(b, d) \subseteq idx.data}

\* The blocks that become linked when b, whose parent is linked, gets its
\* transactions: b and what waits in m_blocks_unlinked on top of it.
NewlyLinked(b) == {d \in Descendants(b) : \A e \in Between(b, d) : m_blocks_unlinked[e] > 0}

\* The orders in which the queue of ReceivedBlockTransactions visits S: breadth
\* first, siblings in the order in which they were stored.
QueueOrders(S) ==
    {o \in Bijection(S, 0 .. Cardinality(S) - 1) :
        \A d, e \in S :
           \/ nHeight[d] < nHeight[e]
           \/ /\ nHeight[d] = nHeight[e]
              /\ pprev[d] # pprev[e]
              /\ pprev[d] \in S /\ pprev[e] \in S
              /\ o[pprev[d]] < o[pprev[e]]
           => o[d] < o[e]}

\* ReceivedBlockTransactions, on the index i that AcceptBlockHeader left.
ReceivedBlockTransactions(b, i) ==
    /\ idx' = [i EXCEPT !.nTx = @ \cup {b}, !.data = @ \cup {b},
                        !.valid[b] = Max({@, BLOCK_VALID_TRANSACTIONS})]
    /\ IF pprev[b] \in linked
       THEN LET new == NewlyLinked(b) IN
            \E order \in QueueOrders(new) :
               /\ linked' = linked \cup new
               /\ nSequenceId' = [d \in Blocks |-> IF d \in new THEN counters.seq + order[d]
                                                   ELSE nSequenceId[d]]
               /\ counters' = [counters EXCEPT !.seq = @ + Cardinality(new)]
               /\ setBlockIndexCandidates' =
                     setBlockIndexCandidates \cup NotWorseThan(nSequenceId', tip, new)
               /\ m_blocks_unlinked' = [d \in Blocks |-> IF d \in new \ {b} THEN 0
                                                         ELSE m_blocks_unlinked[d]]
       ELSE /\ linked' = linked \ {b}
            /\ m_blocks_unlinked' = [m_blocks_unlinked EXCEPT
                  ![b] = IF IsValid(i, pprev[b], BLOCK_VALID_TREE) THEN @ + 1 ELSE @]
            /\ UNCHANGED <<nSequenceId, counters, setBlockIndexCandidates>>

\* AcceptBlock ignores a block it has, and an unrequested one that was pruned,
\* has less work than the tip or is too far ahead.
Ignored(b, i, fRequested) ==
    \/ b \in i.data
    \/ /\ ~fRequested
       /\ \/ b \in i.nTx
          \/ nChainWork[b] < nChainWork[tip]
          \/ nHeight[b] > nHeight[tip] + MIN_BLOCKS_TO_KEEP

\* ProcessNewBlock up to its call of ActivateBestChain: AcceptBlock.
ProcessNewBlock(b, fRequested) ==
    /\ CsMainFree
    /\ \E r \in AcceptBlockHeader(b) :
          /\ m_best_header' = BestHeaderWith(r.idx, b)
          /\ \/ /\ ~r.ok \/ Ignored(b, r.idx, fRequested)
                /\ idx' = r.idx
                /\ m_dirty_blockindex' = m_dirty_blockindex \cup r.dirty
                /\ owed' = (owed \/ r.ok)
                /\ UNCHANGED <<linked, nSequenceId, counters, setBlockIndexCandidates,
                               m_blocks_unlinked>>
             \/ /\ r.ok /\ ~Ignored(b, r.idx, fRequested)
                /\ m_dirty_blockindex' = m_dirty_blockindex \cup {b}
                /\ IF b \in BadContent
                   THEN /\ idx' = [r.idx EXCEPT !.failed_valid = @ \cup {b}]
                        /\ UNCHANGED <<owed, linked, nSequenceId, counters,
                                       setBlockIndexCandidates, m_blocks_unlinked>>
                   ELSE /\ ReceivedBlockTransactions(b, r.idx)
                        /\ owed' = TRUE
    /\ UNCHANGED <<m_failed_blocks, m_best_invalid, tip, abc, inv, diskVars, flushing,
                   running, world>>

-----------------------------------------------------------------------------
(* ActivateBestChain.                                                      *)

\* A call of ActivateBestChain: it takes m_chainstate_mutex and, for its first
\* round, cs_main; a later round takes cs_main again.
LockForRound ==
    /\ CsMainFree
    /\ \/ owed /\ ChainstateMutexFree /\ owed' = FALSE
       \/ abc.pc = "outer" /\ UNCHANGED owed
    /\ abc' = [abc EXCEPT !.pc = "loop", !.starting = tip, !.connected = FALSE]
    /\ UNCHANGED <<indexVars, tip, inv, m_dirty_blockindex, diskVars, flushing, running,
                   world>>

\* The blocks that have to be connected to reach b.
Path(b) == Between(tip, b)

\* Mutant: the failure flags on the way are not looked at.
UnusableWithoutData(b) == {a \in Path(b) : a \notin idx.data}

\* The blocks on the way to b because of which FindMostWorkChain gives b up.
Unusable(b) == {a \in Path(b) : a \in Failed(idx) \/ a \notin idx.data}

\* FindMostWorkChain, the round that takes an unusable chain off the candidates.
DiscardCandidate ==
    /\ abc.pc = "loop" /\ abc.mostWork = Null /\ ~flushing
    /\ setBlockIndexCandidates # {}
    /\ LET new == Best(nSequenceId, setBlockIndexCandidates)
           test == Highest(Unusable(new))
           above == Between(test, new)
           fFailedChain == test \in Failed(idx)
       IN  /\ Unusable(new) # {}
           /\ setBlockIndexCandidates' = setBlockIndexCandidates \ (above \cup {test})
           /\ IF fFailedChain
              THEN /\ idx' = [idx EXCEPT !.failed_child = @ \cup above]
                   /\ m_best_invalid' = IF MoreWork(m_best_invalid, new) THEN new
                                        ELSE m_best_invalid
                   /\ UNCHANGED m_blocks_unlinked
              ELSE /\ m_blocks_unlinked' = [b \in Blocks |->
                        m_blocks_unlinked[b] + IF b \in above THEN 1 ELSE 0]
                   /\ UNCHANGED <<idx, m_best_invalid>>
    /\ UNCHANGED <<linked, nSequenceId, m_failed_blocks, m_best_header, counters, tip, abc,
                   inv, owed, m_dirty_blockindex, diskVars, flushing, running, world>>

\* What FindMostWorkChain returns once no unusable candidate sorts last.
FindMostWorkChain ==
    IF abc.mostWork # Null THEN abc.mostWork
    ELSE IF setBlockIndexCandidates = {} THEN Null
    ELSE Best(nSequenceId, setBlockIndexCandidates)

\* The choice of a target.  With nothing to do the round ends: the call returns
\* if it connected nothing, and it is over when it stands on its target.
ChooseTarget ==
    /\ abc.pc = "loop" /\ ~flushing
    /\ abc.mostWork = Null /\ setBlockIndexCandidates # {} => Unusable(FindMostWorkChain) = {}
    /\ abc' = IF FindMostWorkChain \notin {Null, tip}
              THEN [abc EXCEPT !.pc = "step", !.mostWork = FindMostWorkChain, !.old = tip,
                               !.fork = FindFork(tip, FindMostWorkChain)]
              ELSE IF abc.connected /\ FindMostWorkChain = Null
              THEN [NoActivation EXCEPT !.pc = "outer"]
              ELSE NoActivation
    /\ UNCHANGED <<indexVars, tip, inv, owed, m_dirty_blockindex, diskVars, flushing,
                   running, world>>

\* AbortNode: the node gives up and shuts down.
Abort ==
    /\ running' = FALSE
    /\ abc' = NoActivation
    /\ UNCHANGED <<indexVars, tip, m_dirty_blockindex>>

\* DisconnectTip reads the block and its undo data.
CanDisconnect == tip \in idx.data \cap idx.undo

\* ActivateBestChainStep, a block of the old branch.
StepDisconnectTip ==
    /\ abc.pc = "step" /\ ~flushing
    /\ tip \notin Ancestors[abc.mostWork]
    /\ \/ /\ CanDisconnect
          /\ tip' = pprev[tip]
          /\ UNCHANGED <<indexVars, abc, m_dirty_blockindex, running>>
       \/ ~CanDisconnect /\ Abort
    /\ UNCHANGED <<inv, owed, diskVars, flushing, world>>

\* The next block on the way to the target.
NextBlock == CHOOSE b \in Path(abc.mostWork) : pprev[b] = tip

\* vpindexToConnect.front(): the top of the batch that NextBlock belongs to.
BatchTop ==
    LET base == nHeight[abc.fork]
        batches == (nHeight[NextBlock] - base - 1) \div ConnectBatch + 1
    IN  GetAncestor(abc.mostWork, Min({base + ConnectBatch * batches, nHeight[abc.mostWork]}))

\* Mutants: cs_main is released although the tip is worse than before; the call
\* returns after its first round.
ReleasesLockEarly(t, mostWork) ==
    abc' = IF t = mostWork THEN NoActivation
           ELSE [NoActivation EXCEPT !.pc = "outer", !.mostWork = mostWork]
ReturnsAfterOneRound(t, mostWork) ==
    abc' = IF Worse(nSequenceId, t, abc.starting)
           THEN [abc EXCEPT !.pc = "loop", !.mostWork = mostWork, !.connected = TRUE,
                            !.old = Null, !.fork = Null]
           ELSE NoActivation

\* The end of ActivateBestChainStep with the chain at t: cs_main is kept until
\* the tip is no worse than the one the round started from.
EndOfStep(t, mostWork) ==
    abc' = IF Worse(nSequenceId, t, abc.starting)
           THEN [abc EXCEPT !.pc = "loop", !.mostWork = mostWork, !.connected = TRUE,
                            !.old = Null, !.fork = Null]
           ELSE IF t = mostWork THEN NoActivation
           ELSE [NoActivation EXCEPT !.pc = "outer", !.mostWork = mostWork]

\* ActivateBestChain looks at ShutdownRequested between two rounds.
StopActivation ==
    /\ abc.pc = "outer" /\ CsMainFree
    /\ Spend("shutdown")
    /\ abc' = NoActivation
    /\ UNCHANGED <<indexVars, tip, inv, owed, m_dirty_blockindex, diskVars, flushing, running>>

\* ConnectTip, with ConnectBlock's verdict, and what follows in
\* ActivateBestChainStep: a block that is fine raises the block's validity and
\* prunes the candidates, one that is not is remembered with the chain above it.
StepConnectTip ==
    /\ abc.pc = "step" /\ ~flushing
    /\ tip \in Ancestors[abc.mostWork]
    /\ LET b == NextBlock IN
       IF b \notin idx.data THEN Abort ELSE
       \/ /\ b \in world.bad
          /\ idx' = [idx EXCEPT !.failed_valid = @ \cup {b}]
          /\ m_failed_blocks' = m_failed_blocks \cup {b}
          /\ m_dirty_blockindex' = m_dirty_blockindex \cup {b}
          /\ setBlockIndexCandidates' = setBlockIndexCandidates \ {b}
          /\ m_best_invalid' = IF MoreWork(m_best_invalid, BatchTop) THEN BatchTop
                               ELSE m_best_invalid
          /\ m_best_header' = IF b \in Ancestors[m_best_header] THEN tip ELSE m_best_header
          /\ EndOfStep(tip, Null)
          /\ UNCHANGED <<linked, nSequenceId, m_blocks_unlinked, counters, tip, running>>
       \/ /\ b \notin world.bad
          /\ idx' = [idx EXCEPT !.undo = @ \cup {b}, !.valid[b] = BLOCK_VALID_SCRIPTS]
          /\ m_dirty_blockindex' = m_dirty_blockindex \cup (IF idx' = idx THEN {} ELSE {b})
          /\ tip' = b
          /\ setBlockIndexCandidates' = NotWorseThan(nSequenceId, b, setBlockIndexCandidates)
          /\ IF nChainWork[b] > nChainWork[abc.old] \/ b = abc.mostWork
             THEN EndOfStep(b, abc.mostWork)
             ELSE UNCHANGED abc
          /\ UNCHANGED <<linked, nSequenceId, m_blocks_unlinked, m_failed_blocks,
                         m_best_header, m_best_invalid, counters, running>>
    /\ UNCHANGED <<inv, owed, diskVars, flushing, world>>

-----------------------------------------------------------------------------
(* The operator's commands.                                                *)

\* Mutant: the block is marked before it is off the active chain.
InvalidateMarksFirst(b) ==
    /\ Spend("invalidate")
    /\ CsMainFree /\ ChainstateMutexFree
    /\ b \in idx.index \ {Genesis}
    /\ idx' = [idx EXCEPT !.failed_valid = @ \cup {b}]
    /\ inv' = [NoInvalidation EXCEPT !.pc = "walk", !.pindex = b, !.to_mark_failed = b]
    /\ UNCHANGED <<linked, nSequenceId, setBlockIndexCandidates, m_blocks_unlinked,
                   m_failed_blocks, m_best_header, m_best_invalid, counters, tip, abc, owed,
                   m_dirty_blockindex, diskVars, flushing, running>>

\* InvalidateBlock, first critical section: the mutex is taken and the blocks
\* off the active chain that may become candidates are collected.
InvalidateBlock(b) ==
    /\ Spend("invalidate")
    /\ CsMainFree /\ ChainstateMutexFree
    /\ b \in idx.index \ {Genesis}
    /\ inv' = [pc |-> "walk", pindex |-> b, to_mark_failed |-> b, walk_tip |-> Null,
               by_work |-> NotWorseThan(nSequenceId, pprev[b],
                              {c \in Eligible(idx, linked) : ~InChain(c)})]
    /\ UNCHANGED <<indexVars, tip, abc, owed, m_dirty_blockindex, diskVars, flushing, running>>

\* InvalidateBlock, the loop: DisconnectTip.  If it fails the call returns, and
\* invalidateblock goes on with ActivateBestChain as no error was recorded.
InvalidateDisconnectTip ==
    /\ inv.pc = "walk" /\ CsMainFree
    /\ InChain(inv.pindex)
    /\ \/ /\ CanDisconnect
          /\ tip' = pprev[tip]
          /\ inv' = [inv EXCEPT !.pc = "mark", !.walk_tip = tip]
          /\ UNCHANGED owed
       \/ /\ ~CanDisconnect
          /\ inv' = NoInvalidation
          /\ owed' = TRUE
          /\ UNCHANGED tip
    /\ UNCHANGED <<indexVars, abc, m_dirty_blockindex, diskVars, flushing, running, world>>

\* The rest of the iteration: the block just disconnected is marked, its parent
\* and whatever is no worse become candidates.
InvalidateMark ==
    LET walk == inv.walk_tip
        relabel == IF pprev[walk] = inv.to_mark_failed /\ inv.to_mark_failed \in idx.failed_valid
                   THEN {inv.to_mark_failed} ELSE {}
        ready == NotWorseThan(nSequenceId, pprev[walk], inv.by_work)
    IN
    /\ inv.pc = "mark" /\ ~flushing
    /\ idx' = [idx EXCEPT !.failed_valid = (@ \cup {walk}) \ relabel,
                          !.failed_child = @ \cup relabel]
    /\ m_dirty_blockindex' = m_dirty_blockindex \cup {walk} \cup relabel
    /\ setBlockIndexCandidates' =
          (setBlockIndexCandidates \ {walk}) \cup {pprev[walk]} \cup ready
    /\ inv' = [inv EXCEPT !.pc = "walk", !.to_mark_failed = walk, !.walk_tip = Null,
                          !.by_work = @ \ ready]
    /\ UNCHANGED <<linked, nSequenceId, m_blocks_unlinked, m_failed_blocks, m_best_header,
                   m_best_invalid, counters, tip, abc, owed, diskVars, flushing, running,
                   world>>

\* Mutant: blocks that arrived during the loop are left out.
NoLateCandidates(i) == {}

\* The pass over the whole index that "in case any new blocks arrived" ends
\* InvalidateBlock.
LateCandidates(i) == NotWorseThan(nSequenceId, tip, Eligible(i, linked))

\* InvalidateBlock, the last critical section, once pindex is off the chain or
\* a shutdown ends the loop early.  In the second case nothing may have been
\* disconnected yet, and the call returns without a mark.
InvalidateFinish ==
    LET b == inv.to_mark_failed
        i == [idx EXCEPT !.failed_valid = @ \cup {b}]
    IN
    /\ inv.pc = "walk" /\ CsMainFree
    /\ IF InChain(inv.pindex) THEN Spend("shutdown") ELSE UNCHANGED world
    /\ \/ /\ InChain(b)
          /\ UNCHANGED <<idx, m_dirty_blockindex, m_failed_blocks, setBlockIndexCandidates,
                         m_best_invalid, m_best_header>>
       \/ /\ ~InChain(b)
          /\ idx' = i
          /\ m_dirty_blockindex' = m_dirty_blockindex \cup {b}
          /\ m_failed_blocks' = m_failed_blocks \cup {b}
          /\ setBlockIndexCandidates' = (setBlockIndexCandidates \ {b}) \cup LateCandidates(i)
          /\ InvalidChainFound(b)
    /\ inv' = NoInvalidation
    /\ owed' = TRUE
    /\ UNCHANGED <<linked, nSequenceId, m_blocks_unlinked, counters, tip, abc, diskVars,
                   flushing, running>>

\* Mutant: only the block itself is cleared, not what was marked because of it.
ReconsidersOnlyBlock(b) == {b} \cap Failed(idx)

\* The blocks on top of b that lose their flags: all that are not known valid.
Reconsidered(b) ==
    {d \in Descendants(b) \cap idx.index : ~IsValid(idx, d, BLOCK_VALID_TRANSACTIONS)}

\* Mutant: the flags are cleared but m_failed_blocks keeps the blocks.
ResetKeepsFailedBlocks(b) ==
    LET all == (Descendants(b) \cup Ancestors[b]) \cap Failed(idx) IN
    /\ Spend("reconsider")
    /\ CsMainFree
    /\ b \in idx.index
    /\ idx' = [idx EXCEPT !.failed_valid = @ \ all, !.failed_child = @ \ all]
    /\ m_dirty_blockindex' = m_dirty_blockindex \cup all
    /\ owed' = TRUE
    /\ UNCHANGED <<linked, nSequenceId, setBlockIndexCandidates, m_blocks_unlinked,
                   m_failed_blocks, m_best_header, m_best_invalid, counters, tip, abc,
                   inv, diskVars, flushing, running>>

\* ResetBlockFailureFlags, called by reconsiderblock.  Descendants become
\* candidates again if they beat the tip; ancestors only lose their flags.
ResetBlockFailureFlags(b) ==
    LET up == Reconsidered(b)
        all == up \cup (Ancestors[b] \cap Failed(idx))
        i == [idx EXCEPT !.failed_valid = @ \ all, !.failed_child = @ \ all]
    IN
    /\ Spend("reconsider")
    /\ CsMainFree
    /\ b \in idx.index
    /\ idx' = i
    /\ m_dirty_blockindex' = m_dirty_blockindex \cup all
    /\ m_failed_blocks' = m_failed_blocks \ all
    /\ setBlockIndexCandidates' = setBlockIndexCandidates \cup
          {d \in up \cap Eligible(i, linked) : Worse(nSequenceId, tip, d)}
    /\ m_best_invalid' = IF m_best_invalid \in up THEN Null ELSE m_best_invalid
    /\ owed' = TRUE
    /\ UNCHANGED <<linked, nSequenceId, m_blocks_unlinked, m_best_header, counters, tip, abc,
                   inv, diskVars, flushing, running>>

\* PreciousBlock up to its call of ActivateBestChain: the block is treated as
\* if it had been received before every other one of the same work.
PreciousBlock(b) ==
    /\ Spend("precious")
    /\ CsMainFree
    /\ b \in idx.index
    /\ nChainWork[b] >= nChainWork[tip]
    /\ LET rev == IF nChainWork[tip] > counters.lastPrecious THEN -1 ELSE counters.rev
           rest == setBlockIndexCandidates \ {b}
       IN  /\ nSequenceId' = [nSequenceId EXCEPT ![b] = rev]
           /\ counters' = [counters EXCEPT !.rev = rev - 1, !.lastPrecious = nChainWork[tip]]
           /\ setBlockIndexCandidates' =
                 IF b \in Eligible(idx, linked)
                 THEN NotWorseThan(nSequenceId', tip, rest \cup {b})
                 ELSE rest
    /\ owed' = TRUE
    /\ UNCHANGED <<idx, linked, m_blocks_unlinked, m_failed_blocks, m_best_header,
                   m_best_invalid, tip, abc, inv, m_dirty_blockindex, diskVars, flushing,
                   running>>

-----------------------------------------------------------------------------
(* The databases.  FlushStateToDisk is called from everywhere, with        *)
(* cs_main held, and decides by the clock and the size of the cache what   *)
(* to do, so it may act wherever cs_main is free and between the steps of  *)
(* a round.                                                                *)

\* MaybeUpdateMempoolForReorg, with cs_main held after blocks were disconnected:
\* every transaction it puts back ends in a periodic flush.  (The model also
\* lets it come between the rounds of FindMostWorkChain that follow.)
UpdatesMempool == inv.pc = "mark" \/ (abc.pc = "loop" /\ abc.connected)

MayFlush == ~flushing /\ running /\ (CsMainFree \/ abc.pc = "step" \/ UpdatesMempool)

\* m_chain.Height() for FlushStateToDisk: ConnectTip and DisconnectTip call it
\* before UpdateTip.
ChainHeight ==
    LET disconnected ==
            inv.pc = "mark" \/ (abc.pc = "step" /\ tip \in Ancestors[abc.old] \ {abc.old})
        connected == abc.pc = "step" /\ tip \notin Ancestors[abc.old]
    IN  IF disconnected THEN nHeight[tip] + 1
        ELSE IF connected THEN nHeight[tip] - 1
        ELSE nHeight[tip]

\* Mutant: off by one at the limit.
PrunableOneMore == {b \in idx.data : nHeight[b] <= ChainHeight - MIN_BLOCKS_TO_KEEP + 1}

\* The blocks of the files that FindFilesToPrune may choose.
Prunable == {b \in idx.data : nHeight[b] <= ChainHeight - MIN_BLOCKS_TO_KEEP}

\* Mutant: m_blocks_unlinked is forgotten.
UnlinkedNotPruned(S) == m_blocks_unlinked

\* PruneOneBlockFile, for the files holding S.
PrunedIndex(S) == [idx EXCEPT !.data = @ \ S, !.undo = @ \ S]
PrunedUnlinked(S) == [b \in Blocks |-> IF b \in S THEN 0 ELSE m_blocks_unlinked[b]]

\* Mutant: the batch is never written.
WritesNothing(i, dirty) == disk

\* WriteBlockIndexDB: the entry of every dirty block replaces the one on disk.
WriteBlockIndexDB(i, dirty) ==
    LET Merge(new, old) == (new \cap dirty) \cup (old \ dirty) IN
    [index |-> Merge(i.index, disk.index),
     valid |-> [b \in Blocks |-> IF b \in dirty THEN i.valid[b] ELSE disk.valid[b]],
     nTx |-> Merge(i.nTx, disk.nTx),
     data |-> Merge(i.data, disk.data),
     undo |-> Merge(i.undo, disk.undo),
     failed_valid |-> Merge(i.failed_valid, disk.failed_valid),
     failed_child |-> Merge(i.failed_child, disk.failed_child)]

\* A periodic write: only the block index.  The mode PERIODIC is used by
\* callers that are not in the middle of a block.
WriteIndex ==
    /\ Spend("write")
    /\ CsMainFree \/ (UpdatesMempool /\ ~flushing /\ running)
    /\ disk' = WriteBlockIndexDB(idx, m_dirty_blockindex)
    /\ m_dirty_blockindex' = {}
    /\ UNCHANGED <<indexVars, tip, abc, inv, owed, hashBestChain, m_have_pruned, flushing,
                   running>>

\* A full flush writes the block index first, having dropped what it prunes.
FlushIndex(S) ==
    /\ Spend(IF S = {} THEN "flush" ELSE "prune")
    /\ MayFlush
    /\ S \subseteq Prunable
    /\ idx' = PrunedIndex(S)
    /\ m_blocks_unlinked' = PrunedUnlinked(S)
    /\ m_have_pruned' = (m_have_pruned \/ S # {})
    /\ disk' = WriteBlockIndexDB(idx', m_dirty_blockindex \cup S)
    /\ m_dirty_blockindex' = {}
    /\ flushing' = TRUE
    /\ UNCHANGED <<linked, nSequenceId, setBlockIndexCandidates, m_failed_blocks,
                   m_best_header, m_best_invalid, counters, tip, abc, inv, owed,
                   hashBestChain, running>>

\* Then it writes the coins, and with them the block they belong to.
FlushCoins ==
    /\ flushing
    /\ hashBestChain' = tip
    /\ flushing' = FALSE
    /\ UNCHANGED <<indexVars, tip, abc, inv, owed, m_dirty_blockindex, disk, m_have_pruned,
                   running, world>>

\* Mutant: the index is taken as it is on disk.
LoadedAsStored(d) == d

\* BlockManager::LoadBlockIndex passes invalidity on to the descendants.
LoadedIndex(d) ==
    [d EXCEPT !.failed_child = @ \cup
        {b \in d.index \ Failed(d) : Ancestors[b] \cap Failed(d) # {}}]

\* The process stops anywhere and is started again: LoadBlockIndex rebuilds the
\* index from its database, LoadChainTip the chain from the coins database.
Restart ==
    LET i == LoadedIndex(disk)
        seq == [b \in Blocks |-> 0]
        l == {b \in i.index : Ancestors[b] \subseteq i.nTx}
    IN
    /\ Spend("restart")
    /\ idx' = i
    /\ linked' = l
    /\ nSequenceId' = seq
    /\ m_blocks_unlinked' = [b \in Blocks |-> IF b \in i.nTx \ l THEN 1 ELSE 0]
    /\ setBlockIndexCandidates' = NotWorseThan(seq, hashBestChain, Eligible(i, l))
    /\ m_failed_blocks' = {}
    /\ m_best_header' = Best(seq, {b \in i.index : IsValid(i, b, BLOCK_VALID_TREE)})
    /\ m_best_invalid' \in IF Failed(i) = {} THEN {Null} ELSE MostWork(Failed(i))
    /\ counters' = [seq |-> 1, rev |-> -1, lastPrecious |-> 0]
    /\ tip' = hashBestChain
    /\ abc' = NoActivation
    /\ inv' = NoInvalidation
    /\ owed' = TRUE
    /\ m_dirty_blockindex' = i.failed_child \ disk.failed_child
    /\ flushing' = FALSE
    /\ running' = TRUE
    /\ UNCHANGED diskVars

-----------------------------------------------------------------------------
Activate ==
    \/ LockForRound
    \/ DiscardCandidate
    \/ ChooseTarget
    \/ StepDisconnectTip
    \/ StepConnectTip

Invalidate ==
    \/ InvalidateDisconnectTip
    \/ InvalidateMark
    \/ InvalidateFinish

Next ==
    \/ \E b \in world.mined : ProcessNewBlockHeader(b)
    \/ \E b \in world.mined, fRequested \in BOOLEAN : ProcessNewBlock(b, fRequested)
    \/ Activate
    \/ StopActivation
    \/ \E b \in Blocks : InvalidateBlock(b)
    \/ Invalidate
    \/ \E b \in Blocks : ResetBlockFailureFlags(b)
    \/ \E b \in Blocks : PreciousBlock(b)
    \/ WriteIndex
    \/ \E S \in SUBSET idx.data : FlushIndex(S)
    \/ FlushCoins
    \/ Restart

Spec == Init /\ [][Next]_vars

-----------------------------------------------------------------------------
(* Properties.                                                             *)

\* The block index, the chain and the locals of the threads at work have their
\* types; every set of block pointers points into m_block_index.
TypeOK ==
    /\ idx \in BlockIndex /\ disk \in BlockIndex
    /\ linked \subseteq idx.index
    /\ nSequenceId \in [Blocks -> Int]
    /\ setBlockIndexCandidates \subseteq idx.index
    /\ m_blocks_unlinked \in [Blocks -> Nat]
    /\ m_failed_blocks \subseteq idx.index
    /\ m_best_header \in idx.index
    /\ m_best_invalid \in idx.index \cup {Null}
    /\ tip \in idx.index /\ hashBestChain \in Blocks
    /\ counters \in [seq: Int, rev: Int, lastPrecious: Nat]
    /\ abc \in [pc: {"idle", "outer", "loop", "step"}, mostWork: Blocks \cup {Null},
                starting: Blocks \cup {Null}, old: Blocks \cup {Null},
                fork: Blocks \cup {Null}, connected: BOOLEAN]
    /\ inv \in [pc: {"idle", "walk", "mark"}, pindex: Blocks \cup {Null},
                to_mark_failed: Blocks \cup {Null}, walk_tip: Blocks \cup {Null},
                by_work: SUBSET Blocks]
    /\ m_dirty_blockindex \subseteq idx.index
    /\ {owed, m_have_pruned, flushing, running} \subseteq BOOLEAN
    /\ world.budget \in [Operations -> Nat]

\* CheckBlockIndex takes cs_main and is called by ActivateBestChain, by
\* InvalidateBlock before its last critical section, and whenever a header or a
\* block arrives, so it sees any state in which cs_main is free: also those of a
\* half-done invalidateblock.
Checkpoint == CsMainFree

\* CheckBlockIndex, the entries one by one (validation.cpp:4850-4887): what is
\* known of a block's data and transactions agrees with its validity level and
\* with that of its ancestors, and only a block with an ancestor that was itself
\* found invalid is marked as failed.
StatusConsistent ==
    Checkpoint => \A b \in idx.index :
        /\ Ancestors[b] \subseteq idx.index
        /\ b \notin linked => nSequenceId[b] <= 0
        /\ b \in idx.data => b \in idx.nTx
        /\ ~m_have_pruned => (b \in idx.nTx => b \in idx.data)
        /\ b \in idx.undo => b \in idx.data
        /\ idx.valid[b] >= BLOCK_VALID_TRANSACTIONS <=> b \in idx.nTx
        /\ idx.valid[b] >= BLOCK_VALID_SCRIPTS =>
              \A a \in Ancestors[b] \ {Genesis} : idx.valid[a] >= BLOCK_VALID_SCRIPTS
        /\ b \in Failed(idx) => Ancestors[b] \cap idx.failed_valid # {}

\* CheckBlockIndex (validation.cpp:4874-4876): "All parents having had data (at
\* some point) is equivalent to all parents being VALID_TRANSACTIONS, which is
\* equivalent to HaveTxsDownloaded()", whatever the order blocks arrived in.
LinkedExact ==
    Checkpoint => linked = {b \in idx.index : Ancestors[b] \subseteq idx.nTx}

\* Every block that is at least as good as the tip, valid and complete down to
\* genesis is a candidate, the tip itself always is, and no block worse than
\* the tip or with a gap below it is one (CheckBlockIndex, validation.cpp:4888-4909).
CandidatesExact ==
    Checkpoint => \A b \in idx.index :
        IF ~Worse(nSequenceId, b, tip) /\ Ancestors[b] \subseteq idx.nTx
        THEN (/\ Ancestors[b] \cap idx.failed_valid = {}
              /\ Ancestors[b] \subseteq idx.data \/ b = tip)
             => b \in setBlockIndexCandidates
        ELSE b \notin setBlockIndexCandidates

\* The same once InvalidateBlock has returned.  While it is under way, with
\* cs_main free, CandidatesExact does not hold: a block that arrived when the old
\* tip stood is missing until the last pass (validation.cpp:3406-3417).  Claimed
\* here is that this pass repairs the set, whatever arrived in between.
CandidatesRepaired == inv.pc = "idle" => CandidatesExact

\* CheckBlockIndex, m_blocks_unlinked (validation.cpp:4910-4943): a block with
\* data that cannot be connected for want of an ancestor's data waits there, so
\* that the ancestor's arrival finds it, and no other block does.
UnlinkedExact ==
    Checkpoint => \A b \in idx.index \ {Genesis} :
        LET complete == Ancestors[b] \subseteq idx.nTx
            valid == Ancestors[b] \cap idx.failed_valid = {}
            waiting == m_blocks_unlinked[b] > 0
        IN  /\ b \in idx.data /\ ~complete /\ valid => waiting
            /\ waiting => b \in idx.data /\ ~(Ancestors[b] \subseteq idx.data)
            /\ (/\ b \in idx.data /\ complete /\ valid /\ ~(Ancestors[b] \subseteq idx.data)
                /\ ~Worse(nSequenceId, b, tip) /\ b \notin setBlockIndexCandidates)
               => waiting /\ m_have_pruned

\* The assertion of AcceptBlockHeader (validation.cpp:3922): the cache of
\* blocks found invalid agrees with the flags in the index.
FailedBlocksMarked == m_failed_blocks \subseteq idx.failed_valid

\* The active chain holds no block that is marked as failed, whatever arrives
\* or is invalidated while ActivateBestChain works on a target chosen earlier.
TipNeverFailed == running => Ancestors[tip] \cap Failed(idx) = {}

\* When no call of ActivateBestChain is running or due, the tip is the best of
\* all the blocks the node has everything for.
BestChainAtRest ==
    CsMainFree /\ ChainstateMutexFree /\ ~owed =>
        \A b \in idx.index :
            Ancestors[b] \subseteq idx.nTx /\ Path(b) \subseteq idx.data \ Failed(idx)
            => ~Worse(nSequenceId, tip, b)

\* "We absolutely may not unlock cs_main until we've made forward progress"
\* (validation.cpp:3174): a round of ActivateBestChain ends no worse than it
\* began, also if the chain it reorganized to turned out to be invalid.
ForwardProgress ==
    [][(abc.pc \in {"loop", "step"} /\ abc'.pc \in {"idle", "outer"} /\ running'
           /\ world' = world)
       => ~Worse(nSequenceId', tip', abc.starting)]_vars

\* A block's place in setBlockIndexCandidates depends on its nSequenceId, so
\* ReceivedBlockTransactions never renumbers a block that is in the set; only
\* PreciousBlock does, which takes it out first.  Claimed without invalidateblock,
\* which may walk back to a pruned block, or insert one in its last pass: when such
\* a block is received again it is renumbered in the set.
CandidateKeyStable ==
    [][\A b \in setBlockIndexCandidates :
          nSequenceId'[b] > 0 => nSequenceId'[b] = nSequenceId[b]]_vars

\* No block is listed twice in m_blocks_unlinked, although FindMostWorkChain
\* inserts without looking.
UnlinkedOnce == \A b \in Blocks : m_blocks_unlinked[b] <= 1

\* ActivateBestChain aborts the node for want of block or undo data only when a
\* reorganization goes deeper than the blocks pruning promises to keep.
AbortOnlyOnDeepReorg ==
    [][running /\ ~running' => nHeight[abc.starting] - nHeight[tip] >= MIN_BLOCKS_TO_KEEP]_vars

\* Every change of an entry is marked as dirty: writing the dirty entries and
\* starting again finds the index as it was.  FindMostWorkChain marks nothing
\* when it sets BLOCK_FAILED_CHILD, and relies on LoadBlockIndex to restore it.
DirtyEntriesSuffice ==
    LET written == WriteBlockIndexDB(idx, m_dirty_blockindex)
        loaded == LoadedIndex(written)
    IN  /\ written = [idx EXCEPT !.failed_child = written.failed_child]
        /\ Failed(idx) \subseteq Failed(loaded)
        /\ \A b \in Failed(loaded) : Ancestors[b] \cap idx.failed_valid # {}

\* "Flush the chainstate (which may refer to block index entries)": at any
\* moment of a flush, the block the coins on disk belong to is found in the
\* index on disk, validated like everything below it, so LoadChainTip succeeds.
CoinsNeverAheadOfIndex ==
    /\ Ancestors[hashBestChain] \subseteq disk.index \cap disk.nTx
    /\ \A b \in Ancestors[hashBestChain] \ {Genesis} : disk.valid[b] = BLOCK_VALID_SCRIPTS

\* The assertion of PruneBlockIndexCandidates (validation.cpp:2999): "Either the
\* current tip or a successor of it we're working towards is left in
\* setBlockIndexCandidates", also when LoadChainTip calls it.
CandidatesNonEmpty == Checkpoint => setBlockIndexCandidates # {}

\* InvalidateBlock (validation.cpp:3369): "We only want to mark the last
\* disconnected block as BLOCK_FAILED_VALID; its children need to be
\* BLOCK_FAILED_CHILD instead."
ChildrenMarkedAsChild ==
    Checkpoint => \A b \in idx.failed_valid : pprev[b] \notin idx.failed_valid

\* The scheduler runs a thread that holds or can take its locks, and a flush
\* that has begun goes on.
Fairness == WF_vars(Activate) /\ WF_vars(Invalidate) /\ WF_vars(FlushCoins)

FairSpec == Spec /\ Fairness

\* ActivateBestChain reaches every chain the node has everything for, or a
\* better one: no invalid branch, late parent or lock release makes it stop.
ReachesBestChain ==
    \A b \in Blocks :
        (b \in Eligible(idx, linked) /\ Ancestors[b] \cap world.bad = {})
        ~> ~Worse(nSequenceId, tip, b)
=============================================================================

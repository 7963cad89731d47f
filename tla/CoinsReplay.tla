----------------------------- MODULE CoinsReplay -----------------------------
(***************************************************************************)
(* How the coins database survives a crash.  CCoinsViewDB::BatchWrite      *)
(* (txdb.cpp) writes the tip cache in several batches and marks the         *)
(* database as in transition in between; Chainstate::ReplayBlocks          *)
(* (validation.cpp) finishes an interrupted transition at the next start    *)
(* from the blocks and the undo data on disk.                               *)
(*                                                                          *)
(* A transaction is its inputs and outputs; a coin is the outpoint it pays  *)
(* to and the height it was created at.  Clean entries of the tip cache,    *)
(* which no flush writes, are not kept: CoinsCache shows that they change   *)
(* nothing a caller sees.                                                   *)
(***************************************************************************)
EXTENDS Coins, BlockTree, SequencesExt

CONSTANTS Outpoints,
          vtx,      \* the transactions of each block: [coinbase, vin, vout]
          CoinAt,   \* the coin an outpoint holds when created at a height
          Legacy,   \* mainnet blocks below BIP34Height, exempt from BIP30
          MIN_BLOCKS_TO_KEEP,
          NoUndo    \* a block whose undo data is not on disk

Transactions(b) == {vtx[b][i] : i \in DOMAIN vtx[b]}
Inputs(b) == UNION {ToSet(tx.vin) : tx \in Transactions(b)}
Outputs(b) == UNION {ToSet(tx.vout) : tx \in Transactions(b)}
Created(b) == {o \in Outputs(b) : CoinAt[o, nHeight[b]] \notin Unspendable}

\* What the chain up to b leaves unspent, said without replaying it: the last
\* version of an outpoint, unless a block from then on spends it.
Utxo(b) ==
    [o \in Outpoints |->
        LET makers == {a \in Ancestors[b] : o \in Created(a)}
            last == nHeight[Highest(makers)]
        IN  IF \/ makers = {}
               \/ \E s \in Ancestors[b] : o \in Inputs(s) /\ nHeight[s] >= last
            THEN Spent
            ELSE CoinAt[o, last]]

NoCoins == [o \in Outpoints |-> Spent]

\* Only blocks whose transactions are valid are put on a chain: inputs come
\* from the chain below or from an earlier transaction of the block, and BIP30
\* holds.
ASSUME ReplayAssumption ==
    /\ MIN_BLOCKS_TO_KEEP \in Nat
    /\ vtx[Genesis] = <<>>
    /\ Legacy \subseteq Blocks
    /\ \A o \in Outpoints, h \in {nHeight[b] : b \in Blocks} : CoinAt[o, h] \in Coins
    /\ \A b \in Blocks \ {Genesis} :
          /\ \A i \in DOMAIN vtx[b], o \in Inputs(b) :
                o \in ToSet(vtx[b][i].vin) =>
                    \/ Utxo(pprev[b])[o] # Spent
                    \/ \E j \in 1 .. i - 1 : o \in ToSet(vtx[b][j].vout)
          /\ b \in Legacy \/ \A o \in Outputs(b) : Utxo(pprev[b])[o] = Spent

VARIABLES
    pc,         \* starting, running, writing or unreplayable
    db,         \* the coins of the database, Spent where it has none
    bestBlock,  \* DB_BEST_BLOCK, Null when absent
    headBlocks, \* DB_HEAD_BLOCKS: <<>>, or the new and the old tip
    onDisk,     \* blocks whose data can be read
    undo,       \* the undo data on disk: the coins a block's inputs spent
    cacheCoins, \* the dirty entries of the cache over the database
    hashBlock,  \* that cache's best block
    tip,        \* m_chain.Tip(), which follows hashBlock
    pending,    \* outpoints the write in progress has not reached
    failed      \* an assertion, an exception or a valid block refused

vars == <<pc, db, bestBlock, headBlocks, onDisk, undo, cacheCoins, hashBlock, tip,
          pending, failed>>

EmptyMap == [o \in Outpoints |-> NoEntry]

TypeOK ==
    /\ pc \in {"starting", "running", "writing", "unreplayable"}
    /\ db \in [Outpoints -> Coin]
    /\ bestBlock \in Blocks \cup {Null}
    /\ headBlocks \in {<<>>} \cup (Blocks \X (Blocks \cup {Null}))
    /\ onDisk \subseteq Blocks
    /\ \A b \in Blocks : undo[b] \in [Inputs(b) -> Coin] \cup {NoUndo}
    /\ cacheCoins \in [Outpoints -> Slot]
    /\ {hashBlock, tip} \subseteq Blocks \cup {Null}
    /\ pending \subseteq Outpoints
    /\ failed \in BOOLEAN

\* A first start: an empty database, and every block already downloaded.
Init ==
    /\ pc = "starting"
    /\ db = NoCoins
    /\ bestBlock = Null /\ headBlocks = <<>>
    /\ onDisk = Blocks
    /\ undo = [b \in Blocks |-> NoUndo]
    /\ cacheCoins = EmptyMap /\ hashBlock = Null /\ tip = Null
    /\ pending = {}
    /\ failed = FALSE
-----------------------------------------------------------------------------
(* A view is changed while a block is applied to it: what it has come to,   *)
(* the coins the block spent, whether the result is DISCONNECT_OK, and      *)
(* whether an assertion failed or AddCoin threw.  base is the coins below.  *)

Fresh == [view |-> EmptyMap, spent |-> << >>, clean |-> TRUE, threw |-> FALSE]

Shown(base, s, o) == Lookup(s.view[o], base[o])

Spending(base, s, o) ==
    [s EXCEPT !.view[o] = SpendCoinSlot(FetchCoin(@, base[o]))]

\* A bug: an unspendable output is added like any other.
AddingUnspendable(s, o, c, overwrite) ==
    IF AddCoinThrows(s.view[o], overwrite) THEN [s EXCEPT !.threw = TRUE]
    ELSE [s EXCEPT !.view[o] = AddCoinSlot(@, c, overwrite)]

Adding(s, o, c, overwrite) ==
    IF c \in Unspendable THEN s
    ELSE IF AddCoinThrows(s.view[o], overwrite) THEN [s EXCEPT !.threw = TRUE]
    ELSE [s EXCEPT !.view[o] = AddCoinSlot(@, c, overwrite)]

AddCoins(base, s, tx, h, check_for_overwrite) ==
    FoldLeft(LAMBDA t, o :
                Adding(t, o, CoinAt[o, h],
                       IF check_for_overwrite THEN Shown(base, t, o) # Spent
                                              ELSE tx.coinbase),
             s, tx.vout)

\* Asserts that every input was there, and records it.
UpdateCoins(base, s, tx, h) ==
    LET inputs ==
          FoldLeft(LAMBDA t, o :
                      [Spending(base, t, o) EXCEPT
                          !.spent = @ @@ (o :> Shown(base, t, o)),
                          !.threw = @ \/ Shown(base, t, o) = Spent],
                   s, tx.vin)
    IN  AddCoins(base, inputs, tx, h, FALSE)

\* ConnectBlock's check for overwritten outputs.  Legacy stands for all of its
\* exemptions: the blocks of IsBIP30Repeat lie below mainnet's BIP34Height as
\* well, and BIP34Hash, which would switch the check off above that height, is
\* null on every network.
BIP30Holds(base, b) ==
    b \in Legacy \/ \A o \in Outputs(b) : base[o] = Spent

ConnectBlock(base, b) ==
    FoldLeft(LAMBDA s, tx : UpdateCoins(base, s, tx, nHeight[b]), Fresh, vtx[b])

\* Puts a spent coin back, overwriting exactly when one is there already.  The
\* coin has its height and there is one for each input: undo data that an older
\* version wrote without heights, or that does not fit its block, is left out.
ApplyTxInUndo(base, s, o, coin) ==
    LET clean == Shown(base, s, o) = Spent
    IN  [Adding(s, o, coin, ~clean) EXCEPT !.clean = @ /\ clean]

\* Outputs go, and should be what the block made; the inputs come back.
DisconnectTransaction(base, s, tx, b) ==
    LET outputs ==
          FoldLeft(LAMBDA t, o :
                      IF CoinAt[o, nHeight[b]] \in Unspendable THEN t
                      ELSE [Spending(base, t, o) EXCEPT
                              !.clean = \/ @ /\ Shown(base, t, o) = CoinAt[o, nHeight[b]]
                                        \/ @ /\ tx.coinbase /\ b \in Legacy],
                   s, tx.vout)
    IN  FoldRight(LAMBDA o, t : ApplyTxInUndo(base, t, o, undo[b][o]), tx.vin, outputs)

\* A bug: the transactions of a block are undone in the order they were done.
DisconnectForwards(base, s, b) ==
    FoldLeft(LAMBDA t, tx : DisconnectTransaction(base, t, tx, b), s, vtx[b])

DisconnectBlock(base, s, b) ==
    FoldRight(LAMBDA tx, t : DisconnectTransaction(base, t, tx, b), vtx[b], s)

\* Like connecting a block, but some of it may be in the database already.
RollforwardBlock(base, s, b) ==
    FoldLeft(LAMBDA t, tx :
                AddCoins(base, FoldLeft(LAMBDA u, o : Spending(base, u, o), t, tx.vin),
                         tx, nHeight[b], TRUE),
             s, vtx[b])

\* Flush of a temporary view into the tip cache, less the clean entries.
FlushInto(view) == [o \in Outpoints |-> BatchWriteSlot(view[o], cacheCoins[o])]

\* BatchWrite throws if the view took a coin for FRESH that the tip cache has
\* unspent; it may have fetched any coin of the database.
FlushThrows(view) ==
    \E o \in Outpoints : FreshMisapplied(view[o], FetchCoin(cacheCoins[o], db[o]))

TipCoins == [o \in Outpoints |-> Lookup(cacheCoins[o], db[o])]
-----------------------------------------------------------------------------
\* No ConnectTip or DisconnectTip is between its change of the coins and UpdateTip.
CsMainFree == pc = "running" /\ tip = hashBlock

\* A block is put on top of the chain; its undo data is written the first time.
\* The genesis block only becomes the best block.
ConnectTip(b) ==
    LET connected == ConnectBlock(TipCoins, b)
    IN  /\ CsMainFree
        /\ IF b = Genesis THEN hashBlock = Null ELSE hashBlock = pprev[b]
        /\ b \in onDisk
        /\ IF connected.threw \/ ~BIP30Holds(TipCoins, b) \/ FlushThrows(connected.view)
           THEN /\ failed' = TRUE
                /\ UNCHANGED <<undo, cacheCoins, hashBlock>>
           ELSE /\ cacheCoins' = FlushInto(connected.view)
                /\ hashBlock' = b
                /\ undo' = [undo EXCEPT ![b] = IF @ = NoUndo /\ b # Genesis
                                               THEN [o \in Inputs(b) |-> connected.spent[o]]
                                               ELSE @]
                /\ UNCHANGED failed
        /\ UNCHANGED <<pc, db, bestBlock, headBlocks, onDisk, tip, pending>>

\* The block on top of the chain is taken off; any tip can be left this way, by
\* a better chain or by invalidateblock.  Without its block or undo data
\* DisconnectTip returns an error and the node shuts down: see Chainstate.
DisconnectTip ==
    LET b == hashBlock
        disconnected == DisconnectBlock(TipCoins, Fresh, b)
    IN  /\ CsMainFree
        /\ b \notin {Null, Genesis}
        /\ b \in onDisk /\ undo[b] # NoUndo
        /\ IF disconnected.threw \/ ~disconnected.clean \/ FlushThrows(disconnected.view)
           THEN /\ failed' = TRUE
                /\ UNCHANGED <<cacheCoins, hashBlock>>
           ELSE /\ cacheCoins' = FlushInto(disconnected.view)
                /\ hashBlock' = pprev[b]
                /\ UNCHANGED failed
        /\ UNCHANGED <<pc, db, bestBlock, headBlocks, onDisk, undo, tip, pending>>

\* The end of ConnectTip and DisconnectTip, after the flush they may need.
UpdateTip ==
    /\ pc = "running"
    /\ tip # hashBlock
    /\ tip' = hashBlock
    /\ UNCHANGED <<pc, db, bestBlock, headBlocks, onDisk, undo, cacheCoins, hashBlock,
                   pending, failed>>

\* m_chain.Height(): in the middle of DisconnectTip that of the block taken off.
ChainHeight == IF tip = Null THEN -1 ELSE nHeight[tip]

\* A bug: one block too many may be pruned.
PrunableOneMore(b) == nHeight[b] <= ChainHeight - MIN_BLOCKS_TO_KEEP + 1

\* The blocks FindFilesToPrune may choose.
Prunable(b) == nHeight[b] <= ChainHeight - MIN_BLOCKS_TO_KEEP

Dirty == {o \in Outpoints : IsDirty(cacheCoins[o])}

\* A full FlushStateToDisk, which any of its callers may find necessary once
\* there is a best block: block files and index are written, pruned files
\* deleted, and then BatchWrite starts on the coins.  The genesis block is read
\* only once, for its hash, so its file does not matter.
FlushStateToDisk(pruned) ==
    /\ pc = "running"
    /\ hashBlock # Null
    /\ \A b \in pruned : b # Genesis /\ Prunable(b)
    /\ pc' = "writing"
    /\ onDisk' = onDisk \ pruned
    /\ undo' = [b \in Blocks |-> IF b \in pruned THEN NoUndo ELSE undo[b]]
    /\ pending' = Dirty
    /\ UNCHANGED <<db, bestBlock, headBlocks, cacheCoins, hashBlock, tip, failed>>

\* A bug: the heads of a replay that is itself interrupted are forgotten.
OldTipForgotten == bestBlock

\* BatchWrite's old_tip: in the middle of a replay it is the recorded one.
OldTip == IF bestBlock = Null /\ headBlocks # <<>> THEN headBlocks[2] ELSE bestBlock

Written(S) ==
    [o \in Outpoints |-> IF o \in S THEN BatchWriteDB(cacheCoins[o], db[o]) ELSE db[o]]

\* A bug: the database still names its old best block.
WritePartialKeepsBest(S) ==
    /\ pc = "writing"
    /\ S # {} /\ S \subseteq pending
    /\ db' = Written(S)
    /\ headBlocks' = <<hashBlock, OldTip>>
    /\ pending' = pending \ S
    /\ UNCHANGED <<pc, bestBlock, onDisk, undo, cacheCoins, hashBlock, tip, failed>>

\* A batch is full: it goes to disk, the first one with the transition mark.
\* The order of the map decides which coins are in it.
WritePartialBatch(S) ==
    /\ pc = "writing"
    /\ S # {} /\ S \subseteq pending
    /\ db' = Written(S)
    /\ bestBlock' = Null
    /\ headBlocks' = <<hashBlock, OldTip>>
    /\ pending' = pending \ S
    /\ failed' = (failed \/ (headBlocks # <<>> /\ headBlocks[1] # hashBlock))
    /\ UNCHANGED <<pc, onDisk, undo, cacheCoins, hashBlock, tip>>

\* The last batch; the cache is then empty.
WriteFinalBatch ==
    /\ pc = "writing"
    /\ db' = Written(pending)
    /\ bestBlock' = hashBlock
    /\ headBlocks' = <<>>
    /\ pending' = {}
    /\ cacheCoins' = EmptyMap
    /\ pc' = "running"
    /\ failed' = (failed \/ (headBlocks # <<>> /\ headBlocks[1] # hashBlock))
    /\ UNCHANGED <<onDisk, undo, hashBlock, tip>>

\* Blocks above the fork on the way to b, lowest first.  The genesis block is
\* neither rolled back nor rolled forward.
Path(fork, b) ==
    LET from == IF fork = Null THEN 0 ELSE nHeight[fork]
    IN  [i \in 1 .. nHeight[b] - from |-> GetAncestor(b, from + i)]

LastCommonAncestor(old, new) == IF old = Null THEN Null ELSE FindFork(old, new)

\* A bug: only the new branch is replayed.
ReplayedForwardsOnly(old, new) ==
    FoldLeft(LAMBDA s, b : RollforwardBlock(db, s, b), Fresh,
             Path(LastCommonAncestor(old, new), new))

\* Back along the old branch, unclean or not, then forward along the new one.
Replayed(old, new) ==
    LET fork == LastCommonAncestor(old, new)
        back == IF old = Null THEN Fresh
                ELSE FoldRight(LAMBDA b, s : DisconnectBlock(db, s, b), Path(fork, old), Fresh)
    IN  FoldLeft(LAMBDA s, b : RollforwardBlock(db, s, b), back, Path(fork, new))

Readable(old, new) ==
    LET fork == LastCommonAncestor(old, new)
    IN  /\ old # Null => \A b \in ToSet(Path(fork, old)) : b \in onDisk /\ undo[b] # NoUndo
        /\ \A b \in ToSet(Path(fork, new)) : b \in onDisk

\* A start: nothing to replay, a replay whose result is then written like any
\* other cache, or one that lacks a block and makes the node refuse to start.
\* LoadChainTip takes the tip from the database afterwards.
\* The index knows both heads, since it is written before the coins.
ReplayBlocks ==
    /\ pc = "starting"
    /\ \/ /\ headBlocks = <<>>
          /\ pc' = "running"
          /\ hashBlock' = bestBlock /\ tip' = bestBlock
          /\ UNCHANGED <<cacheCoins, pending, failed>>
       \/ /\ headBlocks # <<>>
          /\ Readable(headBlocks[2], headBlocks[1])
          /\ LET replayed == Replayed(headBlocks[2], headBlocks[1])
             IN  /\ cacheCoins' = replayed.view
                 /\ pending' = {o \in Outpoints : IsDirty(replayed.view[o])}
                 /\ failed' = (failed \/ replayed.threw)
          /\ hashBlock' = headBlocks[1] /\ tip' = headBlocks[1]
          /\ pc' = "writing"
       \/ /\ headBlocks # <<>>
          /\ ~Readable(headBlocks[2], headBlocks[1])
          /\ pc' = "unreplayable"
          /\ UNCHANGED <<cacheCoins, hashBlock, tip, pending, failed>>
    /\ UNCHANGED <<db, bestBlock, headBlocks, onDisk, undo>>

\* A pruned block is downloaded again.
ReceiveBlock(b) ==
    /\ CsMainFree
    /\ b \notin onDisk
    /\ onDisk' = onDisk \cup {b}
    /\ UNCHANGED <<pc, db, bestBlock, headBlocks, undo, cacheCoins, hashBlock, tip,
                   pending, failed>>

\* The process ends, whatever it is doing; what is in memory is lost.
Crash ==
    /\ pc # "starting"
    /\ pc' = "starting"
    /\ cacheCoins' = EmptyMap
    /\ hashBlock' = Null /\ tip' = Null
    /\ pending' = {}
    /\ UNCHANGED <<db, bestBlock, headBlocks, onDisk, undo, failed>>

Next ==
    \/ \E b \in Blocks : ConnectTip(b)
    \/ DisconnectTip
    \/ UpdateTip
    \/ \E pruned \in SUBSET Blocks : FlushStateToDisk(pruned)
    \/ \E S \in SUBSET Outpoints : WritePartialBatch(S)
    \/ WriteFinalBatch
    \/ ReplayBlocks
    \/ \E b \in Blocks : ReceiveBlock(b)
    \/ Crash

Spec == Init /\ [][Next]_vars
-----------------------------------------------------------------------------
\* Whenever the database names a best block, it holds exactly that block's
\* unspent coins: however many writes and replays were cut short, wherever, and
\* whatever branches they were between, ReplayBlocks restores them.
StoredUtxoExact == bestBlock # Null => db = Utxo(bestBlock)

\* While the node runs, CoinsTip() shows exactly the unspent coins of the tip,
\* after any reorganisation and any recovery.
TipUtxoExact ==
    pc = "running" => TipCoins = (IF hashBlock = Null THEN NoCoins ELSE Utxo(hashBlock))

\* No assertion of UpdateCoins or BatchWrite fails, AddCoin and BatchWrite never
\* throw, no block is found unclean outside a replay and no valid block is refused.
NeverFails == ~failed

\* ReplayBlocks may find a block it needs deleted, because FlushStateToDisk
\* deletes pruned files before it writes the coins; but only if the chain was
\* more than MIN_BLOCKS_TO_KEEP blocks above the fork.  The chain may be a block
\* higher than the new head: DisconnectTip flushes before it calls UpdateTip.
ReplayableWithinKeep ==
    pc = "unreplayable" =>
        LET fork == LastCommonAncestor(headBlocks[2], headBlocks[1])
        IN  nHeight[headBlocks[1]] + 1 >
                MIN_BLOCKS_TO_KEEP + (IF fork = Null THEN 0 ELSE nHeight[fork])

\* Once a write is recorded as in transition between two tips, the database
\* keeps naming those two until it is consistent again.
HeadsKept == [][headBlocks # <<>> => headBlocks' \in {<<>>, headBlocks}]_headBlocks
=============================================================================

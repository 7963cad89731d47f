----------------------------- MODULE CoinsCache -----------------------------
(***************************************************************************)
(* The stack of coins views a chainstate works through: the coins database  *)
(* (CCoinsViewDB), the cache CoinsTip() over it, and the temporary cache    *)
(* ConnectTip, DisconnectTip and their likes put over CoinsTip() and flush  *)
(* into it or drop.  All of it runs under cs_main, so an operation is one   *)
(* step; only the top of the stack is changed while it exists.              *)
(*                                                                          *)
(* The database is written atomically here.  A write that a crash cuts      *)
(* short is the subject of CoinsReplay.                                     *)
(***************************************************************************)
EXTENDS Coins, FiniteSetsExt

CONSTANTS Outpoints, Blocks, Null

ASSUME CacheAssumption == Null \notin Blocks

VARIABLES db,               \* the coins of the database, Spent where it has none
          dbBest,           \* its DB_BEST_BLOCK
          cacheCoins,       \* the map of each cache
          hashBlock,        \* the best block of each cache, Null until known
          cachedCoinsUsage, \* the memory each cache believes its coins take
          open,             \* whether the temporary cache exists
          logic_error       \* whether an operation threw std::logic_error

vars == <<db, dbBest, cacheCoins, hashBlock, cachedCoinsUsage, open, logic_error>>

\* The caches, from the database upwards: CoinsTip() and the temporary view.
TipCache == 1
BlockView == 2
Levels == {TipCache, BlockView}

Top == IF open THEN BlockView ELSE TipCache

EmptyMap == [o \in Outpoints |-> NoEntry]

TypeOK ==
    /\ db \in [Outpoints -> Coin]
    /\ dbBest \in Blocks \cup {Null}
    /\ cacheCoins \in [Levels -> [Outpoints -> Slot]]
    /\ hashBlock \in [Levels -> Blocks \cup {Null}]
    /\ open \in BOOLEAN
    /\ logic_error \in BOOLEAN

\* A node may find any coins in its database.
Init ==
    /\ db \in [Outpoints -> Coin]
    /\ dbBest \in Blocks \cup {Null}
    /\ cacheCoins = [l \in Levels |-> EmptyMap]
    /\ hashBlock = [l \in Levels |-> Null]
    /\ cachedCoinsUsage = [l \in Levels |-> 0]
    /\ open = FALSE
    /\ logic_error = FALSE

\* The coin CoinsTip() shows, the coin below a level, and the coin it shows.
TipCoin(o) == Lookup(cacheCoins[TipCache][o], db[o])
Below(l, o) == IF l = TipCache THEN db[o] ELSE TipCoin(o)
View(l, o) == Lookup(cacheCoins[l][o], Below(l, o))

\* The best block a level reports, without remembering it.
TipBest == IF hashBlock[TipCache] = Null THEN dbBest ELSE hashBlock[TipCache]
BestBelow(l) == IF l = TipCache THEN dbBest ELSE TipBest
Best(l) == IF hashBlock[l] = Null THEN BestBelow(l) ELSE hashBlock[l]

\* FetchCoin at level l pulls the coin into every cache on its way up.
Fetched(l, o) ==
    [k \in Levels |->
        IF k > l THEN cacheCoins[k]
        ELSE [cacheCoins[k] EXCEPT ![o] = FetchCoin(cacheCoins[k][o], Below(k, o))]]

FetchUsage(l, o) ==
    [k \in Levels |->
        cachedCoinsUsage[k] +
            (IF cacheCoins[k][o] = NoEntry THEN SlotUsage(Fetched(l, o)[k][o]) ELSE 0)]
-----------------------------------------------------------------------------
\* GetCoin, HaveCoin, AccessCoin, HaveInputs: what they read is View(l, o);
\* what they do is fill the caches.
AccessCoin(l, o) ==
    /\ l <= Top
    /\ cacheCoins' = Fetched(l, o)
    /\ cachedCoinsUsage' = FetchUsage(l, o)
    /\ UNCHANGED <<db, dbBest, hashBlock, open, logic_error>>

\* A bug: AddCoin without its early return for an unspendable output.
AddCoinUnspendable(o, c, possible_overwrite) ==
    LET slot == cacheCoins[Top][o]
    IN  /\ possible_overwrite \/ View(Top, o) = Spent
        /\ cacheCoins' = [cacheCoins EXCEPT ![Top][o] =
                            AddCoinSlot(slot, c, possible_overwrite)]
        /\ cachedCoinsUsage' = [cachedCoinsUsage EXCEPT ![Top] =
                                  @ - SlotUsage(slot) + Usage[c]]
        /\ UNCHANGED <<db, dbBest, hashBlock, open, logic_error>>

\* AddCoin.  Its callers pass possible_overwrite for a coinbase and for a coin
\* HaveCoin reports; for any other new output ConnectBlock's BIP30 check, or
\* BIP34, has ruled an unspent version out.  An unspendable coin is not added.
AddCoin(o, c, possible_overwrite) ==
    LET slot == cacheCoins[Top][o]
    IN  /\ possible_overwrite \/ View(Top, o) = Spent
        /\ \/ /\ c \in Unspendable
              /\ UNCHANGED <<cacheCoins, cachedCoinsUsage, logic_error>>
           \/ /\ c \notin Unspendable
              /\ AddCoinThrows(slot, possible_overwrite)
              /\ logic_error' = TRUE
              /\ UNCHANGED <<cacheCoins, cachedCoinsUsage>>
           \/ /\ c \notin Unspendable
              /\ ~AddCoinThrows(slot, possible_overwrite)
              /\ cacheCoins' = [cacheCoins EXCEPT ![Top][o] =
                                  AddCoinSlot(slot, c, possible_overwrite)]
              /\ cachedCoinsUsage' = [cachedCoinsUsage EXCEPT ![Top] =
                                        @ - SlotUsage(slot) + Usage[c]]
              /\ UNCHANGED logic_error
        /\ UNCHANGED <<db, dbBest, hashBlock, open>>

\* EmplaceCoinInternalDANGER, while a snapshot fills an empty chainstate: each
\* outpoint once, and none of them in the database.
EmplaceCoinInternalDANGER(o, c) ==
    /\ ~open
    /\ cacheCoins[TipCache][o] = NoEntry /\ db[o] = Spent
    /\ c \notin Unspendable
    /\ cacheCoins' = [cacheCoins EXCEPT ![TipCache][o] = Entry(c, TRUE, FALSE)]
    /\ cachedCoinsUsage' = [cachedCoinsUsage EXCEPT ![TipCache] = @ + Usage[c]]
    /\ UNCHANGED <<db, dbBest, hashBlock, open, logic_error>>

\* A bug: SpendCoin forgets to give back the memory of the coin it clears.
SpendCoinLeaksUsage(o) ==
    /\ cacheCoins' = [Fetched(Top, o) EXCEPT ![Top][o] = SpendCoinSlot(@)]
    /\ cachedCoinsUsage' = FetchUsage(Top, o)
    /\ UNCHANGED <<db, dbBest, hashBlock, open, logic_error>>

\* SpendCoin: fetch, then erase a FRESH entry or leave a DIRTY spent one.
SpendCoin(o) ==
    /\ cacheCoins' = [Fetched(Top, o) EXCEPT ![Top][o] = SpendCoinSlot(@)]
    /\ cachedCoinsUsage' = [FetchUsage(Top, o) EXCEPT ![Top] =
                              @ - SlotUsage(Fetched(Top, o)[Top][o])]
    /\ UNCHANGED <<db, dbBest, hashBlock, open, logic_error>>

\* GetBestBlock remembers the base's answer at every level it asks.
GetBestBlock(l) ==
    /\ l <= Top
    /\ hashBlock' = [k \in Levels |-> IF k <= l THEN Best(k) ELSE hashBlock[k]]
    /\ UNCHANGED <<db, dbBest, cacheCoins, cachedCoinsUsage, open, logic_error>>

SetBestBlock(b) ==
    /\ hashBlock' = [hashBlock EXCEPT ![Top] = b]
    /\ UNCHANGED <<db, dbBest, cacheCoins, cachedCoinsUsage, open, logic_error>>

\* A temporary view is constructed over CoinsTip() ...
OpenView ==
    /\ ~open
    /\ open' = TRUE
    /\ UNCHANGED <<db, dbBest, cacheCoins, hashBlock, cachedCoinsUsage, logic_error>>

\* ... and destroyed: what was not flushed is forgotten.
DropView ==
    /\ open
    /\ open' = FALSE
    /\ cacheCoins' = [cacheCoins EXCEPT ![BlockView] = EmptyMap]
    /\ hashBlock' = [hashBlock EXCEPT ![BlockView] = Null]
    /\ cachedCoinsUsage' = [cachedCoinsUsage EXCEPT ![BlockView] = 0]
    /\ UNCHANGED <<db, dbBest, logic_error>>

\* What BatchWrite adds to the tip cache's usage, entry by entry.
BatchUsage(child, tip) ==
    MapThenSumSet(LAMBDA o : BatchWriteUsage(child[o], tip[o]), Outpoints)

\* The temporary view's BatchWrite into CoinsTip().  ConnectBlock and
\* DisconnectBlock have set its best block.
BatchWriteTip(kept, usage) ==
    LET child == cacheCoins[BlockView]
        tip == cacheCoins[TipCache]
    IN  /\ open
        /\ hashBlock[BlockView] # Null
        /\ IF \E o \in Outpoints : FreshMisapplied(child[o], tip[o])
           THEN /\ logic_error' = TRUE
                /\ UNCHANGED <<cacheCoins, hashBlock, cachedCoinsUsage>>
           ELSE /\ cacheCoins' =
                     [l \in Levels |->
                        IF l = TipCache
                        THEN [o \in Outpoints |-> BatchWriteSlot(child[o], tip[o])]
                        ELSE kept]
                /\ hashBlock' = [hashBlock EXCEPT ![TipCache] = hashBlock[BlockView]]
                /\ cachedCoinsUsage' =
                     [l \in Levels |->
                        IF l = TipCache
                        THEN cachedCoinsUsage[l] + BatchUsage(child, tip)
                        ELSE usage]
                /\ UNCHANGED logic_error
        /\ UNCHANGED <<db, dbBest, open>>

\* Flush of the temporary view empties it, Sync keeps its unspent coins.
FlushView == BatchWriteTip(EmptyMap, 0)

SyncView ==
    BatchWriteTip([o \in Outpoints |-> SyncSlot(cacheCoins[BlockView][o])],
                  cachedCoinsUsage[BlockView])

\* CoinsTip()'s BatchWrite into the database; FlushStateToDisk skips it while
\* there is no best block (its GetBestBlock is part of the step).
BatchWriteDatabase(kept, usage) ==
    /\ ~open
    /\ TipBest # Null
    /\ db' = [o \in Outpoints |-> BatchWriteDB(cacheCoins[TipCache][o], db[o])]
    /\ dbBest' = TipBest
    /\ cacheCoins' = [cacheCoins EXCEPT ![TipCache] = kept]
    /\ hashBlock' = [hashBlock EXCEPT ![TipCache] = TipBest]
    /\ cachedCoinsUsage' = [cachedCoinsUsage EXCEPT ![TipCache] = usage]
    /\ UNCHANGED <<open, logic_error>>

FlushTip == BatchWriteDatabase(EmptyMap, 0)

SyncTip ==
    BatchWriteDatabase([o \in Outpoints |-> SyncSlot(cacheCoins[TipCache][o])],
                       cachedCoinsUsage[TipCache])

\* A bug: Uncache also evicts coins whose change has not been written.
UncacheDirty(o) ==
    /\ ~open
    /\ cacheCoins[TipCache][o] # NoEntry
    /\ cacheCoins' = [cacheCoins EXCEPT ![TipCache][o] = NoEntry]
    /\ cachedCoinsUsage' = [cachedCoinsUsage EXCEPT ![TipCache] =
                              @ - SlotUsage(cacheCoins[TipCache][o])]
    /\ UNCHANGED <<db, dbBest, hashBlock, open, logic_error>>

\* Uncache, for the coins a rejected transaction made the tip cache fetch.
Uncache(o) ==
    /\ ~open
    /\ CanUncache(cacheCoins[TipCache][o])
    /\ cacheCoins' = [cacheCoins EXCEPT ![TipCache][o] = NoEntry]
    /\ cachedCoinsUsage' = [cachedCoinsUsage EXCEPT ![TipCache] =
                              @ - SlotUsage(cacheCoins[TipCache][o])]
    /\ UNCHANGED <<db, dbBest, hashBlock, open, logic_error>>

\* The process ends and starts again over the same database.
Restart ==
    /\ cacheCoins' = [l \in Levels |-> EmptyMap]
    /\ hashBlock' = [l \in Levels |-> Null]
    /\ cachedCoinsUsage' = [l \in Levels |-> 0]
    /\ open' = FALSE
    /\ UNCHANGED <<db, dbBest, logic_error>>

Next ==
    \/ \E l \in Levels, o \in Outpoints : AccessCoin(l, o)
    \/ \E o \in Outpoints, c \in Coins, po \in BOOLEAN : AddCoin(o, c, po)
    \/ \E o \in Outpoints, c \in Coins : EmplaceCoinInternalDANGER(o, c)
    \/ \E o \in Outpoints : SpendCoin(o)
    \/ \E l \in Levels : GetBestBlock(l)
    \/ \E b \in Blocks : SetBestBlock(b)
    \/ OpenView
    \/ DropView
    \/ FlushView
    \/ SyncView
    \/ FlushTip
    \/ SyncTip
    \/ \E o \in Outpoints : Uncache(o)
    \/ Restart

Spec == Init /\ [][Next]_vars
-----------------------------------------------------------------------------
\* FRESH and DIRTY mean what CCoinsCacheEntry says of them: a FRESH coin is
\* absent or spent below, and an entry that is not DIRTY shows what is below.
\* A flag that lies here loses a spend or resurrects a coin only at some later
\* flush.
FlagsSound ==
    \A l \in Levels, o \in Outpoints :
        LET slot == cacheCoins[l][o]
        IN  slot # NoEntry =>
                /\ slot.fresh => Below(l, o) = Spent
                /\ ~slot.dirty => slot.coin = Below(l, o)

\* The combinations of flags SanityCheck asserts: of the eight, an unspent
\* entry that is FRESH without DIRTY, a spent one without flags and a spent one
\* with both never occur, and neither does the spent FRESH one, which only a
\* base that returns spent coins could produce.
SanityCheck ==
    \A l \in Levels, o \in Outpoints :
        LET slot == cacheCoins[l][o]
        IN  slot # NoEntry =>
                IF slot.coin = Spent THEN slot.dirty /\ ~slot.fresh
                ELSE slot.fresh => slot.dirty

\* The second half of SanityCheck: after any sequence of operations the running
\* total cachedCoinsUsage, which decides when the cache is flushed, is the
\* memory of the coins in the map.
UsageExact ==
    \A l \in Levels :
        cachedCoinsUsage[l] = MapThenSumSet(LAMBDA o : SlotUsage(cacheCoins[l][o]), Outpoints)

\* Callers that keep AddCoin's contract never meet one of the logic_errors of
\* AddCoin and BatchWrite.
NoLogicError == ~logic_error

\* What only moves coins between the levels: reads, flushes and evictions.
Housekeeping ==
    \/ \E l \in Levels, o \in Outpoints : AccessCoin(l, o)
    \/ \E l \in Levels : GetBestBlock(l)
    \/ FlushView \/ SyncView \/ FlushTip \/ SyncTip
    \/ \E o \in Outpoints : Uncache(o)

\* A read, a flush or an eviction never changes a coin the topmost view shows:
\* Uncache loses no unwritten change, and no flush loses a spend.
HousekeepingInvisible ==
    [][Housekeeping => \A o \in Outpoints : View(BlockView, o)' = View(BlockView, o)]_vars

\* A view that does not exist holds nothing.
ClosedIsEmpty ==
    ~open => cacheCoins[BlockView] = EmptyMap /\ hashBlock[BlockView] = Null

\* The inductive invariant behind the properties above and the refinement.
IInv == TypeOK /\ ClosedIsEmpty /\ FlagsSound /\ SanityCheck /\ NoLogicError

Ledger == INSTANCE UtxoLedger
    WITH disk <- db,
         tip <- [o \in Outpoints |-> View(TipCache, o)],
         block <- [o \in Outpoints |-> View(BlockView, o)],
         diskBest <- dbBest,
         tipBest <- Best(TipCache),
         blockBest <- Best(BlockView)

\* The caches are invisible: whatever is fetched, evicted, flushed or synced
\* and whenever, callers see the three plain UTXO maps of UtxoLedger, a flush
\* makes exactly what the tip shows durable, and a dropped view leaves nothing.
LedgerSpec == Ledger!Spec
=============================================================================

# TLA+ models of the BlakeBitcoin node

BlakeBitcoin is a Bitcoin Core 25.2 node with Blake-256 proof of work and
merged mining (AuxPoW, chain ID 5, from height 500000). This directory holds
TLA+ models of the parts of the node whose correctness depends on the order in
which things happen: the coins caches and their database, the block index and
the choice of the active chain, and the merged-mining RPCs. TLC checks the models
on small instances. TLAPS proves the central invariants of the coins cache and of
the merged-mining cache for every instance.

Paths below are relative to the repository, so `src/validation.cpp` is the C++
source. `PROJECT.json` lists components, runs, mutants, theorems, hazards, and
for each definition the source lines it models.

    tlc -workers 2 -config MCCoinsCache.cfg MCCoinsCache     # a run
    tlapm CoinsCacheProofs.tla                               # a proof module

## 1. The system

### 1.1 Parts and how they interact

| Part | Source | State | What changes it |
|---|---|---|---|
| Coins cache | `coins.cpp`, `coins.h` | coins with FRESH and DIRTY flags, best block, memory count, one map per view | validation adds and spends coins; flushes move them one level down |
| Coins database | `txdb.cpp` | coins, `DB_BEST_BLOCK`, `DB_HEAD_BLOCKS` | `BatchWrite`, in several batches |
| Block index and chainstate | `validation.cpp`, `node/blockstorage.cpp`, `chain.cpp` | `m_block_index`, `setBlockIndexCandidates`, `m_blocks_unlinked`, `m_failed_blocks`, the active chain | headers and blocks from peers, `ActivateBestChain`, `invalidateblock`, `reconsiderblock`, `preciousblock`, pruning, restart |
| Merged-mining RPC | `rpc/auxpow_miner.cpp` | work handed out, its parent, an extra nonce | `createauxblock`, `submitauxblock`, `getauxblock` |
| AuxPoW and PoW rules | `auxpow.cpp`, `pow.cpp` | none | pure checks, retarget every 8064 blocks |
| Version bits | `versionbits.cpp` | cache of deployment states per block | looked up while blocks are validated and templates made |
| Mempool | `txmempool.cpp`, `policy/` | transactions with ancestor and descendant totals | accepted transactions, blocks, reorganizations, expiry |
| P2P processing | `net_processing.cpp`, `txrequest.cpp`, `txorphanage.cpp`, `headerssync.cpp`, `blockencodings.cpp` | per-peer download state, request tracker, orphans, presync | messages and timers |
| Connections, addresses | `net.cpp`, `addrman.cpp`, `banman.cpp` | sockets, new and tried tables | connection threads |
| Check queue | `checkqueue.h` | a queue of script checks and its workers | `ConnectBlock` |
| Scheduler, validation interface | `scheduler.cpp`, `validationinterface.cpp` | queue of callbacks | validation queues, one thread runs |
| Optional indexes | `index/` | a best block of their own | validation interface, own thread |
| Wallet, RPC, GUI, crypto, LevelDB | `wallet/`, `rpc/`, `qt/`, `crypto/`, `leveldb/` | see PROJECT.json | not modelled |

A block goes through them like this. `ProcessNewBlock` stores it in the block
index (`AcceptBlock`) and calls `ActivateBestChain`, which picks the best
candidate and, block by block, disconnects and connects. Each such step opens a
temporary `CCoinsViewCache` over the tip cache, changes it, flushes it down and
goes on. Now and then `FlushStateToDisk` deletes pruned block files, writes the
dirty index entries, and writes the tip cache to the coins database. At the next start
`LoadBlockIndex` restores the index, `ReplayBlocks` finishes an interrupted coins
write, and `LoadChainTip` sets the tip. The merged-mining RPCs take a template on
the tip, hand out the hash of a block, and later put the solved block into
`ProcessNewBlock`, listening on the validation interface for its verdict.

Three locks matter. `cs_main` protects the index and the chain,
`m_chainstate_mutex` keeps `ActivateBestChain` and `InvalidateBlock` apart, and
`g_auxpow_mutex` protects the work handed out. All the long operations let go of
`cs_main` in the middle.

### 1.2 What is hard here

The hazards are in PROJECT.json at the lines where they bite. In short:

- A wrong FRESH or DIRTY flag does nothing at once; it loses a spend or
  brings back a coin some flushes later, perhaps in another view.
- `setBlockIndexCandidates` and `m_blocks_unlinked` are kept up incrementally
  by a dozen functions; blocks arrive before their parents, twice, pruned and
  again; `invalidateblock` works in steps with others in between.
- A reorganization can meet an invalid block half way and must not leave the
  node on a worse chain when it lets go of the lock.
- The index and the coins are different databases, and the coins are written in
  many batches: the process can die between any two writes, also during recovery.
- Pruning deletes data that recovery and reorganizations need.
- The RPC threads read the tip under one lock and fill the cache under another.

### 1.3 What should be true

Callers of the coins views see plain UTXO maps; the active chain is the best valid
chain the node has everything for; a crash loses at most what was not written; no
internal assertion fails; the merged-mining work in the cache is distinct and
`true` means the block was connected.

## 2. The modules

| Module | Role |
|---|---|
| `Coins` | one slot of a cache map: fetching, adding, spending, writing down, memory use |
| `UtxoLedger` | abstract specification: three plain UTXO maps |
| `CoinsCache` | the stack database, tip cache, block view; implements `UtxoLedger` |
| `CoinsCacheProofs` | theorems about `CoinsCache` |
| `BlockTree` | the tree of headers, heights, work, the candidate order (constants) |
| `Chainstate` | block index, candidates, activation, operator commands, pruning, crash |
| `CoinsReplay` | composition of `Coins` and `BlockTree`: connecting and disconnecting blocks, batched writes, replay |
| `AuxPowMiner` | merged-mining RPC threads over a small chain |
| `AuxPowMinerProofs` | theorems about `AuxPowMiner` |
| `MC...` | instances for TLC |

### 2.1 CoinsCache

`cacheCoins[l]`, `hashBlock[l]` and `cachedCoinsUsage[l]` are the members of the
`CCoinsViewCache` at level `l`: `TipCache` over the database, `BlockView` over
the tip cache. `db` and `dbBest` are what the database shows. `open` says whether
the temporary view exists: while it does, only it is written to. `logic_error`
records that a `std::logic_error` would have been thrown.

Each public operation is an action: `AccessCoin` (every reading operation goes
through `FetchCoin`), `AddCoin`, `EmplaceCoinInternalDANGER`, `SpendCoin`,
`GetBestBlock` (which caches the value), `SetBestBlock`, `FlushView` and
`SyncView` (`Flush` and `Sync` into the tip cache, through `BatchWrite`),
`FlushTip` and `SyncTip` (into the database), `Uncache`, and `OpenView`,
`DropView`, `Restart` for the life of the objects. A coin is a model value; the
three things the code asks of it are whether it is spent, whether it is
unspendable and how much memory it takes.

AddCoin's contract ("Set possible_overwrite to true if an unspent version may
already exist in the cache", coins.h:266) is a guard: callers that break it get a `logic_error`,
which is the code's way of reporting them. `EmplaceCoinInternalDANGER` is used
only while a snapshot is loaded, into a cache and a base without the coin.

### 2.2 Chainstate

The persistent fields of `CBlockIndex` are sets and functions over blocks in one
record `idx`, so that the copy on disk (`disk`) has the same shape. `linked`
is `nChainTx != 0`. `abc` and `inv` are the locals of the thread inside
`ActivateBestChain` and of the one inside `InvalidateBlock`. A loop that runs with
`cs_main` held takes one action per iteration with `CsMainFree` false, so no other
thread interferes, but a crash can.

| Action | Code |
|---|---|
| `ProcessNewBlockHeader`, `ProcessNewBlock` | `AcceptBlockHeader`, `AcceptBlock`, `ReceivedBlockTransactions` |
| `LockForRound`, `DiscardCandidate`, `ChooseTarget`, `StopActivation` | `ActivateBestChain`, `FindMostWorkChain`, the shutdown between two rounds |
| `StepDisconnectTip`, `StepConnectTip` | `ActivateBestChainStep` with `DisconnectTip`, `ConnectTip`, `InvalidBlockFound`, `PruneBlockIndexCandidates` |
| `InvalidateBlock`, `InvalidateDisconnectTip`, `InvalidateMark`, `InvalidateFinish` | `InvalidateBlock` |
| `ResetBlockFailureFlags`, `PreciousBlock` | the functions of these names |
| `WriteIndex`, `FlushIndex`, `FlushCoins` | `FlushStateToDisk` with pruning |
| `Restart` | a kill at any point, then `LoadBlockIndex`, `LoadChainTip` |

Each behaviour takes place in one of the `Worlds` of its run, held in `world`:
the blocks that are mined, those of them that `ConnectBlock` refuses, and how
often each operation may still happen. `BadContent` fails `ContextualCheckBlock`
in every world. `owed` records that somebody who changed the index is about to
call `ActivateBestChain`, as every caller in the code does.

`CheckBlockIndex` takes `cs_main`, and its callers (validation.cpp:3245, 3391,
3973, 4031, 4100) may be in any thread, so it can see every state in which
`cs_main` is free. `Checkpoint` says just that, and the properties that restate
its assertions hold at every `Checkpoint`, also in the middle of an
`invalidateblock`. The one exception, `CandidatesRepaired`, carries its
restriction in its own statement; what happens without it is the run
`invalidate_half_way`.

A flush inside `ConnectTip` or `DisconnectTip` comes before `UpdateTip`, so it
sees the height of the old chain (`ChainHeight`). `MaybeUpdateMempoolForReorg`
flushes periodically with `cs_main` held (`UpdatesMempool`).

### 2.3 CoinsReplay

A block is a sequence of transactions, a transaction its inputs and outputs, a
coin its outpoint and height. `ConnectBlock`, `DisconnectBlock`,
`ApplyTxInUndo`, `UpdateCoins` and `RollforwardBlock` are folds over these
through the operators of `Coins`. `FlushStateToDisk` prunes and starts a write;
`WritePartialBatch` writes any nonempty part of what is left, `WriteFinalBatch`
the rest and the best block; `Crash` may come anywhere; `ReplayBlocks` runs at the
start when `DB_HEAD_BLOCKS` is set. The reference `Utxo(b)` is defined from the
chain alone, without replaying it: the last version of each outpoint, unless a
later block spends it. Clean cache entries are left out, which is what `CoinsCache`
justifies: fetching and evicting change nothing a caller sees. For the exception
that `BatchWrite` throws over a misapplied FRESH flag the tip cache is taken to
hold every coin of the database, which is the worst case.

`tip` is `m_chain.Tip()` and follows `hashBlock` in `UpdateTip`; a flush may come in
between, and pruning goes by the height of `tip`. `Legacy` stands for every
exemption from BIP30: the blocks of `IsBIP30Repeat` lie below mainnet's
BIP34Height, where `ConnectBlock` does not check anyway, and the rule that ends
the check at a known `BIP34Hash` never applies, since that hash is null on all
networks (kernel/chainparams.cpp:104, 265, 404, 483).

### 2.4 AuxPowMiner

A block is its parent and an extra nonce. A `createauxblock` is two steps
(template under `cs_main`, cache under `g_auxpow_mutex`); a `submitauxblock` is up
to five (cache, index lookup and registration of the state catcher, `AcceptBlock`,
`ActivateBestChain`, answer). In the code the registration comes just after the
lookup has released `cs_main`; the model joins the two. Any number of threads run them; other blocks
arrive, and `invalidateblock` fails blocks. When the cache is full the map's first
entry goes: hashes are arbitrary, so that may be any entry. The only thing wrong
with a submitted block may be its payload (`solved`); how `CheckBlock` finds that
out is left out, and so are blocks that `ConnectBlock` refuses.

## 3. The runs

Every property of a passing run has a mutant in PROJECT.json: a plausible bug in
the modelled code with which TLC finds that property violated. The mutated forms
stand in the modules just before the definition they replace, marked as such.

| Run | Distinct states | Instance |
|---|---|---|
| `coins_cache` | 46,040 | 2 outpoints, 2 spendable coins of different size, 1 unspendable, 2 blocks; symmetric in outpoints and blocks |
| `chainstate` | 7,581 | tree of 7 blocks: branches of two and three, a dead end; one block fails `ConnectBlock`, one `ContextualCheckBlock`; two blocks listed per inner loop |
| `chainstate_steering` | 90,385 | two branches of two; one `invalidateblock`, one `preciousblock` |
| `chainstate_operating` | 154,117 | four worlds of three blocks: a chain of two and an invalid block beside it with one `invalidateblock`, one `reconsiderblock`, one pruning and one shutdown; and a block against a branch of two (valid, invalid at its first, invalid at its second block) with one index write, one flush, one kill and restart |
| `chainstate_pruning` | 95,779 | branches of two and three; one pruning, blocks come again |
| `coins_replay` | 72,930 | tree of 6 blocks, 6 outpoints, any number of flushes, replays and crashes |
| `auxpow_miner` | 1,299,368 | 2 threads, cache of 1, chains of 2, one invalidation |

**coins_cache.** `FlagsSound`: a FRESH coin is absent or spent below, a coin
that is not DIRTY equals what is below. `SanityCheck` and `UsageExact` are the
two halves of the code's own `SanityCheck`. `NoLogicError`: no caller
that keeps the contract meets an exception. `HousekeepingInvisible`: reads, flushes
and evictions change nothing a caller sees. `LedgerSpec`: the whole stack
implements `UtxoLedger`. Coins and outpoints do not interact except through the
flush of whole maps, which two outpoints show; three levels are all that
validation ever stacks for writing.

**chainstate.** `StatusConsistent`, `LinkedExact`, `CandidatesExact` and
`UnlinkedExact` are the assertions of `CheckBlockIndex`, which release builds do not
run. `BestChainAtRest`: when nobody works on the chain, the tip is the best of what
the node has everything for. `ForwardProgress`: a round of `ActivateBestChain` never
lets go of `cs_main` on a chain worse than it began with, also when the better
chain proved invalid half way. `ReachesBestChain` (liveness): a complete valid
chain is reached or beaten.

**chainstate_steering.** An operator invalidates a block and prefers another as
blocks arrive. `CandidatesRepaired`: whenever no `invalidateblock` is under way
the candidates are exact, although blocks arrived while it was. With
`TipNeverFailed`, `BestChainAtRest` and `ForwardProgress`.

**chainstate_operating.** In the first world `invalidateblock` is overtaken by
`reconsiderblock` of the same, a lower or a higher block, meets a pruned block
and gives up, or is cut short by a shutdown: flags (`StatusConsistent`),
`m_failed_blocks` and the active chain stay consistent at every moment. In the
others the process is killed anywhere around a reorganization.
`CoinsNeverAheadOfIndex`: at any moment the index on disk has everything the
coins on disk refer to. `DirtyEntriesSuffice`: every change of an entry was
marked dirty, or is recomputed at load. `CandidatesNonEmpty`: the assertion of
`PruneBlockIndexCandidates` holds after every restart.

**chainstate_pruning.** `AbortOnlyOnDeepReorg`: missing data stops the node only
in a reorganization deeper than the blocks pruning keeps. `CandidateKeyStable`: no
block is renumbered while it is in the set ordered by that number. `UnlinkedOnce`:
`FindMostWorkChain` never lists a block twice.

**coins_replay.** `StoredUtxoExact`: whenever the database names a best block it
holds exactly that block's coins, however many writes and replays were cut
short. `TipUtxoExact`: the same of what `CoinsTip()` shows. `NeverFails`: no
assertion, exception or unclean disconnect. `HeadsKept`: a transition keeps its
two ends until it is over. `ReplayableWithinKeep`: a replay fails for want of
a pruned block only if the chain was more than `MIN_BLOCKS_TO_KEEP` blocks above
the fork; for a flush inside `DisconnectTip` that is one block more than the
interrupted write spans. The instance has a transaction confirmed at different heights on two
branches, a spend inside the block that creates the coin, an unspendable
output, and a coinbase repeated after its first output was spent.

**auxpow_miner.** `WorkDistinct`, `TrueMeansConnected`, and `CreditedOnce`: of
the threads that submit a solution for the same block, no second one is told `true`.

### 3.1 Disagreements between the code and what it says of itself

Five runs expect a violation.

- `invalidate_half_way`: `InvalidateBlock` wants to "keep the block index in a
  consistent state as we disconnect blocks" (validation.cpp:3305) and collects
  the possible candidates once, before its loop. A block b1 that arrives
  afterwards, while a1 of the same work is the tip, is worse than a1 and becomes no
  candidate. When a1 is disconnected b1 is better than the new tip and still
  none. `CheckBlockIndex`, which `InvalidateBlock` calls before its repairing pass
  (3391) and which every arriving header or block may call between two of its
  steps (3973, 4031, 4100), then fails its assertion at 4901. The comment at
  3406-3410 knows of the inconsistency and calls it essentially unobservable; with
  `-checkblockindex`, on by default in regtest, it is not.
- `invalidate_children`: a comment in `InvalidateBlock` (validation.cpp:3369)
  says that only the last disconnected block keeps BLOCK_FAILED_VALID. The
  condition above it compares the wrong pair of blocks, so all of them keep it.
  `reconsiderblock` clears the flags of ancestors and descendants alike, so
  the difference shows only in the flags.
- `reconsider`: the help of `reconsiderblock` (rpc/blockchain.cpp:1567) says that
  ancestors are reconsidered for activation. Their flags are cleared, but only the
  block and its descendants become candidates: if the ancestor has data and the
  block does not, the ancestor is not activated until something else happens.
- `invalidate_then_crash`: after `invalidateblock`, a periodic index write and a
  crash before the coins are written, the coins database names a tip that the index has
  as failed; `LoadChainTip` then reaches the assertion of
  `PruneBlockIndexCandidates` (validation.cpp:2999) with nothing left.
- `auxpow_stale_work`: a `createauxblock` whose template was made before a
  new tip arrived, and which gets the mutex late, clears the work another
  thread has handed out for the new tip. A test says "new-tip work remains
  mineable" (test/functional/feature_auxpow_mining.py:75).

### 3.2 Observations without a run

- A block that arrives while its parent, known by header only, is invalidated is
  not put into `m_blocks_unlinked` (3501), and later `reconsiderblock` and the
  arrival of the parent do not link it. `UnlinkedExact` is therefore claimed of
  `chainstate`, where no operator acts.
- Pruning drops a waiting block from `m_blocks_unlinked` (blockstorage.cpp:136).
  When its parent then arrives, every ancestor has had data but the block is
  not linked. `LinkedExact` is therefore not claimed of `chainstate_pruning`.
- After a restart a pruned block can be listed in `m_blocks_unlinked`
  (blockstorage.cpp:280) without data.
- `InvalidateBlock` returns early when a block cannot be disconnected (3356) and
  skips the pass that repairs the candidates: `CandidatesRepaired` is not claimed
  where blocks are pruned.
- `InvalidateBlock` can walk back to a block whose data was pruned, and its last
  pass (3413-3416) inserts blocks without looking at their data. When such a block
  is received again, `ReceivedBlockTransactions` renumbers it inside the ordered
  set. It takes a walk deeper than the kept blocks. `CandidateKeyStable` is
  therefore claimed of `chainstate_pruning`, where nothing is invalidated.
- `FlushStateToDisk` deletes pruned files (2563) before it writes the coins.
  When that leaves a replay without its blocks, the message asks for
  `-reindex-chainstate` (node/chainstate.cpp), which init.cpp:905 refuses in
  prune mode.
- Catchers of `submitauxblock` are told apart by block hash. A thread that submits
  an unsolved payload for the same hash at the same time shares its verdict with
  the other thread, in both directions. `CreditedOnce` is about solved payloads.
- The extra nonce starts again when a parent comes back after a reorganization.
  `WorkDistinct` speaks of the work in the cache, which was cleared by then.

### 3.3 Bounds, deadlock and fairness

`Worlds` bounds how often each operation happens, so that the commands are
combined but not repeated without end; one of each is enough for every
overtaking the hazards describe. It also says which blocks of the tree are mined,
so that one run can look at several small trees. After a shutdown was requested
the model goes on like a node that has not stopped yet. `ConnectBatch` stands for the 32 blocks that
`ActivateBestChainStep` lists at a time; 2 in one run, so that the loop is
entered again. `MIN_BLOCKS_TO_KEEP` (288) is 1 or 2 so that a reorganization can
go deeper. `MAX_AUXPOW_BLOCK_CACHE` (128) is 1, so that every request meets the
limit, and 2 in the violation run, where it must not be met. `MaxHeight`,
`MaxBlocks`, `MaxFailed` and `MaxExtraNonce` bound the chains and the
requests of `AuxPowMiner`.

A node with nothing left to receive stops, and so do the bounded models:
deadlock is not checked in `Chainstate` and `AuxPowMiner`. It is in
`CoinsCache` and `CoinsReplay`, where some operation is always possible.

`Fairness` in `Chainstate` is weak fairness of the steps of a thread already
inside `ActivateBestChain` or `InvalidateBlock`, or owing such a call, and of
finishing a flush. These are loops of running threads that wait only for locks
whose holders finish. Nothing is assumed of peers or operators. The other
modules are checked for safety only.

## 4. The proofs

### 4.1 CoinsCacheProofs

For any sets of outpoints, coins and blocks, from the assumption of `Coins`
that `Spent` and `NoEntry` are not coins or entries and that `Usage` is a
number:

| Theorem | Statement |
|---|---|
| `Invariance` | `Spec => []IInv` |
| `TypeCorrect` | `Spec => []TypeOK` |
| `FlagsAlwaysSound` | `Spec => []FlagsSound` |
| `SanityCheckHolds` | `Spec => []SanityCheck` |
| `NeverThrows` | `Spec => []NoLogicError` |
| `CachesAreInvisible` | `Spec => LedgerSpec`, the refinement of `UtxoLedger` |
| `HousekeepingNeverShows` | `Spec => HousekeepingInvisible` |

None of these is inductive alone. That a flush loses nothing needs `FlagsSound`
(a FRESH spent coin may be dropped only because nothing is below it); that
`FlagsSound` survives a flush needs `SanityCheck` (an entry with no flags is not
written, so it must not be spent); that `BatchWrite` does not throw needs
`FlagsSound` of both levels; and the life cycle of the view needs
`ClosedIsEmpty`. `IInv` is their conjunction.

The proof works slot by slot. `SlotOK(slot, below)` says of one map entry what
`IInv` says of all, and the first lemmas show that fetching, adding, spending,
writing down and syncing keep it (`FetchSlot`, `AddSlot`, `SpendSlot`,
`BatchWriteParent`, `SyncSlotOK`, `BatchWriteStores`). One lemma per action
(`AccessCoinStep` to `RestartStep`) then establishes at once that `IInv` is
kept, that the step maps to a step of `UtxoLedger` or to none, and
that housekeeping does not show. `StepGood` puts them together.

### 4.2 AuxPowMinerProofs

For any number of threads, any cache size and any bounds:

| Theorem | Statement | Invariant |
|---|---|---|
| `WorkAlwaysDistinct` | `Spec => []WorkDistinct` | `CacheInv`: with the nonce a natural number |
| `TrueAlwaysMeansConnected` | `Spec => []TrueMeansConnected` | `CallInv`: a catcher that has seen a valid block has its own block among the connected ones, at every step of a call |

`TrueMeansConnected` speaks of the moment of the answer. It is inductive only
when it is said of every step, because the verdict may have come from another
thread's activation long before. The lemma `BlockCheckedTruthful` is the core: a
positive verdict reaches only catchers for the blocks reported, and these have
just been connected.

### 4.3 Only model-checked

`UsageExact` (a sum over a set, which needs induction), everything about
`Chainstate` and `CoinsReplay`, and `CreditedOnce`, which needs induction
along the chain. Liveness (`ReachesBestChain`) is outside what the
proof system handles.

## 5. Not modelled

- Validity of scripts and transactions: constants of a block here.
- The second chainstate of assumeutxo; reindexing; the layout of block files
  (pruning picks any set of blocks deep enough, which includes all that whole
  files can give).
- The mempool, also its updates in `ConnectTip` and `DisconnectTip`, but for the
  flush they may cause.
- Undo data written by older versions without heights (validation.cpp:1877-1888),
  and the checks that undo data fits its block (1912-1915, 1953-1956).
- `CCoinsViewCache::Sync` is modelled, but only tests call it in this version.
- Initial download: `Init` is a synced node, so the limits for unrequested blocks
  are those of a synced node.
- Hashing, serialization and LevelDB: a batch is taken to be written whole or not
  at all, which is what `CDBWrapper::WriteBatch` relies on.
- A duplicate of a coinbase that is still unspent, possible below BIP34Height on
  this chain: disconnecting the later one does not restore the earlier
  (validation.cpp:1923). It is listed as a hazard and is not in the instance of
  `coins_replay`.
- The wallet, the GUI, the RPC and REST servers beyond the commands above.

## 6. Plan

The order is that of importance; each item is a module with its runs and, where
it is marked (P), theorems.

1. Done: `CoinsCache` (P), `Chainstate`, `CoinsReplay`, `AuxPowMiner` (P).
2. `Chainstate` (P): type correctness, `FailedBlocksMarked`, `TipNeverFailed`,
   `CoinsNeverAheadOfIndex`. `CoinsReplay` (P): `HeadsKept`.
3. AuxPoW and proof of work as pure algorithms: `CAuxPow::Check` with the
   Merkle branches, and `CalculateNextWorkRequired`, against reference definitions.
4. `VersionBits` (P): the cached state of a deployment against the rule, over
   reorganizations (period 8064, Taproot with a minimum activation height).
5. `CheckQueue` (P): verdict and termination of the worker pool.
6. `TxRequest` (P): at most one request in flight per transaction, an abstract
   specification (the reference in its fuzz test) and the indexed implementation.
7. `ValidationInterface` and `Scheduler`: callbacks in order, one at a time, and
   `BaseIndex` catching up with a chain that moves.
8. `HeadersSync`, `TxOrphanage`, mempool totals, `AddrMan`, eviction.

-------------------------- MODULE CoinsCacheProofs --------------------------
(***************************************************************************)
(* Proofs about CoinsCache, for every set of outpoints, coins and blocks:   *)
(* IInv is an inductive invariant, and with it every step of the caches is  *)
(* a step of UtxoLedger or changes nothing UtxoLedger can see.              *)
(***************************************************************************)
EXTENDS CoinsCache, TLAPS

USE DEF TipCache, BlockView, Levels

-----------------------------------------------------------------------------
(* What the slot operators return.                                           *)

\* The entry constructor of CCoinsCacheEntry yields an entry, and never end().
LEMMA EntryType ==
    ASSUME NEW c \in Coin, NEW d \in BOOLEAN, NEW f \in BOOLEAN
    PROVE  /\ Entry(c, d, f) \in CCoinsCacheEntry
           /\ Entry(c, d, f) # NoEntry
           /\ Entry(c, d, f).coin = c
           /\ Entry(c, d, f).dirty = d
           /\ Entry(c, d, f).fresh = f
BY CoinsAssumption DEF Entry, CCoinsCacheEntry

\* A slot is end() or an entry with a coin and two flags.
LEMMA SlotFields ==
    ASSUME NEW s \in Slot, s # NoEntry
    PROVE  s.coin \in Coin /\ s.dirty \in BOOLEAN /\ s.fresh \in BOOLEAN
BY DEF Slot, CCoinsCacheEntry

\* What one slot of a cache must satisfy over the coin b below it: FlagsSound
\* and SanityCheck, for one level and one outpoint.
SlotOK(s, b) ==
    /\ s \in Slot
    /\ s # NoEntry =>
        /\ s.fresh => b = Spent
        /\ ~s.dirty => s.coin = b
        /\ IF s.coin = Spent THEN s.dirty /\ ~s.fresh ELSE s.fresh => s.dirty

\* FetchCoin keeps a slot sound and changes nothing its view shows.
LEMMA FetchSlot ==
    ASSUME NEW b \in Coin, NEW s, SlotOK(s, b)
    PROVE  SlotOK(FetchCoin(s, b), b) /\ Lookup(FetchCoin(s, b), b) = Lookup(s, b)
BY EntryType, CoinsAssumption DEF SlotOK, FetchCoin, Lookup, Slot, Coin

\* AddCoin, called within its contract, keeps a slot sound, shows the coin it
\* was given, and does not throw.
LEMMA AddSlot ==
    ASSUME NEW b \in Coin, NEW s, SlotOK(s, b), NEW c \in Coins \ Unspendable,
           NEW po \in BOOLEAN, po \/ Lookup(s, b) = Spent
    PROVE  /\ SlotOK(AddCoinSlot(s, c, po), b)
           /\ Lookup(AddCoinSlot(s, c, po), b) = c
           /\ ~AddCoinThrows(s, po)
<1>1. c \in Coin /\ c # Spent
  BY CoinsAssumption DEF Coin
<1>2. IsFresh(s) \/ (~po /\ ~IsDirty(s)) \in BOOLEAN
  OBVIOUS
<1>3. IsFresh(s) \in BOOLEAN /\ IsDirty(s) \in BOOLEAN
  BY SlotFields DEF IsFresh, IsDirty, SlotOK
<1>4. (IsFresh(s) \/ (~po /\ ~IsDirty(s))) => b = Spent
  BY SlotFields DEF IsFresh, IsDirty, SlotOK, Lookup
<1> QED
  BY <1>1, <1>3, <1>4, EntryType DEF SlotOK, AddCoinSlot, Lookup, Slot, AddCoinThrows

\* SpendCoin keeps a slot sound and leaves the outpoint spent.
LEMMA SpendSlot ==
    ASSUME NEW b \in Coin, NEW s, SlotOK(s, b)
    PROVE  LET t == SpendCoinSlot(FetchCoin(s, b))
           IN  SlotOK(t, b) /\ Lookup(t, b) = Spent
<1> DEFINE f == FetchCoin(s, b)
<1>1. SlotOK(f, b) /\ (f = NoEntry => b = Spent)
  BY FetchSlot, EntryType DEF FetchCoin
<1> HIDE DEF f
<1>2. SlotOK(SpendCoinSlot(f), b) /\ Lookup(SpendCoinSlot(f), b) = Spent
  BY <1>1, EntryType, SlotFields DEF SlotOK, SpendCoinSlot, IsFresh, Lookup, Slot, Coin
<1> QED
  BY <1>2 DEF f

\* BatchWrite into a parent cache never meets a misapplied FRESH flag, keeps
\* the parent's slot sound and makes it show what the child showed.
LEMMA BatchWriteParent ==
    ASSUME NEW b \in Coin, NEW p, SlotOK(p, b), NEW s, SlotOK(s, Lookup(p, b))
    PROVE  /\ ~FreshMisapplied(s, p)
           /\ SlotOK(BatchWriteSlot(s, p), b)
           /\ Lookup(BatchWriteSlot(s, p), b) = Lookup(s, Lookup(p, b))
<1> DEFINE t == Lookup(p, b)
<1>1. s \in Slot /\ p \in Slot /\ (s # NoEntry => s.coin \in Coin)
  BY SlotFields DEF SlotOK
<1>2. CASE ~IsDirty(s)
  BY <1>1, <1>2, SlotFields DEF SlotOK, FreshMisapplied, BatchWriteSlot, IsDirty, Lookup
<1>3. CASE IsDirty(s) /\ p = NoEntry
  <2> DEFINE r == Entry(s.coin, TRUE, s.fresh)
  <2>1. s # NoEntry /\ s.dirty /\ s.fresh \in BOOLEAN
    BY <1>1, <1>3, SlotFields DEF IsDirty
  <2>2. r \in Slot /\ r # NoEntry /\ r.coin = s.coin /\ r.dirty /\ r.fresh = s.fresh
    BY <1>1, <2>1, EntryType DEF Slot
  <2>3. ~(s.fresh /\ s.coin = Spent)
    BY <2>1 DEF SlotOK
  <2>4. BatchWriteSlot(s, p) = r
    BY <1>3, <2>3 DEF BatchWriteSlot
  <2> HIDE DEF r
  <2> QED
    BY <1>3, <2>1, <2>2, <2>3, <2>4 DEF SlotOK, FreshMisapplied, Lookup
<1>4. CASE IsDirty(s) /\ p # NoEntry
  <2>1. ~FreshMisapplied(s, p)
    BY <1>1, <1>4, SlotFields DEF SlotOK, FreshMisapplied, IsDirty, Lookup
  <2>2. CASE p.fresh /\ s.coin = Spent
    BY <1>1, <1>4, <2>1, <2>2, SlotFields DEF SlotOK, BatchWriteSlot, IsDirty, Lookup, Slot
  <2>3. CASE ~(p.fresh /\ s.coin = Spent)
    <3> DEFINE r == Entry(s.coin, TRUE, p.fresh)
    <3>1. s # NoEntry /\ s.dirty /\ p.fresh \in BOOLEAN
      BY <1>1, <1>4, SlotFields DEF IsDirty
    <3>2. r \in Slot /\ r # NoEntry /\ r.coin = s.coin /\ r.dirty /\ r.fresh = p.fresh
      BY <1>1, <3>1, EntryType DEF Slot
    <3>3. BatchWriteSlot(s, p) = r
      BY <1>4, <2>3 DEF BatchWriteSlot
    <3> HIDE DEF r
    <3> QED
      BY <1>4, <2>1, <2>3, <3>1, <3>2, <3>3 DEF SlotOK, Lookup
  <2> QED
    BY <2>2, <2>3
<1> QED
  BY <1>2, <1>3, <1>4

\* What Sync leaves of an entry is sound over what the entry showed.
LEMMA SyncSlotOK ==
    ASSUME NEW b \in Coin, NEW s, SlotOK(s, b)
    PROVE  /\ SlotOK(SyncSlot(s), Lookup(s, b))
           /\ Lookup(SyncSlot(s), Lookup(s, b)) = Lookup(s, b)
BY EntryType, SlotFields DEF SlotOK, SyncSlot, Lookup, Slot

\* BatchWrite into the database stores what the cache showed.
LEMMA BatchWriteStores ==
    ASSUME NEW b \in Coin, NEW s, SlotOK(s, b)
    PROVE  BatchWriteDB(s, b) = Lookup(s, b) /\ Lookup(s, b) \in Coin
BY SlotFields DEF SlotOK, BatchWriteDB, IsDirty, Lookup
-----------------------------------------------------------------------------
(* The invariant, slot by slot.                                              *)

Types ==
    /\ db \in [Outpoints -> Coin]
    /\ dbBest \in Blocks \cup {Null}
    /\ cacheCoins \in [Levels -> [Outpoints -> Slot]]
    /\ hashBlock \in [Levels -> Blocks \cup {Null}]
    /\ open \in BOOLEAN
    /\ logic_error = FALSE

Slots ==
    \A o \in Outpoints :
        /\ SlotOK(cacheCoins[1][o], db[o])
        /\ SlotOK(cacheCoins[2][o], Lookup(cacheCoins[1][o], db[o]))

\* IInv says of every slot what the slot lemmas assume and establish.
LEMMA IInvSlots == IInv <=> Types /\ Slots /\ ClosedIsEmpty
<1>1. ASSUME IInv
      PROVE  Types /\ Slots /\ ClosedIsEmpty
  <2>1. Types
    BY <1>1 DEF IInv, TypeOK, Types, NoLogicError
  <2>2. ASSUME NEW o \in Outpoints, NEW l \in Levels
        PROVE  SlotOK(cacheCoins[l][o], Below(l, o))
    BY <1>1 DEF IInv, TypeOK, FlagsSound, SanityCheck, SlotOK
  <2> QED
    BY <1>1, <2>1, <2>2 DEF IInv, Slots, Below, TipCoin
<1>2. ASSUME Types, Slots, ClosedIsEmpty
      PROVE  IInv
  <2>1. TypeOK /\ NoLogicError
    BY <1>2 DEF TypeOK, Types, NoLogicError
  <2>2. ASSUME NEW o \in Outpoints, NEW l \in Levels
        PROVE  SlotOK(cacheCoins[l][o], Below(l, o))
    BY <1>2 DEF Slots, Below, TipCoin
  <2>3. FlagsSound /\ SanityCheck
    BY <2>2 DEF FlagsSound, SanityCheck, SlotOK
  <2> QED
    BY <1>2, <2>1, <2>3 DEF IInv
<1> QED
  BY <1>1, <1>2

\* The same in the next state.
LEMMA IInvSlotsNext == IInv' <=> (Types /\ Slots /\ ClosedIsEmpty)'
BY IInvSlots, PTL

\* The coins the three views show are coins.
LEMMA ViewTypes ==
    ASSUME Types, Slots, NEW o \in Outpoints
    PROVE  /\ db[o] \in Coin
           /\ cacheCoins[1][o] \in Slot /\ cacheCoins[2][o] \in Slot
           /\ Lookup(cacheCoins[1][o], db[o]) \in Coin
           /\ Lookup(cacheCoins[2][o], Lookup(cacheCoins[1][o], db[o])) \in Coin
BY SlotFields DEF Types, Slots, Lookup

\* The initial caches are empty, so nothing in them can be wrong.
LEMMA InitIInv == Init => IInv
<1> SUFFICES ASSUME Init PROVE Types /\ Slots /\ ClosedIsEmpty
  BY IInvSlots
<1>1. NoEntry \in Slot /\ EmptyMap \in [Outpoints -> Slot]
  BY DEF Slot, EmptyMap
<1>2. Types /\ ClosedIsEmpty
  BY <1>1 DEF Init, Types, ClosedIsEmpty
<1>3. Slots
  BY <1>1 DEF Init, Slots, SlotOK, EmptyMap
<1> QED
  BY <1>2, <1>3
-----------------------------------------------------------------------------
(* Each operation preserves IInv and is a step of UtxoLedger, or no step.    *)

Good == IInv' /\ [Ledger!Next]_(Ledger!vars)

\* What UtxoLedger sees of a state.
TipMap == [o \in Outpoints |-> View(TipCache, o)]
BlockMap == [o \in Outpoints |-> View(BlockView, o)]

\* Filling the caches is invisible.
LEMMA AccessCoinStep ==
    ASSUME IInv, NEW l \in Levels, NEW o \in Outpoints, AccessCoin(l, o)
    PROVE  Good /\ BlockMap' = BlockMap
<1> USE IInvSlots
<1>1. \A k \in Levels, p \in Outpoints :
          cacheCoins'[k][p] = cacheCoins[k][p] \/
          (p = o /\ cacheCoins'[k][p] = FetchCoin(cacheCoins[k][p], Below(k, p)))
  BY DEF AccessCoin, Fetched, Types
<1>2. \A p \in Outpoints :
          /\ SlotOK(cacheCoins'[1][p], db[p])
          /\ Lookup(cacheCoins'[1][p], db[p]) = Lookup(cacheCoins[1][p], db[p])
  BY <1>1, ViewTypes, FetchSlot DEF Slots, Below
<1>3. \A p \in Outpoints :
          LET b == Lookup(cacheCoins[1][p], db[p])
          IN  /\ SlotOK(cacheCoins'[2][p], b)
              /\ Lookup(cacheCoins'[2][p], b) = Lookup(cacheCoins[2][p], b)
  BY <1>1, ViewTypes, FetchSlot DEF Slots, Below, TipCoin
<1>4. Slots'
  BY <1>2, <1>3 DEF Slots, AccessCoin
<1>5. Types'
  <2>1. cacheCoins' \in [Levels -> [Outpoints -> Slot]]
    BY <1>2, <1>3 DEF AccessCoin, Fetched, Types, SlotOK
  <2> QED
    BY <2>1 DEF AccessCoin, Types
<1>6. ClosedIsEmpty'
  BY DEF ClosedIsEmpty, AccessCoin, Fetched, Top
<1>7. TipMap' = TipMap /\ BlockMap' = BlockMap
  BY <1>2, <1>3 DEF TipMap, BlockMap, View, Below, TipCoin, AccessCoin
<1>8. UNCHANGED Ledger!vars
  BY <1>7 DEF Ledger!vars, TipMap, BlockMap, AccessCoin, Best, BestBelow, TipBest
<1> QED
  BY <1>4, <1>5, <1>6, <1>7, <1>8, IInvSlotsNext DEF Good

\* An operation that gives one outpoint of the topmost view a coin, and below
\* it does no more than fetch, makes that change to the ledger's topmost map.
LEMMA TopSlotStep ==
    ASSUME IInv, NEW o \in Outpoints, NEW c \in Coin,
           UNCHANGED <<db, dbBest, hashBlock, open, logic_error>>,
           cacheCoins' \in [Levels -> [Outpoints -> Slot]],
           \A k \in Levels, p \in Outpoints :
               (p # o \/ k > Top) => cacheCoins'[k][p] = cacheCoins[k][p],
           SlotOK(cacheCoins'[Top][o], Below(Top, o)),
           Lookup(cacheCoins'[Top][o], Below(Top, o)) = c,
           open => /\ SlotOK(cacheCoins'[1][o], db[o])
                   /\ Lookup(cacheCoins'[1][o], db[o]) = Lookup(cacheCoins[1][o], db[o])
    PROVE  IInv' /\ Ledger!SetTop([Ledger!Top EXCEPT ![o] = c])
<1> USE IInvSlots
<1>1. Types' /\ open \in BOOLEAN
  BY DEF Types
<1>2. CASE open
  <2>1. Top = 2
    BY <1>2 DEF Top
  <2>2. Slots'
    BY <1>2, <2>1 DEF Slots, Below, TipCoin
  <2>3. ClosedIsEmpty'
    BY <1>2 DEF ClosedIsEmpty
  <2>4. TipMap' = TipMap /\ BlockMap' = [BlockMap EXCEPT ![o] = c]
    BY <1>2, <2>1 DEF TipMap, BlockMap, View, Below, TipCoin
  <2> QED
    BY <1>1, <1>2, <2>2, <2>3, <2>4, IInvSlotsNext
       DEF Ledger!SetTop, Ledger!Top, TipMap, BlockMap, Best, BestBelow, TipBest
<1>3. CASE ~open
  <2>1. Top = 1
    BY <1>3 DEF Top
  <2>2. \A p \in Outpoints : cacheCoins[2][p] = NoEntry /\ cacheCoins'[2][p] = NoEntry
    BY <1>3, <2>1 DEF ClosedIsEmpty, EmptyMap
  <2>3. Slots'
    BY <2>1, <2>2 DEF Slots, Below, SlotOK, Slot
  <2>4. ClosedIsEmpty'
    <3>1. cacheCoins'[2] = cacheCoins[2]
      BY <2>2 DEF Types
    <3> QED
      BY <1>3, <3>1 DEF ClosedIsEmpty, EmptyMap
  <2>5. TipMap' = [TipMap EXCEPT ![o] = c]
    BY <2>1 DEF TipMap, View, Below
  <2>6. BlockMap' = TipMap'
    BY <2>2 DEF TipMap, BlockMap, View, Below, TipCoin, Lookup
  <2> QED
    BY <1>1, <1>3, <2>3, <2>4, <2>5, <2>6, IInvSlotsNext
       DEF Ledger!SetTop, Ledger!Top, TipMap, BlockMap, Best, BestBelow, TipBest
<1> QED
  BY <1>1, <1>2, <1>3

\* AddCoin adds its coin to the topmost map, or nothing when it is unspendable.
LEMMA AddCoinStep ==
    ASSUME IInv, NEW o \in Outpoints, NEW c \in Coins, NEW po \in BOOLEAN,
           AddCoin(o, c, po)
    PROVE  Good
<1> USE IInvSlots
<1> DEFINE slot == cacheCoins[Top][o]
<1>1. Top \in Levels /\ Below(Top, o) \in Coin /\ SlotOK(slot, Below(Top, o))
  BY ViewTypes DEF Top, Below, TipCoin, Slots
<1>2. CASE c \in Unspendable
  <2>1. UNCHANGED <<db, dbBest, cacheCoins, hashBlock, open, logic_error>>
    BY <1>2 DEF AddCoin
  <2>2. IInv'
    BY <2>1 DEF IInv, TypeOK, ClosedIsEmpty, FlagsSound, SanityCheck, NoLogicError,
                Below, TipCoin
  <2>3. UNCHANGED Ledger!vars
    BY <2>1 DEF Ledger!vars, View, Below, TipCoin, Best, BestBelow, TipBest
  <2> QED
    BY <2>2, <2>3 DEF Good
<1>3. CASE c \notin Unspendable
  <2> DEFINE t == AddCoinSlot(slot, c, po)
  <2>1. po \/ Lookup(slot, Below(Top, o)) = Spent
    BY DEF AddCoin, View
  <2>2. SlotOK(t, Below(Top, o)) /\ Lookup(t, Below(Top, o)) = c /\ ~AddCoinThrows(slot, po)
    BY <1>1, <1>3, <2>1, AddSlot
  <2>3. /\ cacheCoins' = [cacheCoins EXCEPT ![Top][o] = t]
        /\ UNCHANGED <<db, dbBest, hashBlock, open, logic_error>>
    BY <1>3, <2>2 DEF AddCoin
  <2> HIDE DEF t
  <2>4. /\ cacheCoins' \in [Levels -> [Outpoints -> Slot]]
        /\ cacheCoins'[Top][o] = t
        /\ \A k \in Levels, p \in Outpoints :
               (p # o \/ k # Top) => cacheCoins'[k][p] = cacheCoins[k][p]
    BY <1>1, <2>2, <2>3 DEF Types, SlotOK
  <2>5. Top = 1 \/ Top = 2
    BY DEF Top
  <2>6. open => Top = 2
    BY DEF Top
  <2>7. open => /\ SlotOK(cacheCoins'[1][o], db[o])
                /\ Lookup(cacheCoins'[1][o], db[o]) = Lookup(cacheCoins[1][o], db[o])
    BY <2>4, <2>6 DEF Slots
  <2>8. c \in Coin
    BY <1>3 DEF Coin
  <2>9. IInv' /\ Ledger!SetTop([Ledger!Top EXCEPT ![o] = c])
    BY <1>1, <2>2, <2>3, <2>4, <2>5, <2>7, <2>8, TopSlotStep
  <2> QED
    BY <1>3, <2>9 DEF Good, Ledger!Add, Ledger!Next
<1> QED
  BY <1>2, <1>3

\* A coin loaded from a snapshot is added to the tip.
LEMMA EmplaceCoinStep ==
    ASSUME IInv, NEW o \in Outpoints, NEW c \in Coins, EmplaceCoinInternalDANGER(o, c)
    PROVE  Good
<1> USE IInvSlots
<1> DEFINE t == Entry(c, TRUE, FALSE)
<1>1. Top = 1 /\ ~open /\ c \in Coin /\ c # Spent /\ db[o] \in Coin /\ Below(Top, o) = db[o]
  BY CoinsAssumption, ViewTypes DEF EmplaceCoinInternalDANGER, Top, Coin, Below
<1>2. SlotOK(t, db[o]) /\ Lookup(t, db[o]) = c
  BY <1>1, EntryType DEF SlotOK, Lookup, Slot
<1> HIDE DEF t
<1>3. /\ cacheCoins' = [cacheCoins EXCEPT ![1][o] = t]
      /\ UNCHANGED <<db, dbBest, hashBlock, open, logic_error>>
  BY DEF EmplaceCoinInternalDANGER, t
<1>4. /\ cacheCoins' \in [Levels -> [Outpoints -> Slot]]
      /\ cacheCoins'[Top][o] = t
      /\ \A k \in Levels, p \in Outpoints :
             (p # o \/ k > Top) => cacheCoins'[k][p] = cacheCoins[k][p]
  BY <1>1, <1>2, <1>3 DEF Types, SlotOK
<1>5. IInv' /\ Ledger!SetTop([Ledger!Top EXCEPT ![o] = c])
  BY <1>1, <1>2, <1>3, <1>4, TopSlotStep
<1> QED
  BY <1>5 DEF Good, Ledger!Add, Ledger!Next, EmplaceCoinInternalDANGER

\* SpendCoin spends the outpoint in the topmost map.
LEMMA SpendCoinStep ==
    ASSUME IInv, NEW o \in Outpoints, SpendCoin(o)
    PROVE  Good
<1> USE IInvSlots
<1> DEFINE f(k) == FetchCoin(cacheCoins[k][o], Below(k, o))
           t == SpendCoinSlot(f(Top))
<1>1. /\ Top \in Levels
      /\ \A k \in Levels : Below(k, o) \in Coin /\ SlotOK(cacheCoins[k][o], Below(k, o))
  BY ViewTypes DEF Top, Below, TipCoin, Slots
<1>2. SlotOK(t, Below(Top, o)) /\ Lookup(t, Below(Top, o)) = Spent
  BY <1>1, SpendSlot
<1>3. \A k \in Levels : SlotOK(f(k), Below(k, o))
                       /\ Lookup(f(k), Below(k, o)) = Lookup(cacheCoins[k][o], Below(k, o))
  BY <1>1, FetchSlot
<1>4. Fetched(Top, o) = [k \in Levels |-> IF k > Top THEN cacheCoins[k]
                                           ELSE [cacheCoins[k] EXCEPT ![o] = f(k)]]
  BY DEF Fetched
<1>5. Fetched(Top, o)[Top][o] = f(Top)
  <2>1. ~(Top > Top) /\ cacheCoins[Top] \in [Outpoints -> Slot]
    BY <1>1 DEF Types
  <2> HIDE DEF f
  <2> QED
    BY <1>1, <1>4, <2>1
<1>6. /\ cacheCoins' = [Fetched(Top, o) EXCEPT ![Top][o] = t]
      /\ UNCHANGED <<db, dbBest, hashBlock, open, logic_error>>
  BY <1>5 DEF SpendCoin
<1> HIDE DEF t, f
<1>7. /\ cacheCoins' \in [Levels -> [Outpoints -> Slot]]
      /\ cacheCoins'[Top][o] = t
      /\ \A k \in Levels, p \in Outpoints :
             (p # o \/ k > Top) => cacheCoins'[k][p] = cacheCoins[k][p]
      /\ open => cacheCoins'[1][o] = f(1)
  BY <1>1, <1>2, <1>3, <1>4, <1>6 DEF Types, SlotOK, Top
<1>8. open => /\ SlotOK(cacheCoins'[1][o], db[o])
              /\ Lookup(cacheCoins'[1][o], db[o]) = Lookup(cacheCoins[1][o], db[o])
  BY <1>3, <1>7 DEF Below
<1>9. IInv' /\ Ledger!SetTop([Ledger!Top EXCEPT ![o] = Spent])
  BY <1>1, <1>2, <1>6, <1>7, <1>8, TopSlotStep DEF Coin
<1> QED
  BY <1>9 DEF Good, Ledger!Spend, Ledger!Next

\* Remembering the base's best block is invisible.
LEMMA GetBestBlockStep ==
    ASSUME IInv, NEW l \in Levels, GetBestBlock(l)
    PROVE  Good /\ BlockMap' = BlockMap
<1> USE IInvSlots
<1>1. Types'
  BY DEF GetBestBlock, Types, Best, BestBelow, TipBest
<1>2. Slots'
  BY DEF GetBestBlock, Slots
<1>3. ClosedIsEmpty'
  BY DEF GetBestBlock, ClosedIsEmpty, Top, Types, EmptyMap
<1>4. TipMap' = TipMap /\ BlockMap' = BlockMap
  BY DEF GetBestBlock, TipMap, BlockMap, View, Below, TipCoin
<1>5. Best(1)' = Best(1) /\ Best(2)' = Best(2)
  BY DEF GetBestBlock, Best, BestBelow, TipBest, Types
<1>6. UNCHANGED Ledger!vars
  BY <1>4, <1>5 DEF Ledger!vars, TipMap, BlockMap, GetBestBlock
<1> QED
  BY <1>1, <1>2, <1>3, <1>4, <1>6, IInvSlotsNext DEF Good

\* SetBestBlock gives the topmost map its best block.
LEMMA SetBestBlockStep ==
    ASSUME IInv, NEW b \in Blocks, SetBestBlock(b)
    PROVE  Good
<1> USE IInvSlots
<1>1. Types' /\ Slots'
  BY DEF SetBestBlock, Types, Slots, Top
<1>2. ClosedIsEmpty'
  BY DEF SetBestBlock, ClosedIsEmpty, Top, Types, EmptyMap
<1>3. TipMap' = TipMap /\ BlockMap' = BlockMap
  BY DEF SetBestBlock, TipMap, BlockMap, View, Below, TipCoin
<1>4. Best(2)' = b /\ Best(1)' = IF open THEN Best(1) ELSE b
  BY CacheAssumption
     DEF SetBestBlock, Best, BestBelow, TipBest, Types, Top, ClosedIsEmpty
<1>5. Ledger!SetBest(b)
  BY <1>3, <1>4 DEF Ledger!SetBest, TipMap, BlockMap, SetBestBlock
<1> QED
  BY <1>1, <1>2, <1>5, IInvSlotsNext DEF Good, Ledger!Next

\* A new temporary view shows what the tip shows.
LEMMA OpenViewStep ==
    ASSUME IInv, OpenView
    PROVE  Good
<1> USE IInvSlots
<1>1. (Types /\ Slots /\ ClosedIsEmpty)'
  BY DEF OpenView, Types, Slots, ClosedIsEmpty
<1>2. TipMap' = TipMap /\ BlockMap' = BlockMap
  BY DEF OpenView, TipMap, BlockMap, View, Below, TipCoin
<1>3. Ledger!Open
  BY <1>2 DEF Ledger!Open, TipMap, BlockMap, OpenView, Best, BestBelow, TipBest
<1> QED
  BY <1>1, <1>3, IInvSlotsNext DEF Good, Ledger!Next

\* A dropped view leaves the tip as it was.
LEMMA DropViewStep ==
    ASSUME IInv, DropView
    PROVE  Good
<1> USE IInvSlots
<1>1. /\ EmptyMap \in [Outpoints -> Slot]
      /\ \A p \in Outpoints : EmptyMap[p] = NoEntry
  BY DEF EmptyMap, Slot
<1>2. /\ cacheCoins'[1] = cacheCoins[1] /\ cacheCoins'[2] = EmptyMap
      /\ hashBlock'[1] = hashBlock[1] /\ hashBlock'[2] = Null
      /\ open /\ open' = FALSE
      /\ UNCHANGED <<db, dbBest, logic_error>>
  BY DEF DropView, Types
<1>3. Types'
  BY <1>1 DEF DropView, Types
<1>4. Slots' /\ ClosedIsEmpty'
  BY <1>1, <1>2 DEF Slots, ClosedIsEmpty, SlotOK, Slot, EmptyMap
<1>5. TipMap' = TipMap /\ BlockMap' = TipMap
  BY <1>1, <1>2 DEF TipMap, BlockMap, View, Below, TipCoin, Lookup
<1>6. Ledger!Close
  BY <1>2, <1>5 DEF Ledger!Close, TipMap, BlockMap, Best, BestBelow, TipBest
<1> QED
  BY <1>3, <1>4, <1>6, IInvSlotsNext DEF Good, Ledger!Next

\* BatchWrite into the tip commits the temporary view, provided that what the
\* view keeps of its entries shows what the tip now shows.
LEMMA BatchWriteTipStep ==
    ASSUME IInv, NEW kept \in [Outpoints -> Slot], NEW usage, BatchWriteTip(kept, usage),
           \A o \in Outpoints :
               LET v == View(BlockView, o)
               IN  SlotOK(kept[o], v) /\ Lookup(kept[o], v) = v
    PROVE  Good /\ BlockMap' = BlockMap
<1> USE IInvSlots
<1> DEFINE child == cacheCoins[2]
           tip == cacheCoins[1]
<1>1. \A o \in Outpoints :
          /\ ~FreshMisapplied(child[o], tip[o])
          /\ SlotOK(BatchWriteSlot(child[o], tip[o]), db[o])
          /\ Lookup(BatchWriteSlot(child[o], tip[o]), db[o])
                = Lookup(child[o], Lookup(tip[o], db[o]))
  BY ViewTypes, BatchWriteParent DEF Slots
<1>2. /\ open /\ hashBlock[2] # Null
      /\ cacheCoins' = [l \in Levels |->
                            IF l = 1 THEN [o \in Outpoints |-> BatchWriteSlot(child[o], tip[o])]
                            ELSE kept]
      /\ hashBlock' = [hashBlock EXCEPT ![1] = hashBlock[2]]
      /\ UNCHANGED <<db, dbBest, open, logic_error>>
  BY <1>1 DEF BatchWriteTip
<1>3. \A o \in Outpoints :
          /\ cacheCoins'[1][o] = BatchWriteSlot(child[o], tip[o])
          /\ cacheCoins'[2][o] = kept[o]
  BY <1>2
<1>4. Types'
  BY <1>1, <1>2 DEF Types, SlotOK
<1>5. Slots' /\ ClosedIsEmpty'
  BY <1>1, <1>2, <1>3 DEF Slots, ClosedIsEmpty, View, Below, TipCoin
<1>6. TipMap' = BlockMap
  BY <1>1, <1>2, <1>3 DEF TipMap, BlockMap, View, Below, TipCoin
<1>7. BlockMap' = BlockMap
  BY <1>1, <1>2, <1>3 DEF BlockMap, View, Below, TipCoin
<1>8. Best(1)' = Best(2) /\ Best(2)' = Best(2)
  BY <1>2 DEF Best, BestBelow, TipBest, Types
<1>9. Ledger!Commit
  BY <1>2, <1>6, <1>7, <1>8 DEF Ledger!Commit, TipMap, BlockMap
<1> QED
  BY <1>4, <1>5, <1>7, <1>9, IInvSlotsNext DEF Good, Ledger!Next

\* Flush of the temporary view commits it.
LEMMA FlushViewStep ==
    ASSUME IInv, FlushView
    PROVE  Good /\ BlockMap' = BlockMap
<1>1. EmptyMap \in [Outpoints -> Slot] /\ \A o \in Outpoints : EmptyMap[o] = NoEntry
  BY DEF EmptyMap, Slot
<1>2. \A v : SlotOK(NoEntry, v) /\ Lookup(NoEntry, v) = v
  BY DEF SlotOK, Slot, Lookup
<1> QED
  BY <1>1, <1>2, BatchWriteTipStep DEF FlushView

\* Sync of the temporary view commits it and keeps its unspent coins.
LEMMA SyncViewStep ==
    ASSUME IInv, SyncView
    PROVE  Good /\ BlockMap' = BlockMap
<1> DEFINE kept == [o \in Outpoints |-> SyncSlot(cacheCoins[2][o])]
<1>1. \A o \in Outpoints :
          LET v == View(BlockView, o)
          IN  SlotOK(kept[o], v) /\ Lookup(kept[o], v) = v
  BY IInvSlots, ViewTypes, SyncSlotOK DEF Slots, View, Below, TipCoin
<1>2. kept \in [Outpoints -> Slot]
  BY <1>1 DEF SlotOK
<1> HIDE DEF kept
<1>3. BatchWriteTip(kept, cachedCoinsUsage[2])
  BY DEF SyncView, kept
<1> QED
  BY <1>1, <1>2, <1>3, BatchWriteTipStep

\* BatchWrite into the database makes the tip durable, and shows it unchanged.
LEMMA BatchWriteDatabaseStep ==
    ASSUME IInv, NEW kept \in [Outpoints -> Slot], NEW usage, BatchWriteDatabase(kept, usage),
           \A o \in Outpoints :
               LET v == View(TipCache, o)
               IN  SlotOK(kept[o], v) /\ Lookup(kept[o], v) = v
    PROVE  Good /\ BlockMap' = BlockMap
<1> USE IInvSlots
<1>1. \A o \in Outpoints : /\ BatchWriteDB(cacheCoins[1][o], db[o]) = View(1, o)
                           /\ View(1, o) \in Coin
  BY ViewTypes, BatchWriteStores DEF Slots, View, Below
<1>2. /\ ~open /\ open' = open /\ logic_error' = logic_error
      /\ TipBest # Null
      /\ db' = [o \in Outpoints |-> View(1, o)]
      /\ dbBest' = TipBest
      /\ cacheCoins'[1] = kept /\ cacheCoins'[2] = cacheCoins[2]
      /\ hashBlock'[1] = TipBest /\ hashBlock'[2] = hashBlock[2]
  BY <1>1 DEF BatchWriteDatabase, Types
<1>3. Types'
  <2>1. TipBest \in Blocks \cup {Null}
    BY DEF TipBest, Types
  <2>2. db' \in [Outpoints -> Coin]
    BY <1>1, <1>2
  <2> QED
    BY <1>2, <2>1, <2>2 DEF BatchWriteDatabase, Types
<1>4. \A o \in Outpoints : cacheCoins[2][o] = NoEntry
  BY <1>2 DEF ClosedIsEmpty, EmptyMap
<1>5. Slots'
  BY <1>2, <1>4 DEF Slots, SlotOK, Slot
<1>6. ClosedIsEmpty'
  BY <1>2 DEF ClosedIsEmpty, EmptyMap
<1>7. TipMap' = TipMap
  BY <1>2 DEF TipMap, View, Below
<1>8. BlockMap' = BlockMap
  <2>1. BlockMap = TipMap /\ BlockMap' = TipMap'
    BY <1>2, <1>4 DEF BlockMap, TipMap, View, Below, TipCoin, Lookup
  <2> QED
    BY <1>7, <2>1
<1>9. Best(1)' = Best(1) /\ Best(2)' = Best(2) /\ Best(1) = TipBest
  BY <1>2 DEF Best, BestBelow, TipBest
<1>10. Ledger!Persist
  BY <1>2, <1>7, <1>8, <1>9 DEF Ledger!Persist, TipMap, BlockMap
<1> QED
  BY <1>3, <1>5, <1>6, <1>8, <1>10, IInvSlotsNext DEF Good, Ledger!Next

\* Flush of the tip makes it durable.
LEMMA FlushTipStep ==
    ASSUME IInv, FlushTip
    PROVE  Good /\ BlockMap' = BlockMap
<1>1. EmptyMap \in [Outpoints -> Slot] /\ \A o \in Outpoints : EmptyMap[o] = NoEntry
  BY DEF EmptyMap, Slot
<1>2. \A v : SlotOK(NoEntry, v) /\ Lookup(NoEntry, v) = v
  BY DEF SlotOK, Slot, Lookup
<1> QED
  BY <1>1, <1>2, BatchWriteDatabaseStep DEF FlushTip

\* Sync of the tip makes it durable and keeps its unspent coins.
LEMMA SyncTipStep ==
    ASSUME IInv, SyncTip
    PROVE  Good /\ BlockMap' = BlockMap
<1> DEFINE kept == [o \in Outpoints |-> SyncSlot(cacheCoins[1][o])]
<1>1. \A o \in Outpoints :
          LET v == View(TipCache, o)
          IN  SlotOK(kept[o], v) /\ Lookup(kept[o], v) = v
  BY IInvSlots, ViewTypes, SyncSlotOK DEF Slots, View, Below
<1>2. kept \in [Outpoints -> Slot]
  BY <1>1 DEF SlotOK
<1> HIDE DEF kept
<1>3. BatchWriteDatabase(kept, cachedCoinsUsage[1])
  BY DEF SyncTip, kept
<1> QED
  BY <1>1, <1>2, <1>3, BatchWriteDatabaseStep

\* Evicting a clean entry is invisible.
LEMMA UncacheStep ==
    ASSUME IInv, NEW o \in Outpoints, Uncache(o)
    PROVE  Good /\ BlockMap' = BlockMap
<1> USE IInvSlots
<1>1. /\ cacheCoins[1][o] # NoEntry
      /\ cacheCoins[1][o].coin = db[o]
  BY DEF Uncache, CanUncache, Slots, SlotOK
<1>2. /\ ~open /\ UNCHANGED <<db, dbBest, hashBlock, open, logic_error>>
      /\ cacheCoins'[2] = cacheCoins[2]
      /\ cacheCoins'[1] = [cacheCoins[1] EXCEPT ![o] = NoEntry]
      /\ cacheCoins' \in [Levels -> [Outpoints -> Slot]]
  BY DEF Uncache, Types, Slot
<1>3. \A p \in Outpoints :
          /\ SlotOK(cacheCoins'[1][p], db[p])
          /\ Lookup(cacheCoins'[1][p], db[p]) = Lookup(cacheCoins[1][p], db[p])
  BY <1>1, <1>2 DEF Types, Slots, SlotOK, Slot, Lookup
<1>4. Types' /\ Slots' /\ ClosedIsEmpty'
  BY <1>2, <1>3 DEF Types, Slots, ClosedIsEmpty, EmptyMap
<1>5. TipMap' = TipMap /\ BlockMap' = BlockMap
  BY <1>2, <1>3 DEF TipMap, BlockMap, View, Below, TipCoin
<1>6. UNCHANGED Ledger!vars
  BY <1>2, <1>5 DEF Ledger!vars, TipMap, BlockMap, Best, BestBelow, TipBest
<1> QED
  BY <1>4, <1>5, <1>6, IInvSlotsNext DEF Good

\* After a restart every view shows the database.
LEMMA RestartStep ==
    ASSUME IInv, Restart
    PROVE  Good
<1> USE IInvSlots
<1>1. /\ EmptyMap \in [Outpoints -> Slot]
      /\ \A p \in Outpoints : EmptyMap[p] = NoEntry
  BY DEF EmptyMap, Slot
<1>2. /\ cacheCoins'[1] = EmptyMap /\ cacheCoins'[2] = EmptyMap
      /\ hashBlock'[1] = Null /\ hashBlock'[2] = Null
      /\ open' = FALSE
      /\ UNCHANGED <<db, dbBest, logic_error>>
  BY DEF Restart
<1>3. Types'
  BY <1>1 DEF Restart, Types
<1>4. Slots' /\ ClosedIsEmpty'
  BY <1>1, <1>2 DEF Slots, ClosedIsEmpty, SlotOK, Slot, EmptyMap
<1>5. TipMap' = db /\ BlockMap' = db
  BY <1>1, <1>2 DEF TipMap, BlockMap, View, Below, TipCoin, Lookup, Types
<1>6. Ledger!Restart
  BY <1>2, <1>5 DEF Ledger!Restart, TipMap, BlockMap, Best, BestBelow, TipBest
<1> QED
  BY <1>3, <1>4, <1>6, IInvSlotsNext DEF Good, Ledger!Next
-----------------------------------------------------------------------------
\* Every operation of the caches keeps IInv and is a step of UtxoLedger or
\* invisible to it.
LEMMA StepGood == IInv /\ [Next]_vars => Good
<1> SUFFICES ASSUME IInv, [Next]_vars PROVE Good
  OBVIOUS
<1>1. CASE UNCHANGED vars
  <2>1. UNCHANGED <<db, dbBest, cacheCoins, hashBlock, open, logic_error>>
    BY <1>1 DEF vars
  <2>2. IInv'
    BY <2>1 DEF IInv, TypeOK, ClosedIsEmpty, FlagsSound, SanityCheck, NoLogicError,
                Below, TipCoin
  <2>3. UNCHANGED Ledger!vars
    BY <2>1 DEF Ledger!vars, View, Below, TipCoin, Best, BestBelow, TipBest
  <2> QED
    BY <2>2, <2>3 DEF Good
<1>2. CASE Next
  BY <1>2, AccessCoinStep, AddCoinStep, EmplaceCoinStep, SpendCoinStep, GetBestBlockStep,
     SetBestBlockStep, OpenViewStep, DropViewStep, FlushViewStep, SyncViewStep,
     FlushTipStep, SyncTipStep, UncacheStep, RestartStep DEF Next
<1> QED
  BY <1>1, <1>2

\* The flags, the emptiness of a view that does not exist and the absence of a
\* logic_error hold together after any sequence of cache operations.
THEOREM Invariance == Spec => []IInv
BY InitIInv, StepGood, PTL DEF Spec, Good

\* Every view always maps outpoints to spendable coins or to nothing.
THEOREM TypeCorrect == Spec => []TypeOK
<1>1. IInv => TypeOK
  BY DEF IInv
<1> QED
  BY <1>1, Invariance, PTL

\* FRESH and DIRTY always mean what CCoinsCacheEntry says of them.
THEOREM FlagsAlwaysSound == Spec => []FlagsSound
<1>1. IInv => FlagsSound
  BY DEF IInv
<1> QED
  BY <1>1, Invariance, PTL

\* The assertion of CCoinsViewCache::SanityCheck about flags never fails.
THEOREM SanityCheckHolds == Spec => []SanityCheck
<1>1. IInv => SanityCheck
  BY DEF IInv
<1> QED
  BY <1>1, Invariance, PTL

\* BatchWrite and AddCoin never throw for callers that keep AddCoin's contract.
THEOREM NeverThrows == Spec => []NoLogicError
<1>1. IInv => NoLogicError
  BY DEF IInv
<1> QED
  BY <1>1, Invariance, PTL

\* The stack of caches implements the three plain UTXO maps of UtxoLedger:
\* caching, eviction and the flags change nothing a caller can observe.
THEOREM CachesAreInvisible == Spec => LedgerSpec
<1>1. Init => Ledger!Init
  <2> SUFFICES ASSUME Init PROVE Ledger!Init
    OBVIOUS
  <2>1. TipMap = db /\ BlockMap = db
    BY DEF Init, TipMap, BlockMap, View, Below, TipCoin, Lookup, EmptyMap
  <2>2. Best(1) = dbBest /\ Best(2) = dbBest
    BY DEF Init, Best, BestBelow, TipBest
  <2> QED
    BY <2>1, <2>2 DEF Init, Ledger!Init, TipMap, BlockMap, Coin, Ledger!Coin
<1>2. IInv /\ [Next]_vars => [Ledger!Next]_(Ledger!vars)
  BY StepGood DEF Good
<1> QED
  BY <1>1, <1>2, Invariance, PTL DEF Spec, LedgerSpec, Ledger!Spec

\* Reads, flushes and evictions never change what the topmost view shows.
THEOREM HousekeepingNeverShows == Spec => HousekeepingInvisible
<1>1. IInv /\ Housekeeping => BlockMap' = BlockMap
  BY AccessCoinStep, GetBestBlockStep, FlushViewStep, SyncViewStep, FlushTipStep, SyncTipStep,
     UncacheStep DEF Housekeeping
<1>2. IInv /\ [Next]_vars =>
          [Housekeeping => \A o \in Outpoints : View(BlockView, o)' = View(BlockView, o)]_vars
  BY <1>1 DEF BlockMap
<1> QED
  BY <1>2, Invariance, PTL DEF Spec, HousekeepingInvisible
=============================================================================

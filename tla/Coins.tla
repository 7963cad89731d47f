------------------------------- MODULE Coins -------------------------------
(***************************************************************************)
(* What one operation of CCoinsViewCache (src/src/coins.cpp) does to one    *)
(* slot of its map.  A slot is what cacheCoins.find(outpoint) yields: an    *)
(* entry (a coin with its DIRTY and FRESH flags) or NoEntry for end().      *)
(*                                                                          *)
(* A coin is an opaque value: the model tells apart which coin an outpoint  *)
(* holds, whether it is unspendable, and how much memory it takes.  Spent   *)
(* is the nulled coin of Coin::Clear, for which IsSpent holds.              *)
(***************************************************************************)
EXTENDS Integers

CONSTANTS Coins,        \* the coins an outpoint may hold
          Unspendable,  \* those whose script is provably unspendable
          Spent,        \* the null coin
          NoEntry,      \* an outpoint absent from a cache
          Usage         \* Coin::DynamicMemoryUsage of each coin

\* What a view may hold: AddCoin never lets an unspendable coin in.
Coin == (Coins \ Unspendable) \cup {Spent}

CCoinsCacheEntry == [coin : Coin, dirty : BOOLEAN, fresh : BOOLEAN]

Slot == CCoinsCacheEntry \cup {NoEntry}

ASSUME CoinsAssumption ==
    /\ Unspendable \subseteq Coins
    /\ Spent \notin Coins
    /\ NoEntry \notin CCoinsCacheEntry
    /\ Usage \in [Coins \cup {Spent} -> Nat]
    /\ Usage[Spent] = 0

Entry(coin, dirty, fresh) == [coin |-> coin, dirty |-> dirty, fresh |-> fresh]

\* The memory a slot accounts for in cachedCoinsUsage.
SlotUsage(slot) == IF slot = NoEntry THEN 0 ELSE Usage[slot.coin]

\* The coin a view shows for an outpoint: its own entry's, else its base's.
Lookup(slot, below) == IF slot = NoEntry THEN below ELSE slot.coin

\* FetchCoin: keep the entry, or pull an unspent coin up from the base.  The
\* base's GetCoin answers false for a spent coin, so the code's branch that
\* marks a spent fetched coin FRESH has no base that reaches it.
FetchCoin(slot, below) ==
    IF slot = NoEntry /\ below # Spent THEN Entry(below, FALSE, FALSE) ELSE slot

\* AddCoin refuses to overwrite an unspent entry it was told cannot exist.
AddCoinThrows(slot, possible_overwrite) ==
    ~possible_overwrite /\ slot # NoEntry /\ slot.coin # Spent

IsDirty(slot) == slot # NoEntry /\ slot.dirty

IsFresh(slot) == slot # NoEntry /\ slot.fresh

\* A bug AddCoin's comment warns of: a re-added coin is marked FRESH although
\* the base has not been told that it was spent.
AddCoinAlwaysFresh(slot, coin, possible_overwrite) ==
    Entry(coin, TRUE, IsFresh(slot) \/ ~possible_overwrite)

\* AddCoin, for a spendable coin: FRESH only when the entry was not DIRTY.
AddCoinSlot(slot, coin, possible_overwrite) ==
    Entry(coin, TRUE, IsFresh(slot) \/ (~possible_overwrite /\ ~IsDirty(slot)))

\* A bug: the FRESH entry of a spent coin is kept.
SpendKeepsFresh(slot) ==
    IF slot = NoEntry THEN NoEntry ELSE Entry(Spent, TRUE, slot.fresh)

\* SpendCoin, after its FetchCoin.
SpendCoinSlot(slot) ==
    IF slot = NoEntry \/ IsFresh(slot) THEN NoEntry ELSE Entry(Spent, TRUE, FALSE)

\* BatchWrite finds a FRESH child entry whose coin the parent holds unspent.
FreshMisapplied(child, parent) ==
    IsDirty(child) /\ child.fresh /\ parent # NoEntry /\ parent.coin # Spent

\* BatchWrite into a parent cache, for one entry of the child's map.
BatchWriteSlot(child, parent) ==
    IF ~IsDirty(child) THEN parent
    ELSE IF parent = NoEntry
         THEN IF child.fresh /\ child.coin = Spent THEN NoEntry
              ELSE Entry(child.coin, TRUE, child.fresh)
         ELSE IF parent.fresh /\ child.coin = Spent THEN NoEntry
              ELSE Entry(child.coin, TRUE, parent.fresh)

\* What that does to the parent's cachedCoinsUsage.
BatchWriteUsage(child, parent) ==
    IF ~IsDirty(child) THEN 0
    ELSE IF parent = NoEntry
         THEN IF child.fresh /\ child.coin = Spent THEN 0 ELSE Usage[child.coin]
         ELSE IF parent.fresh /\ child.coin = Spent THEN - Usage[parent.coin]
              ELSE Usage[child.coin] - Usage[parent.coin]

\* A bug: a spent coin is not erased from the database.
BatchWriteSkipsErase(child, stored) ==
    IF IsDirty(child) /\ child.coin # Spent THEN child.coin ELSE stored

\* BatchWrite into the coins database, for one entry of the cache's map.
BatchWriteDB(child, stored) == IF IsDirty(child) THEN child.coin ELSE stored

\* A bug: Sync leaves the FRESH flag on the coins it has just written.
SyncKeepsFresh(slot) ==
    IF slot = NoEntry \/ slot.coin = Spent THEN NoEntry
    ELSE Entry(slot.coin, FALSE, slot.fresh)

\* Sync, after its BatchWrite: spent entries go, the others become clean.
SyncSlot(slot) ==
    IF slot = NoEntry \/ slot.coin = Spent THEN NoEntry
    ELSE Entry(slot.coin, FALSE, FALSE)

\* Uncache drops an entry without flags.
CanUncache(slot) == slot # NoEntry /\ ~slot.dirty /\ ~slot.fresh
=============================================================================

----------------------------- MODULE UtxoLedger -----------------------------
(***************************************************************************)
(* What the coins cache hierarchy promises its callers: three UTXO maps,    *)
(* each the successor of the one below, and no trace of flags, fetching or  *)
(* eviction.  `disk' is what the database holds, `tip' what CoinsTip()      *)
(* shows, `block' what the temporary view over it shows while a block is    *)
(* connected or disconnected (and, with no such view, what the tip shows).  *)
(* CoinsCache implements it.                                                *)
(***************************************************************************)
CONSTANTS Outpoints, Coins, Unspendable, Spent, Blocks, Null

VARIABLES disk, tip, block,             \* the three UTXO maps
          diskBest, tipBest, blockBest, \* the best block of each
          open                          \* whether the temporary view exists

vars == <<disk, tip, block, diskBest, tipBest, blockBest, open>>

Coin == (Coins \ Unspendable) \cup {Spent}

Init ==
    /\ disk \in [Outpoints -> Coin]
    /\ diskBest \in Blocks \cup {Null}
    /\ tip = disk /\ block = disk
    /\ tipBest = diskBest /\ blockBest = diskBest
    /\ open = FALSE

\* The topmost view changes; a view under an open one does not.
Top == IF open THEN block ELSE tip

SetTop(utxo) ==
    /\ block' = utxo
    /\ tip' = IF open THEN tip ELSE utxo
    /\ UNCHANGED <<disk, diskBest, tipBest, blockBest, open>>

Add(o, c) == c \notin Unspendable /\ SetTop([Top EXCEPT ![o] = c])

Spend(o) == SetTop([Top EXCEPT ![o] = Spent])

SetBest(b) ==
    /\ blockBest' = b
    /\ tipBest' = IF open THEN tipBest ELSE b
    /\ UNCHANGED <<disk, tip, block, diskBest, open>>

Open == ~open /\ open' = TRUE /\ UNCHANGED <<disk, tip, block, diskBest, tipBest, blockBest>>

\* The temporary view is applied to the tip, and may go on being used ...
Commit ==
    /\ open
    /\ tip' = block /\ tipBest' = blockBest
    /\ UNCHANGED <<disk, block, diskBest, blockBest, open>>

\* ... or it is destroyed, and what it did not apply is forgotten.
Close ==
    /\ open
    /\ open' = FALSE
    /\ block' = tip /\ blockBest' = tipBest
    /\ UNCHANGED <<disk, tip, diskBest, tipBest>>

\* The tip is made durable.
Persist ==
    /\ ~open
    /\ disk' = tip /\ diskBest' = tipBest
    /\ UNCHANGED <<tip, block, tipBest, blockBest, open>>

\* The process ends: only what was made durable survives.
Restart ==
    /\ tip' = disk /\ block' = disk
    /\ tipBest' = diskBest /\ blockBest' = diskBest
    /\ open' = FALSE
    /\ UNCHANGED <<disk, diskBest>>

Next ==
    \/ \E o \in Outpoints, c \in Coins : Add(o, c)
    \/ \E o \in Outpoints : Spend(o)
    \/ \E b \in Blocks : SetBest(b)
    \/ Open \/ Commit \/ Close \/ Persist \/ Restart

Spec == Init /\ [][Next]_vars
=============================================================================

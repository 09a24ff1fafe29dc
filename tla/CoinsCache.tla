----------------------------- MODULE CoinsCache -----------------------------
(***************************************************************************)
(* One layer of the coins view stack (CCoinsViewCache, coins.cpp).  Every  *)
(* operation of a cache touches one outpoint at a time, so each is defined *)
(* on the cache entry of that outpoint and the coin its base view shows.   *)
(*                                                                         *)
(* A coin is the height of the block that created it: the rest of a coin   *)
(* is fixed by its outpoint.  No coin has height 0, because the outputs of *)
(* the genesis block never enter the set, so 0 stands for a spent coin.    *)
(***************************************************************************)
EXTENDS Integers

CONSTANT NoEntry      \* the outpoint is not in cacheCoins

Spent == 0

Coins == Nat

(* CCoinsCacheEntry: the coin and the flags DIRTY and FRESH. *)
Entry == [coin : Coins, dirty : BOOLEAN, fresh : BOOLEAN]

ASSUME NoEntryAssumption == NoEntry \notin Entry

MaybeEntry == Entry \cup {NoEntry}

Clean(coin) == [coin |-> coin, dirty |-> FALSE, fresh |-> FALSE]

(* What a reader of this layer sees: the entry, or else the base.          *)
Value(e, base) == IF e = NoEntry THEN base ELSE e.coin

(* CCoinsViewCache::GetCoin and CCoinsViewDB::GetCoin report a spent coin  *)
(* as missing, so an entry fetched from either is unspent and clean.       *)
FetchCoin(e, base) == IF e = NoEntry /\ base # Spent THEN Clean(base) ELSE e

(* Mutant: a coin spent earlier in this cache is marked FRESH when it is   *)
(* added again.                                                            *)
AddCoin_AlwaysFresh(e, coin, overwrite) ==
    [coin |-> coin, dirty |-> TRUE, fresh |-> ~overwrite]

AddCoin(e, coin, overwrite) ==
    LET it == IF e = NoEntry THEN Clean(Spent) ELSE e
    IN  [coin |-> coin, dirty |-> TRUE,
         fresh |-> it.fresh \/ (~overwrite /\ ~it.dirty)]

(* std::logic_error: an unspent coin would be overwritten. *)
AddCoinThrows(e, overwrite) ==
    ~overwrite /\ e # NoEntry /\ Value(e, Spent) # Spent

(* Mutant: a spent coin is erased even if the base still has it. *)
SpendCoin_AlwaysErases(e) == NoEntry

(* FetchCoin has run before; a missing entry is left missing. *)
SpendCoin(e) ==
    IF e = NoEntry \/ e.fresh THEN NoEntry
    ELSE [coin |-> Spent, dirty |-> TRUE, fresh |-> FALSE]

(* Uncache drops only unmodified entries. *)
Uncache(e) == IF e # NoEntry /\ (e.dirty \/ e.fresh) THEN e ELSE NoEntry

(* Mutant: an entry that is FRESH in the child becomes FRESH in a parent   *)
(* that already has one.                                                   *)
BatchWrite_CopiesFresh(us, it) ==
    IF it = NoEntry \/ ~it.dirty THEN us
    ELSE IF it.coin = Spent /\ (it.fresh \/ (us # NoEntry /\ us.fresh)) THEN NoEntry
    ELSE it

(* What flushing the child's entry leaves in the parent.  An entry new to  *)
(* the parent keeps the FRESH flag; one it already has never gains it.     *)
BatchWrite(us, it) ==
    IF it = NoEntry \/ ~it.dirty THEN us
    ELSE IF us = NoEntry
    THEN IF it.fresh /\ it.coin = Spent THEN NoEntry ELSE it
    ELSE IF us.fresh /\ it.coin = Spent THEN NoEntry
    ELSE [us EXCEPT !.coin = it.coin, !.dirty = TRUE]

(* std::logic_error: FRESH flag misapplied. *)
BatchWriteThrows(us, it) ==
    /\ it # NoEntry /\ it.dirty /\ it.fresh
    /\ us # NoEntry /\ us.coin # Spent

(* The meaning of the flags: a FRESH coin is not in the base, an entry     *)
(* that is not DIRTY equals the base, and only the five combinations that  *)
(* SanityCheck allows occur.                                               *)
Sound(e, base) ==
    e # NoEntry => /\ e.fresh => base = Spent
                   /\ ~e.dirty => e.coin = base
                   /\ ~(e.fresh /\ ~e.dirty /\ e.coin # Spent)
                   /\ ~(e.coin = Spent /\ e.fresh = e.dirty)
=============================================================================

------------------------- MODULE UtxoConnect_proofs -------------------------
(* The first half of the proofs about UtxoState: what the operations on    *)
(* cache entries, on caches and on the tree of blocks do, the inductive    *)
(* invariant, and that connecting and disconnecting blocks preserve it.    *)
EXTENDS UtxoState, NaturalsInduction, WellFoundedInduction, TLAPS

-----------------------------------------------------------------------------
(* The operations on one cache entry. *)

LEMMA FetchCoinSound ==
  ASSUME NEW e \in MaybeEntry, NEW base \in Coins, Sound(e, base)
  PROVE  /\ FetchCoin(e, base) \in MaybeEntry
         /\ Sound(FetchCoin(e, base), base)
         /\ Value(FetchCoin(e, base), base) = Value(e, base)
         /\ FetchCoin(e, base) = NoEntry => base = Spent
  <1>1. CASE e = NoEntry /\ base # Spent
    <2> DEFINE f == Clean(base)
    <2>1. f \in Entry /\ f.coin = base /\ ~f.dirty /\ ~f.fresh
      BY DEF Clean, Entry
    <2>2. FetchCoin(e, base) = f
      BY <1>1 DEF FetchCoin
    <2> HIDE DEF f
    <2>3. QED
      BY <1>1, <2>1, <2>2, NoEntryAssumption DEF MaybeEntry, Sound, Value
  <1>2. CASE ~(e = NoEntry /\ base # Spent)
    BY <1>2 DEF FetchCoin
  <1>3. QED
    BY <1>1, <1>2

(* A coin may be added without possible_overwrite only if none is visible. *)
LEMMA AddCoinSound ==
  ASSUME NEW e \in MaybeEntry, NEW base \in Coins, Sound(e, base),
         NEW coin \in Coins, coin # Spent, NEW overwrite \in BOOLEAN,
         ~overwrite => Value(e, base) = Spent
  PROVE  /\ AddCoin(e, coin, overwrite) \in MaybeEntry
         /\ Sound(AddCoin(e, coin, overwrite), base)
         /\ Value(AddCoin(e, coin, overwrite), base) = coin
  <1> DEFINE it == IF e = NoEntry THEN Clean(Spent) ELSE e
             fr == it.fresh \/ (~overwrite /\ ~it.dirty)
             a  == [coin |-> coin, dirty |-> TRUE, fresh |-> fr]
  <1>1. AddCoin(e, coin, overwrite) = a
    BY DEF AddCoin
  <1>2. /\ it \in Entry
        /\ it.fresh => base = Spent
        /\ ~overwrite /\ ~it.dirty => base = Spent
    <2>1. CASE e = NoEntry
      <3>1. it = Clean(Spent)
        BY <2>1
      <3>2. Clean(Spent) \in Entry /\ ~Clean(Spent).fresh
        BY DEF Clean, Entry, Coins, Spent
      <3>3. ~overwrite => base = Spent
        BY <2>1 DEF Value
      <3>4. QED
        BY <3>1, <3>2, <3>3
    <2>2. CASE e # NoEntry
      BY <2>2 DEF MaybeEntry, Sound, Value
    <2>3. QED
      BY <2>1, <2>2
  <1>3. fr \in BOOLEAN /\ (fr => base = Spent)
    BY <1>2 DEF Entry
  <1> HIDE DEF fr
  <1>4. a \in Entry
    BY <1>3 DEF Entry
  <1>5. a.coin = coin /\ a.dirty = TRUE /\ a.fresh = fr
    OBVIOUS
  <1> HIDE DEF a
  <1>6. Sound(a, base)
    BY <1>3, <1>5, NoEntryAssumption DEF Sound
  <1>7. a # NoEntry
    BY <1>4, NoEntryAssumption
  <1>8. QED
    BY <1>1, <1>4, <1>5, <1>6, <1>7 DEF MaybeEntry, Value

LEMMA SpendCoinSound ==
  ASSUME NEW e \in MaybeEntry, NEW base \in Coins, Sound(e, base)
  PROVE  LET s == SpendCoin(FetchCoin(e, base)) IN
         /\ s \in MaybeEntry
         /\ Sound(s, base)
         /\ Value(s, base) = Spent
  <1> DEFINE f == FetchCoin(e, base)
  <1>1. f \in MaybeEntry /\ Sound(f, base) /\ (f = NoEntry => base = Spent)
    BY FetchCoinSound
  <1> HIDE DEF f
  <1>2. CASE f = NoEntry \/ f.fresh
    BY <1>1, <1>2 DEF SpendCoin, MaybeEntry, Sound, Value, f
  <1>3. CASE ~(f = NoEntry \/ f.fresh)
    <2> DEFINE s == [coin |-> Spent, dirty |-> TRUE, fresh |-> FALSE]
    <2>1. SpendCoin(f) = s
      BY <1>3 DEF SpendCoin
    <2>2. s \in Entry /\ s.coin = Spent /\ s.dirty /\ ~s.fresh
      BY DEF Entry, Coins, Spent
    <2> HIDE DEF s
    <2>3. QED
      BY <2>1, <2>2, NoEntryAssumption DEF MaybeEntry, Sound, Value, f
  <1>4. QED
    BY <1>2, <1>3

(* Flushing a sound entry into its parent gives a sound entry that shows   *)
(* what the child showed, and does not throw.                              *)
LEMMA BatchWriteSound ==
  ASSUME NEW us \in MaybeEntry, NEW it \in MaybeEntry, NEW base \in Coins,
         Sound(us, base), Sound(it, Value(us, base))
  PROVE  /\ BatchWrite(us, it) \in MaybeEntry
         /\ Sound(BatchWrite(us, it), base)
         /\ Value(BatchWrite(us, it), base) = Value(it, Value(us, base))
         /\ ~BatchWriteThrows(us, it)
  <1>1. CASE it = NoEntry \/ ~it.dirty
    BY <1>1 DEF BatchWrite, BatchWriteThrows, Sound, Value
  <1>2. CASE it # NoEntry /\ it.dirty /\ us = NoEntry
    BY <1>2, NoEntryAssumption
       DEF BatchWrite, BatchWriteThrows, Sound, Value, MaybeEntry, Entry
  <1>3. CASE it # NoEntry /\ it.dirty /\ us # NoEntry
    <2>1. it \in Entry /\ us \in Entry
      BY <1>3 DEF MaybeEntry
    <2>2. ~BatchWriteThrows(us, it)
      BY <1>3 DEF BatchWriteThrows, Sound, Value
    <2>3. CASE us.fresh /\ it.coin = Spent
      <3>1. BatchWrite(us, it) = NoEntry
        BY <1>3, <2>3 DEF BatchWrite
      <3>2. base = Spent
        BY <1>3, <2>3 DEF Sound
      <3>3. QED
        BY <1>3, <2>2, <2>3, <3>1, <3>2 DEF MaybeEntry, Sound, Value
    <2>4. CASE ~(us.fresh /\ it.coin = Spent)
      <3> DEFINE m == [us EXCEPT !.coin = it.coin, !.dirty = TRUE]
      <3>1. BatchWrite(us, it) = m
        BY <1>3, <2>4 DEF BatchWrite
      <3>2. m \in Entry /\ m.coin = it.coin /\ m.dirty /\ m.fresh = us.fresh
        BY <2>1 DEF Entry
      <3> HIDE DEF m
      <3>3. Sound(m, base)
        BY <1>3, <2>1, <2>4, <3>2 DEF Sound, Entry
      <3>4. QED
        BY <1>3, <2>2, <3>1, <3>2, <3>3, NoEntryAssumption DEF MaybeEntry, Value
    <2>5. QED
      BY <2>3, <2>4
  <1>4. QED
    BY <1>1, <1>2, <1>3

LEMMA UncacheSound ==
  ASSUME NEW e \in MaybeEntry, NEW base \in Coins, Sound(e, base)
  PROVE  /\ Uncache(e) \in MaybeEntry
         /\ Sound(Uncache(e), base)
         /\ Value(Uncache(e), base) = Value(e, base)
  BY DEF Uncache, Sound, Value, MaybeEntry

-----------------------------------------------------------------------------
(* The operations on a whole cache. *)

AllSound(c, base) == \A o \in Outpoints : Sound(c[o], base[o])

LEMMA SeenFacts ==
  ASSUME NEW c \in Caches, NEW base \in CoinMaps
  PROVE  /\ Seen(c, base) \in CoinMaps
         /\ \A o \in Outpoints : Seen(c, base)[o] = Value(c[o], base[o])
  BY DEF Caches, CoinMaps, Seen, Value, MaybeEntry, Entry

(* Two caches that agree on every outpoint show the same coins. *)
LEMMA SeenSame ==
  ASSUME NEW c, NEW d, NEW base,
         \A o \in Outpoints : Value(c[o], base[o]) = Value(d[o], base[o])
  PROVE  Seen(c, base) = Seen(d, base)
  BY DEF Seen

LEMMA EmptySound ==
  ASSUME NEW base
  PROVE  NoEntries \in Caches /\ NoCoins \in CoinMaps /\ AllSound(NoEntries, base)
  BY DEF NoEntries, NoCoins, Caches, CoinMaps, MaybeEntry, AllSound, Sound, Coins, Spent

(* Reading through the view changes no coin that CoinsTip shows. *)
LEMMA FetchedBySound ==
  ASSUME cacheCoins \in Caches, db.coins \in CoinMaps,
         AllSound(cacheCoins, db.coins), NEW outs
  PROVE  /\ FetchedBy(outs) \in Caches
         /\ AllSound(FetchedBy(outs), db.coins)
         /\ Seen(FetchedBy(outs), db.coins) = TipCoins
  <1> DEFINE f == FetchedBy(outs)
  <1>1. \A o \in Outpoints :
           f[o] = IF o \in outs /\ view[o] = NoEntry
                  THEN FetchCoin(cacheCoins[o], db.coins[o]) ELSE cacheCoins[o]
    BY DEF FetchedBy
  <1>2. f = [o \in Outpoints |-> f[o]]
    BY DEF FetchedBy
  <1> HIDE DEF f
  <1>3. ASSUME NEW o \in Outpoints
        PROVE  /\ f[o] \in MaybeEntry /\ Sound(f[o], db.coins[o])
               /\ Value(f[o], db.coins[o]) = Value(cacheCoins[o], db.coins[o])
    <2>1. /\ cacheCoins[o] \in MaybeEntry /\ db.coins[o] \in Coins
          /\ Sound(cacheCoins[o], db.coins[o])
      BY DEF Caches, CoinMaps, AllSound
    <2>2. QED
      BY <1>1, <2>1, FetchCoinSound
  <1>4. Seen(f, db.coins) = TipCoins
    BY <1>3, SeenSame DEF TipCoins
  <1>5. f \in Caches /\ AllSound(f, db.coins)
    BY <1>2, <1>3 DEF Caches, AllSound
  <1>6. QED
    BY <1>4, <1>5 DEF f

(* UpdateCoins spends the inputs and creates the outputs. *)
LEMMA UpdateCoinsSound ==
  ASSUME NEW c \in Caches, NEW base \in CoinMaps, AllSound(c, base),
         NEW tx \in Tx, NEW h \in Coins, h # Spent,
         \A o \in tx.vout : Value(c[o], base[o]) = Spent
  PROVE  LET u == UpdateCoins(c, base, tx, h) IN
         /\ u \in Caches /\ AllSound(u, base)
         /\ \A o \in Outpoints :
              Value(u[o], base[o]) = IF o \in tx.vin THEN Spent
                                     ELSE IF o \in tx.vout THEN h
                                     ELSE Value(c[o], base[o])
  <1> DEFINE u == UpdateCoins(c, base, tx, h)
  <1>1. /\ u = [o \in Outpoints |-> u[o]]
        /\ \A o \in Outpoints :
             u[o] = IF o \in tx.vin THEN SpendCoin(FetchCoin(c[o], base[o]))
                    ELSE IF o \in tx.vout THEN AddCoin(c[o], h, tx.coinbase)
                    ELSE c[o]
    BY DEF UpdateCoins
  <1> HIDE DEF u
  <1>2. ASSUME NEW o \in Outpoints
        PROVE  /\ u[o] \in MaybeEntry /\ Sound(u[o], base[o])
               /\ Value(u[o], base[o]) = IF o \in tx.vin THEN Spent
                                         ELSE IF o \in tx.vout THEN h
                                         ELSE Value(c[o], base[o])
    <2>1. c[o] \in MaybeEntry /\ base[o] \in Coins /\ Sound(c[o], base[o])
      BY DEF Caches, CoinMaps, AllSound
    <2>2. CASE o \in tx.vin
      BY <1>1, <2>1, <2>2, SpendCoinSound
    <2>3. CASE o \notin tx.vin /\ o \in tx.vout
      <3>1. tx.coinbase \in BOOLEAN
        BY DEF Tx
      <3>2. Value(c[o], base[o]) = Spent
        BY <2>3
      <3>3. QED
        BY <1>1, <2>1, <2>3, <3>1, <3>2, AddCoinSound
    <2>4. CASE o \notin tx.vin /\ o \notin tx.vout
      BY <1>1, <2>1, <2>4
    <2>5. QED
      BY <2>2, <2>3, <2>4
  <1>3. u \in Caches /\ AllSound(u, base)
    BY <1>1, <1>2 DEF Caches, AllSound
  <1>4. QED
    BY <1>2, <1>3 DEF u

(* AddCoin(FetchCoin(e)) that asks the view whether it overwrites. *)
LEMMA AskingAddSound ==
  ASSUME NEW e \in MaybeEntry, NEW base \in Coins, Sound(e, base),
         NEW coin \in Coins, coin # Spent
  PROVE  LET f == FetchCoin(e, base)
             a == AddCoin(f, coin, Value(f, Spent) # Spent)
         IN  a \in MaybeEntry /\ Sound(a, base)
  <1> DEFINE f == FetchCoin(e, base)
             ow == Value(f, Spent) # Spent
  <1>1. f \in MaybeEntry /\ Sound(f, base) /\ (f = NoEntry => base = Spent)
    BY FetchCoinSound
  <1> HIDE DEF f
  <1>2. ow \in BOOLEAN /\ (~ow => Value(f, base) = Spent)
    BY <1>1 DEF Value
  <1> HIDE DEF ow
  <1>3. AddCoin(f, coin, ow) \in MaybeEntry /\ Sound(AddCoin(f, coin, ow), base)
    BY <1>1, <1>2, AddCoinSound
  <1>4. QED
    BY <1>3 DEF f, ow

LEMMA RollforwardTxSound ==
  ASSUME NEW c \in Caches, NEW base \in CoinMaps, AllSound(c, base),
         NEW tx \in Tx, NEW h \in Coins, h # Spent
  PROVE  LET u == RollforwardTx(c, base, tx, h) IN
         u \in Caches /\ AllSound(u, base)
  <1> DEFINE u == RollforwardTx(c, base, tx, h)
             f(o) == FetchCoin(c[o], base[o])
  <1>1. /\ u = [o \in Outpoints |-> u[o]]
        /\ \A o \in Outpoints :
             u[o] = IF o \in tx.vin THEN SpendCoin(f(o))
                    ELSE IF o \in tx.vout
                    THEN AddCoin(f(o), h, Value(f(o), Spent) # Spent) ELSE c[o]
    BY DEF RollforwardTx
  <1> HIDE DEF u
  <1>2. ASSUME NEW o \in Outpoints
        PROVE  u[o] \in MaybeEntry /\ Sound(u[o], base[o])
    <2>1. c[o] \in MaybeEntry /\ base[o] \in Coins /\ Sound(c[o], base[o])
      BY DEF Caches, CoinMaps, AllSound
    <2>2. SpendCoin(f(o)) \in MaybeEntry /\ Sound(SpendCoin(f(o)), base[o])
      BY <2>1, SpendCoinSound
    <2>3. LET a == AddCoin(f(o), h, Value(f(o), Spent) # Spent)
          IN  a \in MaybeEntry /\ Sound(a, base[o])
      BY <2>1, AskingAddSound
    <2> HIDE DEF f
    <2>4. QED
      BY <1>1, <2>1, <2>2, <2>3
  <1>3. QED
    BY <1>1, <1>2 DEF Caches, AllSound, u

LEMMA UndoTxSound ==
  ASSUME NEW c \in Caches, NEW base \in CoinMaps, AllSound(c, base),
         NEW tx \in Tx, NEW undo \in CoinMaps,
         \A o \in tx.vin : undo[o] # Spent
  PROVE  LET u == UndoTx(c, base, tx, undo) IN
         u \in Caches /\ AllSound(u, base)
  <1> DEFINE u == UndoTx(c, base, tx, undo)
             f(o) == FetchCoin(c[o], base[o])
  <1>1. /\ u = [o \in Outpoints |-> u[o]]
        /\ \A o \in Outpoints :
             u[o] = IF o \in tx.vout THEN SpendCoin(f(o))
                    ELSE IF o \in tx.vin
                    THEN AddCoin(f(o), undo[o], Value(f(o), Spent) # Spent) ELSE c[o]
    BY DEF UndoTx
  <1> HIDE DEF u
  <1>2. ASSUME NEW o \in Outpoints
        PROVE  u[o] \in MaybeEntry /\ Sound(u[o], base[o])
    <2>1. /\ c[o] \in MaybeEntry /\ base[o] \in Coins /\ Sound(c[o], base[o])
          /\ undo[o] \in Coins
      BY DEF Caches, CoinMaps, AllSound
    <2>2. SpendCoin(f(o)) \in MaybeEntry /\ Sound(SpendCoin(f(o)), base[o])
      BY <2>1, SpendCoinSound
    <2>3. o \in tx.vin =>
            LET a == AddCoin(f(o), undo[o], Value(f(o), Spent) # Spent)
            IN  a \in MaybeEntry /\ Sound(a, base[o])
      BY <2>1, AskingAddSound
    <2> HIDE DEF f
    <2>4. QED
      BY <1>1, <2>1, <2>2, <2>3
  <1>3. QED
    BY <1>1, <1>2 DEF Caches, AllSound, u

(* Flushing the view: CoinsTip stays sound and now shows what it showed. *)
LEMMA FlushViewSound ==
  ASSUME NEW c \in Caches, NEW v \in Caches, NEW base \in CoinMaps,
         AllSound(c, base), AllSound(v, Seen(c, base))
  PROVE  LET w == [o \in Outpoints |-> BatchWrite(c[o], v[o])] IN
         w \in Caches /\ AllSound(w, base)
  <1> DEFINE w == [o \in Outpoints |-> BatchWrite(c[o], v[o])]
  <1>1. ASSUME NEW o \in Outpoints
        PROVE  w[o] \in MaybeEntry /\ Sound(w[o], base[o])
    <2>1. /\ c[o] \in MaybeEntry /\ v[o] \in MaybeEntry /\ base[o] \in Coins
          /\ Sound(c[o], base[o]) /\ Sound(v[o], Seen(c, base)[o])
      BY DEF Caches, CoinMaps, AllSound
    <2>2. Sound(v[o], Value(c[o], base[o]))
      BY <2>1, SeenFacts
    <2>3. QED
      BY <2>1, <2>2, BatchWriteSound
  <1>2. QED
    BY <1>1 DEF Caches, AllSound

(* A batch moves dirty entries from CoinsTip to the database. *)
LEMMA BatchSound ==
  ASSUME cacheCoins \in Caches, db.coins \in CoinMaps,
         AllSound(cacheCoins, db.coins), NEW batch \in SUBSET Cached
  PROVE  /\ Written(batch) \in CoinMaps /\ Erased(batch) \in Caches
         /\ AllSound(Erased(batch), Written(batch))
         /\ AllSound(Erased(batch), db.coins)
  <1>1. \A o \in batch : o \in Outpoints /\ cacheCoins[o] \in Entry
    BY DEF Cached, Caches, MaybeEntry
  <1>2. Written(batch) \in CoinMaps
    BY <1>1 DEF Written, CoinMaps, Entry
  <1>3. Erased(batch) \in Caches
    BY DEF Erased, Caches, MaybeEntry
  <1>4. \A o \in Outpoints :
          \/ Erased(batch)[o] = NoEntry
          \/ Erased(batch)[o] = cacheCoins[o] /\ Written(batch)[o] = db.coins[o]
    BY DEF Erased, Written
  <1>5. QED
    BY <1>2, <1>3, <1>4 DEF AllSound, Sound

-----------------------------------------------------------------------------
(* LastCommonAncestor finds a block, on both branches. *)
LEMMA LeastOf ==
  ASSUME NEW T \in SUBSET Nat, T # {}
  PROVE  \E x \in T : \A y \in T : x <= y
  <1>1. PICK x \in T : \A y \in T : ~(<<y, x>> \in OpToRel(<, Nat))
    BY NatLessThanWellFounded, WFMin
  <1>2. ASSUME NEW y \in T
        PROVE  ~(y < x)
    <2> SUFFICES ASSUME y < x PROVE FALSE
      OBVIOUS
    <2>1. <<y, x>> \in Nat \X Nat /\ <<y, x>>[1] < <<y, x>>[2]
      OBVIOUS
    <2>2. <<y, x>> \in OpToRel(<, Nat)
      BY <2>1, Zenon DEF OpToRel
    <2>3. QED
      BY <1>1, <2>2, Zenon
  <1> HIDE <1>1
  <1>3. \A y \in T : x <= y
    BY <1>2
  <1>4. QED
    BY <1>3

LEMMA ForkExists ==
  ASSUME NEW old \in Blocks, NEW new \in Blocks
  PROVE  Fork(old, new) \in Ancestors[old] \cap Ancestors[new]
  <1> DEFINE S == Ancestors[old] \cap Ancestors[new]
             D == {Height[old] - Height[c] : c \in S}
             Top(b) == \A c \in S : Height[c] <= Height[b]
  <1>1. /\ Genesis \in S /\ Height[old] \in Nat
        /\ \A c \in S : Height[c] \in Nat /\ Height[c] <= Height[old]
    BY UtxoAssumption
  <1>2. D \in SUBSET Nat /\ D # {}
    <2> HIDE DEF S
    <2> QED
      BY <1>1
  <1>3. PICK x \in D : \A y \in D : x <= y
    <2> HIDE DEF D
    <2> QED
      BY <1>2, LeastOf
  <1> HIDE DEF S
  <1>4. PICK b \in S : x = Height[old] - Height[b]
    OBVIOUS
  <1>5. Top(b)
    <2> SUFFICES ASSUME NEW c \in S PROVE Height[c] <= Height[b]
      OBVIOUS
    <2>1. Height[old] - Height[b] <= Height[old] - Height[c]
      BY <1>3, <1>4
    <2>2. QED
      BY <1>1, <2>1
  <1>6. Fork(old, new) = CHOOSE a \in S : Top(a)
    BY UtxoAssumption DEF Fork, S
  <1> HIDE DEF Top
  <1>7. QED
    BY <1>5, <1>6, Zenon DEF S

-----------------------------------------------------------------------------
(* The inductive invariant.  While a block is connected, the outputs of    *)
(* its remaining transactions do not exist and the coins of the inputs it  *)
(* spent are kept.  Hence undo data, in the files or not, restores no      *)
(* spent coin.  ReplayBlocks stays on a branch that leads to the fork.     *)
UndoGood(b, u) ==
  u # NoUndo => \A i \in DOMAIN Txs[b] : \A o \in Txs[b][i].vin : u[o] # Spent

UndoInv == \A b \in Blocks : UndoGood(b, files[b]) /\ UndoGood(b, synced[b])

ConnectInv ==
  pc = "connect" =>
    /\ block \in Blocks /\ txi <= Len(Txs[block])
    /\ \A i \in DOMAIN Txs[block] :
         /\ i > txi => \A o \in Txs[block][i].vout : Missing(o)
         /\ i <= txi => \A o \in Txs[block][i].vin : blockundo[o] # Spent

DisconnectInv ==
  pc = "disconnect" =>
    block \in Blocks /\ txi <= Len(Txs[block]) /\ files[block] # NoUndo

ReplayInv ==
  /\ pc \in {"rollback", "rollforward"} => db.heads # << >>
  /\ pc = "rollback" /\ block # ForkBlock =>
       /\ block \in Blocks /\ txi <= Len(Txs[block])
       /\ ForkBlock \in Ancestors[block]
  /\ pc = "rollforward" => block \in Blocks /\ txi <= Len(Txs[block])
  /\ pc \in {"coins", "replayed"} => hashBlock \in Blocks

IInv == TypeOK /\ FlagsSound /\ UndoInv /\ ConnectInv /\ DisconnectInv /\ ReplayInv

LEMMA IInvInit == Init => IInv
  <1> SUFFICES ASSUME Init PROVE IInv
    OBVIOUS
  <1>1. TypeOK
    <2>1. db.coins = NoCoins /\ db.best = NoBlock /\ db.heads = << >>
      BY DEF Init
    <2>2. files \in Files /\ synced \in Files
      BY DEF Init, Files
    <2>3. budget \in [{"stop", "error", "disconnect"} -> Nat]
      <3>1. budget \in [stop : Nat, error : Nat, disconnect : Nat]
        BY UtxoAssumption DEF Init
      <3>2. QED
        BY <3>1
    <2>4. {hashBlock, chain, block, next} \subseteq MaybeBlock
      BY DEF Init, MaybeBlock
    <2>5. QED
      BY <2>1, <2>2, <2>3, <2>4, EmptySound DEF Init, TypeOK, MaybeBlock
  <1>2. FlagsSound
    BY EmptySound DEF Init, FlagsSound, AllSound
  <1>3. UndoInv
    BY DEF Init, UndoInv, UndoGood
  <1>4. ConnectInv /\ DisconnectInv /\ ReplayInv
    BY DEF Init, ConnectInv, DisconnectInv, ReplayInv
  <1>5. QED
    BY <1>1, <1>2, <1>3, <1>4 DEF IInv

(* A block with a transaction is above Genesis. *)
LEMMA TxFacts ==
  ASSUME NEW b \in Blocks
  PROVE  /\ Len(Txs[b]) \in Nat /\ DOMAIN Txs[b] = 1..Len(Txs[b])
         /\ Height[b] \in Coins
         /\ \A i \in 1..Len(Txs[b]) : Txs[b][i] \in Tx /\ Height[b] # Spent
  <1>1. Txs[b] \in Seq(Tx) /\ Height[b] \in Nat
    BY UtxoAssumption
  <1>2. CASE b = Genesis
    <2>1. Txs[b] = << >>
      BY <1>2, UtxoAssumption
    <2>2. QED
      BY <1>1, <2>1 DEF Coins
  <1>3. CASE b # Genesis
    <2>1. Parent[b] \in Blocks /\ Height[b] = Height[Parent[b]] + 1
      BY <1>3, UtxoAssumption
    <2>2. Height[Parent[b]] \in Nat
      BY <2>1, UtxoAssumption
    <2>3. QED
      BY <1>1, <2>1, <2>2 DEF Coins, Spent
  <1>4. QED
    BY <1>2, <1>3

-----------------------------------------------------------------------------
(* ConnectTip and ConnectBlock. *)
LEMMA ConnectTipStep ==
  ASSUME IInv, NEW b \in Blocks, ConnectTip(b)
  PROVE  IInv'
  <1> USE DEF IInv
  <1>1. /\ pc = "idle" /\ pc' = "connect" /\ block' = b /\ txi' = 0
        /\ view' = NoEntries /\ blockundo' = NoCoins
        /\ UNCHANGED <<cacheCoins, hashBlock, db, files, synced, indexDb, fullFlush,
                       next, blockIndex, chain, lost, budget>>
    BY DEF ConnectTip, NewJob, coinVars, diskVars, flushVars, bounded
  <1>2. TypeOK'
    BY <1>1, EmptySound DEF TypeOK, MaybeBlock
  <1>3. FlagsSound'
    BY <1>1, EmptySound DEF FlagsSound, AllSound
  <1>4. TipCoins' = TipCoins
    BY <1>1 DEF TipCoins
  <1>5. ConnectInv'
    <2>1. \A i \in DOMAIN Txs[b] : \A o \in Txs[b][i].vout :
            o \in Outpoints /\ TipCoins[o] = Spent
      BY TxFacts DEF ConnectTip, Outputs, Tx
    <2>2. \A o \in Outpoints : view'[o] = NoEntry
      BY <1>1 DEF NoEntries
    <2>3. QED
      BY <1>1, <1>4, <2>1, <2>2, TxFacts DEF ConnectInv, Missing, Value
  <1>6. UndoInv' /\ DisconnectInv' /\ ReplayInv'
    BY <1>1 DEF UndoInv, UndoGood, DisconnectInv, ReplayInv
  <1>7. QED
    BY <1>2, <1>3, <1>5, <1>6

LEMMA ConnectTipBIP30Step ==
  ASSUME IInv, NEW b \in Blocks, ConnectTipBIP30(b)
  PROVE  IInv'
  <1> USE DEF IInv
  <1>1. /\ pc = "idle" /\ b \in Blocks
        /\ UNCHANGED <<hashBlock, db, files, synced, indexDb, view, blockundo, block,
                       txi, fullFlush, next, blockIndex, chain, pc, lost, budget>>
    BY DEF ConnectTipBIP30, diskVars, jobVars, flushVars, bounded
  <1>2. PICK o \in Outputs(b) :
          cacheCoins' = [cacheCoins EXCEPT ![o] = FetchCoin(cacheCoins[o], db.coins[o])]
    BY DEF ConnectTipBIP30
  <1>3. o \in Outpoints
    BY TxFacts DEF Outputs, Tx
  <1>4. /\ cacheCoins[o] \in MaybeEntry /\ db.coins[o] \in Coins
        /\ Sound(cacheCoins[o], db.coins[o])
    BY <1>1, <1>3 DEF TypeOK, FlagsSound, Caches, CoinMaps
  <1>5. /\ FetchCoin(cacheCoins[o], db.coins[o]) \in MaybeEntry
        /\ Sound(FetchCoin(cacheCoins[o], db.coins[o]), db.coins[o])
    BY <1>4, FetchCoinSound
  <1>6. cacheCoins' \in Caches
    BY <1>2, <1>5 DEF TypeOK, Caches
  <1>7. TypeOK'
    BY <1>1, <1>6 DEF TypeOK
  <1>8. FlagsSound'
    BY <1>1, <1>2, <1>5 DEF FlagsSound, TypeOK, Caches
  <1>9. UndoInv' /\ ConnectInv' /\ DisconnectInv' /\ ReplayInv'
    BY <1>1 DEF UndoInv, UndoGood, ConnectInv, DisconnectInv, ReplayInv
  <1>10. QED
    BY <1>7, <1>8, <1>9

LEMMA ConnectTxStep ==
  ASSUME IInv, ConnectTx
  PROVE  IInv'
  <1> USE DEF IInv
  <1> DEFINE tx == ConnectingTx
             h == Height[block]
  <1>1. /\ pc = "connect" /\ txi < Len(Txs[block]) /\ txi' = txi + 1
        /\ \A o \in tx.vin : ~Missing(o)
        /\ cacheCoins' = FetchedBy(tx.vin)
        /\ view' = UpdateCoins(view, TipCoins, tx, h)
        /\ blockundo' = [o \in Outpoints |-> IF o \in tx.vin
                                             THEN Value(view[o], TipCoins[o])
                                             ELSE blockundo[o]]
        /\ UNCHANGED <<hashBlock, db, files, synced, indexDb, fullFlush, next,
                       blockIndex, chain, pc, block, lost, budget>>
    BY DEF ConnectTx, diskVars, flushVars, bounded
  <1>2. /\ block \in Blocks /\ txi \in Nat
        /\ \A i \in DOMAIN Txs[block] :
             /\ i > txi => \A o \in Txs[block][i].vout : Missing(o)
             /\ i <= txi => \A o \in Txs[block][i].vin : blockundo[o] # Spent
    BY <1>1 DEF ConnectInv, TypeOK
  <1>3. /\ DOMAIN Txs[block] = 1..Len(Txs[block]) /\ Len(Txs[block]) \in Nat
        /\ \A i \in 1..Len(Txs[block]) : Txs[block][i] \in Tx
    BY <1>2, TxFacts
  <1>4. tx = Txs[block][txi + 1] /\ txi + 1 \in 1..Len(Txs[block])
    BY <1>1, <1>2, <1>3 DEF ConnectingTx
  <1>5. tx \in Tx /\ h \in Coins /\ h # Spent
    BY <1>2, <1>4, TxFacts
  <1>6. \A o \in tx.vout : Value(view[o], TipCoins[o]) = Spent
    BY <1>2, <1>3, <1>4 DEF Missing
  <1>7. /\ cacheCoins \in Caches /\ view \in Caches /\ db.coins \in CoinMaps
        /\ blockundo \in CoinMaps
        /\ AllSound(cacheCoins, db.coins) /\ AllSound(view, TipCoins)
    BY <1>1 DEF TypeOK, FlagsSound, AllSound
  <1>8. TipCoins \in CoinMaps
    BY <1>7, SeenFacts DEF TipCoins
  <1>9. /\ cacheCoins' \in Caches /\ AllSound(cacheCoins', db.coins)
        /\ Seen(cacheCoins', db.coins) = TipCoins
    BY <1>1, <1>7, FetchedBySound
  <1>10. TipCoins' = TipCoins
    BY <1>1, <1>9 DEF TipCoins
  <1> HIDE DEF tx, h
  <1>11. /\ view' \in Caches /\ AllSound(view', TipCoins)
         /\ \A o \in Outpoints :
              Value(view'[o], TipCoins[o]) = IF o \in tx.vin THEN Spent
                                             ELSE IF o \in tx.vout THEN h
                                             ELSE Value(view[o], TipCoins[o])
    BY <1>1, <1>5, <1>6, <1>7, <1>8, UpdateCoinsSound
  <1>12. blockundo' \in CoinMaps
    <2>1. \A o \in Outpoints : Value(view[o], TipCoins[o]) \in Coins
      BY <1>7, <1>8 DEF Value, Caches, CoinMaps, MaybeEntry, Entry
    <2>2. QED
      BY <1>1, <1>7, <2>1 DEF CoinMaps
  <1>13. TypeOK'
    BY <1>1, <1>2, <1>9, <1>11, <1>12 DEF TypeOK
  <1>14. FlagsSound'
    BY <1>1, <1>9, <1>10, <1>11 DEF FlagsSound, AllSound
  <1>15. ASSUME NEW i \in 1..Len(Txs[block]), i > txi + 1,
                NEW o \in Txs[block][i].vout
         PROVE  Missing(o)'
    <2>1. o \in Outpoints
      BY <1>3 DEF Tx
    <2>2. o \notin tx.vout
      <3>1. i # txi + 1
        BY <1>2, <1>15
      <3>2. \A j, k \in DOMAIN Txs[block] :
              j # k => Txs[block][j].vout \cap Txs[block][k].vout = {}
        BY <1>2, UtxoAssumption
      <3>3. Txs[block][i].vout \cap Txs[block][txi + 1].vout = {}
        BY <1>3, <1>4, <3>1, <3>2
      <3>4. QED
        BY <1>4, <3>3
    <2>3. Value(view[o], TipCoins[o]) = Spent
      BY <1>15, <1>2, <1>3 DEF Missing
    <2>4. QED
      BY <1>10, <1>11, <2>1, <2>2, <2>3 DEF Missing
  <1>16. ASSUME NEW i \in 1..Len(Txs[block]), i <= txi + 1,
                NEW o \in Txs[block][i].vin
         PROVE  blockundo'[o] # Spent
    <2>1. o \in Outpoints
      BY <1>3 DEF Tx
    <2>2. CASE o \in tx.vin
      BY <1>1, <2>1, <2>2 DEF Missing
    <2>3. CASE o \notin tx.vin
      <3>1. i <= txi
        <4>1. i # txi + 1
          BY <1>4, <2>3
        <4>2. QED
          BY <1>2, <1>16, <4>1
      <3>2. QED
        BY <1>1, <1>2, <1>3, <2>1, <2>3, <3>1
    <2>4. QED
      BY <2>2, <2>3
  <1>17. ConnectInv'
    <2>1. /\ block' = block /\ pc' = "connect" /\ txi' = txi + 1
          /\ txi + 1 <= Len(Txs[block])
      BY <1>1, <1>4
    <2>2. \A i \in 1..Len(Txs[block]) :
            /\ i > txi + 1 => \A o \in Txs[block][i].vout : Missing(o)'
            /\ i <= txi + 1 => \A o \in Txs[block][i].vin : blockundo'[o] # Spent
      BY <1>15, <1>16
    <2>3. QED
      BY <1>2, <1>3, <2>1, <2>2 DEF ConnectInv
  <1>18. UndoInv' /\ DisconnectInv' /\ ReplayInv'
    BY <1>1 DEF UndoInv, UndoGood, DisconnectInv, ReplayInv
  <1>19. QED
    BY <1>13, <1>14, <1>17, <1>18

LEMMA ConnectBlockInvalidStep ==
  ASSUME IInv, ConnectBlockInvalid
  PROVE  IInv'
  <1> USE DEF IInv
  <1>1. /\ pc = "connect" /\ pc' = "idle" /\ view' = NoEntries
        /\ blockundo' = NoCoins /\ block' = NoBlock /\ txi' = 0
        /\ UNCHANGED <<hashBlock, db, files, synced, indexDb, fullFlush, next,
                       blockIndex, chain, lost, budget>>
    BY DEF ConnectBlockInvalid, EndJob, diskVars, flushVars, bounded
  <1>2. PICK outs : cacheCoins' = FetchedBy(outs)
    BY DEF ConnectBlockInvalid
  <1>3. cacheCoins \in Caches /\ db.coins \in CoinMaps /\ AllSound(cacheCoins, db.coins)
    BY <1>1 DEF TypeOK, FlagsSound, AllSound
  <1>4. cacheCoins' \in Caches /\ AllSound(cacheCoins', db.coins)
    BY <1>2, <1>3, FetchedBySound
  <1>5. TypeOK'
    BY <1>1, <1>4, EmptySound DEF TypeOK, MaybeBlock
  <1>6. FlagsSound'
    BY <1>1, <1>4 DEF FlagsSound, AllSound
  <1>7. UndoInv' /\ ConnectInv' /\ DisconnectInv' /\ ReplayInv'
    BY <1>1 DEF UndoInv, UndoGood, ConnectInv, DisconnectInv, ReplayInv
  <1>8. QED
    BY <1>5, <1>6, <1>7

(* What FlushStateToDisk leaves to the invariant. *)
LEMMA FlushStarts ==
  ASSUME TypeOK, NEW mode, NEW tip \in MaybeBlock, FlushStateToDisk(mode, tip)
  PROVE  /\ pc' \in {"idle", "files"}
         /\ chain' \in MaybeBlock /\ next' \in MaybeBlock /\ fullFlush' \in BOOLEAN
  BY DEF FlushStateToDisk, TypeOK, flushVars

LEMMA ConnectTipEndStep ==
  ASSUME IInv, ConnectTipEnd
  PROVE  IInv'
  <1> USE DEF IInv
  <1>1. /\ pc = "connect" /\ txi = Len(Txs[block]) /\ view' = NoEntries
        /\ blockundo' = NoCoins /\ block' = NoBlock /\ txi' = 0
        /\ files' = IF block = Genesis \/ files[block] # NoUndo THEN files
                    ELSE [files EXCEPT ![block] = blockundo]
        /\ blockIndex' = blockIndex \cup {block} /\ hashBlock' = block
        /\ cacheCoins' = [o \in Outpoints |-> BatchWrite(cacheCoins[o], view[o])]
        /\ FlushStateToDisk("IF_NEEDED", block)
        /\ UNCHANGED <<db, synced, indexDb, lost, budget>>
    BY DEF ConnectTipEnd, EndJob, FlushView, bounded
  <1>2. /\ block \in Blocks
        /\ \A i \in DOMAIN Txs[block] :
             i <= txi => \A o \in Txs[block][i].vin : blockundo[o] # Spent
    BY <1>1 DEF ConnectInv
  <1>3. /\ pc' \in {"idle", "files"}
        /\ chain' \in MaybeBlock /\ next' \in MaybeBlock /\ fullFlush' \in BOOLEAN
    BY <1>1, <1>2, FlushStarts DEF MaybeBlock
  <1>4. /\ cacheCoins \in Caches /\ view \in Caches /\ db.coins \in CoinMaps
        /\ AllSound(cacheCoins, db.coins) /\ AllSound(view, TipCoins)
    BY <1>1 DEF TypeOK, FlagsSound, AllSound
  <1>5. cacheCoins' \in Caches /\ AllSound(cacheCoins', db.coins)
    BY <1>1, <1>4, FlushViewSound DEF TipCoins
  <1>6. files' \in Files
    BY <1>1, <1>2 DEF TypeOK, Files
  <1>7. TypeOK'
    BY <1>1, <1>2, <1>3, <1>5, <1>6, EmptySound DEF TypeOK, MaybeBlock
  <1>8. FlagsSound'
    BY <1>1, <1>3, <1>5 DEF FlagsSound, AllSound
  <1>9. UndoGood(block, blockundo)
    BY <1>1, <1>2, TxFacts DEF UndoGood
  <1>10. UndoInv'
    BY <1>1, <1>2, <1>9 DEF UndoInv, UndoGood, TypeOK, Files
  <1>11. ConnectInv' /\ DisconnectInv' /\ ReplayInv'
    BY <1>3 DEF ConnectInv, DisconnectInv, ReplayInv
  <1>12. QED
    BY <1>7, <1>8, <1>10, <1>11

-----------------------------------------------------------------------------
(* DisconnectTip, and lookups by the mempool. *)
LEMMA DisconnectTipStep ==
  ASSUME IInv, DisconnectTip
  PROVE  IInv'
  <1> USE DEF IInv
  <1>1. /\ pc = "idle" /\ chain # NoBlock /\ files[chain] # NoUndo
        /\ pc' = "disconnect" /\ block' = chain /\ txi' = Len(Txs[chain])
        /\ view' = NoEntries /\ blockundo' = NoCoins
        /\ budget["disconnect"] > 0
        /\ budget' = [budget EXCEPT !["disconnect"] = budget["disconnect"] - 1]
        /\ UNCHANGED <<cacheCoins, hashBlock, db, files, synced, indexDb, fullFlush,
                       next, blockIndex, chain, lost>>
    BY DEF DisconnectTip, Readable, Spend, NewJob, coinVars, diskVars, flushVars
  <1>2. chain \in Blocks
    BY <1>1 DEF TypeOK, MaybeBlock
  <1>3. budget' \in [{"stop", "error", "disconnect"} -> Nat]
    BY <1>1 DEF TypeOK
  <1>4. TypeOK'
    BY <1>1, <1>2, <1>3, EmptySound, TxFacts DEF TypeOK
  <1>5. FlagsSound'
    BY <1>1, EmptySound DEF FlagsSound, AllSound
  <1>6. DisconnectInv'
    BY <1>1, <1>2, TxFacts DEF DisconnectInv
  <1>7. UndoInv' /\ ConnectInv' /\ ReplayInv'
    BY <1>1 DEF UndoInv, UndoGood, ConnectInv, ReplayInv
  <1>8. QED
    BY <1>4, <1>5, <1>6, <1>7

LEMMA DisconnectTxStep ==
  ASSUME IInv, DisconnectTx
  PROVE  IInv'
  <1> USE DEF IInv
  <1> DEFINE tx == Txs[block][txi]
  <1>1. /\ pc = "disconnect" /\ txi > 0 /\ txi' = txi - 1
        /\ cacheCoins' = FetchedBy(tx.vout \cup tx.vin)
        /\ view' = UndoTx(view, TipCoins, tx, files[block])
        /\ UNCHANGED <<hashBlock, db, files, synced, indexDb, fullFlush, next,
                       blockIndex, chain, pc, block, blockundo, lost, budget>>
    BY DEF DisconnectTx, diskVars, flushVars, bounded
  <1>2. /\ block \in Blocks /\ txi <= Len(Txs[block]) /\ files[block] # NoUndo
        /\ txi \in Nat
    BY <1>1 DEF DisconnectInv, TypeOK
  <1>3. txi \in DOMAIN Txs[block] /\ tx \in Tx
    <2> HIDE DEF IInv
    <2>1. txi \in 1 .. Len(Txs[block])
      BY <1>1, <1>2
    <2>2. QED
      BY <1>2, <2>1, TxFacts
  <1>4. files[block] \in CoinMaps /\ \A o \in tx.vin : files[block][o] # Spent
    BY <1>2, <1>3 DEF UndoInv, UndoGood, TypeOK, Files
  <1>5. /\ cacheCoins \in Caches /\ view \in Caches /\ db.coins \in CoinMaps
        /\ AllSound(cacheCoins, db.coins) /\ AllSound(view, TipCoins)
    BY <1>1 DEF TypeOK, FlagsSound, AllSound
  <1>6. TipCoins \in CoinMaps
    BY <1>5, SeenFacts DEF TipCoins
  <1> HIDE DEF tx
  <1>7. /\ cacheCoins' \in Caches /\ AllSound(cacheCoins', db.coins)
        /\ Seen(cacheCoins', db.coins) = TipCoins
    BY <1>1, <1>5, FetchedBySound
  <1>8. TipCoins' = TipCoins
    BY <1>1, <1>7 DEF TipCoins
  <1>9. view' \in Caches /\ AllSound(view', TipCoins)
    BY <1>1, <1>3, <1>4, <1>5, <1>6, UndoTxSound
  <1>10. txi' \in Nat /\ txi' <= Len(Txs[block])
    BY <1>1, <1>2, TxFacts
  <1>11. TypeOK'
    BY <1>1, <1>7, <1>9, <1>10 DEF TypeOK
  <1>12. FlagsSound'
    BY <1>1, <1>7, <1>8, <1>9 DEF FlagsSound, AllSound
  <1>13. DisconnectInv'
    BY <1>1, <1>2, <1>10 DEF DisconnectInv
  <1>14. UndoInv' /\ ConnectInv' /\ ReplayInv'
    BY <1>1 DEF UndoInv, UndoGood, ConnectInv, ReplayInv
  <1>15. QED
    BY <1>11, <1>12, <1>13, <1>14

LEMMA DisconnectTipEndStep ==
  ASSUME IInv, DisconnectTipEnd
  PROVE  IInv'
  <1> USE DEF IInv
  <1>1. /\ pc = "disconnect" /\ view' = NoEntries
        /\ blockundo' = NoCoins /\ block' = NoBlock /\ txi' = 0
        /\ hashBlock' = Parent[block]
        /\ cacheCoins' = [o \in Outpoints |-> BatchWrite(cacheCoins[o], view[o])]
        /\ FlushStateToDisk("IF_NEEDED", Parent[block])
        /\ UNCHANGED <<db, files, synced, indexDb, blockIndex, lost, budget>>
    BY DEF DisconnectTipEnd, EndJob, FlushView, diskVars, bounded
  <1>2. Parent[block] \in MaybeBlock
    BY <1>1, UtxoAssumption DEF DisconnectInv, MaybeBlock
  <1>3. /\ pc' \in {"idle", "files"}
        /\ chain' \in MaybeBlock /\ next' \in MaybeBlock /\ fullFlush' \in BOOLEAN
    BY <1>1, <1>2, FlushStarts
  <1>4. /\ cacheCoins \in Caches /\ view \in Caches /\ db.coins \in CoinMaps
        /\ AllSound(cacheCoins, db.coins) /\ AllSound(view, TipCoins)
    BY <1>1 DEF TypeOK, FlagsSound, AllSound
  <1>5. cacheCoins' \in Caches /\ AllSound(cacheCoins', db.coins)
    BY <1>1, <1>4, FlushViewSound DEF TipCoins
  <1>6. TypeOK'
    BY <1>1, <1>2, <1>3, <1>5, EmptySound DEF TypeOK, MaybeBlock
  <1>7. FlagsSound'
    BY <1>1, <1>3, <1>5 DEF FlagsSound, AllSound
  <1>8. UndoInv' /\ ConnectInv' /\ DisconnectInv' /\ ReplayInv'
    BY <1>1, <1>3 DEF UndoInv, UndoGood, ConnectInv, DisconnectInv, ReplayInv
  <1>9. QED
    BY <1>6, <1>7, <1>8

LEMMA AcceptToMemoryPoolStep ==
  ASSUME IInv, NEW o \in Inputs, NEW accepted \in BOOLEAN,
         AcceptToMemoryPool(o, accepted)
  PROVE  IInv'
  <1> USE DEF IInv
  <1> DEFINE e == FetchCoin(cacheCoins[o], db.coins[o])
             f == IF accepted \/ Value(cacheCoins[o], Spent) # Spent
                  THEN e ELSE Uncache(e)
  <1>1. /\ pc = "idle" /\ cacheCoins' = [cacheCoins EXCEPT ![o] = f]
        /\ FlushStateToDisk("PERIODIC", chain)
        /\ UNCHANGED <<hashBlock, db, files, synced, indexDb, view, blockundo, block,
                       txi, blockIndex, lost, budget>>
    BY DEF AcceptToMemoryPool, diskVars, jobVars, bounded
  <1>2. /\ pc' \in {"idle", "files"}
        /\ chain' \in MaybeBlock /\ next' \in MaybeBlock /\ fullFlush' \in BOOLEAN
    BY <1>1, FlushStarts DEF TypeOK
  <1>3. o \in Outpoints
    BY UtxoAssumption
  <1>4. /\ cacheCoins[o] \in MaybeEntry /\ db.coins[o] \in Coins
        /\ Sound(cacheCoins[o], db.coins[o])
    BY <1>1, <1>3 DEF TypeOK, FlagsSound, Caches, CoinMaps
  <1>5. e \in MaybeEntry /\ Sound(e, db.coins[o])
    BY <1>4, FetchCoinSound
  <1> HIDE DEF e
  <1>6. Uncache(e) \in MaybeEntry /\ Sound(Uncache(e), db.coins[o])
    BY <1>4, <1>5, UncacheSound
  <1>7. f \in MaybeEntry /\ Sound(f, db.coins[o])
    BY <1>5, <1>6
  <1> HIDE DEF f
  <1>8. cacheCoins' \in Caches
    BY <1>1, <1>7 DEF TypeOK, Caches
  <1>9. TypeOK'
    BY <1>1, <1>2, <1>8 DEF TypeOK
  <1>10. FlagsSound'
    BY <1>1, <1>2, <1>7 DEF FlagsSound, TypeOK, Caches
  <1>11. UndoInv' /\ ConnectInv' /\ DisconnectInv' /\ ReplayInv'
    BY <1>1, <1>2 DEF UndoInv, UndoGood, ConnectInv, DisconnectInv, ReplayInv
  <1>12. QED
    BY <1>9, <1>10, <1>11
=============================================================================

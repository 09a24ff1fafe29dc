----------------------------- MODULE UtxoState ------------------------------
(***************************************************************************)
(* The set of unspent outputs while blocks are connected and disconnected, *)
(* on its way to disk, and after a crash: CoinsTip over the coins database *)
(* (txdb.cpp), the block and undo files, the block index database, and the *)
(* parts of validation.cpp that write them in order or repair them:        *)
(* ConnectBlock, DisconnectBlock, FlushStateToDisk and ReplayBlocks.       *)
(*                                                                         *)
(* cs_main is held from the start of ConnectTip, DisconnectTip and         *)
(* FlushStateToDisk to their end; their steps are separate actions here    *)
(* because the process may die between any two writes.  Which block is     *)
(* connected next is module ChainState's subject: any child of the tip may *)
(* be connected and any tip disconnected.                                  *)
(***************************************************************************)
EXTENDS CoinsCache, Sequences

CONSTANTS
    Outpoints,
    Blocks, Genesis, NoBlock,
    Parent,        \* the parent of each block; NoBlock above Genesis
    Height,        \* CBlockIndex::nHeight
    Ancestors,     \* the block and all blocks below it
    Txs,           \* the transactions of each block: [vin, vout, coinbase]
    Inputs,        \* outpoints that transactions offered to the mempool spend
    NoUndo,        \* the undo position of the block is null
    KeepBlocks,    \* MIN_BLOCKS_TO_KEEP
    MaxStops,      \* bounds on shutdowns and crashes,
    MaxErrors,     \*   on failing writes
    MaxDisconnects \*   and on disconnected blocks

Tx == [vin : SUBSET Outpoints, vout : SUBSET Outpoints, coinbase : BOOLEAN]

ASSUME UtxoAssumption ==
    /\ Genesis \in Blocks /\ NoBlock \notin Blocks
    /\ Parent \in [Blocks -> Blocks \cup {NoBlock}]
    /\ Height \in [Blocks -> Nat] /\ Height[Genesis] = 0
    /\ \A b \in Blocks \ {Genesis} :
          Parent[b] \in Blocks /\ Height[b] = Height[Parent[b]] + 1
    /\ Ancestors \in [Blocks -> SUBSET Blocks] /\ Ancestors[Genesis] = {Genesis}
    /\ \A b \in Blocks \ {Genesis} : Ancestors[b] = {b} \cup Ancestors[Parent[b]]
    /\ \A b \in Blocks : /\ Genesis \in Ancestors[b]
                         /\ \A a \in Ancestors[b] : Height[a] <= Height[b]
    /\ Txs \in [Blocks -> Seq(Tx)]
    /\ Txs[Genesis] = << >>
    /\ \A b \in Blocks : \A i, j \in DOMAIN Txs[b] :
          i # j => Txs[b][i].vout \cap Txs[b][j].vout = {}
    /\ NoUndo \notin [Outpoints -> Coins]
    /\ Inputs \subseteq Outpoints
    /\ {KeepBlocks, MaxStops, MaxErrors, MaxDisconnects} \subseteq Nat

VARIABLES
    cacheCoins,   \* the entries of CoinsTip, or of ReplayBlocks' cache
    hashBlock,    \* CoinsTip().GetBestBlock()
    view,         \* the CCoinsViewCache of ConnectTip and DisconnectTip
    blockundo,    \* the undo data ConnectBlock is collecting
    db,           \* the coins database: coins, best block, head blocks
    files,        \* the block and undo files: the undo data of each block
    synced,       \* the part of files that a crash cannot lose
    blockIndex,   \* the blocks of m_block_index
    indexDb,      \* the blocks of the block index database
    chain,        \* m_chain.Tip()
    pc,           \* which step of which function comes next
    block,        \* the block that function works on
    txi,          \* how many of its transactions are applied
    fullFlush,    \* fDoFullFlush
    next,         \* the block SetTip gets after the flush; NoBlock: exit
    lost,         \* whether a failed write has lost a batch of coins
    budget        \* stops, write errors and disconnections left

coinVars == <<cacheCoins, hashBlock>>
diskVars == <<db, files, synced, indexDb>>
jobVars  == <<view, blockundo, block, txi>>
flushVars == <<fullFlush, next>>
bounded == <<lost, budget>>
vars == <<coinVars, diskVars, jobVars, flushVars, blockIndex, chain, pc, bounded>>

NoEntries == [o \in Outpoints |-> NoEntry]
NoCoins   == [o \in Outpoints |-> Spent]

(* The coins visible through a cache c over the coins of its base. *)
Seen(c, base) == [o \in Outpoints |-> Value(c[o], base[o])]

TipCoins == Seen(cacheCoins, db.coins)

-----------------------------------------------------------------------------
(* Transactions, as functions on a cache over what its base shows.         *)

(* UpdateCoins: AddCoins lets only a coinbase overwrite. *)
UpdateCoins(c, base, tx, h) ==
    [o \in Outpoints |->
        IF o \in tx.vin THEN SpendCoin(FetchCoin(c[o], base[o]))
        ELSE IF o \in tx.vout THEN AddCoin(c[o], h, tx.coinbase) ELSE c[o]]

UpdateCoinsThrows(c, tx) ==
    \E o \in tx.vout : AddCoinThrows(c[o], tx.coinbase)

(* RollforwardBlock: AddCoins asks the view whether it overwrites. *)
RollforwardTx(c, base, tx, h) ==
    [o \in Outpoints |->
        IF o \in tx.vin THEN SpendCoin(FetchCoin(c[o], base[o]))
        ELSE IF o \in tx.vout
        THEN LET e == FetchCoin(c[o], base[o])
             IN  AddCoin(e, h, Value(e, Spent) # Spent)
        ELSE c[o]]

(* One transaction of DisconnectBlock: spend the outputs, restore the      *)
(* inputs (ApplyTxInUndo).                                                 *)
UndoTx(c, base, tx, undo) ==
    [o \in Outpoints |->
        IF o \in tx.vout THEN SpendCoin(FetchCoin(c[o], base[o]))
        ELSE IF o \in tx.vin
        THEN LET e == FetchCoin(c[o], base[o])
             IN  AddCoin(e, undo[o], Value(e, Spent) # Spent)
        ELSE c[o]]

(* DISCONNECT_UNCLEAN is not returned for this transaction. *)
UndoTxClean(c, base, tx, h) ==
    /\ \A o \in tx.vout : Value(c[o], base[o]) = h
    /\ \A o \in tx.vin : Value(c[o], base[o]) = Spent

(* Reading through the view leaves clean entries behind in CoinsTip. *)
FetchedBy(outs) ==
    [o \in Outpoints |->
        IF o \in outs /\ view[o] = NoEntry
        THEN FetchCoin(cacheCoins[o], db.coins[o]) ELSE cacheCoins[o]]

-----------------------------------------------------------------------------
(* FlushStateToDisk, as the last part of the action that calls it: it      *)
(* returns at once or starts writing.  Whether the cache is too large or   *)
(* enough time has passed is left open.                                    *)
FlushStateToDisk(mode, tip) ==
    \/ /\ mode # "ALWAYS"
       /\ pc' = "idle" /\ chain' = tip
       /\ UNCHANGED flushVars
    \/ /\ pc' = "files" /\ next' = tip
       /\ fullFlush' \in IF mode = "PERIODIC" THEN BOOLEAN ELSE {TRUE}
       /\ UNCHANGED chain

(* The end of FlushStateToDisk: back in ConnectTip or DisconnectTip, which *)
(* set the new tip, in ReplayBlocks, or in Shutdown.                       *)
FlushReturns ==
    /\ pc' = IF next = NoBlock THEN "down" ELSE "idle"
    /\ chain' = next
    /\ next' = NoBlock /\ fullFlush' = FALSE

Spend(what) ==
    /\ budget[what] > 0
    /\ budget' = [budget EXCEPT ![what] = @ - 1]
    /\ UNCHANGED lost

NewJob(op, b, n) ==
    /\ pc' = op /\ block' = b /\ txi' = n
    /\ view' = NoEntries /\ blockundo' = NoCoins

(* The locals go out of scope. *)
EndJob ==
    /\ view' = NoEntries /\ blockundo' = NoCoins
    /\ block' = NoBlock /\ txi' = 0

Init ==
    /\ cacheCoins = NoEntries /\ view = NoEntries
    /\ hashBlock = NoBlock /\ chain = NoBlock /\ next = NoBlock
    /\ block = NoBlock /\ txi = 0 /\ blockundo = NoCoins
    /\ db = [coins |-> NoCoins, best |-> NoBlock, heads |-> << >>]
    /\ files = [b \in Blocks |-> NoUndo]
    /\ synced = files
    /\ blockIndex = {} /\ indexDb = {}
    /\ pc = "idle" /\ fullFlush = FALSE
    /\ budget = [stop |-> MaxStops, error |-> MaxErrors,
                 disconnect |-> MaxDisconnects]
    /\ lost = FALSE

-----------------------------------------------------------------------------
(* ConnectTip: ConnectBlock takes the block up; no output of it may exist  *)
(* already (BIP30).  AcceptBlock stored the block and its index entry some *)
(* time before; both matter only once it is connected, and are recorded    *)
(* then, together with the undo data.                                      *)
Outputs(b) == UNION {Txs[b][i].vout : i \in DOMAIN Txs[b]}

ConnectTip(b) ==
    /\ pc = "idle" /\ Parent[b] = chain
    /\ \A o \in Outputs(b) : TipCoins[o] = Spent
    /\ NewJob("connect", b, 0)
    /\ UNCHANGED <<coinVars, diskVars, flushVars, blockIndex, chain, bounded>>

(* bad-txns-BIP30: looking for the output brought it into CoinsTip. *)
ConnectTipBIP30(b) ==
    /\ pc = "idle" /\ Parent[b] = chain
    /\ \E o \in Outputs(b) :
          /\ TipCoins[o] # Spent
          /\ cacheCoins' = [cacheCoins EXCEPT ![o] = FetchCoin(@, db.coins[o])]
    /\ UNCHANGED <<hashBlock, diskVars, jobVars, flushVars, blockIndex, chain,
                   pc, bounded>>

ConnectingTx == Txs[block][txi + 1]

Missing(o) == Value(view[o], TipCoins[o]) = Spent

(* One turn of the loop of ConnectBlock: CheckTxInputs finds the inputs,   *)
(* UpdateCoins spends them and keeps their coins as undo data.             *)
ConnectTx ==
    /\ pc = "connect" /\ txi < Len(Txs[block])
    /\ \A o \in ConnectingTx.vin : ~Missing(o)
    /\ cacheCoins' = FetchedBy(ConnectingTx.vin)
    /\ view' = UpdateCoins(view, TipCoins, ConnectingTx, Height[block])
    /\ blockundo' = [o \in Outpoints |-> IF o \in ConnectingTx.vin
                                         THEN Value(view[o], TipCoins[o])
                                         ELSE blockundo[o]]
    /\ txi' = txi + 1
    /\ UNCHANGED <<hashBlock, diskVars, flushVars, blockIndex, chain, pc,
                   block, bounded>>

(* bad-txns-inputs-missingorspent: the view is dropped, the tip stays.     *)
ConnectBlockInvalid ==
    /\ pc = "connect" /\ txi < Len(Txs[block])
    /\ \E o \in ConnectingTx.vin : Missing(o)
    /\ \E outs \in SUBSET ConnectingTx.vin : cacheCoins' = FetchedBy(outs)
    /\ pc' = "idle" /\ EndJob
    /\ UNCHANGED <<hashBlock, diskVars, flushVars, blockIndex, chain, bounded>>

(* view.Flush(): BatchWrite into CoinsTip. *)
FlushView(best) ==
    /\ cacheCoins' = [o \in Outpoints |-> BatchWrite(cacheCoins[o], view[o])]
    /\ hashBlock' = best

(* The end of ConnectBlock, which writes the undo data unless the block is *)
(* Genesis or has some already, and of ConnectTip.                         *)
ConnectTipEnd ==
    /\ pc = "connect" /\ txi = Len(Txs[block])
    /\ files' = IF block = Genesis \/ files[block] # NoUndo THEN files
                ELSE [files EXCEPT ![block] = blockundo]
    /\ blockIndex' = blockIndex \cup {block}
    /\ FlushView(block)
    /\ FlushStateToDisk("IF_NEEDED", block)
    /\ EndJob
    /\ UNCHANGED <<db, synced, indexDb, bounded>>

-----------------------------------------------------------------------------
(* DisconnectTip.  ReadBlockFromDisk and UndoReadFromDisk must succeed.    *)
Readable(b) == files[b] # NoUndo

DisconnectTip ==
    /\ pc = "idle" /\ chain \notin {NoBlock, Genesis}
    /\ Readable(chain)
    /\ Spend("disconnect")
    /\ NewJob("disconnect", chain, Len(Txs[chain]))
    /\ UNCHANGED <<coinVars, diskVars, flushVars, blockIndex, chain>>

DisconnectTx ==
    /\ pc = "disconnect" /\ txi > 0
    /\ LET tx == Txs[block][txi] IN
          /\ cacheCoins' = FetchedBy(tx.vout \cup tx.vin)
          /\ view' = UndoTx(view, TipCoins, tx, files[block])
    /\ txi' = txi - 1
    /\ UNCHANGED <<hashBlock, diskVars, flushVars, blockIndex, chain, pc,
                   block, blockundo, bounded>>

DisconnectTipEnd ==
    /\ pc = "disconnect" /\ txi = 0
    /\ FlushView(Parent[block])
    /\ FlushStateToDisk("IF_NEEDED", Parent[block])
    /\ EndJob
    /\ UNCHANGED <<diskVars, blockIndex, bounded>>

(* AcceptToMemoryPool looks an input up through CoinsTip, uncaches it if   *)
(* the transaction is refused and the coin was not cached before, and      *)
(* offers a periodic flush.                                                *)
AcceptToMemoryPool(o, accepted) ==
    /\ pc = "idle" /\ chain # NoBlock
    /\ LET e == FetchCoin(cacheCoins[o], db.coins[o])
           inCache == Value(cacheCoins[o], Spent) # Spent
       IN  cacheCoins' = [cacheCoins EXCEPT
                            ![o] = IF accepted \/ inCache THEN e ELSE Uncache(e)]
    /\ FlushStateToDisk("PERIODIC", chain)
    /\ UNCHANGED <<hashBlock, diskVars, jobVars, blockIndex, bounded>>

-----------------------------------------------------------------------------
(* The steps of FlushStateToDisk.  First the block and undo files.         *)
FlushBlockFile ==
    /\ pc = "files"
    /\ synced' = files
    /\ pc' = "index"
    /\ UNCHANGED <<coinVars, db, files, indexDb, jobVars, flushVars,
                   blockIndex, chain, bounded>>

(* FindFilesToPrune: the stored blocks too deep below the tip. *)
Prunable ==
    {b \in Blocks : chain # NoBlock /\ Height[b] + KeepBlocks < Height[chain]}

Unlinked(f, gone) == [b \in Blocks |-> IF b \in gone THEN NoUndo ELSE f[b]]

(* Mutant: the coins are flushed without writing the block index first. *)
WriteBlockIndexDB_Skipped ==
    /\ pc = "index"
    /\ UNCHANGED <<indexDb, files, synced>>
    /\ IF fullFlush /\ hashBlock # NoBlock
       THEN pc' = "coins" /\ UNCHANGED <<chain, flushVars>> ELSE FlushReturns
    /\ UNCHANGED <<coinVars, db, jobVars, blockIndex, bounded>>

(* Then the block index, and the removal of pruned files. *)
WriteBlockIndexDB ==
    /\ pc = "index"
    /\ indexDb' = blockIndex
    /\ \E gone \in IF fullFlush THEN {{}, Prunable} ELSE {{}} :
          /\ files' = Unlinked(files, gone)
          /\ synced' = Unlinked(synced, gone)
    /\ IF fullFlush /\ hashBlock # NoBlock
       THEN pc' = "coins" /\ UNCHANGED <<chain, flushVars>> ELSE FlushReturns
    /\ UNCHANGED <<coinVars, db, jobVars, blockIndex, bounded>>

(* CheckDiskSpace or WriteBlockIndexDB fails: FatalError. *)
FlushFails ==
    /\ pc \in {"files", "index"} /\ Spend("error")
    /\ pc' = "halted"
    /\ UNCHANGED <<coinVars, diskVars, jobVars, flushVars, blockIndex, chain>>

(* CCoinsViewDB::BatchWrite goes through CoinsTip in any order, erasing    *)
(* entries as it collects them, and writes a batch whenever one is full.   *)
Cached == {o \in Outpoints : cacheCoins[o] # NoEntry}

Written(batch) ==
    [o \in Outpoints |-> IF o \in batch /\ cacheCoins[o].dirty
                         THEN cacheCoins[o].coin ELSE db.coins[o]]

Erased(batch) == [o \in Outpoints |-> IF o \in batch THEN NoEntry ELSE cacheCoins[o]]

OldTip == IF db.best = NoBlock /\ Len(db.heads) = 2 THEN db.heads[2] ELSE db.best

(* Mutant: a partial batch does not record the transition. *)
WritePartialBatch_NoHeads(batch) ==
    /\ pc \in {"coins", "replayed"} /\ batch # {} /\ batch # Cached
    /\ db' = [db EXCEPT !.coins = Written(batch)]
    /\ cacheCoins' = Erased(batch)
    /\ UNCHANGED <<hashBlock, files, synced, indexDb, jobVars, flushVars,
                   blockIndex, chain, pc, bounded>>

(* Mutant: only the new tip is recorded. *)
WritePartialBatch_OneHead(batch) ==
    /\ pc \in {"coins", "replayed"} /\ batch # {} /\ batch # Cached
    /\ db' = [coins |-> Written(batch), best |-> NoBlock, heads |-> <<hashBlock>>]
    /\ cacheCoins' = Erased(batch)
    /\ UNCHANGED <<hashBlock, files, synced, indexDb, jobVars, flushVars,
                   blockIndex, chain, pc, bounded>>

(* The first batch also replaces the best block by the two head blocks. *)
WritePartialBatch(batch) ==
    /\ pc \in {"coins", "replayed"} /\ batch # {} /\ batch # Cached
    /\ db' = [coins |-> Written(batch), best |-> NoBlock,
              heads |-> <<hashBlock, OldTip>>]
    /\ cacheCoins' = Erased(batch)
    /\ UNCHANGED <<hashBlock, files, synced, indexDb, jobVars, flushVars,
                   blockIndex, chain, pc, bounded>>

WriteFinalBatch ==
    /\ pc \in {"coins", "replayed"}
    /\ db' = [coins |-> Written(Cached), best |-> hashBlock, heads |-> << >>]
    /\ cacheCoins' = NoEntries
    /\ FlushReturns
    /\ UNCHANGED <<hashBlock, files, synced, indexDb, jobVars, blockIndex,
                   bounded>>

(* WriteBatch throws, and the batch is in neither place: FatalError.  With *)
(* an empty batch: CheckDiskSpace fails before the first one.              *)
WriteBatchFails(batch) ==
    /\ pc = "coins" /\ budget.error > 0
    /\ budget' = [budget EXCEPT !.error = @ - 1]
    /\ cacheCoins' = Erased(batch)
    /\ lost' = (lost \/ \E o \in batch : cacheCoins[o].dirty)
    /\ pc' = "halted"
    /\ UNCHANGED <<hashBlock, diskVars, jobVars, flushVars, blockIndex, chain>>

(* In ReplayBlocks CoinsTip does not exist yet: the start-up is given up   *)
(* and Shutdown has nothing to flush.                                      *)
ReplayWriteFails ==
    /\ pc = "replayed" /\ Spend("error")
    /\ cacheCoins' = NoEntries /\ hashBlock' = NoBlock
    /\ pc' = "down" /\ next' = NoBlock
    /\ UNCHANGED <<diskVars, jobVars, fullFlush, blockIndex, chain>>

(* Shutdown calls ForceFlushStateToDisk, also after a FatalError. *)
Shutdown ==
    /\ \/ pc = "idle" /\ Spend("stop")
       \/ pc = "halted" /\ UNCHANGED bounded
    /\ FlushStateToDisk("ALWAYS", NoBlock)
    /\ UNCHANGED <<coinVars, diskVars, jobVars, blockIndex>>

-----------------------------------------------------------------------------
(* The process dies.  What the file system had not written may be gone.    *)
Crash ==
    /\ pc # "down" /\ Spend("stop")
    /\ pc' = "down"
    /\ files' \in {files, synced}
    /\ cacheCoins' = NoEntries /\ hashBlock' = NoBlock /\ chain' = NoBlock
    /\ blockIndex' = {} /\ EndJob
    /\ next' = NoBlock /\ fullFlush' = FALSE
    /\ UNCHANGED <<db, synced, indexDb>>

(* LastCommonAncestor; NoBlock if the old tip is null (first flush). *)
Fork(old, new) ==
    IF old = NoBlock THEN NoBlock
    ELSE CHOOSE b \in Ancestors[old] \cap Ancestors[new] :
            \A c \in Ancestors[old] \cap Ancestors[new] : Height[c] <= Height[b]

NewHead == db.heads[1]
ForkBlock == Fork(db.heads[2], NewHead)

(* LoadBlockIndex, then ReplayBlocks if a flush was interrupted, then      *)
(* LoadChainTip.  A restart that fails leaves the node down.               *)
Restart ==
    /\ pc = "down"
    /\ cacheCoins' = NoEntries
    /\ blockIndex' = indexDb
    /\ IF db.heads = << >>
       THEN /\ db.best \in indexDb \cup {NoBlock}
            /\ pc' = "idle" /\ chain' = db.best /\ hashBlock' = db.best
            /\ UNCHANGED jobVars
       ELSE /\ NewHead \in indexDb /\ db.heads[2] \in indexDb \cup {NoBlock}
            /\ NewJob("rollback", db.heads[2],
                      IF db.heads[2] = NoBlock THEN 0 ELSE Len(Txs[db.heads[2]]))
            /\ UNCHANGED <<chain, hashBlock>>
    /\ UNCHANGED <<diskVars, flushVars, bounded>>

(* Rollback along the old branch; an unclean result is ignored. *)
RollbackTx ==
    /\ pc = "rollback" /\ block # ForkBlock /\ txi > 0
    /\ Readable(block)
    /\ cacheCoins' = UndoTx(cacheCoins, db.coins, Txs[block][txi], files[block])
    /\ txi' = txi - 1
    /\ UNCHANGED <<hashBlock, diskVars, view, blockundo, block, flushVars,
                   blockIndex, chain, pc, bounded>>

(* Mutant: the rollback does not move on to the parent. *)
RollbackNext_Stays ==
    /\ pc = "rollback" /\ block # ForkBlock /\ txi = 0
    /\ txi' = Len(Txs[block])
    /\ UNCHANGED <<coinVars, diskVars, view, blockundo, block, flushVars,
                   blockIndex, chain, pc, bounded>>

RollbackNext ==
    /\ pc = "rollback" /\ block # ForkBlock /\ txi = 0
    /\ block' = Parent[block] /\ txi' = Len(Txs[Parent[block]])
    /\ UNCHANGED <<coinVars, diskVars, view, blockundo, flushVars, blockIndex,
                   chain, pc, bounded>>

(* The first block to roll forward is the one after the fork, or the one   *)
(* after Genesis if there was no old tip.                                  *)
RollbackDone ==
    /\ pc = "rollback" /\ block = ForkBlock
    /\ LET from == IF block = NoBlock THEN Genesis ELSE block
       IN  block' = from /\ txi' = Len(Txs[from])
    /\ pc' = "rollforward"
    /\ UNCHANGED <<coinVars, diskVars, view, blockundo, flushVars, blockIndex,
                   chain, bounded>>

RollforwardBlock ==
    /\ pc = "rollforward" /\ txi < Len(Txs[block])
    /\ Readable(block)
    /\ cacheCoins' = RollforwardTx(cacheCoins, db.coins, Txs[block][txi + 1],
                                   Height[block])
    /\ txi' = txi + 1
    /\ UNCHANGED <<hashBlock, diskVars, view, blockundo, block, flushVars,
                   blockIndex, chain, pc, bounded>>

RollforwardNext ==
    /\ pc = "rollforward" /\ txi = Len(Txs[block]) /\ block # NewHead
    /\ block' \in {b \in Ancestors[NewHead] : Parent[b] = block}
    /\ txi' = 0
    /\ UNCHANGED <<coinVars, diskVars, view, blockundo, flushVars, blockIndex,
                   chain, pc, bounded>>

(* cache.Flush() of ReplayBlocks, without FlushStateToDisk. *)
ReplayBlocksEnd ==
    /\ pc = "rollforward" /\ txi = Len(Txs[block]) /\ block = NewHead
    /\ hashBlock' = NewHead /\ next' = NewHead
    /\ pc' = "replayed" /\ EndJob
    /\ UNCHANGED <<cacheCoins, diskVars, fullFlush, blockIndex, chain, bounded>>

Next ==
    \/ \E b \in Blocks : ConnectTip(b) \/ ConnectTipBIP30(b)
    \/ ConnectTx \/ ConnectBlockInvalid \/ ConnectTipEnd
    \/ DisconnectTip \/ DisconnectTx \/ DisconnectTipEnd
    \/ \E o \in Inputs, accepted \in BOOLEAN : AcceptToMemoryPool(o, accepted)
    \/ FlushBlockFile \/ WriteBlockIndexDB \/ FlushFails
    \/ \E batch \in SUBSET Cached : WritePartialBatch(batch) \/ WriteBatchFails(batch)
    \/ WriteFinalBatch \/ ReplayWriteFails
    \/ Shutdown \/ Crash \/ Restart
    \/ RollbackTx \/ RollbackNext \/ RollbackDone
    \/ RollforwardBlock \/ RollforwardNext \/ ReplayBlocksEnd

Spec == Init /\ [][Next]_vars

-----------------------------------------------------------------------------
(* The specification of the set: the coins after each block, one           *)
(* transaction after the other.                                            *)
ApplyTx(coins, tx, h) ==
    [o \in Outpoints |-> IF o \in tx.vin THEN Spent
                         ELSE IF o \in tx.vout THEN h ELSE coins[o]]

Utxo[b \in Blocks] ==
    LET after[i \in 0..Len(Txs[b])] ==
            IF i > 0 THEN ApplyTx(after[i - 1], Txs[b][i], Height[b])
            ELSE IF b = Genesis THEN NoCoins ELSE Utxo[Parent[b]]
    IN  after[Len(Txs[b])]

UtxoAt(b) == IF b = NoBlock THEN NoCoins ELSE Utxo[b]

Caches == [Outpoints -> MaybeEntry]
CoinMaps == [Outpoints -> Coins]
Files == [Blocks -> CoinMaps \cup {NoUndo}]
MaybeBlock == Blocks \cup {NoBlock}

TypeOK ==
    /\ cacheCoins \in Caches /\ view \in Caches /\ blockundo \in CoinMaps
    /\ db.coins \in CoinMaps /\ db.best \in MaybeBlock
    /\ db.heads \in {<< >>} \cup (Blocks \X MaybeBlock)
    /\ files \in Files /\ synced \in Files
    /\ blockIndex \subseteq Blocks /\ indexDb \subseteq Blocks
    /\ {hashBlock, chain, block, next} \subseteq MaybeBlock
    /\ pc \in {"idle", "connect", "disconnect", "files", "index", "coins",
               "halted", "down", "rollback", "rollforward", "replayed"}
    /\ txi \in Nat /\ fullFlush \in BOOLEAN /\ lost \in BOOLEAN
    /\ budget \in [{"stop", "error", "disconnect"} -> Nat]

(* The flags of every cached coin tell the truth about the layer below, in *)
(* CoinsTip over the database and in the view over CoinsTip: this is what  *)
(* lets a FRESH coin be erased when it is spent and an unmodified one be   *)
(* dropped (coins.h, the comment on FRESH and DIRTY).                      *)
FlagsSound ==
    /\ pc # "down" => \A o \in Outpoints : Sound(cacheCoins[o], db.coins[o])
    /\ pc \in {"connect", "disconnect"} =>
          \A o \in Outpoints : Sound(view[o], TipCoins[o])

(* Between two blocks CoinsTip shows exactly the outputs that the active   *)
(* chain leaves unspent, through any mix of reorganisations, partial       *)
(* flushes, lookups by the mempool and restarts.                           *)
TipShowsUtxo ==
    pc = "idle" /\ ~lost => hashBlock = chain /\ TipCoins = UtxoAt(chain)

(* A database that names a best block holds exactly the coins of that      *)
(* block ("In the last batch, mark the database as consistent with         *)
(* hashBlock again", txdb.cpp).                                            *)
DbMatchesBest == db.best # NoBlock => db.coins = UtxoAt(db.best)

(* The same as long as no write to the database has failed. *)
DbMatchesBestUnlessLost == ~lost => DbMatchesBest

(* After a crash at any point, also inside ReplayBlocks itself, the blocks *)
(* the database names are in the block index, and the blocks and undo data *)
(* that ReplayBlocks reads are on disk.                                    *)
RecoveryNeverFails ==
    /\ pc = "down" /\ db.heads = << >> => db.best \in indexDb \cup {NoBlock}
    /\ pc = "down" /\ db.heads # << >> =>
          NewHead \in indexDb /\ db.heads[2] \in indexDb \cup {NoBlock}
    /\ pc = "rollback" /\ block # ForkBlock /\ txi > 0 => Readable(block)
    /\ pc = "rollforward" /\ txi < Len(Txs[block]) => Readable(block)

(* The exceptions and assertions of the coins code are never reached: no   *)
(* coin is overwritten by surprise, no FRESH flag is misapplied, a block   *)
(* of the active chain never disconnects uncleanly, and an interrupted     *)
(* flush is only ever completed to the tip it was started for.             *)
NoLogicError ==
    ~lost =>
    /\ pc = "connect" /\ txi < Len(Txs[block]) =>
          ~UpdateCoinsThrows(view, ConnectingTx)
    /\ pc = "disconnect" /\ txi > 0 =>
          UndoTxClean(view, TipCoins, Txs[block][txi], Height[block])
    /\ pc \in {"connect", "disconnect"} =>
          \A o \in Outpoints : ~BatchWriteThrows(cacheCoins[o], view[o])
    /\ pc \in {"coins", "replayed"} /\ db.heads # << >> => NewHead = hashBlock

=============================================================================

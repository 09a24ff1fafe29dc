-------------------------- MODULE UtxoState_proofs --------------------------
(* The second half of the proofs about UtxoState: flushing, crashing and   *)
(* ReplayBlocks preserve the invariant, and what follows for every block   *)
(* tree, set of outpoints and number of failures.                          *)
EXTENDS UtxoConnect_proofs

-----------------------------------------------------------------------------
(* FlushStateToDisk, Shutdown and Crash. *)
LEMMA FlushBlockFileStep ==
  ASSUME IInv, FlushBlockFile
  PROVE  IInv'
  <1> USE DEF IInv
  <1>1. /\ pc = "files" /\ pc' = "index" /\ synced' = files
        /\ UNCHANGED <<cacheCoins, hashBlock, db, files, indexDb, view, blockundo,
                       block, txi, fullFlush, next, blockIndex, chain, lost, budget>>
    BY DEF FlushBlockFile, coinVars, jobVars, flushVars, bounded
  <1>2. TypeOK'
    BY <1>1 DEF TypeOK
  <1>3. FlagsSound'
    BY <1>1 DEF FlagsSound
  <1>4. UndoInv' /\ ConnectInv' /\ DisconnectInv' /\ ReplayInv'
    BY <1>1 DEF UndoInv, UndoGood, ConnectInv, DisconnectInv, ReplayInv
  <1>5. QED
    BY <1>2, <1>3, <1>4

LEMMA FlushEnds ==
  ASSUME TypeOK, FlushReturns
  PROVE  /\ pc' \in {"idle", "down"}
         /\ chain' \in MaybeBlock /\ next' \in MaybeBlock /\ fullFlush' \in BOOLEAN
  BY DEF FlushReturns, TypeOK, MaybeBlock

LEMMA WriteBlockIndexDBStep ==
  ASSUME IInv, WriteBlockIndexDB
  PROVE  IInv'
  <1> USE DEF IInv
  <1>1. /\ pc = "index" /\ indexDb' = blockIndex
        /\ UNCHANGED <<cacheCoins, hashBlock, db, view, blockundo, block, txi,
                       blockIndex, lost, budget>>
    BY DEF WriteBlockIndexDB, coinVars, jobVars, bounded
  <1>2. PICK gone : files' = Unlinked(files, gone) /\ synced' = Unlinked(synced, gone)
    BY DEF WriteBlockIndexDB
  <1>3. files' \in Files /\ synced' \in Files
    BY <1>2 DEF Unlinked, TypeOK, Files
  <1>4. /\ pc' \in {"coins", "idle", "down"} /\ (pc' = "coins" => hashBlock # NoBlock)
        /\ chain' \in MaybeBlock /\ next' \in MaybeBlock /\ fullFlush' \in BOOLEAN
    <2>1. CASE fullFlush /\ hashBlock # NoBlock
      BY <2>1 DEF WriteBlockIndexDB, TypeOK, flushVars
    <2>2. CASE ~(fullFlush /\ hashBlock # NoBlock)
      <3>1. FlushReturns
        BY <2>2 DEF WriteBlockIndexDB
      <3>2. QED
        BY <3>1, FlushEnds
    <2>3. QED
      BY <2>1, <2>2
  <1>5. TypeOK'
    BY <1>1, <1>3, <1>4 DEF TypeOK
  <1>6. FlagsSound'
    BY <1>1, <1>4 DEF FlagsSound
  <1>7. UndoInv'
    BY <1>2 DEF UndoInv, UndoGood, Unlinked
  <1>8. ConnectInv' /\ DisconnectInv' /\ ReplayInv'
    BY <1>1, <1>4 DEF ConnectInv, DisconnectInv, ReplayInv, TypeOK, MaybeBlock
  <1>9. QED
    BY <1>5, <1>6, <1>7, <1>8

LEMMA SpendBudget ==
  ASSUME TypeOK, NEW what \in {"stop", "error", "disconnect"}, budget[what] > 0
  PROVE  [budget EXCEPT ![what] = budget[what] - 1]
            \in [{"stop", "error", "disconnect"} -> Nat]
  BY DEF TypeOK

LEMMA FlushFailsStep ==
  ASSUME IInv, FlushFails
  PROVE  IInv'
  <1> USE DEF IInv
  <1>1. /\ pc \in {"files", "index"} /\ pc' = "halted" /\ budget["error"] > 0
        /\ budget' = [budget EXCEPT !["error"] = budget["error"] - 1]
        /\ UNCHANGED <<cacheCoins, hashBlock, db, files, synced, indexDb, view,
                       blockundo, block, txi, fullFlush, next, blockIndex, chain, lost>>
    BY DEF FlushFails, Spend, coinVars, diskVars, jobVars, flushVars
  <1>2. TypeOK'
    BY <1>1, SpendBudget DEF TypeOK
  <1>3. FlagsSound'
    BY <1>1 DEF FlagsSound
  <1>4. UndoInv' /\ ConnectInv' /\ DisconnectInv' /\ ReplayInv'
    BY <1>1 DEF UndoInv, UndoGood, ConnectInv, DisconnectInv, ReplayInv
  <1>5. QED
    BY <1>2, <1>3, <1>4

LEMMA WritePartialBatchStep ==
  ASSUME IInv, NEW batch \in SUBSET Cached, WritePartialBatch(batch)
  PROVE  IInv'
  <1> USE DEF IInv
  <1>1. /\ pc \in {"coins", "replayed"} /\ cacheCoins' = Erased(batch)
        /\ db'.coins = Written(batch) /\ db'.best = NoBlock
        /\ db'.heads = <<hashBlock, OldTip>>
        /\ UNCHANGED <<hashBlock, files, synced, indexDb, view, blockundo, block, txi,
                       fullFlush, next, blockIndex, chain, pc, lost, budget>>
    BY DEF WritePartialBatch, jobVars, flushVars, bounded
  <1>2. cacheCoins \in Caches /\ db.coins \in CoinMaps /\ AllSound(cacheCoins, db.coins)
    BY <1>1 DEF TypeOK, FlagsSound, AllSound
  <1>3. /\ Written(batch) \in CoinMaps /\ Erased(batch) \in Caches
        /\ AllSound(Erased(batch), Written(batch))
    BY <1>2, BatchSound
  <1>4. OldTip \in MaybeBlock
    BY DEF OldTip, TypeOK
  <1>5. hashBlock \in Blocks
    BY <1>1 DEF ReplayInv
  <1>6. TypeOK'
    BY <1>1, <1>3, <1>4, <1>5 DEF TypeOK, MaybeBlock
  <1>7. FlagsSound'
    BY <1>1, <1>3 DEF FlagsSound, AllSound
  <1>8. UndoInv' /\ ConnectInv' /\ DisconnectInv' /\ ReplayInv'
    BY <1>1, <1>5 DEF UndoInv, UndoGood, ConnectInv, DisconnectInv, ReplayInv
  <1>9. QED
    BY <1>6, <1>7, <1>8

LEMMA WriteFinalBatchStep ==
  ASSUME IInv, WriteFinalBatch
  PROVE  IInv'
  <1> USE DEF IInv
  <1>1. /\ pc \in {"coins", "replayed"} /\ cacheCoins' = NoEntries
        /\ db'.coins = Written(Cached) /\ db'.best = hashBlock /\ db'.heads = << >>
        /\ FlushReturns
        /\ UNCHANGED <<hashBlock, files, synced, indexDb, view, blockundo, block, txi,
                       blockIndex, lost, budget>>
    BY DEF WriteFinalBatch, jobVars, bounded
  <1>2. cacheCoins \in Caches /\ db.coins \in CoinMaps /\ AllSound(cacheCoins, db.coins)
    BY <1>1 DEF TypeOK, FlagsSound, AllSound
  <1>3. Written(Cached) \in CoinMaps
    BY <1>2, BatchSound
  <1>4. /\ pc' \in {"idle", "down"}
        /\ chain' \in MaybeBlock /\ next' \in MaybeBlock /\ fullFlush' \in BOOLEAN
    BY <1>1, FlushEnds
  <1>5. TypeOK'
    BY <1>1, <1>3, <1>4, EmptySound DEF TypeOK
  <1>6. FlagsSound'
    BY <1>1, <1>4, EmptySound DEF FlagsSound, AllSound
  <1>7. UndoInv' /\ ConnectInv' /\ DisconnectInv' /\ ReplayInv'
    BY <1>1, <1>4 DEF UndoInv, UndoGood, ConnectInv, DisconnectInv, ReplayInv
  <1>8. QED
    BY <1>5, <1>6, <1>7

LEMMA WriteBatchFailsStep ==
  ASSUME IInv, NEW batch \in SUBSET Cached, WriteBatchFails(batch)
  PROVE  IInv'
  <1> USE DEF IInv
  <1>1. /\ pc = "coins" /\ pc' = "halted" /\ cacheCoins' = Erased(batch)
        /\ budget.error > 0
        /\ budget' = [budget EXCEPT !.error = budget.error - 1]
        /\ lost' \in BOOLEAN
        /\ UNCHANGED <<hashBlock, db, files, synced, indexDb, view, blockundo, block,
                       txi, fullFlush, next, blockIndex, chain>>
    BY DEF WriteBatchFails, diskVars, jobVars, flushVars
  <1>2. cacheCoins \in Caches /\ db.coins \in CoinMaps /\ AllSound(cacheCoins, db.coins)
    BY <1>1 DEF TypeOK, FlagsSound, AllSound
  <1>3. Erased(batch) \in Caches /\ AllSound(Erased(batch), db.coins)
    BY <1>2, BatchSound
  <1>4. TypeOK'
    BY <1>1, <1>3, SpendBudget DEF TypeOK
  <1>5. FlagsSound'
    BY <1>1, <1>3 DEF FlagsSound, AllSound
  <1>6. UndoInv' /\ ConnectInv' /\ DisconnectInv' /\ ReplayInv'
    BY <1>1 DEF UndoInv, UndoGood, ConnectInv, DisconnectInv, ReplayInv
  <1>7. QED
    BY <1>4, <1>5, <1>6

LEMMA ReplayWriteFailsStep ==
  ASSUME IInv, ReplayWriteFails
  PROVE  IInv'
  <1> USE DEF IInv
  <1>1. /\ pc = "replayed" /\ pc' = "down" /\ cacheCoins' = NoEntries
        /\ hashBlock' = NoBlock /\ next' = NoBlock /\ budget["error"] > 0
        /\ budget' = [budget EXCEPT !["error"] = budget["error"] - 1]
        /\ UNCHANGED <<db, files, synced, indexDb, view, blockundo, block, txi,
                       fullFlush, blockIndex, chain, lost>>
    BY DEF ReplayWriteFails, Spend, diskVars, jobVars
  <1>2. TypeOK'
    BY <1>1, SpendBudget, EmptySound DEF TypeOK, MaybeBlock
  <1>3. FlagsSound'
    BY <1>1 DEF FlagsSound
  <1>4. UndoInv' /\ ConnectInv' /\ DisconnectInv' /\ ReplayInv'
    BY <1>1 DEF UndoInv, UndoGood, ConnectInv, DisconnectInv, ReplayInv
  <1>5. QED
    BY <1>2, <1>3, <1>4

LEMMA ShutdownStep ==
  ASSUME IInv, Shutdown
  PROVE  IInv'
  <1> USE DEF IInv
  <1>1. /\ pc \in {"idle", "halted"} /\ FlushStateToDisk("ALWAYS", NoBlock)
        /\ UNCHANGED <<cacheCoins, hashBlock, db, files, synced, indexDb, view,
                       blockundo, block, txi, blockIndex, lost>>
    BY DEF Shutdown, Spend, coinVars, diskVars, jobVars, bounded
  <1>2. \/ UNCHANGED budget
        \/ /\ budget["stop"] > 0
           /\ budget' = [budget EXCEPT !["stop"] = budget["stop"] - 1]
    BY DEF Shutdown, Spend, bounded
  <1>3. /\ pc' \in {"idle", "files"}
        /\ chain' \in MaybeBlock /\ next' \in MaybeBlock /\ fullFlush' \in BOOLEAN
    BY <1>1, FlushStarts DEF MaybeBlock
  <1>4. budget' \in [{"stop", "error", "disconnect"} -> Nat]
    BY <1>2, SpendBudget DEF TypeOK
  <1>5. TypeOK'
    BY <1>1, <1>3, <1>4 DEF TypeOK
  <1>6. FlagsSound'
    BY <1>1, <1>3 DEF FlagsSound
  <1>7. UndoInv' /\ ConnectInv' /\ DisconnectInv' /\ ReplayInv'
    BY <1>1, <1>3 DEF UndoInv, UndoGood, ConnectInv, DisconnectInv, ReplayInv
  <1>8. QED
    BY <1>5, <1>6, <1>7

LEMMA CrashStep ==
  ASSUME IInv, Crash
  PROVE  IInv'
  <1> USE DEF IInv
  <1>1. /\ pc' = "down" /\ files' \in {files, synced}
        /\ cacheCoins' = NoEntries /\ hashBlock' = NoBlock /\ chain' = NoBlock
        /\ blockIndex' = {} /\ view' = NoEntries /\ blockundo' = NoCoins
        /\ block' = NoBlock /\ txi' = 0 /\ next' = NoBlock /\ fullFlush' = FALSE
        /\ budget["stop"] > 0
        /\ budget' = [budget EXCEPT !["stop"] = budget["stop"] - 1]
        /\ UNCHANGED <<db, synced, indexDb, lost>>
    BY DEF Crash, Spend, EndJob
  <1>2. TypeOK'
    BY <1>1, SpendBudget, EmptySound DEF TypeOK, MaybeBlock
  <1>3. FlagsSound'
    BY <1>1 DEF FlagsSound
  <1>4. UndoInv' /\ ConnectInv' /\ DisconnectInv' /\ ReplayInv'
    BY <1>1 DEF UndoInv, UndoGood, ConnectInv, DisconnectInv, ReplayInv
  <1>5. QED
    BY <1>2, <1>3, <1>4

-----------------------------------------------------------------------------
(* Start-up and ReplayBlocks. *)
LEMMA HeadsFacts ==
  ASSUME TypeOK, db.heads # << >>
  PROVE  /\ NewHead \in Blocks /\ db.heads[2] \in MaybeBlock
         /\ db.heads[2] \in Blocks => /\ ForkBlock \in Ancestors[db.heads[2]]
                                      /\ ForkBlock \in Blocks
         /\ db.heads[2] = NoBlock => ForkBlock = NoBlock
  <1>1. NewHead \in Blocks /\ db.heads[2] \in MaybeBlock
    BY DEF TypeOK, NewHead
  <1>2. db.heads[2] \in Blocks => ForkBlock \in Ancestors[db.heads[2]]
    BY <1>1, ForkExists DEF ForkBlock
  <1>3. db.heads[2] = NoBlock => ForkBlock = NoBlock
    BY DEF ForkBlock, Fork
  <1>4. QED
    BY <1>1, <1>2, <1>3, UtxoAssumption

LEMMA RestartStep ==
  ASSUME IInv, Restart
  PROVE  IInv'
  <1> USE DEF IInv
  <1>1. /\ cacheCoins' = NoEntries /\ blockIndex' = indexDb
        /\ UNCHANGED <<db, files, synced, indexDb, fullFlush, next, lost, budget>>
    BY DEF Restart, diskVars, flushVars, bounded
  <1>2. UndoInv'
    BY <1>1 DEF UndoInv, UndoGood
  <1>3. CASE db.heads = << >>
    <2>1. /\ pc' = "idle" /\ chain' = db.best /\ hashBlock' = db.best
          /\ UNCHANGED <<view, blockundo, block, txi>>
      BY <1>3 DEF Restart, jobVars
    <2>2. TypeOK'
      BY <1>1, <2>1, EmptySound DEF TypeOK
    <2>3. FlagsSound'
      BY <1>1, <2>1, EmptySound DEF FlagsSound, AllSound
    <2>4. ConnectInv' /\ DisconnectInv' /\ ReplayInv'
      BY <2>1 DEF ConnectInv, DisconnectInv, ReplayInv
    <2>5. QED
      BY <1>2, <2>2, <2>3, <2>4
  <1>4. CASE db.heads # << >>
    <2> DEFINE old == db.heads[2]
    <2>1. /\ pc' = "rollback" /\ block' = old
          /\ txi' = IF old = NoBlock THEN 0 ELSE Len(Txs[old])
          /\ view' = NoEntries /\ blockundo' = NoCoins
          /\ UNCHANGED <<chain, hashBlock>>
      BY <1>4 DEF Restart, NewJob
    <2>2. /\ old \in MaybeBlock
          /\ old \in Blocks => ForkBlock \in Ancestors[old]
          /\ old = NoBlock => ForkBlock = NoBlock
      BY <1>4, HeadsFacts
    <2>3. txi' \in Nat /\ (old \in Blocks => txi' <= Len(Txs[old]))
      BY <2>1, <2>2, TxFacts, UtxoAssumption DEF MaybeBlock
    <2>4. ForkBlock' = ForkBlock
      BY <1>1 DEF ForkBlock, NewHead
    <2> HIDE DEF old
    <2>5. TypeOK'
      BY <1>1, <2>1, <2>2, <2>3, EmptySound DEF TypeOK
    <2>6. FlagsSound'
      BY <1>1, <2>1, EmptySound DEF FlagsSound, AllSound
    <2>7. ReplayInv'
      BY <1>1, <1>4, <2>1, <2>2, <2>3, <2>4 DEF ReplayInv, MaybeBlock
    <2>8. ConnectInv' /\ DisconnectInv'
      BY <2>1 DEF ConnectInv, DisconnectInv
    <2>9. QED
      BY <1>2, <2>5, <2>6, <2>7, <2>8
  <1>5. QED
    BY <1>3, <1>4

LEMMA RollbackTxStep ==
  ASSUME IInv, RollbackTx
  PROVE  IInv'
  <1> USE DEF IInv
  <1> DEFINE tx == Txs[block][txi]
  <1>1. /\ pc = "rollback" /\ block # ForkBlock /\ txi > 0 /\ txi' = txi - 1
        /\ files[block] # NoUndo
        /\ cacheCoins' = UndoTx(cacheCoins, db.coins, tx, files[block])
        /\ UNCHANGED <<hashBlock, db, files, synced, indexDb, view, blockundo, block,
                       fullFlush, next, blockIndex, chain, pc, lost, budget>>
    BY DEF RollbackTx, Readable, diskVars, flushVars, bounded
  <1>2. block \in Blocks /\ txi <= Len(Txs[block]) /\ txi \in Nat
    BY <1>1 DEF ReplayInv, TypeOK
  <1>3. txi \in DOMAIN Txs[block] /\ tx \in Tx
    BY <1>1, <1>2, TxFacts
  <1>4. files[block] \in CoinMaps /\ \A o \in tx.vin : files[block][o] # Spent
    BY <1>1, <1>2, <1>3 DEF UndoInv, UndoGood, TypeOK, Files
  <1>5. cacheCoins \in Caches /\ db.coins \in CoinMaps /\ AllSound(cacheCoins, db.coins)
    BY <1>1 DEF TypeOK, FlagsSound, AllSound
  <1> HIDE DEF tx
  <1>6. cacheCoins' \in Caches /\ AllSound(cacheCoins', db.coins)
    BY <1>1, <1>3, <1>4, <1>5, UndoTxSound
  <1>7. txi' \in Nat /\ txi' <= Len(Txs[block])
    BY <1>1, <1>2, TxFacts
  <1>8. ForkBlock' = ForkBlock
    BY <1>1 DEF ForkBlock, NewHead
  <1>9. TypeOK'
    BY <1>1, <1>6, <1>7 DEF TypeOK
  <1>10. FlagsSound'
    BY <1>1, <1>6 DEF FlagsSound, AllSound
  <1>11. ReplayInv'
    BY <1>1, <1>7, <1>8 DEF ReplayInv
  <1>12. UndoInv' /\ ConnectInv' /\ DisconnectInv'
    BY <1>1 DEF UndoInv, UndoGood, ConnectInv, DisconnectInv
  <1>13. QED
    BY <1>9, <1>10, <1>11, <1>12

LEMMA RollbackNextStep ==
  ASSUME IInv, RollbackNext
  PROVE  IInv'
  <1> USE DEF IInv
  <1>1. /\ pc = "rollback" /\ block # ForkBlock
        /\ block' = Parent[block] /\ txi' = Len(Txs[Parent[block]])
        /\ UNCHANGED <<cacheCoins, hashBlock, db, files, synced, indexDb, view,
                       blockundo, fullFlush, next, blockIndex, chain, pc, lost, budget>>
    BY DEF RollbackNext, coinVars, diskVars, flushVars, bounded
  <1>2. block \in Blocks /\ ForkBlock \in Ancestors[block]
    BY <1>1 DEF ReplayInv
  <1>3. block # Genesis
    BY <1>1, <1>2, UtxoAssumption
  <1>4. Parent[block] \in Blocks /\ ForkBlock \in Ancestors[Parent[block]]
    BY <1>1, <1>2, <1>3, UtxoAssumption
  <1>5. txi' \in Nat /\ txi' <= Len(Txs[Parent[block]])
    BY <1>1, <1>4, TxFacts
  <1>6. ForkBlock' = ForkBlock
    BY <1>1 DEF ForkBlock, NewHead
  <1>7. TypeOK'
    BY <1>1, <1>4, <1>5 DEF TypeOK, MaybeBlock
  <1>8. FlagsSound'
    BY <1>1 DEF FlagsSound
  <1>9. ReplayInv'
    BY <1>1, <1>4, <1>5, <1>6 DEF ReplayInv
  <1>10. UndoInv' /\ ConnectInv' /\ DisconnectInv'
    BY <1>1 DEF UndoInv, UndoGood, ConnectInv, DisconnectInv
  <1>11. QED
    BY <1>7, <1>8, <1>9, <1>10

LEMMA RollbackDoneStep ==
  ASSUME IInv, RollbackDone
  PROVE  IInv'
  <1> USE DEF IInv
  <1> DEFINE from == IF block = NoBlock THEN Genesis ELSE block
  <1>1. /\ pc = "rollback" /\ pc' = "rollforward"
        /\ block' = from /\ txi' = Len(Txs[from])
        /\ UNCHANGED <<cacheCoins, hashBlock, db, files, synced, indexDb, view,
                       blockundo, fullFlush, next, blockIndex, chain, lost, budget>>
    BY DEF RollbackDone, coinVars, diskVars, flushVars, bounded
  <1>2. from \in Blocks
    BY UtxoAssumption DEF TypeOK, MaybeBlock
  <1> HIDE DEF from
  <1>3. Len(Txs[from]) \in Nat
    BY <1>2, TxFacts
  <1>4. TypeOK'
    BY <1>1, <1>2, <1>3 DEF TypeOK, MaybeBlock
  <1>5. FlagsSound'
    BY <1>1 DEF FlagsSound
  <1>6. ReplayInv'
    BY <1>1, <1>2, <1>3 DEF ReplayInv
  <1>7. UndoInv' /\ ConnectInv' /\ DisconnectInv'
    BY <1>1 DEF UndoInv, UndoGood, ConnectInv, DisconnectInv
  <1>8. QED
    BY <1>4, <1>5, <1>6, <1>7

LEMMA RollforwardBlockStep ==
  ASSUME IInv, RollforwardBlock
  PROVE  IInv'
  <1> USE DEF IInv
  <1> DEFINE tx == Txs[block][txi + 1]
  <1>1. /\ pc = "rollforward" /\ txi < Len(Txs[block]) /\ txi' = txi + 1
        /\ cacheCoins' = RollforwardTx(cacheCoins, db.coins, tx, Height[block])
        /\ UNCHANGED <<hashBlock, db, files, synced, indexDb, view, blockundo, block,
                       fullFlush, next, blockIndex, chain, pc, lost, budget>>
    BY DEF RollforwardBlock, diskVars, flushVars, bounded
  <1>2. block \in Blocks /\ txi \in Nat
    BY <1>1 DEF ReplayInv, TypeOK
  <1>3. txi + 1 \in 1..Len(Txs[block]) /\ txi + 1 <= Len(Txs[block])
    BY <1>1, <1>2, TxFacts
  <1>4. tx \in Tx /\ Height[block] \in Coins /\ Height[block] # Spent
    BY <1>2, <1>3, TxFacts
  <1>5. cacheCoins \in Caches /\ db.coins \in CoinMaps /\ AllSound(cacheCoins, db.coins)
    BY <1>1 DEF TypeOK, FlagsSound, AllSound
  <1> HIDE DEF tx
  <1>6. cacheCoins' \in Caches /\ AllSound(cacheCoins', db.coins)
    BY <1>1, <1>4, <1>5, RollforwardTxSound
  <1>7. TypeOK'
    BY <1>1, <1>2, <1>6 DEF TypeOK
  <1>8. FlagsSound'
    BY <1>1, <1>6 DEF FlagsSound, AllSound
  <1>9. ReplayInv'
    BY <1>1, <1>3 DEF ReplayInv
  <1>10. UndoInv' /\ ConnectInv' /\ DisconnectInv'
    BY <1>1 DEF UndoInv, UndoGood, ConnectInv, DisconnectInv
  <1>11. QED
    BY <1>7, <1>8, <1>9, <1>10

LEMMA RollforwardNextStep ==
  ASSUME IInv, RollforwardNext
  PROVE  IInv'
  <1> USE DEF IInv
  <1>1. /\ pc = "rollforward" /\ txi' = 0 /\ block' \in Ancestors[NewHead]
        /\ UNCHANGED <<cacheCoins, hashBlock, db, files, synced, indexDb, view,
                       blockundo, fullFlush, next, blockIndex, chain, pc, lost, budget>>
    BY DEF RollforwardNext, coinVars, diskVars, flushVars, bounded
  <1>2. block' \in Blocks
    <2>1. NewHead \in Blocks
      BY <1>1, HeadsFacts DEF ReplayInv
    <2>2. QED
      BY <1>1, <2>1, UtxoAssumption
  <1>3. TypeOK'
    BY <1>1, <1>2 DEF TypeOK, MaybeBlock
  <1>4. FlagsSound'
    BY <1>1 DEF FlagsSound
  <1>5. ReplayInv'
    BY <1>1, <1>2, TxFacts DEF ReplayInv
  <1>6. UndoInv' /\ ConnectInv' /\ DisconnectInv'
    BY <1>1 DEF UndoInv, UndoGood, ConnectInv, DisconnectInv
  <1>7. QED
    BY <1>3, <1>4, <1>5, <1>6

LEMMA ReplayBlocksEndStep ==
  ASSUME IInv, ReplayBlocksEnd
  PROVE  IInv'
  <1> USE DEF IInv
  <1>1. /\ pc = "rollforward" /\ pc' = "replayed"
        /\ hashBlock' = NewHead /\ next' = NewHead
        /\ view' = NoEntries /\ blockundo' = NoCoins /\ block' = NoBlock /\ txi' = 0
        /\ UNCHANGED <<cacheCoins, db, files, synced, indexDb, fullFlush, blockIndex,
                       chain, lost, budget>>
    BY DEF ReplayBlocksEnd, EndJob, diskVars, bounded
  <1>2. NewHead \in Blocks
    BY <1>1, HeadsFacts DEF ReplayInv
  <1>3. TypeOK'
    BY <1>1, <1>2, EmptySound DEF TypeOK, MaybeBlock
  <1>4. FlagsSound'
    BY <1>1 DEF FlagsSound
  <1>5. ReplayInv'
    BY <1>1, <1>2 DEF ReplayInv
  <1>6. UndoInv' /\ ConnectInv' /\ DisconnectInv'
    BY <1>1 DEF UndoInv, UndoGood, ConnectInv, DisconnectInv
  <1>7. QED
    BY <1>3, <1>4, <1>5, <1>6

LEMMA IInvStutter ==
  ASSUME IInv, UNCHANGED vars
  PROVE  IInv'
  <1>1. UNCHANGED <<cacheCoins, hashBlock, db, files, synced, indexDb, view, blockundo,
                    block, txi, fullFlush, next, blockIndex, chain, pc, lost, budget>>
    BY DEF vars, coinVars, diskVars, jobVars, flushVars, bounded
  <1>2. ForkBlock' = ForkBlock /\ TipCoins' = TipCoins
    BY <1>1 DEF ForkBlock, NewHead, TipCoins
  <1>3. TypeOK'
    BY <1>1 DEF IInv, TypeOK
  <1>4. FlagsSound'
    BY <1>1, <1>2 DEF IInv, FlagsSound
  <1>5. UndoInv' /\ DisconnectInv' /\ ReplayInv'
    BY <1>1, <1>2 DEF IInv, UndoInv, UndoGood, DisconnectInv, ReplayInv
  <1>6. ConnectInv'
    BY <1>1, <1>2 DEF IInv, ConnectInv, Missing
  <1>7. QED
    BY <1>3, <1>4, <1>5, <1>6 DEF IInv

LEMMA IInvNext == IInv /\ [Next]_vars => IInv'
  <1> SUFFICES ASSUME IInv, [Next]_vars PROVE IInv'
    OBVIOUS
  <1>1. ASSUME NEW b \in Blocks, ConnectTip(b) \/ ConnectTipBIP30(b)
        PROVE  IInv'
    BY <1>1, ConnectTipStep, ConnectTipBIP30Step
  <1>2. CASE ConnectTx \/ ConnectBlockInvalid \/ ConnectTipEnd
    BY <1>2, ConnectTxStep, ConnectBlockInvalidStep, ConnectTipEndStep
  <1>3. CASE DisconnectTip \/ DisconnectTx \/ DisconnectTipEnd
    BY <1>3, DisconnectTipStep, DisconnectTxStep, DisconnectTipEndStep
  <1>4. ASSUME NEW o \in Inputs, NEW accepted \in BOOLEAN,
               AcceptToMemoryPool(o, accepted)
        PROVE  IInv'
    BY <1>4, AcceptToMemoryPoolStep
  <1>5. CASE FlushBlockFile \/ WriteBlockIndexDB \/ FlushFails
    BY <1>5, FlushBlockFileStep, WriteBlockIndexDBStep, FlushFailsStep
  <1>6. ASSUME NEW batch \in SUBSET Cached,
               WritePartialBatch(batch) \/ WriteBatchFails(batch)
        PROVE  IInv'
    BY <1>6, WritePartialBatchStep, WriteBatchFailsStep
  <1>7. CASE WriteFinalBatch \/ ReplayWriteFails \/ Shutdown \/ Crash \/ Restart
    BY <1>7, WriteFinalBatchStep, ReplayWriteFailsStep, ShutdownStep, CrashStep,
       RestartStep
  <1>8. CASE RollbackTx \/ RollbackNext \/ RollbackDone
    BY <1>8, RollbackTxStep, RollbackNextStep, RollbackDoneStep
  <1>9. CASE RollforwardBlock \/ RollforwardNext \/ ReplayBlocksEnd
    BY <1>9, RollforwardBlockStep, RollforwardNextStep, ReplayBlocksEndStep
  <1>10. CASE UNCHANGED vars
    BY <1>10, IInvStutter
  <1>11. QED
    BY <1>1, <1>2, <1>3, <1>4, <1>5, <1>6, <1>7, <1>8, <1>9, <1>10, Zenon DEF Next

LEMMA IInvAlways == Spec => []IInv
  BY IInvInit, IInvNext, PTL DEF Spec

(* Every variable keeps its type, whatever the tree of blocks, the number  *)
(* of failing writes and the number of crashes.                            *)
THEOREM UtxoTypeCorrect == Spec => []TypeOK
  <1>1. IInv => TypeOK
    BY DEF IInv
  <1>2. QED
    BY <1>1, IInvAlways, PTL

(* The DIRTY and FRESH flags of CCoinsCacheEntry always tell the truth     *)
(* about the layer below, in CoinsTip and in the view of ConnectTip and    *)
(* DisconnectTip, also in the cache of ReplayBlocks and after a batch of   *)
(* coins was lost by a failing write.                                      *)
THEOREM FlagsAlwaysSound == Spec => []FlagsSound
  <1>1. IInv => FlagsSound
    BY DEF IInv
  <1>2. QED
    BY <1>1, IInvAlways, PTL

(* Neither of the two exceptions of CCoinsViewCache is ever thrown by the  *)
(* handling of blocks: AddCoin's "Attempted to overwrite an unspent coin"  *)
(* and BatchWrite's "FRESH flag misapplied to coin that exists in parent   *)
(* cache".  No write is assumed to succeed.                                *)
CoinsNeverThrow ==
  /\ pc = "connect" /\ txi < Len(Txs[block]) => ~UpdateCoinsThrows(view, ConnectingTx)
  /\ pc \in {"connect", "disconnect"} =>
       \A o \in Outpoints : ~BatchWriteThrows(cacheCoins[o], view[o])

THEOREM CoinsNeverThrowTheorem == Spec => []CoinsNeverThrow
  <1>1. IInv => CoinsNeverThrow
    <2> SUFFICES ASSUME IInv PROVE CoinsNeverThrow
      OBVIOUS
    <2>1. ASSUME pc = "connect", txi < Len(Txs[block])
          PROVE  ~UpdateCoinsThrows(view, ConnectingTx)
      <3>1. /\ block \in Blocks /\ txi \in Nat
            /\ \A i \in DOMAIN Txs[block] :
                 i > txi => \A o \in Txs[block][i].vout : Missing(o)
        BY <2>1 DEF IInv, ConnectInv, TypeOK
      <3>2. txi + 1 \in DOMAIN Txs[block] /\ txi + 1 > txi
        BY <2>1, <3>1, TxFacts
      <3>3. \A o \in ConnectingTx.vout : Missing(o)
        BY <3>1, <3>2 DEF ConnectingTx
      <3>4. QED
        BY <3>3 DEF UpdateCoinsThrows, AddCoinThrows, Missing, Value
    <2>2. ASSUME pc \in {"connect", "disconnect"}, NEW o \in Outpoints
          PROVE  ~BatchWriteThrows(cacheCoins[o], view[o])
      <3>1. /\ cacheCoins \in Caches /\ view \in Caches /\ db.coins \in CoinMaps
            /\ Sound(cacheCoins[o], db.coins[o]) /\ Sound(view[o], TipCoins[o])
        BY <2>2 DEF IInv, TypeOK, FlagsSound
      <3>2. TipCoins[o] = Value(cacheCoins[o], db.coins[o])
        BY <3>1, SeenFacts DEF TipCoins
      <3>3. QED
        BY <3>1, <3>2, BatchWriteSound DEF Caches, CoinMaps
    <2>3. QED
      BY <2>1, <2>2 DEF CoinsNeverThrow
  <1>2. QED
    BY <1>1, IInvAlways, PTL
=============================================================================

------------------------------- MODULE Index -------------------------------
(***************************************************************************)
(* The optional indexes (index/base.cpp and the three kinds): a thread     *)
(* that reads the chain from the disk until it has caught up, then the     *)
(* callbacks of the validation signals, a database written in several      *)
(* batches, reorganisations, failing writes, crashes and restarts.         *)
(*                                                                         *)
(* The callbacks come from one queue, in order (module Signals).  A value  *)
(* of the index (a MuHash with its totals, a filter header) is abstracted  *)
(* to how often each block was added to it.                                *)
(***************************************************************************)
EXTENDS Naturals, Integers, Sequences, FiniteSets, Functions

CONSTANTS
  IdxBlocks,        \* the blocks, Genesis among them
  IdxGenesis,
  IdxParent,        \* the parent of every other block
  Kinds,         \* "tx", "filter" and "coinstats", or some of them
  NoBlock,
  MaxPos,        \* bound: filters in the file
  MaxTrouble,    \* bound: failing reads and writes, crashes and shutdowns, InvalidateBlock
  MaxFlushes     \* bound: flushes of the chainstate while the node is up

ASSUME IndexAssumption ==
  /\ IdxGenesis \in IdxBlocks /\ NoBlock \notin IdxBlocks
  /\ IdxParent \in [IdxBlocks \ {IdxGenesis} -> IdxBlocks]

VARIABLES
  kind,          \* the index that runs
  node,          \* "up", "fatal" (AbortNode was called), "stopping", "down", "aborted"
                 \* (down after a failed assertion) or "refused" (Init returned an error)
  itip, known,    \* active tip (None: empty chain) and blocks of the block index
  failed,        \* blocks the user declared invalid
  diskTip, diskKnown,  \* what a restart finds of the chain
  queue,         \* callbacks to come: [type, block]
  best, synced,  \* m_best_block_index, m_synced
  val, pos,      \* m_muhash with its totals; m_next_filter_pos
  pc, pindex, target,  \* the sync thread, its pindex and pindex_next
  cb,            \* what the callback thread is doing with the first callback
  db,            \* the database: [height, hash, best, val, pos], and as history had,
                 \* the blocks ever at or below the best block
  file,          \* the filter file: the block whose filter is at a position
  failures, crashes, flushes

chainVars == <<itip, known, failed>>
diskVars == <<diskTip, diskKnown>>
memVars == <<best, synced, val, pos>>
syncVars == <<pc, pindex, target>>
boundVars == <<failures, crashes, flushes>>
indexVars == <<kind, node, chainVars, diskVars, queue, memVars, syncVars, cb, db, file, boundVars>>

-----------------------------------------------------------------------------
(* The chain *)

\* The blocks from b down to the genesis block.
IdxChain[b \in IdxBlocks \cup {NoBlock}] ==
  IF b = NoBlock THEN {} ELSE IF b = IdxGenesis THEN {b} ELSE {b} \cup IdxChain[IdxParent[b]]

IdxHeight(b) == Cardinality(IdxChain[b]) - 1
Pprev(b) == IF b = IdxGenesis THEN NoBlock ELSE IdxParent[b]
Heights == {IdxHeight(b) : b \in IdxBlocks}

\* CChain::Next: the block after b on the active chain.
ChainNext(b) ==
  LET next == {c \in IdxChain[itip] : Pprev(c) = b}
  IN  IF next = {} THEN NoBlock ELSE CHOOSE c \in next : TRUE

FindFork(b) == CHOOSE f \in IdxChain[b] \cap IdxChain[itip] : IdxChain[b] \cap IdxChain[itip] \subseteq IdxChain[f]

NextSyncBlock_NoFork(b) == ChainNext(b)

NextSyncBlock(b) ==
  IF b = NoBlock \/ ChainNext(b) # NoBlock THEN ChainNext(b) ELSE ChainNext(FindFork(b))

\* The blocks of Chain[b] that are not in Chain[a], lowest first.
Path(a, b) ==
  LET S == IdxChain[b] \ IdxChain[a]
  IN  [i \in 1..Cardinality(S) |-> CHOOSE c \in S : Cardinality(IdxChain[c] \cap S) = i]

-----------------------------------------------------------------------------
(* Values, and what is written *)

Empty == [b \in IdxBlocks |-> 0]
Added(v, b) == [v EXCEPT ![b] = @ + 1]
Minus(v, S) == [b \in IdxBlocks |-> v[b] - IF b \in S THEN 1 ELSE 0]

\* The value that belongs to b.
Right(b) == [c \in IdxBlocks |-> IF c \in IdxChain[b] THEN 1 ELSE 0]

NoEntry == [block |-> NoBlock, val |-> Empty, pos |-> 0]
EmptyDB == [height |-> [h \in Heights |-> NoEntry], hash |-> [b \in IdxBlocks |-> NoEntry],
            best |-> NoBlock, val |-> Empty, pos |-> 0, had |-> {}]

\* LookUpOne: by height if the block there is the right one, else by hash.
LookUpOne(b) ==
  LET e == db.height[IdxHeight(b)]
  IN  IF e.block = NoBlock THEN NoEntry ELSE IF e.block = b THEN e ELSE db.hash[b]

Trouble == failures + crashes + Cardinality(failed)

\* One of the several reads and writes of an operation fails, or all is well.
Attempt(ok) ==
  /\ ok \/ Trouble < MaxTrouble
  /\ failures' = failures + IF ok THEN 0 ELSE 1

\* Commit, of the best block b: one batch.  Its failure is ignored, except in Rewind.
Committed(b, v, p) ==
  IF b = NoBlock THEN db ELSE [db EXCEPT !.best = b, !.val = v, !.pos = p, !.had = @ \cup IdxChain[b]]

\* The entry of the parent, which CustomAppend wants to find.
Previous(b) ==
  LET e == db.height[IdxHeight(b) - 1]
  IN  IF e.block = IdxParent[b] THEN e
      ELSE IF kind = "coinstats" /\ e.block # NoBlock THEN db.hash[IdxParent[b]] ELSE NoEntry

CanAppend(b) == kind = "tx" \/ b = IdxGenesis \/ Previous(b).block # NoBlock

\* CustomAppend writes the entry of b; the filter itself was written before it.
Appended(b) ==
  LET before == IF b = IdxGenesis THEN Empty ELSE Previous(b).val
      e == [block |-> b, pos |-> IF kind = "filter" THEN pos ELSE 0,
            val |-> CASE kind = "coinstats" -> Added(val, b)
                      [] kind = "filter" -> Added(before, b)
                      [] kind = "tx" -> Right(b)]
  IN  IF kind # "tx" THEN [db EXCEPT !.height[IdxHeight(b)] = e]
      ELSE IF b = IdxGenesis THEN db ELSE [db EXCEPT !.hash[b] = e]

\* A failure leaves the totals of the coin statistics changed when it is the
\* last write that fails, and unchanged when it is a read before.
CustomAppend(b, ok) ==
  /\ Attempt(ok)
  /\ db' = IF ok THEN Appended(b) ELSE db
  /\ val' \in IF kind # "coinstats" THEN {val} ELSE IF ok THEN {Added(val, b)} ELSE {val, Added(val, b)}
  /\ file' = IF ok /\ kind = "filter" THEN [file EXCEPT ![pos] = b] ELSE file
  /\ pos' = IF ok /\ kind = "filter" THEN pos + 1 ELSE pos

\* CopyHeightIndexToHashIndex; for filters the batch holds the position as well.
Copied(from, to) ==
  LET entries == {db.height[h] : h \in IdxHeight(to)..IdxHeight(from)}
      moved(b) == {e \in entries : e.block = b}
  IN  [db EXCEPT !.hash = [b \in IdxBlocks |-> IF moved(b) = {} THEN @[b] ELSE CHOOSE e \in moved(b) : TRUE],
                 !.pos = IF kind = "filter" THEN pos ELSE @]

CanCopy(from, to) ==
  kind = "tx" \/ \A h \in IdxHeight(to)..IdxHeight(from) : db.height[h].block # NoBlock


CustomRewind(from, to, ok) ==
  /\ Attempt(ok)
  /\ db' = IF ok /\ kind # "tx" THEN Copied(from, to) ELSE db
  /\ val' = IF ok /\ kind = "coinstats" THEN Minus(val, IdxChain[from] \ IdxChain[to]) ELSE val

-----------------------------------------------------------------------------
(* Start, shutdown and crash *)

\* CustomInit: the committed value must be the one of the committed block.
CustomInit ==
  kind = "coinstats" /\ db.best # NoBlock =>
    LookUpOne(db.best).block # NoBlock /\ LookUpOne(db.best).val = db.val

\* BaseIndex::Init and StartBackgroundSync.
StartIndex ==
  /\ node \in {"down", "aborted"}
  /\ IF db.best # NoBlock /\ (db.best \notin known \/ ~CustomInit)
     THEN /\ node' = "refused" /\ UNCHANGED <<memVars, syncVars>>
     ELSE /\ node' = "up"
          /\ best' = db.best /\ pindex' = db.best /\ target' = NoBlock
          /\ val' = db.val /\ pos' = db.pos
          /\ synced' = (db.best = itip)
          /\ pc' = IF synced' THEN "done" ELSE "next"
  /\ UNCHANGED <<kind, chainVars, diskVars, queue, cb, db, file, boundVars>>

\* The user has the index built anew.
Rebuild ==
  /\ node = "refused"
  /\ node' = "down" /\ db' = EmptyDB
  /\ UNCHANGED <<kind, chainVars, diskVars, queue, memVars, syncVars, cb, file, boundVars>>

\* What is in memory is gone; the chain is what was last flushed.
GoDown(how) ==
  /\ node' = how /\ queue' = << >> /\ cb' = "idle" /\ pc' = "done"
  /\ itip' = diskTip /\ known' = diskKnown
  /\ UNCHANGED <<kind, failed, diskVars, memVars, pindex, target, db, file>>

Crash ==
  /\ node \in {"up", "stopping"} /\ Trouble < MaxTrouble
  /\ crashes' = crashes + 1
  /\ GoDown("down") /\ UNCHANGED <<failures, flushes>>

\* AbortNode, or the user: Interrupt, and no further blocks are connected.
\* The last flush of the chainstate sends its signal.
Flushed == [type |-> "flushed", block |-> itip]

Interrupt ==
  /\ node = "up" /\ Trouble < MaxTrouble
  /\ node' = "stopping" /\ crashes' = crashes + 1
  /\ diskTip' = itip /\ diskKnown' = known
  /\ queue' = IF itip = NoBlock THEN queue ELSE Append(queue, Flushed)
  /\ UNCHANGED <<kind, chainVars, memVars, syncVars, cb, db, file, failures, flushes>>

\* The callbacks have run, the sync thread is joined.
Stop ==
  /\ node = "stopping" /\ queue = << >> /\ pc = "done"
  /\ GoDown("down") /\ UNCHANGED boundVars

Fatal == node' = IF node = "up" THEN "fatal" ELSE node

\* AbortNode makes the main thread shut the node down.
ShutDownAfterError ==
  /\ node = "fatal"
  /\ node' = "stopping"
  /\ diskTip' = itip /\ diskKnown' = known
  /\ queue' = IF itip = NoBlock THEN queue ELSE Append(queue, Flushed)
  /\ UNCHANGED <<kind, chainVars, memVars, syncVars, cb, db, file, boundVars>>

-----------------------------------------------------------------------------
(* Validation, external to the index *)

ChainLocked == pc \in {"rewind", "commit"}

\* ActivateBestChainStep: the signals of the blocks follow in their order; a
\* flush on the way is signalled before them, with the tip of that moment.
Activate(b) ==
  /\ node = "up" /\ ~ChainLocked
  /\ IdxChain[b] \cap failed = {}
  /\ itip = NoBlock => b = IdxGenesis
  /\ itip # NoBlock => IdxHeight(b) > IdxHeight(itip)
  /\ itip' = b /\ known' = known \cup IdxChain[b]
  /\ LET path == Path(itip, b)
         connected == [i \in 1..Len(path) |-> [type |-> "connected", block |-> path[i]]]
         passed == (IdxChain[itip] \ IdxChain[b]) \cup {FindFork(b)} \cup (IdxChain[Pprev(b)] \ IdxChain[itip])
     IN  \/ queue' = queue \o connected /\ UNCHANGED <<diskVars, flushes>>
         \/ /\ itip # NoBlock /\ flushes < MaxFlushes /\ flushes' = flushes + 1
            /\ \E c \in passed :
                 /\ queue' = Append(queue, [type |-> "flushed", block |-> c]) \o connected
                 /\ diskTip' = c /\ diskKnown' = known \cup IdxChain[c]
  /\ UNCHANGED <<kind, node, failed, memVars, syncVars, cb, db, file, failures, crashes>>

\* InvalidateBlock of the tip sends nothing that an index listens to.
Invalidate ==
  /\ node = "up" /\ ~ChainLocked
  /\ itip \notin {NoBlock, IdxGenesis} /\ Trouble < MaxTrouble
  /\ failed' = failed \cup {itip} /\ itip' = IdxParent[itip]
  /\ UNCHANGED <<kind, node, known, diskVars, queue, memVars, syncVars, cb, db, file, boundVars>>

\* A periodic flush.
FlushStateToDisk ==
  /\ node = "up" /\ ~ChainLocked /\ itip # NoBlock /\ <<diskTip, diskKnown>> # <<itip, known>>
  /\ flushes < MaxFlushes /\ flushes' = flushes + 1
  /\ diskTip' = itip /\ diskKnown' = known
  /\ queue' = Append(queue, Flushed)
  /\ UNCHANGED <<kind, node, chainVars, memVars, syncVars, cb, db, file, failures, crashes>>

-----------------------------------------------------------------------------
(* The sync thread *)

\* The section under cs_main of an iteration.  (The thread is started after the
\* first ActivateBestChain, init.cpp:1714.)
SyncNext ==
  /\ pc = "next" /\ node \in {"up", "fatal"} /\ itip # NoBlock
  /\ LET next == NextSyncBlock(pindex)
     IN  \/ /\ next = NoBlock
            /\ best' = pindex /\ synced' = TRUE /\ pc' = "done"
            /\ \E ok \in BOOLEAN : Attempt(ok) /\ db' = IF ok THEN Committed(pindex, val, pos) ELSE db
            /\ UNCHANGED <<pindex, target>>
         \/ /\ next # NoBlock /\ Pprev(next) = pindex
            /\ pindex' = next /\ pc' = "locator"
            /\ UNCHANGED <<best, synced, target, db, failures>>
         \/ /\ next # NoBlock /\ Pprev(next) # pindex /\ pindex = best
            /\ target' = next /\ pc' = "rewind"
            /\ UNCHANGED <<best, synced, pindex, db, failures>>
  /\ UNCHANGED <<kind, node, chainVars, diskVars, queue, val, pos, cb, file, crashes, flushes>>

\* The chain was reorganised since the last time the best block was set: the
\* assertion that opens Rewind (base.cpp:239) ends the process.
RewindAsserts ==
  /\ pc = "next" /\ node \in {"up", "fatal"}
  /\ LET next == NextSyncBlock(pindex)
     IN  next # NoBlock /\ Pprev(next) # pindex /\ pindex # best
  /\ GoDown("aborted") /\ UNCHANGED boundVars

SyncRewind(ok) ==
  /\ pc = "rewind"
  /\ IF CanCopy(best, IdxParent[target])
     THEN CustomRewind(best, IdxParent[target], ok)
     ELSE ~ok /\ UNCHANGED <<db, val, failures>>
  /\ IF ok THEN best' = IdxParent[target] /\ pc' = "commit" /\ UNCHANGED node
     ELSE UNCHANGED best /\ pc' = "done" /\ Fatal
  /\ UNCHANGED <<kind, chainVars, diskVars, queue, synced, pos, pindex, target, cb, file, crashes, flushes>>

SyncRewindCommit(ok) ==
  /\ pc = "commit" /\ Attempt(ok)
  /\ IF ok THEN /\ db' = Committed(best, val, pos)
                /\ pindex' = target /\ pc' = "locator" /\ UNCHANGED <<best, node>>
     ELSE best' = pindex /\ pc' = "done" /\ Fatal /\ UNCHANGED <<db, pindex>>
  /\ UNCHANGED <<kind, chainVars, diskVars, queue, synced, val, pos, target, cb, file, crashes, flushes>>

\* Thirty seconds have passed since the last time, or not.
SyncLocator ==
  /\ pc = "locator" /\ pc' = "append"
  /\ \/ UNCHANGED <<best, db, failures>>
     \/ /\ best' = Pprev(pindex)
        /\ \E ok \in BOOLEAN : Attempt(ok) /\ db' = IF ok THEN Committed(best', val, pos) ELSE db
  /\ UNCHANGED <<kind, node, chainVars, diskVars, queue, synced, val, pos, pindex, target, cb, file, crashes, flushes>>

SyncAppend(ok) ==
  /\ pc = "append"
  /\ IF CanAppend(pindex) THEN CustomAppend(pindex, ok)
     ELSE ~ok /\ UNCHANGED <<db, val, pos, file, failures>>
  /\ IF ok THEN pc' = "next" /\ UNCHANGED node ELSE pc' = "done" /\ Fatal
  /\ UNCHANGED <<kind, chainVars, diskVars, queue, best, synced, pindex, target, cb, crashes, flushes>>

SyncInterrupted ==
  /\ pc = "next" /\ node = "stopping"
  /\ best' = pindex /\ pc' = "done"
  /\ \E ok \in BOOLEAN : Attempt(ok) /\ db' = IF ok THEN Committed(pindex, val, pos) ELSE db
  /\ UNCHANGED <<kind, node, chainVars, diskVars, queue, synced, val, pos, pindex, target, cb, file, crashes, flushes>>

-----------------------------------------------------------------------------
(* The callbacks.  The sync thread commits with cs_main held when it sets  *)
(* m_synced, and both Rewind and CustomAppend need cs_main.                *)

Event(type) == queue # << >> /\ Head(queue).type = type /\ cb = "idle"

Done == queue' = Tail(queue) /\ cb' = "idle"

BlockConnected ==
  /\ Event("connected") /\ (Head(queue).block = IdxGenesis /\ synced => best = NoBlock)
  /\ LET b == Head(queue).block
     IN  \/ /\ ~synced \/ (best # NoBlock /\ b # IdxGenesis /\ IdxParent[b] \notin IdxChain[best])
            /\ Done /\ UNCHANGED node
         \/ /\ synced /\ best = NoBlock /\ b # IdxGenesis
            /\ Done /\ Fatal
         \/ /\ synced /\ best # NoBlock /\ b # IdxGenesis /\ IdxParent[b] \in IdxChain[best] \ {best}
            /\ cb' = "rewind" /\ UNCHANGED <<queue, node>>
         \/ /\ synced /\ best = Pprev(b)
            /\ cb' = "append" /\ UNCHANGED <<queue, node>>
  /\ UNCHANGED <<kind, chainVars, diskVars, memVars, syncVars, db, file, boundVars>>

\* The genesis block is connected below a best block: Rewind is called with the
\* null pointer.
GenesisConnected ==
  /\ Event("connected") /\ Head(queue).block = IdxGenesis /\ synced /\ best # NoBlock
  /\ GoDown("aborted") /\ UNCHANGED boundVars

\* target remembers the tip that is left, in case the commit fails.
CallbackRewind(ok) ==
  /\ cb = "rewind"
  /\ LET to == IdxParent[Head(queue).block]
     IN  /\ IF CanCopy(best, to) THEN CustomRewind(best, to, ok)
            ELSE ~ok /\ UNCHANGED <<db, val, failures>>
         /\ target' = best
         /\ IF ok THEN best' = to /\ cb' = "commit" /\ UNCHANGED <<queue, node>>
            ELSE UNCHANGED best /\ Done /\ Fatal
  /\ UNCHANGED <<kind, chainVars, diskVars, synced, pos, pc, pindex, file, crashes, flushes>>

CallbackCommit(ok) ==
  /\ cb = "commit" /\ Attempt(ok)
  /\ IF ok THEN /\ db' = Committed(best, val, pos)
                /\ cb' = "append" /\ UNCHANGED <<best, queue, node>>
     ELSE best' = target /\ Done /\ Fatal /\ UNCHANGED db
  /\ UNCHANGED <<kind, chainVars, diskVars, synced, val, pos, syncVars, file, crashes, flushes>>

CallbackAppend(ok) ==
  /\ cb = "append"
  /\ LET b == Head(queue).block
     IN  /\ IF CanAppend(b) THEN CustomAppend(b, ok)
            ELSE ~ok /\ UNCHANGED <<db, val, pos, file, failures>>
         /\ IF ok THEN best' = b /\ UNCHANGED node ELSE UNCHANGED best /\ Fatal
  /\ Done
  /\ UNCHANGED <<kind, chainVars, diskVars, synced, syncVars, crashes, flushes>>

\* Nothing is written unless the flushed block is below the best block.
ChainStateFlushed ==
  /\ Event("flushed") /\ Done
  /\ IF synced /\ Head(queue).block \in IdxChain[best]
     THEN \E ok \in BOOLEAN : Attempt(ok) /\ db' = IF ok THEN Committed(best, val, pos) ELSE db
     ELSE UNCHANGED <<db, failures>>
  /\ UNCHANGED <<kind, node, chainVars, diskVars, memVars, syncVars, file, crashes, flushes>>

-----------------------------------------------------------------------------
IndexInit ==
  /\ kind \in Kinds /\ node = "down"
  /\ itip = NoBlock /\ known = {IdxGenesis} /\ failed = {}
  /\ diskTip = itip /\ diskKnown = known
  /\ queue = << >> /\ cb = "idle"
  /\ best = NoBlock /\ synced = FALSE /\ val = Empty /\ pos = 0
  /\ pc = "done" /\ pindex = NoBlock /\ target = NoBlock
  /\ db = EmptyDB /\ file = [p \in 0..MaxPos |-> NoBlock]
  /\ failures = 0 /\ crashes = 0 /\ flushes = 0

Sync ==
  \/ SyncNext \/ RewindAsserts \/ SyncLocator \/ SyncInterrupted
  \/ \E ok \in BOOLEAN : SyncRewind(ok) \/ SyncRewindCommit(ok) \/ SyncAppend(ok)

Callback ==
  \/ BlockConnected \/ GenesisConnected \/ ChainStateFlushed
  \/ \E ok \in BOOLEAN : CallbackRewind(ok) \/ CallbackCommit(ok) \/ CallbackAppend(ok)

Operator == StartIndex \/ Rebuild \/ Stop \/ ShutDownAfterError

IndexNext ==
  \/ Sync \/ Callback \/ Operator \/ Crash \/ Interrupt
  \/ Invalidate \/ FlushStateToDisk \/ (\E b \in IdxBlocks : Activate(b))

(* Threads go on, the block import thread activates at least the genesis   *)
(* block, a node that stopped is started again, and a refused index is     *)
(* rebuilt.                                                                *)
IndexSpec ==
  /\ IndexInit /\ [][IndexNext]_indexVars
  /\ WF_indexVars(Sync) /\ WF_indexVars(Callback) /\ WF_indexVars(Operator) /\ WF_indexVars(Activate(IdxGenesis))

-----------------------------------------------------------------------------
(* Properties *)

Found(b) == LookUpOne(b).block = b

(* A block that the index has, or ever had in its database, at or below    *)
(* its best block is found, whatever forks replaced it by height and       *)
(* whatever callbacks of stale branches made the index go back; the filter *)
(* of a block it has is in the file; and an entry found holds the value of *)
(* its block (LookUpOne, LookupFilter; for coin statistics: unless a write *)
(* failed, see NeverCorrupt).                                              *)
LookupsRight ==
  /\ kind # "tx" /\ node = "up" =>
       /\ \A b \in db.had \cup IdxChain[best] : Found(b)
       /\ kind = "filter" => \A b \in IdxChain[best] : file[LookUpOne(b).pos] = b
  /\ kind = "filter" \/ (kind = "coinstats" /\ failures = 0) =>
       \A b \in IdxBlocks : Found(b) => LookUpOne(b).val = Right(b)

(* What a crash leaves in the database is accepted by CustomInit: the best *)
(* block and the MuHash are those of one moment (coinstatsindex.cpp:394),  *)
(* unless a write failed before.                                           *)
NeverCorrupt == failures = 0 => CustomInit

(* The index always gets to the tip in the end: no callback is missed      *)
(* around the moment when m_synced is set, no failure is permanent.  (The  *)
(* assertion of Rewind may fail after every restart.)                      *)
EventuallySynced ==
  []<>(node = "aborted" \/ (node = "up" /\ synced /\ itip \in IdxChain[best] \cup {NoBlock}))

=============================================================================

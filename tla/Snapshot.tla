------------------------------ MODULE Snapshot ------------------------------
(***************************************************************************)
(* Assumeutxo (validation.cpp): ActivateSnapshot loads a coins file into a *)
(* chainstate of its own while cs_main is free, swaps it in, lets the      *)
(* first chainstate validate the blocks below the base in the background,  *)
(* and, at the next start, moves the directories on disk.  A crash may     *)
(* fall between any two steps, a removal or rename may fail.               *)
(*                                                                         *)
(* The chain is its heights.  A chainstate is its tip and whether its      *)
(* coins are those of the chain (right); one filled from a file is right   *)
(* when the file has the hard-coded hash and that hash is the chain's      *)
(* (sright).  Start-up (node/chainstate.cpp) is external.                  *)
(***************************************************************************)
EXTENDS Integers, Sequences

CONSTANTS
    SnapFiles,     \* file -> [header, params, coins, count, hash]
    TipHeight,     \* the height of the best known chain
    BaseHeight,    \* the height of the snapshot's base block
    BlocksToKeep,  \* MIN_BLOCKS_TO_KEEP
    SnapCrashes    \* bound on crashes and failures of the file system

ASSUME SnapshotAssumption ==
    /\ TipHeight \in Nat /\ BaseHeight \in Nat /\ BlocksToKeep \in Nat
    /\ 0 < BaseHeight /\ BaseHeight < TipHeight

VARIABLES
    sup,      \* the process: off, init, clean, run, dead (shutting down), abort
    sibd, ssnap,   \* m_ibd_chainstate, m_snapshot_chainstate
    sactive,  \* m_active_chainstate
    spool,    \* the chainstate that owns the mempool, and its size
    sload,    \* the running ActivateSnapshot
    sdirs,    \* the directories of the coins databases
    sdata,    \* the heights of the blocks on disk
    sright,   \* the hard-coded hash is that of the chain
    sknown,   \* the running program knows the base's hash
    sstory,   \* a snapshot has been made active, or given up
    sfaults   \* crashes and failures so far

snapMem == <<sup, sibd, ssnap, sactive, spool>>
snapVars == <<snapMem, sload, sdirs, sdata, sright, sknown, sstory, sfaults>>
snapFixed == <<sright, sknown>>

Heights == 1 .. TipHeight
NoChainstate == [on |-> FALSE, disabled |-> FALSE, tip |-> 0, right |-> TRUE]
NoDir == [there |-> FALSE, tip |-> 0, right |-> TRUE, base |-> FALSE, coins |-> {}, torn |-> FALSE]
EmptyDir == [NoDir EXCEPT !.there = TRUE]
Idle == [pc |-> "idle", file |-> "none", at |-> 0]

IsUsable(c) == c.on /\ ~c.disabled
Both == IsUsable(sibd) /\ IsUsable(ssnap)
Fault == sfaults < SnapCrashes /\ sfaults' = sfaults + 1
NoFault == UNCHANGED sfaults
\* cs_main is free (ActivateSnapshot keeps it for the swap).
Unlocked == sload.pc # "swapped"

\* GetChainstateForIndexing.
GetChainstateForIndexing == IF Both THEN "ibd" ELSE sactive

\* FlushStateToDisk of the chainstates in use, as every resizing of the caches
\* (MaybeRebalanceCaches) ends in.
Flushed(dirs, i, s) ==
    [dirs EXCEPT !.default.tip = IF IsUsable(i) THEN i.tip ELSE @,
                 !.snapshot.tip = IF IsUsable(s) THEN s.tip ELSE @]

----------------------------------------------------------------------------
SnapInit ==
    /\ sup = "off"
    /\ sibd = NoChainstate /\ ssnap = NoChainstate
    /\ sactive = "none" /\ spool = [owner |-> "none", size |-> 0]
    /\ sload = Idle
    /\ sdirs = [default |-> EmptyDir, snapshot |-> NoDir, todelete |-> NoDir, invalid |-> NoDir]
    /\ sdata = {} /\ sright \in BOOLEAN /\ sknown = TRUE
    /\ sstory = "none" /\ sfaults = 0

\* A block arrives and is stored.
SnapReceive ==
    /\ sup = "run" /\ Unlocked
    /\ \E h \in Heights \ sdata :
        /\ \E c \in {sibd, ssnap} : IsUsable(c) /\ h > c.tip
        /\ sdata' = sdata \cup {h}
    /\ UNCHANGED <<snapMem, sload, sdirs, snapFixed, sstory, sfaults>>

\* The mempool takes a transaction (ProcessTransaction does not ask whether the
\* node is in initial download) or drops it.
SnapTransaction ==
    /\ sup = "run" /\ Unlocked /\ spool.owner = sactive
    /\ spool' = [spool EXCEPT !.size = 1 - @]
    /\ UNCHANGED <<sup, sibd, ssnap, sactive, sload, sdirs, sdata, snapFixed, sstory, sfaults>>

----------------------------------------------------------------------------
\* ActivateSnapshot, up to the new chainstate's database: refused when a
\* snapshot is active or the mempool is not empty.  Shrinking the active
\* chainstate's cache flushes it.
ActivateSnapshot ==
    /\ sup = "run" /\ sload.pc = "idle"
    /\ sactive = "ibd" /\ spool.owner = "ibd" /\ spool.size = 0
    /\ \E f \in DOMAIN SnapFiles : sload' = [pc |-> "check", file |-> f, at |-> 0]
    /\ sdirs' = [Flushed(sdirs, sibd, ssnap) EXCEPT !.snapshot.there = TRUE]
    /\ UNCHANGED <<snapMem, sdata, snapFixed, sstory, sfaults>>

LoadFile == SnapFiles[sload.file]
LoadTo(pc) == sload' = [sload EXCEPT !.pc = pc]

\* PopulateAndValidateSnapshot, one step per stretch without cs_main.
PopulateCheck ==
    /\ sload.pc = "check" /\ sup \in {"run", "dead"}
    /\ LoadTo(IF LoadFile.header /\ LoadFile.params /\ sibd.tip < BaseHeight
              THEN "coins" ELSE "fail")
    /\ UNCHANGED <<snapMem, sdirs, sdata, snapFixed, sstory, sfaults>>

\* One coin, tested; then perhaps an interruption or a flush of a full cache.
PopulateCoin ==
    /\ sload.pc = "coins" /\ sload.at < LoadFile.count /\ sup \in {"run", "dead"}
    /\ IF sload.at >= Len(LoadFile.coins) \/ LoadFile.coins[sload.at + 1] # "good"
       THEN LoadTo("fail")
       ELSE \E next \in (IF sup = "dead" THEN {"fail"} ELSE {"coins", "flush"}) :
                sload' = [sload EXCEPT !.pc = next, !.at = @ + 1]
    /\ UNCHANGED <<snapMem, sdirs, sdata, snapFixed, sstory, sfaults>>

\* BatchWrite begins: the database is marked to be between two best blocks.  It
\* asserts that an unfinished write found there was of the same best block, and
\* the intermediate best blocks are random.
PopulateFlush ==
    /\ sload.pc = "flush" /\ sup \in {"run", "dead"}
    /\ IF sdirs.snapshot.torn
       THEN sup' = "abort" /\ UNCHANGED <<sload, sdirs>>
       ELSE /\ sdirs' = [sdirs EXCEPT !.snapshot.torn = TRUE]
            /\ LoadTo("flushing") /\ UNCHANGED sup
    /\ UNCHANGED <<sibd, ssnap, sactive, spool, sdata, snapFixed, sstory, sfaults>>

PopulateFlushed ==
    /\ sload.pc = "flushing"
    /\ sdirs' = [sdirs EXCEPT !.snapshot.torn = FALSE, !.snapshot.coins = @ \cup {sload.file}]
    /\ LoadTo("coins")
    /\ UNCHANGED <<snapMem, sdata, snapFixed, sstory, sfaults>>

\* No coin may be left over; SetBestBlock and the last flush.
PopulateLast ==
    /\ sload.pc = "coins" /\ sload.at = LoadFile.count /\ sup \in {"run", "dead"}
    /\ IF Len(LoadFile.coins) > LoadFile.count
       THEN LoadTo("fail") /\ UNCHANGED <<sup, sdirs>>
       ELSE IF sdirs.snapshot.torn
       THEN sup' = "abort" /\ UNCHANGED <<sload, sdirs>>
       ELSE /\ sdirs' = [sdirs EXCEPT !.snapshot.coins = @ \cup {sload.file},
                                      !.snapshot.tip = BaseHeight]
            /\ LoadTo("hash") /\ UNCHANGED sup
    /\ UNCHANGED <<sibd, ssnap, sactive, spool, sdata, snapFixed, sstory, sfaults>>

\* ComputeUTXOStats over the database, which may hold coins of an earlier load
\* that a crash cut short, against the hard-coded hash.
PopulateHash ==
    /\ sload.pc = "hash" /\ sup \in {"run", "dead"}
    /\ LET match == LoadFile.hash = "match" /\ sdirs.snapshot.coins = {sload.file}
       IN  /\ LoadTo(IF match /\ sup = "run" THEN "swap" ELSE "fail")
           /\ sdirs' = [sdirs EXCEPT !.snapshot.right = match /\ sright]
    /\ UNCHANGED <<snapMem, sdata, snapFixed, sstory, sfaults>>

\* DeleteCoinsDBFromDisk for the snapshot's directory: the file with the base's
\* hash goes first, so what a failure leaves is not taken for a snapshot.
Removed(dirs, done) ==
    IF done THEN [dirs EXCEPT !.snapshot = NoDir] ELSE [dirs EXCEPT !.snapshot.base = FALSE]

\* cleanup_bad_snapshot.  A directory that cannot be removed is a fatal error.
CleanupBadSnapshot ==
    /\ sload.pc = "fail"
    /\ sload' = Idle
    /\ \/ /\ sdirs' = Removed(Flushed(sdirs, sibd, ssnap), TRUE)
          /\ NoFault /\ UNCHANGED sup
       \/ /\ Fault /\ sup' = "dead"
          /\ sdirs' = Removed(Flushed(sdirs, sibd, ssnap), FALSE)
    /\ UNCHANGED <<sibd, ssnap, sactive, spool, sdata, snapFixed, sstory>>

\* Under cs_main again: the work is compared once more and the hash of the base
\* written into the directory, from where the next start takes it.
WriteSnapshotBaseBlockhash ==
    /\ sload.pc = "swap"
    /\ \/ /\ sibd.tip < BaseHeight /\ NoFault
          /\ sdirs' = [sdirs EXCEPT !.snapshot.base = TRUE]
          /\ sstory' = "active" /\ LoadTo("swapped")
       \/ /\ IF sibd.tip < BaseHeight THEN Fault ELSE NoFault
          /\ LoadTo("fail") /\ UNCHANGED <<sdirs, sstory>>
    /\ UNCHANGED <<snapMem, sdata, snapFixed>>

\* The swap: the mempool, which has to be empty, changes hands.
SwapSnapshot ==
    /\ sload.pc = "swapped"
    /\ sload' = Idle
    /\ IF spool.size # 0
       THEN sup' = "abort" /\ UNCHANGED <<ssnap, sactive, spool, sdirs>>
       ELSE /\ ssnap' = [on |-> TRUE, disabled |-> FALSE, tip |-> BaseHeight,
                         right |-> sdirs.snapshot.right]
            /\ sactive' = "snap" /\ spool' = [spool EXCEPT !.owner = "snap"]
            /\ sdirs' = Flushed(sdirs, sibd, ssnap') /\ UNCHANGED sup
    /\ UNCHANGED <<sibd, sdata, snapFixed, sstory, sfaults>>

----------------------------------------------------------------------------
\* InvalidateCoinsDBOnDisk: the directory gets another name, unless that name
\* is taken or the rename fails.
PutAside(dirs) ==
    \/ /\ ~dirs.invalid.there /\ NoFault
       /\ sdirs' = [dirs EXCEPT !.invalid = dirs.snapshot, !.snapshot = NoDir]
    \/ /\ IF dirs.invalid.there THEN NoFault ELSE Fault
       /\ sdirs' = dirs

\* handle_invalid_snapshot: back to the chainstate built from blocks; the node
\* shuts down.
HandleInvalid(ibd, up) ==
    /\ sactive' = "ibd" /\ sibd' = ibd
    /\ ssnap' = [ssnap EXCEPT !.disabled = TRUE]
    /\ PutAside([sdirs EXCEPT !.default.tip = ibd.tip])
    /\ sstory' = "gone" /\ sup' = up

\* The mutated form of Verdict: the hash of the coins is not compared.
Verdict_Unhashed(ibd) ==
    IF sactive # "snap" \/ ~Both \/ ibd.tip < BaseHeight THEN {"skipped"}
    ELSE IF ~sknown THEN {"invalid"}
    ELSE {"success"}

\* What MaybeCompleteSnapshotValidation finds with the background chainstate as
\* ibd: nothing to do, a snapshot that cannot be or is not the chain's, an
\* interrupted computation, or a success.
Verdict(ibd) ==
    IF sactive # "snap" \/ ~Both \/ ibd.tip < BaseHeight THEN {"skipped"}
    ELSE IF ~sknown \/ ~sright THEN {"invalid"}
    ELSE {"success"} \cup (IF sup = "dead" THEN {"interrupted"} ELSE {})

\* MaybeCompleteSnapshotValidation; the caller goes on at done after a success,
\* at other when there is nothing to tell yet, at failed after a failure.
MaybeCompleteSnapshotValidation(ibd, done, other, failed) ==
    \E v \in Verdict(ibd) :
        \/ v = "invalid" /\ HandleInvalid(ibd, failed)
        \/ /\ v = "success"
           /\ sibd' = [ibd EXCEPT !.disabled = TRUE]
           /\ sdirs' = Flushed(sdirs, ibd, ssnap)
           /\ sup' = done
           /\ UNCHANGED <<ssnap, sactive, sstory>> /\ NoFault
        \/ /\ v \in {"skipped", "interrupted"}
           /\ sibd' = ibd /\ sup' = other
           /\ UNCHANGED <<ssnap, sactive, sdirs, sstory>> /\ NoFault

\* ConnectTip of the first chainstate; in the background it stops at the base,
\* whose connection ends in MaybeCompleteSnapshotValidation.
ConnectIbd ==
    /\ sup \in {"run", "dead"} /\ Unlocked /\ IsUsable(sibd)
    /\ sibd.tip + 1 \in sdata
    /\ sactive = "ibd" \/ sibd.tip < BaseHeight
    /\ MaybeCompleteSnapshotValidation([sibd EXCEPT !.tip = @ + 1], sup, sup, "dead")
    /\ UNCHANGED <<spool, sload, sdata, snapFixed>>

ConnectSnapshot ==
    /\ sup \in {"run", "dead"} /\ Unlocked /\ IsUsable(ssnap)
    /\ ssnap.tip + 1 \in sdata
    /\ ssnap' = [ssnap EXCEPT !.tip = @ + 1]
    /\ UNCHANGED <<sup, sibd, sactive, spool, sload, sdirs, sdata, snapFixed, sstory, sfaults>>

\* The mutated form of GetPruneRange: the snapshot's chain prunes from 0 too.
GetPruneRange_All(who, c) ==
    IF c.tip = 0 THEN {} ELSE 0 .. (IF c.tip > BlocksToKeep THEN c.tip - BlocksToKeep ELSE 0)

\* GetPruneRange: the snapshot's chain leaves the blocks of the background alone.
GetPruneRange(who, c) ==
    IF c.tip = 0 THEN {}
    ELSE (IF Both /\ who = "snap" THEN BaseHeight + 1 ELSE 0)
         .. (IF c.tip > BlocksToKeep THEN c.tip - BlocksToKeep ELSE 0)

SnapPrune ==
    /\ sup = "run" /\ Unlocked
    /\ \/ IsUsable(sibd) /\ sdata' = sdata \ GetPruneRange("ibd", sibd)
       \/ IsUsable(ssnap) /\ sdata' = sdata \ GetPruneRange("snap", ssnap)
    /\ sdata' # sdata
    /\ UNCHANGED <<snapMem, sload, sdirs, snapFixed, sstory, sfaults>>

\* A periodic flush.
SnapFlush ==
    /\ sup = "run" /\ Unlocked
    /\ sdirs' = Flushed(sdirs, sibd, ssnap)
    /\ UNCHANGED <<snapMem, sload, sdata, snapFixed, sstory, sfaults>>

\* Shutdown: requested, then the last flush once no load is running.
SnapInterrupt ==
    /\ sup = "run" /\ sup' = "dead"
    /\ UNCHANGED <<sibd, ssnap, sactive, spool, sload, sdirs, sdata, snapFixed, sstory, sfaults>>

Off ==
    /\ sup' = "off" /\ sibd' = NoChainstate /\ ssnap' = NoChainstate
    /\ sactive' = "none" /\ spool' = [owner |-> "none", size |-> 0]
    /\ sload' = Idle

SnapShutdown ==
    /\ sup = "dead" /\ sload.pc = "idle"
    /\ Off /\ sdirs' = Flushed(sdirs, sibd, ssnap)
    /\ UNCHANGED <<sdata, snapFixed, sstory, sfaults>>

\* The process dies; a failed assertion is no different.
SnapCrash ==
    /\ sup # "off"
    /\ IF sup = "abort" THEN NoFault ELSE Fault
    /\ Off
    /\ UNCHANGED <<sdirs, sdata, snapFixed, sstory>>

----------------------------------------------------------------------------
\* Start-up: InitializeChainstate, then DetectSnapshotChainstate with
\* ActivateExistingSnapshot; the databases are opened, or made, and the tips
\* loaded.  The program may be one that does not know the base any more.
FromDir(dir) == [on |-> TRUE, disabled |-> FALSE, tip |-> dir.tip, right |-> dir.right]

DetectSnapshotChainstate == sdirs.snapshot.there /\ sdirs.snapshot.base

SnapStart ==
    /\ sup = "off"
    /\ sdirs' = [sdirs EXCEPT !.default = IF @.there THEN @ ELSE EmptyDir]
    /\ sibd' = FromDir(sdirs'.default)
    /\ IF DetectSnapshotChainstate
       THEN ssnap' = FromDir(sdirs.snapshot) /\ sactive' = "snap"
       ELSE ssnap' = NoChainstate /\ sactive' = "ibd"
    /\ spool' = [owner |-> sactive', size |-> 0]
    /\ sup' = "init"
    /\ sknown' \in (IF sfaults < SnapCrashes THEN BOOLEAN ELSE {TRUE})
    /\ UNCHANGED <<sload, sdata, sright, sstory, sfaults>>

\* A reindex first deletes the snapshot's directory (DeleteSnapshotChainstate).
DeleteSnapshotChainstate ==
    /\ sup = "init" /\ sactive = "snap"
    /\ ssnap' = NoChainstate /\ sactive' = "ibd" /\ spool' = [spool EXCEPT !.owner = "ibd"]
    /\ sibd' = [sibd EXCEPT !.tip = 0]
    /\ sdirs' = [Removed(sdirs, TRUE) EXCEPT !.default = EmptyDir]
    /\ sup' = "run" /\ sstory' = "gone"
    /\ UNCHANGED <<sload, sdata, snapFixed, sfaults>>

\* The background may have reached the base before the restart.
SnapInitComplete ==
    /\ sup = "init"
    /\ MaybeCompleteSnapshotValidation(sibd, "clean", "run", "dead")
    /\ UNCHANGED <<spool, sload, sdata, snapFixed>>

\* ValidatedSnapshotCleanup: the chainstates are closed, the default directory
\* is renamed away, the snapshot's takes its name, the old one is deleted, and
\* start-up begins again.  A rename fails onto a directory that is not empty.
MoveIbdAway ==
    /\ sup = "clean" /\ sdirs.default.there /\ DetectSnapshotChainstate
    /\ IF sdirs.todelete.there
       THEN Off /\ UNCHANGED sdirs
       ELSE /\ sdirs' = [sdirs EXCEPT !.todelete = sdirs.default, !.default = NoDir]
            /\ UNCHANGED <<snapMem, sload>>
    /\ UNCHANGED <<sdata, snapFixed, sstory, sfaults>>

MoveSnapshotIn ==
    /\ sup = "clean" /\ ~sdirs.default.there
    /\ sdirs' = [sdirs EXCEPT !.default = sdirs.snapshot, !.snapshot = NoDir]
    /\ UNCHANGED <<snapMem, sload, sdata, snapFixed, sstory, sfaults>>

DeleteOld ==
    /\ sup = "clean" /\ ~sdirs.snapshot.there
    /\ \/ sdirs' = [sdirs EXCEPT !.todelete = NoDir] /\ NoFault
       \/ UNCHANGED sdirs /\ Fault
    /\ sibd' = FromDir(sdirs.default) /\ ssnap' = NoChainstate
    /\ sactive' = "ibd" /\ spool' = [owner |-> "ibd", size |-> 0]
    /\ sup' = "run"
    /\ UNCHANGED <<sload, sdata, snapFixed, sstory>>

SnapNext ==
    \/ SnapReceive \/ SnapTransaction \/ ActivateSnapshot \/ PopulateCheck \/ PopulateCoin
    \/ PopulateFlush \/ PopulateFlushed \/ PopulateLast \/ PopulateHash
    \/ CleanupBadSnapshot \/ WriteSnapshotBaseBlockhash \/ SwapSnapshot
    \/ ConnectIbd \/ ConnectSnapshot \/ SnapPrune \/ SnapFlush
    \/ SnapInterrupt \/ SnapShutdown \/ SnapCrash \/ SnapStart
    \/ DeleteSnapshotChainstate \/ SnapInitComplete
    \/ MoveIbdAway \/ MoveSnapshotIn \/ DeleteOld

SnapSpec == SnapInit /\ [][SnapNext]_snapVars

----------------------------------------------------------------------------
\* Coins that came from a file are trusted only after the background has
\* reproduced them: whatever crashes, failed renames and restarts happen in
\* between, the default directory never holds, and the indexes never read, a
\* state that is not the chain's.
AssumedNeverTrusted ==
    /\ sdirs.default.there => sdirs.default.right
    /\ sup = "run" => (IF GetChainstateForIndexing = "ibd" THEN sibd.right ELSE ssnap.right)

\* A snapshot once made active is not lost silently: unless it was found invalid
\* or a reindex was asked for, every later start comes up at or above its base,
\* a crash in the middle of the moves of ValidatedSnapshotCleanup included.
NoSilentRevert ==
    (sup = "run" /\ sstory = "active" /\ Unlocked) =>
        (IF sactive = "ibd" THEN sibd.tip ELSE ssnap.tip) >= BaseHeight

\* A block is pruned only behind every chainstate that still has to connect it.
PruneBehindBoth ==
    [][\A h \in sdata \ sdata' :
           /\ IsUsable(sibd) /\ (sactive = "ibd" \/ h <= BaseHeight) => sibd.tip >= h
           /\ IsUsable(ssnap) => ssnap.tip >= h]_snapVars

============================================================================

-------------------------- MODULE Snapshot_proofs --------------------------
(***************************************************************************)
(* For any chain, base, set of snapshot files and number of crashes and    *)
(* failures of the file system: coins from a file are not trusted before   *)
(* the background has reproduced them, a snapshot once active is not lost  *)
(* silently, and no block is pruned that a chainstate still needs.         *)
(***************************************************************************)
EXTENDS Snapshot, TLAPS

Chainstates == [on : BOOLEAN, disabled : BOOLEAN, tip : Nat, right : BOOLEAN]
Files == DOMAIN SnapFiles
Dirs == [there : BOOLEAN, tip : Nat, right : BOOLEAN, base : BOOLEAN, coins : SUBSET Files, torn : BOOLEAN]
DirMap == [default : Dirs, snapshot : Dirs, todelete : Dirs, invalid : Dirs]
Pcs == {"idle", "check", "coins", "flush", "flushing", "hash", "swap", "swapped", "fail"}

STypes ==
    /\ sup \in {"off", "init", "clean", "run", "dead", "abort"}
    /\ sibd \in Chainstates /\ ssnap \in Chainstates
    /\ sactive \in {"none", "ibd", "snap"}
    /\ sload \in [pc : Pcs, file : Files \cup {"none"}, at : Nat]
    /\ sload.pc # "idle" => sload.file \in Files
    /\ sdirs \in DirMap
    /\ sdata \subseteq Heights /\ sright \in BOOLEAN

\* On disk: what the hash of the base marks is a snapshot with the hard-coded
\* hash, and a snapshot that was active is found again.
OnDisk ==
    /\ sdirs.default.there => sdirs.default.right
    /\ sdirs.snapshot.base =>
         sdirs.snapshot.there /\ sdirs.snapshot.right = sright /\ sdirs.snapshot.tip >= BaseHeight
    /\ sstory = "active" =>
         \/ sdirs.snapshot.base
         \/ sdirs.default.there /\ sdirs.default.tip >= BaseHeight

\* While a file is loaded the node goes on with the first chainstate, and the
\* directory does not count as a snapshot before its hash has been compared.
Loaded ==
    /\ sload.pc # "idle" => sactive = "ibd" /\ sup \in {"run", "dead", "abort"} /\ sdirs.snapshot.there
    /\ sload.pc \notin {"idle", "swapped"} => ~sdirs.snapshot.base
    /\ sload.pc \in {"hash", "swap", "swapped"} => sdirs.snapshot.tip >= BaseHeight
    /\ sload.pc \in {"swap", "swapped"} => sdirs.snapshot.right = sright
    /\ sload.pc = "swapped" => sdirs.snapshot.base /\ sibd.tip < BaseHeight
    /\ sup = "abort" => sload.pc \in {"idle", "coins", "flush"}

\* The chainstates of the running process.
InMemory ==
    /\ sibd.right /\ (sibd.disabled => sright)
    /\ sup = "off" <=> sactive = "none"
    /\ sup # "off" => sibd.on
    /\ IsUsable(ssnap) <=> sactive = "snap"
    /\ sactive = "snap" => ssnap.right = sright /\ ssnap.tip >= BaseHeight
    /\ sactive = "snap" /\ sup # "clean" => sdirs.snapshot.base
    /\ sup = "run" /\ Both => sibd.tip < BaseHeight
    /\ sup \in {"init", "run"} /\ sactive = "ibd" /\ sload.pc # "swapped" => ~sdirs.snapshot.base
    /\ sup \notin {"off", "abort"} /\ sactive = "ibd" /\ sstory = "active" /\ sload.pc # "swapped" =>
         sibd.tip >= BaseHeight
    /\ sup = "clean" =>
         /\ sright /\ sactive = "snap"
         /\ sdirs.snapshot.there => sdirs.snapshot.base
         /\ sdirs.default.there \/ sdirs.snapshot.there

SInv == STypes /\ OnDisk /\ Loaded /\ InMemory

----------------------------------------------------------------------------
\* Constants of the model.
LEMMA Constants ==
    /\ NoChainstate \in Chainstates /\ ~NoChainstate.on /\ ~NoChainstate.disabled /\ NoChainstate.right
    /\ NoDir \in Dirs /\ ~NoDir.there /\ NoDir.right /\ ~NoDir.base /\ NoDir.tip = 0
    /\ EmptyDir \in Dirs /\ EmptyDir.there /\ EmptyDir.right /\ ~EmptyDir.base /\ EmptyDir.tip = 0
    /\ Idle \in [pc : Pcs, file : Files \cup {"none"}, at : Nat] /\ Idle.pc = "idle"
  BY DEF NoChainstate, NoDir, EmptyDir, Idle, Chainstates, Dirs, Pcs

\* A new directory under one of the names.
LEMMA Renamed ==
    ASSUME NEW dirs \in DirMap, NEW d \in Dirs
    PROVE  /\ [dirs EXCEPT !.default = d] \in DirMap
           /\ [dirs EXCEPT !.snapshot = d] \in DirMap
           /\ [dirs EXCEPT !.todelete = d] \in DirMap
           /\ [dirs EXCEPT !.default = d].default = d
           /\ [dirs EXCEPT !.default = d].snapshot = dirs.snapshot
           /\ [dirs EXCEPT !.snapshot = d].snapshot = d
           /\ [dirs EXCEPT !.snapshot = d].default = dirs.default
           /\ [dirs EXCEPT !.todelete = d].default = dirs.default
           /\ [dirs EXCEPT !.todelete = d].snapshot = dirs.snapshot
  BY DEF DirMap

\* A flush moves the tips of the chainstates in use and nothing else.
LEMMA FlushedFacts ==
    ASSUME NEW dirs \in DirMap, NEW i \in Chainstates, NEW s \in Chainstates
    PROVE  LET new == Flushed(dirs, i, s)
           IN  /\ new \in DirMap /\ new.todelete = dirs.todelete /\ new.invalid = dirs.invalid
               /\ new.default.there = dirs.default.there /\ new.default.right = dirs.default.right
               /\ new.default.tip = IF IsUsable(i) THEN i.tip ELSE dirs.default.tip
               /\ new.snapshot.there = dirs.snapshot.there /\ new.snapshot.right = dirs.snapshot.right
               /\ new.snapshot.base = dirs.snapshot.base
               /\ new.snapshot.tip = IF IsUsable(s) THEN s.tip ELSE dirs.snapshot.tip
  <1> DEFINE d == [dirs.default EXCEPT !.tip = IF IsUsable(i) THEN i.tip ELSE @]
             n == [dirs.snapshot EXCEPT !.tip = IF IsUsable(s) THEN s.tip ELSE @]
  <1>1. Flushed(dirs, i, s) = [dirs EXCEPT !.default = d, !.snapshot = n]
    BY DEF Flushed, DirMap
  <1>2. dirs.default \in Dirs /\ dirs.snapshot \in Dirs
    BY DEF DirMap
  <1>3. /\ d \in Dirs /\ d.there = dirs.default.there /\ d.right = dirs.default.right
        /\ d.tip = IF IsUsable(i) THEN i.tip ELSE dirs.default.tip
    BY <1>2 DEF Dirs, Chainstates
  <1>4. /\ n \in Dirs /\ n.there = dirs.snapshot.there /\ n.right = dirs.snapshot.right
        /\ n.base = dirs.snapshot.base
        /\ n.tip = IF IsUsable(s) THEN s.tip ELSE dirs.snapshot.tip
    BY <1>2 DEF Dirs, Chainstates
  <1> HIDE DEF d, n
  <1>5. /\ Flushed(dirs, i, s) \in DirMap
        /\ Flushed(dirs, i, s).default = d /\ Flushed(dirs, i, s).snapshot = n
        /\ Flushed(dirs, i, s).todelete = dirs.todelete /\ Flushed(dirs, i, s).invalid = dirs.invalid
    BY <1>1, <1>3, <1>4 DEF DirMap
  <1>6. QED
    BY <1>3, <1>4, <1>5

\* A node with no snapshot.
LEMMA SInvInit == SnapInit => SInv
  <1> SUFFICES ASSUME SnapInit PROVE SInv
    OBVIOUS
  <1>1. sdirs \in DirMap /\ sdirs.default = EmptyDir /\ sdirs.snapshot = NoDir
    BY Constants DEF SnapInit, DirMap
  <1>2. sibd = NoChainstate /\ ssnap = NoChainstate /\ sload = Idle /\ sup = "off" /\ sactive = "none"
        /\ sdata = {} /\ sright \in BOOLEAN /\ sstory = "none"
    BY DEF SnapInit
  <1>3. QED
    BY <1>1, <1>2, Constants DEF SInv, STypes, OnDisk, Loaded, InMemory, IsUsable, Both

\* A step that the invariant does not see.
LEMMA Unseen ==
    ASSUME SInv, STypes', UNCHANGED <<sup, sibd, ssnap, sactive, sright, sstory, sload>>,
           sdirs'.default = sdirs.default,
           sdirs'.snapshot.there = sdirs.snapshot.there, sdirs'.snapshot.right = sdirs.snapshot.right,
           sdirs'.snapshot.base = sdirs.snapshot.base, sdirs'.snapshot.tip = sdirs.snapshot.tip
    PROVE  SInv'
  BY DEF SInv, OnDisk, Loaded, InMemory, IsUsable, Both

\* ActivateSnapshot creates the directory, without the mark of a base.
LEMMA ActivateSnapshotStep == SInv /\ ActivateSnapshot => SInv'
  <1> SUFFICES ASSUME SInv, ActivateSnapshot PROVE SInv'
    OBVIOUS
  <1> DEFINE new == Flushed(sdirs, sibd, ssnap)
             n == [new.snapshot EXCEPT !.there = TRUE]
  <1>1. PICK f \in Files : sload' = [pc |-> "check", file |-> f, at |-> 0]
    BY DEF ActivateSnapshot, Files
  <1>2. sdirs \in DirMap /\ sibd \in Chainstates /\ ssnap \in Chainstates
    BY DEF SInv, STypes
  <1>3. /\ new \in DirMap /\ new.default.there = sdirs.default.there /\ new.default.right = sdirs.default.right
        /\ new.default.tip = IF IsUsable(sibd) THEN sibd.tip ELSE sdirs.default.tip
        /\ new.snapshot.base = sdirs.snapshot.base
    BY <1>2, FlushedFacts
  <1>4. sdirs' = [new EXCEPT !.snapshot = n]
    BY <1>3 DEF ActivateSnapshot, DirMap
  <1> HIDE DEF new
  <1>5. new.snapshot \in Dirs /\ n \in Dirs /\ n.there /\ n.base = new.snapshot.base
    BY <1>3 DEF DirMap, Dirs
  <1> HIDE DEF n
  <1>6. sdirs' \in DirMap /\ sdirs'.default = new.default /\ sdirs'.snapshot = n
    BY <1>3, <1>4, <1>5, Renamed
  <1>7. /\ sload'.pc = "check" /\ sload'.file = f
        /\ sload' \in [pc : Pcs, file : Files \cup {"none"}, at : Nat]
    BY <1>1 DEF Pcs
  <1>8. /\ sup = "run" /\ sactive = "ibd" /\ sload.pc = "idle"
        /\ UNCHANGED <<sup, sibd, ssnap, sactive, sdata, sright, sstory>>
    BY DEF ActivateSnapshot, snapMem, snapFixed
  <1>9. ~sdirs.snapshot.base
    BY <1>8 DEF SInv, InMemory
  <1>10. STypes'
    BY <1>6, <1>7, <1>8 DEF SInv, STypes
  <1>11. OnDisk'
    BY <1>3, <1>5, <1>6, <1>8, <1>9 DEF SInv, OnDisk, InMemory
  <1>12. Loaded' /\ InMemory'
    BY <1>3, <1>5, <1>6, <1>7, <1>8, <1>9 DEF SInv, Loaded, InMemory, IsUsable, Both
  <1>13. QED
    BY <1>10, <1>11, <1>12 DEF SInv

\* Blocks that arrive.
LEMMA SnapReceiveStep == SInv /\ SnapReceive => SInv'
  <1> SUFFICES ASSUME SInv, SnapReceive PROVE SInv'
    OBVIOUS
  <1>1. sdata' \subseteq Heights /\ UNCHANGED <<sup, sibd, ssnap, sactive, sright, sstory, sload, sdirs>>
    BY DEF SnapReceive, snapMem, snapFixed, SInv, STypes
  <1>2. STypes'
    BY <1>1 DEF SInv, STypes
  <1>3. QED
    BY <1>1, <1>2, Unseen

\* Pruning touches the block files only.
LEMMA SnapPruneStep == SInv /\ SnapPrune => SInv'
  <1> SUFFICES ASSUME SInv, SnapPrune PROVE SInv'
    OBVIOUS
  <1>1. sdata' \subseteq Heights /\ UNCHANGED <<sup, sibd, ssnap, sactive, sright, sstory, sload, sdirs>>
    BY DEF SnapPrune, snapMem, snapFixed, SInv, STypes
  <1>2. STypes'
    BY <1>1 DEF SInv, STypes
  <1>3. QED
    BY <1>1, <1>2, Unseen

\* A transaction in the mempool.
LEMMA SnapTransactionStep == SInv /\ SnapTransaction => SInv'
  BY SnapshotAssumption DEF SnapTransaction, snapMem, snapFixed, SInv, STypes, OnDisk, Loaded, InMemory,
     Chainstates, Dirs, Pcs, IsUsable, Both, Heights

\* A step of the load that changes the snapshot's directory but not its mark.
LEMMA LoadStep ==
    ASSUME SInv, NEW n \in Dirs, NEW pc \in Pcs \ {"idle", "swapped"}, NEW at \in Nat,
           sload.pc \notin {"idle", "swapped"}, sload' = [sload EXCEPT !.pc = pc, !.at = at],
           sdirs' = [sdirs EXCEPT !.snapshot = n], n.there, ~n.base,
           pc \in {"hash", "swap"} => n.tip >= BaseHeight,
           pc = "swap" => n.right = sright,
           sup' = sup \/ sup' = "abort",
           sup' = "abort" => pc \in {"coins", "flush"},
           UNCHANGED <<sibd, ssnap, sactive, sdata, sright, sstory>>
    PROVE  SInv'
  <1>1. sdirs \in DirMap
    BY DEF SInv, STypes
  <1>2. sdirs' \in DirMap /\ sdirs'.default = sdirs.default /\ sdirs'.snapshot = n
    BY <1>1, Renamed
  <1>3. /\ sload'.pc = pc /\ sload'.file = sload.file
        /\ sload' \in [pc : Pcs, file : Files \cup {"none"}, at : Nat]
    BY DEF SInv, STypes
  <1>4. ~sdirs.snapshot.base /\ sup \in {"run", "dead", "abort"} /\ sactive = "ibd"
    BY DEF SInv, Loaded
  <1>5. STypes'
    BY <1>2, <1>3, <1>4 DEF SInv, STypes
  <1>6. OnDisk'
    BY <1>2, <1>4 DEF SInv, OnDisk
  <1>7. Loaded'
    BY <1>2, <1>3, <1>4 DEF SInv, Loaded
  <1>8. InMemory'
    BY <1>2, <1>3, <1>4 DEF SInv, InMemory, IsUsable, Both
  <1>9. QED
    BY <1>5, <1>6, <1>7, <1>8 DEF SInv

\* PopulateAndValidateSnapshot works on a snapshot that nothing refers to.
LEMMA PopulateStep ==
    ASSUME SInv, PopulateCheck \/ PopulateCoin \/ PopulateFlush \/ PopulateFlushed \/ PopulateLast \/ PopulateHash
    PROVE  SInv'
  <1> DEFINE d == sdirs.snapshot
  <1>1. /\ sdirs \in DirMap /\ d \in Dirs /\ sdirs = [sdirs EXCEPT !.snapshot = d]
        /\ sload \in [pc : Pcs, file : Files \cup {"none"}, at : Nat]
        /\ sload.pc # "idle" => sload.file \in Files
    BY DEF SInv, STypes, DirMap
  <1>2. sload.pc \notin {"idle", "swapped"} => d.there /\ ~d.base
    BY DEF SInv, Loaded
  <1>3. CASE PopulateCheck
    <2>1. PICK pc \in {"coins", "fail"} : sload' = [sload EXCEPT !.pc = pc]
      BY <1>3 DEF PopulateCheck, LoadTo
    <2>2. /\ sload' = [sload EXCEPT !.pc = pc, !.at = sload.at] /\ sload.at \in Nat
      BY <1>1, <2>1
    <2>3. sload.pc = "check" /\ sup \in {"run", "dead"}
          /\ UNCHANGED <<sup, sdirs, sibd, ssnap, sactive, sdata, sright, sstory>>
      BY <1>3 DEF PopulateCheck, snapMem, snapFixed
    <2>4. pc \in Pcs \ {"idle", "swapped"}
      BY DEF Pcs
    <2>5. QED
      BY <1>1, <1>2, <2>2, <2>3, <2>4, LoadStep
  <1>4. CASE PopulateCoin
    <2>1. PICK pc \in {"coins", "flush", "fail"}, at \in Nat : sload' = [sload EXCEPT !.pc = pc, !.at = at]
      <3>1. CASE sload.at >= Len(LoadFile.coins) \/ LoadFile.coins[sload.at + 1] # "good"
        <4>1. sload' = [sload EXCEPT !.pc = "fail", !.at = sload.at] /\ sload.at \in Nat
          BY <1>1, <1>4, <3>1 DEF PopulateCoin, LoadTo
        <4>2. QED
          BY <4>1
      <3>2. CASE ~(sload.at >= Len(LoadFile.coins) \/ LoadFile.coins[sload.at + 1] # "good")
        <4>1. PICK pc \in {"coins", "flush", "fail"} : sload' = [sload EXCEPT !.pc = pc, !.at = @ + 1]
          BY <1>4, <3>2 DEF PopulateCoin
        <4>2. sload' = [sload EXCEPT !.pc = pc, !.at = sload.at + 1] /\ sload.at + 1 \in Nat
          BY <1>1, <4>1
        <4>3. QED
          BY <4>2
      <3>3. QED
        BY <3>1, <3>2
    <2>3. sload.pc = "coins" /\ sup \in {"run", "dead"}
          /\ UNCHANGED <<sup, sdirs, sibd, ssnap, sactive, sdata, sright, sstory>>
      BY <1>4 DEF PopulateCoin, snapMem, snapFixed
    <2>4. pc \in Pcs \ {"idle", "swapped"}
      BY DEF Pcs
    <2>5. QED
      BY <1>1, <1>2, <2>1, <2>3, <2>4, LoadStep
  <1>5. CASE PopulateFlush
    <2> DEFINE n == IF sdirs.snapshot.torn THEN d ELSE [d EXCEPT !.torn = TRUE]
               pc == IF sdirs.snapshot.torn THEN "flush" ELSE "flushing"
    <2>1. n \in Dirs /\ n.there = d.there /\ n.base = d.base
      BY <1>1 DEF Dirs
    <2>2. sdirs' = [sdirs EXCEPT !.snapshot = n]
      BY <1>1, <1>5 DEF PopulateFlush, DirMap
    <2>3. sload' = [sload EXCEPT !.pc = pc, !.at = sload.at] /\ sload.at \in Nat
      BY <1>1, <1>5 DEF PopulateFlush, LoadTo
    <2>4. /\ sload.pc = "flush" /\ sup \in {"run", "dead"}
          /\ sup' = sup \/ (sup' = "abort" /\ pc = "flush")
          /\ UNCHANGED <<sibd, ssnap, sactive, sdata, sright, sstory>>
      BY <1>5 DEF PopulateFlush, snapFixed
    <2>5. pc \in {"flush", "flushing"} /\ pc \in Pcs \ {"idle", "swapped"}
      BY DEF Pcs
    <2> HIDE DEF n, pc
    <2>6. QED
      BY <1>2, <2>1, <2>2, <2>3, <2>4, <2>5, LoadStep
  <1>6. CASE PopulateFlushed
    <2> DEFINE n == [d EXCEPT !.torn = FALSE, !.coins = @ \cup {sload.file}]
    <2>1. /\ sload.pc = "flushing"
          /\ UNCHANGED <<sup, sibd, ssnap, sactive, sdata, sright, sstory>>
          /\ sload' = [sload EXCEPT !.pc = "coins", !.at = sload.at] /\ sload.at \in Nat
      BY <1>1, <1>6 DEF PopulateFlushed, LoadTo, snapMem, snapFixed
    <2>2. sdirs' = [sdirs EXCEPT !.snapshot = n]
      BY <1>1, <1>6 DEF PopulateFlushed, DirMap
    <2>3. n \in Dirs /\ n.there = d.there /\ n.base = d.base
      BY <1>1, <2>1 DEF Dirs
    <2>4. "coins" \in Pcs \ {"idle", "swapped"} /\ sup # "abort"
      BY <2>1 DEF Pcs, SInv, Loaded
    <2> HIDE DEF n
    <2>6. QED
      BY <1>2, <2>1, <2>2, <2>3, <2>4, LoadStep
  <1>7. CASE PopulateLast
    <2>1. /\ sload.pc = "coins" /\ sup \in {"run", "dead"} /\ sload.at \in Nat
          /\ UNCHANGED <<sibd, ssnap, sactive, sdata, sright, sstory>>
      BY <1>1, <1>7 DEF PopulateLast, snapFixed
    <2>2. {"coins", "fail", "hash"} \subseteq Pcs \ {"idle", "swapped"}
      BY DEF Pcs
    <2>3. CASE Len(LoadFile.coins) > LoadFile.count
      <3>1. sload' = [sload EXCEPT !.pc = "fail", !.at = sload.at] /\ UNCHANGED <<sup, sdirs>>
        BY <1>1, <1>7, <2>3 DEF PopulateLast, LoadTo
      <3>2. QED
        BY <1>1, <1>2, <2>1, <2>2, <3>1, LoadStep
    <2>4. CASE ~(Len(LoadFile.coins) > LoadFile.count) /\ sdirs.snapshot.torn
      <3>1. sload' = [sload EXCEPT !.pc = "coins", !.at = sload.at] /\ UNCHANGED sdirs /\ sup' = "abort"
        BY <1>1, <1>7, <2>1, <2>4 DEF PopulateLast
      <3>2. QED
        BY <1>1, <1>2, <2>1, <2>2, <3>1, LoadStep
    <2>5. CASE ~(Len(LoadFile.coins) > LoadFile.count) /\ ~sdirs.snapshot.torn
      <3> DEFINE n == [d EXCEPT !.coins = @ \cup {sload.file}, !.tip = BaseHeight]
      <3>1. /\ sload' = [sload EXCEPT !.pc = "hash", !.at = sload.at] /\ sup' = sup
            /\ sdirs' = [sdirs EXCEPT !.snapshot = n]
        BY <1>1, <1>7, <2>5 DEF PopulateLast, LoadTo, DirMap
      <3>2. d.coins \cup {sload.file} \in SUBSET Files /\ BaseHeight \in Nat
        BY <1>1, <2>1, SnapshotAssumption DEF Dirs
      <3>3. n \in Dirs /\ n.there = d.there /\ n.base = d.base /\ n.tip = BaseHeight
        BY <1>1, <3>2 DEF Dirs
      <3> HIDE DEF n
      <3>4. n.tip >= BaseHeight
        BY <3>2, <3>3
      <3>5. QED
        BY <1>2, <2>1, <2>2, <3>1, <3>3, <3>4, LoadStep
    <2>6. QED
      BY <2>3, <2>4, <2>5
  <1>8. CASE PopulateHash
    <2> DEFINE match == LoadFile.hash = "match" /\ sdirs.snapshot.coins = {sload.file}
               n == [d EXCEPT !.right = match /\ sright]
               pc == IF match /\ sup = "run" THEN "swap" ELSE "fail"
    <2>1. /\ sload.pc = "hash" /\ sup \in {"run", "dead"} /\ sload.at \in Nat
          /\ UNCHANGED <<sup, sibd, ssnap, sactive, sdata, sright, sstory>>
      BY <1>1, <1>8 DEF PopulateHash, snapMem, snapFixed
    <2>2. /\ sload' = [sload EXCEPT !.pc = pc, !.at = sload.at]
          /\ sdirs' = [sdirs EXCEPT !.snapshot = n]
      BY <1>1, <1>8 DEF PopulateHash, LoadTo, DirMap
    <2>3. d.tip >= BaseHeight /\ sright \in BOOLEAN
      BY <2>1 DEF SInv, STypes, Loaded
    <2>4. match \in BOOLEAN
      OBVIOUS
    <2> HIDE DEF match
    <2>5. /\ n \in Dirs /\ n.there = d.there /\ n.base = d.base /\ n.tip = d.tip
          /\ n.right = (match /\ sright)
      BY <1>1, <2>3, <2>4 DEF Dirs
    <2>6. pc \in {"swap", "fail"} /\ (pc = "swap" => n.right = sright) /\ pc \in Pcs \ {"idle", "swapped"}
      BY <2>3, <2>4, <2>5 DEF Pcs
    <2> HIDE DEF n, pc
    <2>7. QED
      BY <1>2, <2>1, <2>2, <2>3, <2>5, <2>6, LoadStep
  <1>9. QED
    BY <1>3, <1>4, <1>5, <1>6, <1>7, <1>8

\* The directory of a refused snapshot is removed, or the node aborts.
LEMMA CleanupBadSnapshotStep == SInv /\ CleanupBadSnapshot => SInv'
  <1> SUFFICES ASSUME SInv, CleanupBadSnapshot PROVE SInv'
    OBVIOUS
  <1> DEFINE new == Flushed(sdirs, sibd, ssnap)
  <1>1. sdirs \in DirMap /\ sibd \in Chainstates /\ ssnap \in Chainstates
    BY DEF SInv, STypes
  <1>2. /\ new \in DirMap /\ new.default.there = sdirs.default.there /\ new.default.right = sdirs.default.right
        /\ new.default.tip = IF IsUsable(sibd) THEN sibd.tip ELSE sdirs.default.tip
    BY <1>1, FlushedFacts
  <1>3. PICK n \in Dirs : sdirs' = [new EXCEPT !.snapshot = n] /\ ~n.base
    <2> HIDE DEF new
    <2>1. new.snapshot \in Dirs
      BY <1>2 DEF DirMap
    <2>2. [new.snapshot EXCEPT !.base = FALSE] \in Dirs /\ ~[new.snapshot EXCEPT !.base = FALSE].base
      BY <2>1 DEF Dirs
    <2>3. sdirs' \in {[new EXCEPT !.snapshot = NoDir],
                      [new EXCEPT !.snapshot = [new.snapshot EXCEPT !.base = FALSE]]}
      BY <1>2 DEF CleanupBadSnapshot, Removed, new, DirMap
    <2>4. QED
      BY <2>2, <2>3, Constants
  <1> HIDE DEF new
  <1>4. sdirs' \in DirMap /\ sdirs'.default = new.default /\ sdirs'.snapshot = n
    BY <1>2, <1>3, Renamed
  <1>5. /\ sload.pc = "fail" /\ sload' = Idle /\ sup' \in {sup, "dead"}
        /\ UNCHANGED <<sibd, ssnap, sactive, sdata, sright, sstory>>
    BY DEF CleanupBadSnapshot, snapFixed
  <1>6. ~sdirs.snapshot.base /\ sup \in {"run", "dead"} /\ sactive = "ibd"
    BY <1>5 DEF SInv, Loaded
  <1>7. STypes'
    BY <1>4, <1>5, <1>6, Constants DEF SInv, STypes
  <1>8. OnDisk'
    BY <1>2, <1>3, <1>4, <1>5, <1>6 DEF SInv, OnDisk, InMemory
  <1>9. Loaded' /\ InMemory'
    BY <1>3, <1>4, <1>5, <1>6, Constants DEF SInv, Loaded, InMemory, IsUsable, Both
  <1>10. QED
    BY <1>7, <1>8, <1>9 DEF SInv

\* The mark of the base is written after the coins matched the known hash.
LEMMA WriteSnapshotBaseBlockhashStep == SInv /\ WriteSnapshotBaseBlockhash => SInv'
  <1> SUFFICES ASSUME SInv, WriteSnapshotBaseBlockhash PROVE SInv'
    OBVIOUS
  <1> DEFINE d == sdirs.snapshot
             n == [d EXCEPT !.base = TRUE]
  <1>1. /\ sdirs \in DirMap /\ d \in Dirs /\ sdirs = [sdirs EXCEPT !.snapshot = d]
        /\ sload \in [pc : Pcs, file : Files \cup {"none"}, at : Nat] /\ sload.file \in Files
    BY DEF SInv, STypes, DirMap, WriteSnapshotBaseBlockhash
  <1>2. /\ sload.pc = "swap" /\ UNCHANGED <<sup, sibd, ssnap, sactive, sdata, sright>>
    BY DEF WriteSnapshotBaseBlockhash, snapMem, snapFixed
  <1>3. /\ d.there /\ ~d.base /\ d.tip >= BaseHeight /\ d.right = sright
        /\ sactive = "ibd" /\ sup \in {"run", "dead"}
    BY <1>2 DEF SInv, Loaded
  <1>4. CASE sload' = [sload EXCEPT !.pc = "fail"] /\ UNCHANGED <<sdirs, sstory>>
    <2>1. sload' = [sload EXCEPT !.pc = "fail", !.at = sload.at] /\ sload.at \in Nat
      BY <1>1, <1>4
    <2>2. "fail" \in Pcs \ {"idle", "swapped"}
      BY DEF Pcs
    <2>3. sdirs' = [sdirs EXCEPT !.snapshot = d] /\ sup' = sup /\ sup # "abort" /\ sstory' = sstory
      BY <1>1, <1>2, <1>3, <1>4
    <2>4. sload.pc \notin {"idle", "swapped"} /\ UNCHANGED <<sibd, ssnap, sactive, sdata, sright>>
      BY <1>2
    <2> HIDE DEF d
    <2>5. QED
      BY <1>1, <1>3, <2>1, <2>2, <2>3, <2>4, LoadStep
  <1>5. CASE /\ sload' = [sload EXCEPT !.pc = "swapped"] /\ sibd.tip < BaseHeight /\ sstory' = "active"
             /\ sdirs' = [sdirs EXCEPT !.snapshot.base = TRUE]
    <2>1. sdirs' = [sdirs EXCEPT !.snapshot = n]
      BY <1>5 DEF DirMap
    <2>2. n \in Dirs /\ n.there = d.there /\ n.base /\ n.tip = d.tip /\ n.right = d.right
      BY <1>1 DEF Dirs
    <2> HIDE DEF n
    <2>3. sdirs' \in DirMap /\ sdirs'.default = sdirs.default /\ sdirs'.snapshot = n
      BY <1>1, <2>1, <2>2, Renamed
    <2>4. /\ sload'.pc = "swapped" /\ sload'.file = sload.file
          /\ sload' \in [pc : Pcs, file : Files \cup {"none"}, at : Nat]
      BY <1>1, <1>5 DEF Pcs
    <2>5. STypes'
      BY <1>1, <1>2, <2>3, <2>4 DEF SInv, STypes
    <2>6. OnDisk' /\ Loaded'
      BY <1>2, <1>3, <1>5, <2>2, <2>3, <2>4 DEF SInv, OnDisk, Loaded
    <2>7. InMemory'
      BY <1>2, <1>3, <1>5, <2>2, <2>3, <2>4 DEF SInv, InMemory, IsUsable, Both
    <2>8. QED
      BY <2>5, <2>6, <2>7 DEF SInv
  <1>6. QED
    BY <1>4, <1>5 DEF WriteSnapshotBaseBlockhash, LoadTo

\* The snapshot becomes the active chainstate.
LEMMA SwapSnapshotStep == SInv /\ SwapSnapshot => SInv'
  <1> SUFFICES ASSUME SInv, SwapSnapshot PROVE SInv'
    OBVIOUS
  <1>1. sdirs \in DirMap /\ sibd \in Chainstates /\ ssnap \in Chainstates
    BY DEF SInv, STypes
  <1>2. /\ sload.pc = "swapped" /\ sload' = Idle /\ UNCHANGED <<sibd, sdata, sright, sstory>>
    BY DEF SwapSnapshot, snapFixed
  <1>3. /\ sdirs.snapshot.there /\ sdirs.snapshot.base /\ sdirs.snapshot.tip >= BaseHeight
        /\ sdirs.snapshot.right = sright /\ sactive = "ibd" /\ sup \in {"run", "dead"} /\ sibd.tip < BaseHeight
    BY <1>2 DEF SInv, Loaded
  <1>4. CASE sup' = "abort" /\ UNCHANGED <<ssnap, sactive, sdirs>>
    BY <1>2, <1>3, <1>4, Constants DEF SInv, STypes, OnDisk, Loaded, InMemory, IsUsable, Both
  <1> DEFINE s == [on |-> TRUE, disabled |-> FALSE, tip |-> BaseHeight, right |-> sdirs.snapshot.right]
  <1>5. CASE /\ ssnap' = s /\ sactive' = "snap" /\ sdirs' = Flushed(sdirs, sibd, ssnap') /\ UNCHANGED sup
    <2>1. /\ s \in Chainstates /\ IsUsable(s) /\ s.on /\ ~s.disabled /\ s.tip = BaseHeight
          /\ s.right = sright /\ BaseHeight >= BaseHeight /\ ssnap' = s /\ sdirs' = Flushed(sdirs, sibd, s)
      BY <1>1, <1>3, <1>5, SnapshotAssumption DEF Chainstates, IsUsable, SInv, STypes
    <2> HIDE DEF s
    <2>2. /\ sdirs' \in DirMap
          /\ sdirs'.default.there = sdirs.default.there /\ sdirs'.default.right = sdirs.default.right
          /\ sdirs'.snapshot.there = sdirs.snapshot.there /\ sdirs'.snapshot.right = sdirs.snapshot.right
          /\ sdirs'.snapshot.base = sdirs.snapshot.base /\ sdirs'.snapshot.tip = BaseHeight
      BY <1>1, <2>1, FlushedFacts
    <2>3. STypes'
      BY <1>2, <1>3, <1>5, <2>1, <2>2, Constants DEF SInv, STypes
    <2>4. OnDisk'
      BY <1>2, <1>3, <1>5, <2>1, <2>2 DEF SInv, OnDisk
    <2>5. Loaded' /\ InMemory'
      BY <1>2, <1>3, <1>5, <2>1, <2>2, Constants DEF SInv, Loaded, InMemory, IsUsable, Both
    <2>6. QED
      BY <2>3, <2>4, <2>5 DEF SInv
  <1>6. QED
    BY <1>4, <1>5 DEF SwapSnapshot

\* A block on top of the snapshot.
LEMMA ConnectSnapshotStep == SInv /\ ConnectSnapshot => SInv'
  BY SnapshotAssumption DEF ConnectSnapshot, Unlocked, snapMem, snapFixed, SInv, STypes, OnDisk, Loaded, InMemory,
     Chainstates, Dirs, Pcs, IsUsable, Both, Heights

\* A request to stop.
LEMMA SnapInterruptStep == SInv /\ SnapInterrupt => SInv'
  BY SnapshotAssumption DEF SnapInterrupt, snapMem, snapFixed, SInv, STypes, OnDisk, Loaded, InMemory,
     Chainstates, Dirs, Pcs, IsUsable, Both, Heights

\* A crash loses the memory only.
LEMMA SnapCrashStep == SInv /\ SnapCrash => SInv'
  BY SnapshotAssumption DEF SnapCrash, Off, NoChainstate, Idle, snapMem, snapFixed, SInv, STypes, OnDisk, Loaded, InMemory,
     Chainstates, Dirs, Pcs, IsUsable, Both, Heights

\* A flush writes the tips of both chainstates.
LEMMA SnapFlushStep == SInv /\ SnapFlush => SInv'
  <1> SUFFICES ASSUME SInv, SnapFlush PROVE SInv'
    OBVIOUS
  <1>1. sdirs \in DirMap /\ sibd \in Chainstates /\ ssnap \in Chainstates
    BY DEF SInv, STypes
  <1>2. /\ sup = "run" /\ sload.pc # "swapped" /\ sdirs' = Flushed(sdirs, sibd, ssnap)
        /\ UNCHANGED <<sup, sibd, ssnap, sactive, sload, sdata, sright, sstory>>
    BY DEF SnapFlush, Unlocked, snapMem, snapFixed
  <1>3. /\ sdirs' \in DirMap
        /\ sdirs'.default.there = sdirs.default.there /\ sdirs'.default.right = sdirs.default.right
        /\ sdirs'.default.tip = IF IsUsable(sibd) THEN sibd.tip ELSE sdirs.default.tip
        /\ sdirs'.snapshot.there = sdirs.snapshot.there /\ sdirs'.snapshot.right = sdirs.snapshot.right
        /\ sdirs'.snapshot.base = sdirs.snapshot.base
        /\ sdirs'.snapshot.tip = IF IsUsable(ssnap) THEN ssnap.tip ELSE sdirs.snapshot.tip
    BY <1>1, <1>2, FlushedFacts
  <1>4. STypes'
    BY <1>2, <1>3 DEF SInv, STypes
  <1>5. OnDisk'
    BY <1>2, <1>3 DEF SInv, STypes, OnDisk, InMemory
  <1>6. Loaded' /\ InMemory'
    BY <1>2, <1>3 DEF SInv, Loaded, InMemory, IsUsable, Both
  <1>7. QED
    BY <1>4, <1>5, <1>6 DEF SInv

\* Shutdown flushes and stops.
LEMMA SnapShutdownStep == SInv /\ SnapShutdown => SInv'
  <1> SUFFICES ASSUME SInv, SnapShutdown PROVE SInv'
    OBVIOUS
  <1>1. sdirs \in DirMap /\ sibd \in Chainstates /\ ssnap \in Chainstates
    BY DEF SInv, STypes
  <1>2. /\ sup = "dead" /\ sload.pc = "idle" /\ sdirs' = Flushed(sdirs, sibd, ssnap)
        /\ sup' = "off" /\ sibd' = NoChainstate /\ ssnap' = NoChainstate /\ sactive' = "none" /\ sload' = Idle
        /\ UNCHANGED <<sdata, sright, sstory>>
    BY DEF SnapShutdown, Off, snapFixed
  <1>3. /\ sdirs' \in DirMap
        /\ sdirs'.default.there = sdirs.default.there /\ sdirs'.default.right = sdirs.default.right
        /\ sdirs'.default.tip = IF IsUsable(sibd) THEN sibd.tip ELSE sdirs.default.tip
        /\ sdirs'.snapshot.there = sdirs.snapshot.there /\ sdirs'.snapshot.right = sdirs.snapshot.right
        /\ sdirs'.snapshot.base = sdirs.snapshot.base
        /\ sdirs'.snapshot.tip = IF IsUsable(ssnap) THEN ssnap.tip ELSE sdirs.snapshot.tip
    BY <1>1, <1>2, FlushedFacts
  <1>4. STypes'
    BY <1>2, <1>3, Constants DEF SInv, STypes
  <1>5. OnDisk'
    BY <1>2, <1>3 DEF SInv, STypes, OnDisk, InMemory
  <1>6. Loaded' /\ InMemory'
    BY <1>2, <1>3, Constants DEF SInv, Loaded, InMemory, IsUsable, Both
  <1>7. QED
    BY <1>4, <1>5, <1>6 DEF SInv

----------------------------------------------------------------------------
\* The outcomes of MaybeCompleteSnapshotValidation, called by ConnectTip and at
\* the start.
LEMMA InvalidStep ==
    ASSUME SInv, NEW ibd \in Chainstates, ibd.on, ibd.right, ibd.disabled => sright,
           sactive = "snap", sup \in {"init", "run", "dead"}, HandleInvalid(ibd, "dead"),
           UNCHANGED <<sload, sdata, sright>>
    PROVE  SInv'
  <1> DEFINE d == [sdirs.default EXCEPT !.tip = ibd.tip]
             one == [sdirs EXCEPT !.default = d]
  <1>1. sdirs \in DirMap /\ sdirs.default \in Dirs /\ sdirs.snapshot \in Dirs /\ ssnap \in Chainstates
    BY DEF SInv, STypes, DirMap
  <1>2. d \in Dirs /\ d.there = sdirs.default.there /\ d.right = sdirs.default.right
    BY <1>1 DEF Dirs, Chainstates
  <1>3. sdirs' \in {one, [one EXCEPT !.invalid = one.snapshot, !.snapshot = NoDir]}
    BY <1>1 DEF HandleInvalid, PutAside, DirMap
  <1> HIDE DEF d
  <1>4. one \in DirMap /\ one.default = d /\ one.snapshot = sdirs.snapshot
    BY <1>1, <1>2, Renamed
  <1> HIDE DEF one
  <1>5. sdirs' \in DirMap /\ sdirs'.default = d /\ sdirs'.snapshot \in {sdirs.snapshot, NoDir}
    BY <1>1, <1>3, <1>4, Constants DEF DirMap
  <1>6. /\ sactive' = "ibd" /\ sibd' = ibd /\ sup' = "dead" /\ sstory' = "gone"
        /\ ssnap' \in Chainstates /\ ssnap'.disabled
    BY <1>1 DEF HandleInvalid, Chainstates
  <1>7. sload.pc = "idle"
    BY DEF SInv, Loaded
  <1>8. STypes'
    BY <1>5, <1>6, <1>7 DEF SInv, STypes
  <1>9. OnDisk'
    BY <1>2, <1>5, <1>6, Constants DEF SInv, OnDisk
  <1>10. Loaded' /\ InMemory'
    BY <1>6, <1>7 DEF SInv, Loaded, InMemory, IsUsable, Both
  <1>11. QED
    BY <1>8, <1>9, <1>10 DEF SInv

\* The background has reproduced the coins of the snapshot.
LEMMA SuccessStep ==
    ASSUME SInv, NEW ibd \in Chainstates, ibd.on, ibd.right, sright,
           sactive = "snap", sup \in {"init", "run", "dead"}, sup' \in {sup, "clean"},
           sibd' = [ibd EXCEPT !.disabled = TRUE], sdirs' = Flushed(sdirs, ibd, ssnap),
           UNCHANGED <<ssnap, sactive, sstory, sload, sdata, sright>>
    PROVE  SInv'
  <1>1. sdirs \in DirMap /\ ssnap \in Chainstates
    BY DEF SInv, STypes
  <1>2. sibd' \in Chainstates /\ sibd'.disabled /\ sibd'.on /\ sibd'.right
    BY DEF Chainstates
  <1>3. /\ sdirs' \in DirMap
        /\ sdirs'.default.there = sdirs.default.there /\ sdirs'.default.right = sdirs.default.right
        /\ sdirs'.snapshot.there = sdirs.snapshot.there /\ sdirs'.snapshot.right = sdirs.snapshot.right
        /\ sdirs'.snapshot.base = sdirs.snapshot.base
        /\ sdirs'.snapshot.tip = IF IsUsable(ssnap) THEN ssnap.tip ELSE sdirs.snapshot.tip
    BY <1>1, FlushedFacts
  <1>4. sload.pc = "idle" /\ sdirs.snapshot.base /\ sdirs.snapshot.there
    BY DEF SInv, Loaded, InMemory, OnDisk
  <1>5. STypes'
    BY <1>2, <1>3, <1>4 DEF SInv, STypes
  <1>6. OnDisk'
    BY <1>3, <1>4 DEF SInv, OnDisk, InMemory
  <1>7. Loaded' /\ InMemory'
    BY <1>2, <1>3, <1>4 DEF SInv, Loaded, InMemory, IsUsable, Both
  <1>8. QED
    BY <1>5, <1>6, <1>7 DEF SInv

\* There is nothing to tell yet.
LEMMA SkippedStep ==
    ASSUME SInv, NEW ibd \in Chainstates, ibd.on, ibd.right = sibd.right, ibd.disabled = sibd.disabled,
           ibd.tip >= sibd.tip, sload.pc # "swapped", sup \in {"init", "run", "dead"},
           sup' = sup \/ (sup = "init" /\ sup' = "run"),
           sup' = "run" /\ sactive = "snap" /\ IsUsable(ibd) => ibd.tip < BaseHeight,
           sibd' = ibd, UNCHANGED <<ssnap, sactive, sstory, sload, sdata, sright, sdirs>>
    PROVE  SInv'
  <1>1. STypes'
    BY DEF SInv, STypes
  <1>2. OnDisk' /\ Loaded'
    BY DEF SInv, OnDisk, Loaded
  <1>3. sibd \in Chainstates /\ BaseHeight \in Nat
    BY SnapshotAssumption DEF SInv, STypes
  <1>4. /\ sibd'.right /\ (sibd'.disabled => sright')
        /\ sup' = "off" <=> sactive' = "none"
        /\ sup' # "off" => sibd'.on
        /\ IsUsable(ssnap') <=> sactive' = "snap"
        /\ sactive' = "snap" => ssnap'.right = sright' /\ ssnap'.tip >= BaseHeight
        /\ sactive' = "snap" /\ sup' # "clean" => sdirs'.snapshot.base
        /\ sup' \in {"init", "run"} /\ sactive' = "ibd" /\ sload'.pc # "swapped" => ~sdirs'.snapshot.base
        /\ sup' # "clean"
    BY DEF SInv, InMemory
  <1>5. sup' = "run" /\ Both' => sibd'.tip < BaseHeight
    BY <1>4 DEF Both
  <1>6. sup' \notin {"off", "abort"} /\ sactive' = "ibd" /\ sstory' = "active" /\ sload'.pc # "swapped" =>
          sibd'.tip >= BaseHeight
    <2>1. sup \notin {"off", "abort"} /\ sactive = "ibd" /\ sstory = "active" => sibd.tip >= BaseHeight
      BY DEF SInv, InMemory
    <2>2. sibd.tip \in Nat /\ ibd.tip \in Nat
      BY <1>3 DEF Chainstates
    <2>3. QED
      BY <1>3, <2>1, <2>2
  <1>7. InMemory'
    BY <1>4, <1>5, <1>6 DEF InMemory, IsUsable
  <1>8. QED
    BY <1>1, <1>2, <1>7 DEF SInv

\* A block of the first chainstate; the base completes the validation.
LEMMA ConnectIbdStep == SInv /\ ConnectIbd => SInv'
  <1> SUFFICES ASSUME SInv, ConnectIbd PROVE SInv'
    OBVIOUS
  <1> DEFINE ibd == [sibd EXCEPT !.tip = @ + 1]
  <1>1. /\ ibd \in Chainstates /\ ibd.on = sibd.on /\ ibd.right = sibd.right /\ ibd.disabled = sibd.disabled
        /\ ibd.tip >= sibd.tip /\ sibd \in Chainstates
    BY DEF SInv, STypes, Chainstates
  <1>2. /\ sup \in {"run", "dead"} /\ sload.pc # "swapped" /\ sibd.on /\ ~sibd.disabled
        /\ UNCHANGED <<sload, sdata, sright>>
        /\ MaybeCompleteSnapshotValidation(ibd, sup, sup, "dead")
    BY DEF ConnectIbd, Unlocked, IsUsable, snapFixed
  <1>3. sibd.right
    BY DEF SInv, InMemory
  <1> HIDE DEF ibd
  <1>4. PICK v \in Verdict(ibd) :
          \/ v = "invalid" /\ HandleInvalid(ibd, "dead")
          \/ /\ v = "success" /\ sibd' = [ibd EXCEPT !.disabled = TRUE] /\ sdirs' = Flushed(sdirs, ibd, ssnap)
             /\ UNCHANGED <<sup, ssnap, sactive, sstory>>
          \/ v \in {"skipped", "interrupted"} /\ sibd' = ibd /\ UNCHANGED <<sup, ssnap, sactive, sdirs, sstory>>
    BY <1>2 DEF MaybeCompleteSnapshotValidation
  <1>5. CASE v = "invalid"
    <2>1. HandleInvalid(ibd, "dead")
      BY <1>4, <1>5
    <2>2. "invalid" \in Verdict(ibd)
      BY <1>4, <1>5
    <2>3. sactive = "snap"
      BY <2>2 DEF Verdict
    <2>4. QED
      BY <1>1, <1>2, <1>3, <2>1, <2>3, InvalidStep
  <1>6. CASE v = "success"
    <2>1. sactive = "snap" /\ sright
      BY <1>4, <1>6 DEF Verdict
    <2>2. QED
      BY <1>1, <1>2, <1>3, <1>4, <1>6, <2>1, SuccessStep
  <1>7. CASE v \in {"skipped", "interrupted"}
    <2>1. sup = "run" => v = "skipped"
      BY <1>4, <1>7 DEF Verdict
    <2>2. v = "skipped" /\ sactive = "snap" /\ IsUsable(ibd) => ibd.tip < BaseHeight
      <3>1. SUFFICES ASSUME v = "skipped", sactive = "snap", IsUsable(ibd) PROVE ibd.tip < BaseHeight
        OBVIOUS
      <3>2. Both
        BY <1>1, <3>1 DEF Both, IsUsable, SInv, InMemory
      <3>3. QED
        BY <1>4, <3>1, <3>2 DEF Verdict
    <2>3. QED
      BY <1>1, <1>2, <1>4, <1>7, <2>1, <2>2, SkippedStep
  <1>8. QED
    BY <1>4, <1>5, <1>6, <1>7

\* The validation completed at the start.
LEMMA SnapInitCompleteStep == SInv /\ SnapInitComplete => SInv'
  <1> SUFFICES ASSUME SInv, SnapInitComplete PROVE SInv'
    OBVIOUS
  <1>1. sibd \in Chainstates /\ sibd.tip >= sibd.tip
    BY DEF SInv, STypes, Chainstates
  <1>2. /\ sup = "init" /\ UNCHANGED <<sload, sdata, sright>>
        /\ MaybeCompleteSnapshotValidation(sibd, "clean", "run", "dead")
    BY DEF SnapInitComplete, snapFixed
  <1>3. sibd.right /\ (sibd.disabled => sright) /\ sibd.on /\ sload.pc = "idle"
    BY <1>2 DEF SInv, InMemory, Loaded
  <1>4. PICK v \in Verdict(sibd) :
          \/ v = "invalid" /\ HandleInvalid(sibd, "dead")
          \/ /\ v = "success" /\ sibd' = [sibd EXCEPT !.disabled = TRUE] /\ sdirs' = Flushed(sdirs, sibd, ssnap)
             /\ sup' = "clean" /\ UNCHANGED <<ssnap, sactive, sstory>>
          \/ /\ v \in {"skipped", "interrupted"} /\ sibd' = sibd
             /\ sup' = "run" /\ UNCHANGED <<ssnap, sactive, sdirs, sstory>>
    BY <1>2 DEF MaybeCompleteSnapshotValidation
  <1>5. CASE v = "invalid"
    <2>1. HandleInvalid(sibd, "dead")
      BY <1>4, <1>5
    <2>2. "invalid" \in Verdict(sibd)
      BY <1>4, <1>5
    <2>3. sactive = "snap"
      BY <2>2 DEF Verdict
    <2>4. QED
      BY <1>1, <1>2, <1>3, <2>1, <2>3, InvalidStep
  <1>6. CASE v = "success"
    <2>1. sactive = "snap" /\ sright
      BY <1>4, <1>6 DEF Verdict
    <2>2. QED
      BY <1>1, <1>2, <1>3, <1>4, <1>6, <2>1, SuccessStep
  <1>7. CASE v \in {"skipped", "interrupted"}
    <2>1. v = "skipped"
      BY <1>2, <1>4, <1>7 DEF Verdict
    <2>2. sactive = "snap" /\ IsUsable(sibd) => sibd.tip < BaseHeight
      <3>1. SUFFICES ASSUME sactive = "snap", IsUsable(sibd) PROVE sibd.tip < BaseHeight
        OBVIOUS
      <3>2. Both
        BY <3>1 DEF Both, SInv, InMemory
      <3>3. QED
        BY <1>4, <2>1, <3>1, <3>2 DEF Verdict
    <2>3. QED
      BY <1>1, <1>2, <1>3, <1>4, <1>7, <2>2, SkippedStep
  <1>8. QED
    BY <1>4, <1>5, <1>6, <1>7

----------------------------------------------------------------------------
\* What the disk has is what the start finds.
LEMMA SnapStartStep == SInv /\ SnapStart => SInv'
  <1> SUFFICES ASSUME SInv, SnapStart PROVE SInv'
    OBVIOUS
  <1> DEFINE d == IF sdirs.default.there THEN sdirs.default ELSE EmptyDir
  <1>1. sdirs \in DirMap /\ sdirs.default \in Dirs /\ sdirs.snapshot \in Dirs
    BY DEF SInv, STypes, DirMap
  <1>2. d \in Dirs /\ d.there /\ d.right /\ (sdirs.default.there => d = sdirs.default)
    BY <1>1, Constants DEF SInv, OnDisk
  <1>3. sdirs' = [sdirs EXCEPT !.default = d]
    BY <1>1 DEF SnapStart, DirMap
  <1> HIDE DEF d
  <1>4. sdirs' \in DirMap /\ sdirs'.default = d /\ sdirs'.snapshot = sdirs.snapshot
    BY <1>1, <1>2, <1>3, Renamed
  <1>5. /\ sibd' = [on |-> TRUE, disabled |-> FALSE, tip |-> d.tip, right |-> d.right]
        /\ sup = "off" /\ sup' = "init" /\ UNCHANGED <<sload, sdata, sright, sstory>>
    BY <1>4 DEF SnapStart, FromDir
  <1>6. /\ sibd' \in Chainstates /\ sibd'.on /\ ~sibd'.disabled /\ sibd'.right /\ sibd'.tip = d.tip
    BY <1>2, <1>5 DEF Chainstates, Dirs
  <1>7. sload.pc = "idle"
    BY <1>5 DEF SInv, Loaded
  <1>8. CASE sdirs.snapshot.base
    <2>1. /\ sactive' = "snap"
          /\ ssnap' = [on |-> TRUE, disabled |-> FALSE, tip |-> sdirs.snapshot.tip, right |-> sdirs.snapshot.right]
      BY <1>8 DEF SnapStart, DetectSnapshotChainstate, FromDir, SInv, OnDisk
    <2>2. /\ ssnap' \in Chainstates /\ ssnap'.on /\ ~ssnap'.disabled
          /\ ssnap'.tip >= BaseHeight /\ ssnap'.right = sright
      BY <1>1, <1>8, <2>1 DEF Chainstates, Dirs, SInv, OnDisk
    <2>3. STypes'
      BY <1>4, <1>5, <1>6, <1>7, <2>1, <2>2 DEF SInv, STypes
    <2>4. OnDisk' /\ Loaded'
      BY <1>2, <1>4, <1>5, <1>7, <1>8, <2>1 DEF SInv, OnDisk, Loaded
    <2>5. InMemory'
      BY <1>4, <1>5, <1>6, <1>8, <2>1, <2>2 DEF InMemory, IsUsable
    <2>6. QED
      BY <2>3, <2>4, <2>5 DEF SInv
  <1>9. CASE ~sdirs.snapshot.base
    <2>1. sactive' = "ibd" /\ ssnap' = NoChainstate
      BY <1>9 DEF SnapStart, DetectSnapshotChainstate
    <2>2. sstory = "active" => d.tip >= BaseHeight
      BY <1>2, <1>9 DEF SInv, OnDisk
    <2>3. STypes'
      BY <1>4, <1>5, <1>6, <1>7, <2>1, Constants DEF SInv, STypes
    <2>4. OnDisk' /\ Loaded'
      BY <1>2, <1>4, <1>5, <1>7, <1>9, <2>1, <2>2 DEF SInv, OnDisk, Loaded
    <2>5. InMemory'
      BY <1>4, <1>5, <1>6, <1>9, <2>1, <2>2, Constants DEF InMemory, IsUsable, Both
    <2>6. QED
      BY <2>3, <2>4, <2>5 DEF SInv
  <1>10. QED
    BY <1>1, <1>8, <1>9 DEF Dirs

\* A reindex gives the snapshot up.
LEMMA DeleteSnapshotChainstateStep == SInv /\ DeleteSnapshotChainstate => SInv'
  <1> SUFFICES ASSUME SInv, DeleteSnapshotChainstate PROVE SInv'
    OBVIOUS
  <1>1. sdirs \in DirMap /\ sibd \in Chainstates
    BY DEF SInv, STypes
  <1>2. sdirs' = [[sdirs EXCEPT !.snapshot = NoDir] EXCEPT !.default = EmptyDir]
    BY DEF DeleteSnapshotChainstate, Removed
  <1>3. sdirs' \in DirMap /\ sdirs'.default = EmptyDir /\ sdirs'.snapshot = NoDir
    BY <1>1, <1>2, Constants DEF DirMap
  <1>4. /\ sup = "init" /\ sactive = "snap" /\ ssnap' = NoChainstate /\ sactive' = "ibd"
        /\ sibd' = [sibd EXCEPT !.tip = 0] /\ sup' = "run" /\ sstory' = "gone"
        /\ UNCHANGED <<sload, sdata, sright>>
    BY DEF DeleteSnapshotChainstate, snapFixed
  <1>5. /\ sibd' \in Chainstates /\ sibd'.on = sibd.on /\ sibd'.disabled = sibd.disabled
        /\ sibd'.right = sibd.right
    BY <1>1, <1>4 DEF Chainstates
  <1>6. STypes'
    BY <1>3, <1>4, <1>5, Constants DEF SInv, STypes
  <1>7. OnDisk' /\ Loaded'
    BY <1>3, <1>4, Constants DEF SInv, OnDisk, Loaded
  <1>8. InMemory'
    BY <1>3, <1>4, <1>5, Constants DEF SInv, InMemory, IsUsable, Both
  <1>9. QED
    BY <1>6, <1>7, <1>8 DEF SInv

\* The first rename of ValidatedSnapshotCleanup: the snapshot is still marked.
LEMMA MoveIbdAwayStep == SInv /\ MoveIbdAway => SInv'
  <1> SUFFICES ASSUME SInv, MoveIbdAway PROVE SInv'
    OBVIOUS
  <1>1. sdirs \in DirMap /\ sdirs.default \in Dirs
    BY DEF SInv, STypes, DirMap
  <1>2. /\ sup = "clean" /\ sdirs.snapshot.there /\ sdirs.snapshot.base
        /\ UNCHANGED <<sdata, sright, sstory>>
    BY DEF MoveIbdAway, DetectSnapshotChainstate, snapFixed
  <1>3. CASE sdirs.todelete.there
    <2>1. /\ sup' = "off" /\ sibd' = NoChainstate /\ ssnap' = NoChainstate /\ sactive' = "none" /\ sload' = Idle
          /\ UNCHANGED sdirs
      BY <1>3 DEF MoveIbdAway, Off
    <2>2. QED
      BY <1>2, <2>1, Constants DEF SInv, STypes, OnDisk, Loaded, InMemory, IsUsable, Both
  <1>4. CASE ~sdirs.todelete.there
    <2>1. /\ sdirs' = [sdirs EXCEPT !.todelete = sdirs.default, !.default = NoDir]
          /\ UNCHANGED <<sup, sibd, ssnap, sactive, sload>>
      BY <1>4 DEF MoveIbdAway, snapMem
    <2>2. sdirs' \in DirMap /\ sdirs'.default = NoDir /\ sdirs'.snapshot = sdirs.snapshot
      BY <1>1, <2>1, Constants DEF DirMap
    <2>3. STypes' /\ OnDisk' /\ Loaded'
      BY <1>2, <2>1, <2>2, Constants DEF SInv, STypes, OnDisk, Loaded
    <2>4. InMemory'
      BY <1>2, <2>1, <2>2 DEF SInv, InMemory, IsUsable, Both
    <2>5. QED
      BY <2>3, <2>4 DEF SInv
  <1>5. QED
    BY <1>3, <1>4

\* The second rename: the coins were reproduced, they may take the name.
LEMMA MoveSnapshotInStep == SInv /\ MoveSnapshotIn => SInv'
  <1> SUFFICES ASSUME SInv, MoveSnapshotIn PROVE SInv'
    OBVIOUS
  <1>1. sdirs \in DirMap /\ sdirs.snapshot \in Dirs
    BY DEF SInv, STypes, DirMap
  <1>2. /\ sup = "clean" /\ ~sdirs.default.there /\ sdirs' = [sdirs EXCEPT !.default = sdirs.snapshot, !.snapshot = NoDir]
        /\ UNCHANGED <<sup, sibd, ssnap, sactive, sload, sdata, sright, sstory>>
    BY DEF MoveSnapshotIn, snapMem, snapFixed
  <1>3. sdirs' \in DirMap /\ sdirs'.default = sdirs.snapshot /\ sdirs'.snapshot = NoDir
    BY <1>1, <1>2, Constants DEF DirMap
  <1>4. /\ sright /\ sactive = "snap" /\ sdirs.snapshot.there /\ sdirs.snapshot.base
        /\ sdirs.snapshot.right = sright /\ sdirs.snapshot.tip >= BaseHeight /\ sload.pc = "idle"
    BY <1>2 DEF SInv, InMemory, OnDisk, Loaded
  <1>5. STypes' /\ OnDisk' /\ Loaded'
    BY <1>2, <1>3, <1>4, Constants DEF SInv, STypes, OnDisk, Loaded
  <1>6. InMemory'
    BY <1>2, <1>3, <1>4, Constants DEF SInv, InMemory, IsUsable, Both
  <1>7. QED
    BY <1>5, <1>6 DEF SInv

\* The old directory is deleted and the start goes on.
LEMMA DeleteOldStep == SInv /\ DeleteOld => SInv'
  <1> SUFFICES ASSUME SInv, DeleteOld PROVE SInv'
    OBVIOUS
  <1>1. sdirs \in DirMap /\ sdirs.default \in Dirs
    BY DEF SInv, STypes, DirMap
  <1>2. /\ sup = "clean" /\ ~sdirs.snapshot.there
        /\ sdirs' \in {sdirs, [sdirs EXCEPT !.todelete = NoDir]}
        /\ sibd' = [on |-> TRUE, disabled |-> FALSE, tip |-> sdirs.default.tip, right |-> sdirs.default.right]
        /\ ssnap' = NoChainstate /\ sactive' = "ibd" /\ sup' = "run"
        /\ UNCHANGED <<sload, sdata, sright, sstory>>
    BY DEF DeleteOld, FromDir, snapFixed
  <1>3. sdirs' \in DirMap /\ sdirs'.default = sdirs.default /\ sdirs'.snapshot = sdirs.snapshot
    <2>1. [sdirs EXCEPT !.todelete = NoDir] \in DirMap
          /\ [sdirs EXCEPT !.todelete = NoDir].default = sdirs.default
          /\ [sdirs EXCEPT !.todelete = NoDir].snapshot = sdirs.snapshot
      BY <1>1, Constants, Renamed
    <2>2. QED
      BY <1>1, <1>2, <2>1
  <1>4. /\ sdirs.default.there /\ sdirs.default.right /\ ~sdirs.snapshot.base /\ sload.pc = "idle"
        /\ sstory = "active" => sdirs.default.tip >= BaseHeight
    BY <1>2 DEF SInv, InMemory, OnDisk, Loaded
  <1>5. /\ sibd' \in Chainstates /\ sibd'.on /\ ~sibd'.disabled /\ sibd'.right
        /\ sibd'.tip = sdirs.default.tip
    BY <1>1, <1>2, <1>4 DEF Chainstates, Dirs
  <1>6. STypes' /\ OnDisk' /\ Loaded'
    BY <1>2, <1>3, <1>4, <1>5, Constants DEF SInv, STypes, OnDisk, Loaded
  <1>7. InMemory'
    BY <1>2, <1>3, <1>4, <1>5, Constants DEF InMemory, IsUsable, Both
  <1>8. QED
    BY <1>6, <1>7 DEF SInv

----------------------------------------------------------------------------
\* Every step preserves the invariant.
LEMMA SInvNext == SInv /\ [SnapNext]_snapVars => SInv'
  <1> SUFFICES ASSUME SInv, [SnapNext]_snapVars PROVE SInv'
    OBVIOUS
  <1>1. CASE UNCHANGED snapVars
    BY <1>1 DEF snapVars, snapMem, SInv, STypes, OnDisk, Loaded, InMemory, IsUsable, Both
  <1>2. CASE SnapNext
    BY <1>2, SnapReceiveStep, SnapTransactionStep, ActivateSnapshotStep, PopulateStep, CleanupBadSnapshotStep,
       WriteSnapshotBaseBlockhashStep, SwapSnapshotStep, ConnectIbdStep, ConnectSnapshotStep, SnapPruneStep,
       SnapFlushStep, SnapInterruptStep, SnapShutdownStep, SnapCrashStep, SnapStartStep,
       DeleteSnapshotChainstateStep, SnapInitCompleteStep, MoveIbdAwayStep, MoveSnapshotInStep, DeleteOldStep
       DEF SnapNext
  <1>3. QED
    BY <1>1, <1>2

\* The invariant implies what is promised.
LEMMA SInvSound == SInv => AssumedNeverTrusted /\ NoSilentRevert
  <1> SUFFICES ASSUME SInv PROVE AssumedNeverTrusted /\ NoSilentRevert
    OBVIOUS
  <1>1. AssumedNeverTrusted
    BY DEF SInv, STypes, OnDisk, InMemory, AssumedNeverTrusted, GetChainstateForIndexing, Both, IsUsable
  <1>2. NoSilentRevert
    BY DEF SInv, STypes, InMemory, NoSilentRevert, Unlocked
  <1>3. QED
    BY <1>1, <1>2

\* A block that a step removes is behind every chainstate that needs it.
BehindBoth ==
    \A h \in sdata \ sdata' :
        /\ IsUsable(sibd) /\ (sactive = "ibd" \/ h <= BaseHeight) => sibd.tip >= h
        /\ IsUsable(ssnap) => ssnap.tip >= h

\* Only SnapPrune removes blocks, and it keeps behind both tips.
LEMMA PruneStep == SInv /\ [SnapNext]_snapVars => BehindBoth
  <1> SUFFICES ASSUME SInv, [SnapNext]_snapVars, NEW h \in sdata \ sdata'
               PROVE  /\ IsUsable(sibd) /\ (sactive = "ibd" \/ h <= BaseHeight) => sibd.tip >= h
                      /\ IsUsable(ssnap) => ssnap.tip >= h
    BY DEF BehindBoth
  <1>1. SnapPrune
    BY DEF SnapNext, SnapReceive, SnapTransaction, ActivateSnapshot, PopulateCheck, PopulateCoin, PopulateFlush,
       PopulateFlushed, PopulateLast, PopulateHash, CleanupBadSnapshot, WriteSnapshotBaseBlockhash, SwapSnapshot,
       ConnectIbd, ConnectSnapshot, SnapFlush, SnapInterrupt, SnapShutdown, SnapCrash, SnapStart,
       DeleteSnapshotChainstate, SnapInitComplete, MoveIbdAway, MoveSnapshotIn, DeleteOld, snapVars
  <1>2. /\ sibd.tip \in Nat /\ ssnap.tip \in Nat /\ h \in Nat /\ h >= 1
        /\ BaseHeight \in Nat /\ BlocksToKeep \in Nat /\ TipHeight \in Nat
    BY SnapshotAssumption DEF SInv, STypes, Chainstates, Heights
  <1>3. sup = "run"
    BY <1>1 DEF SnapPrune
  <1>4. IsUsable(ssnap) => sactive = "snap" /\ ssnap.tip >= BaseHeight /\ (IsUsable(sibd) => sibd.tip < BaseHeight)
    BY <1>3 DEF SInv, InMemory, Both
  <1>5. CASE IsUsable(sibd) /\ h \in GetPruneRange("ibd", sibd)
    <2>1. h <= sibd.tip
      BY <1>2, <1>5 DEF GetPruneRange
    <2>2. QED
      BY <1>2, <1>4, <1>5, <2>1
  <1>6. CASE IsUsable(ssnap) /\ h \in GetPruneRange("snap", ssnap)
    <2>1. h <= ssnap.tip
      BY <1>2, <1>6 DEF GetPruneRange
    <2>2. IsUsable(sibd) => h > BaseHeight
      BY <1>2, <1>6 DEF GetPruneRange, Both
    <2>3. QED
      BY <1>2, <1>4, <1>6, <2>1, <2>2
  <1>7. QED
    BY <1>1, <1>5, <1>6 DEF SnapPrune

\* Coins from a file are never in the default directory or read by an index
\* before they have been reproduced, whatever crashes and failures there are.
THEOREM SnapshotTrust == SnapSpec => []AssumedNeverTrusted
  <1>1. SnapInit => SInv
    BY SInvInit
  <1>2. SInv /\ [SnapNext]_snapVars => SInv'
    BY SInvNext
  <1>3. SInv => AssumedNeverTrusted
    BY SInvSound
  <1>4. QED
    BY <1>1, <1>2, <1>3, PTL DEF SnapSpec

\* A snapshot once active is found again by every later start.
THEOREM SnapshotKept == SnapSpec => []NoSilentRevert
  <1>1. SnapInit => SInv
    BY SInvInit
  <1>2. SInv /\ [SnapNext]_snapVars => SInv'
    BY SInvNext
  <1>3. SInv => NoSilentRevert
    BY SInvSound
  <1>4. QED
    BY <1>1, <1>2, <1>3, PTL DEF SnapSpec

\* Pruning removes no block that one of the two chainstates has to connect.
THEOREM SnapshotPrune == SnapSpec => PruneBehindBoth
  <1>1. SnapInit => SInv
    BY SInvInit
  <1>2. SInv /\ [SnapNext]_snapVars => SInv'
    BY SInvNext
  <1>3. SInv /\ [SnapNext]_snapVars => [BehindBoth]_snapVars
    BY PruneStep
  <1>4. QED
    BY <1>1, <1>2, <1>3, PTL DEF SnapSpec, PruneBehindBoth, BehindBoth
=============================================================================

-------------------------- MODULE NodeLife_proofs --------------------------
(***************************************************************************)
(* For any lengths of the chain, of the queue of callbacks and of          *)
(* mempool.dat: no thread of the node outlives what it uses, a clean exit  *)
(* leaves on disk what was in memory, and mempool.dat is never cut.        *)
(*                                                                         *)
(* The invariant says for every thread at which steps of the main thread   *)
(* it may run and what exists then (Alive), and for the chain what the     *)
(* callbacks still pending will make of the index (Told).                  *)
(***************************************************************************)
EXTENDS NodeLife, TLAPS

Parts == {"pid", "scheduler", "http", "mempool", "chainman", "peerman", "index",
          "netgroup", "addrman", "banman", "connman", "feeest", "zmq"}
Threads == {"scheduler", "http", "load", "map", "tor", "net", "index"}

\* The steps of Shutdown, from the last one back.
IndexGone == {"flush2", "clear", "exited"}
PeersGone == {"dump", "fees", "flush", "callbacks", "stopindex"} \cup IndexGone
LoadGone == {"reset"} \cup PeersGone
SchedulerGone == {"joinload"} \cup LoadGone
NetGone == {"stopsched"} \cup SchedulerGone
HttpGone == {"stopnet"} \cup NetGone

\* The steps of the start, likewise.
Loading == {"genesis", "connect", "finish", "run"}
IndexThere == {"load"} \cup Loading
PeersThere == {"indexes"} \cup IndexThere
ChainThere == {"peers"} \cup PeersThere
NetworkThere == {"chain"} \cup ChainThere
SchedulerThere == {"servers", "network"} \cup NetworkThere
Steps == {"setup", "interrupt", "stophttp"} \cup SchedulerThere \cup HttpGone

Kinds ==
    /\ npc \in Steps /\ nthr \subseteq Threads /\ nlive \subseteq Parts
    /\ nlisten \subseteq nlive \cap {"feeest", "zmq", "peerman", "index"}
    /\ ntasks \subseteq {"feeest", "banman", "peerman"}
    /\ "index" \in nlisten => "chainman" \in nlive
    /\ npc \in {"stophttp"} \cup HttpGone => nintr
    /\ npc \in {"setup", "servers", "network", "chain", "peers", "indexes"} => "index" \notin nlisten

Built ==
    /\ npc \in SchedulerThere => "scheduler" \in nlive
    /\ npc \in NetworkThere => NetworkParts \subseteq nlive
    /\ npc \in ChainThere => {"mempool", "chainman"} \subseteq nlive
    /\ npc \in PeersThere => "peerman" \in nlive
    /\ npc \in IndexThere => "index" \in nlisten

Destroyed ==
    /\ npc \in HttpGone => "http" \notin nlive /\ "peerman" \notin nlisten
    /\ npc \in PeersGone =>
         nlive \subseteq Parts \ {"http", "peerman", "connman", "banman", "addrman", "netgroup"}
    /\ npc \in IndexGone => "index" \notin nlive
    /\ npc = "exited" => nlive = {}

SchedulerAlive ==
    /\ "scheduler" \in nthr => npc \notin {"setup"} \cup SchedulerGone /\ "scheduler" \in nlive
    /\ npc \notin SchedulerGone =>
         ntasks \subseteq nlive /\ ("peerman" \in ntasks => PeerParts \subseteq nlive)
HttpAlive ==
    /\ "http" \in nthr => npc \notin {"setup", "servers"} \cup HttpGone
    /\ nwarm => /\ npc \in {"run", "interrupt", "stophttp"} /\ "index" \in nlisten
                /\ PeerParts \cup {"feeest"} \subseteq nlive
NetAlive ==
    /\ nthr \cap {"map", "tor", "net"} # {} =>
         npc \in {"finish", "run", "interrupt", "stophttp", "stopnet"}
    /\ "net" \in nthr => PeerParts \cup {"scheduler"} \subseteq nlive /\ "index" \in nlisten
LoadAlive ==
    "load" \in nthr =>
        /\ npc \in Loading \cup {"interrupt", "stophttp", "stopnet", "stopsched", "joinload"}
        /\ {"chainman", "mempool", "index", "scheduler"} \subseteq nlive /\ "index" \in nlisten
IndexAlive ==
    "index" \in nthr =>
        /\ npc \in Loading \cup {"interrupt", "stophttp"} \cup (HttpGone \ IndexGone)
        /\ {"chainman", "index"} \subseteq nlive /\ "index" \in nlisten

Alive ==
    /\ Kinds /\ Built /\ Destroyed
    /\ SchedulerAlive /\ HttpAlive /\ NetAlive /\ LoadAlive /\ IndexAlive

----------------------------------------------------------------------------
USE DEF NetworkParts, PeerParts

\* Nothing exists before the start.
LEMMA AliveInit == NodeInit => Alive
  BY DEF NodeInit, Alive, Kinds, Built, Destroyed, SchedulerAlive, HttpAlive, NetAlive, LoadAlive,
         IndexAlive, Parts, Threads, IndexGone, PeersGone, LoadGone, SchedulerGone, NetGone, HttpGone,
         Loading, IndexThere, PeersThere, ChainThere, NetworkThere, SchedulerThere, Steps

\* AppInitMain creates each component before what uses it.
LEMMA AliveStart == Alive /\ InitStep => Alive'
  <1> SUFFICES ASSUME Alive, InitStep PROVE Alive'
    OBVIOUS
  <1> USE DEF Alive, Kinds, Built, Destroyed, SchedulerAlive, HttpAlive, NetAlive, LoadAlive,
         IndexAlive, Parts, Threads, IndexGone, PeersGone, LoadGone, SchedulerGone, NetGone, HttpGone,
         Loading, IndexThere, PeersThere, ChainThere, NetworkThere, SchedulerThere, Steps, Start
  <1>1. CASE Setup
    BY <1>1 DEF Setup
  <1>2. CASE AppInitServers
    BY <1>2 DEF AppInitServers
  <1>3. CASE InitNetwork
    BY <1>3 DEF InitNetwork
  <1>4. CASE LoadChain
    BY <1>4 DEF LoadChain
  <1>5. CASE StartPeers
    BY <1>5 DEF StartPeers
  <1>6. CASE InitIndexes
    BY <1>6 DEF InitIndexes
  <1>7. CASE StartLoad
    BY <1>7 DEF StartLoad
  <1>8. CASE WaitGenesis
    BY <1>8 DEF WaitGenesis
  <1>9. CASE StartNetwork
    BY <1>9 DEF StartNetwork
  <1>10. CASE Finished
    BY <1>10 DEF Finished
  <1>11. CASE WaitShutdown
    BY <1>11 DEF WaitShutdown
  <1>12. QED
    BY <1>1, <1>2, <1>3, <1>4, <1>5, <1>6, <1>7, <1>8, <1>9, <1>10, <1>11 DEF InitStep

\* A step of AppInitMain that fails goes to Interrupt and Shutdown.
LEMMA AliveFailure == Alive /\ InitFailure => Alive'
  <1> SUFFICES ASSUME Alive, InitFailure PROVE Alive'
    OBVIOUS
  <1> USE DEF Alive, Kinds, Built, Destroyed, SchedulerAlive, HttpAlive, NetAlive, LoadAlive,
         IndexAlive, Parts, Threads, IndexGone, PeersGone, LoadGone, SchedulerGone, NetGone, HttpGone,
         Loading, IndexThere, PeersThere, ChainThere, NetworkThere, SchedulerThere, Steps, InitFails
  <1>1. CASE AppInit
    BY <1>1 DEF AppInit
  <1>2. CASE ServersFail
    BY <1>2 DEF ServersFail
  <1>3. CASE NetworkFails
    BY <1>3 DEF NetworkFails
  <1>4. CASE LoadChainFails
    BY <1>4 DEF LoadChainFails
  <1>5. CASE StopBeforePeers
    BY <1>5 DEF StopBeforePeers
  <1>6. CASE IndexesFail
    BY <1>6 DEF IndexesFail
  <1>7. CASE DiskSpaceLow
    BY <1>7 DEF DiskSpaceLow
  <1>8. CASE StopBeforeStart
    BY <1>8 DEF StopBeforeStart
  <1>9. CASE StartNetworkFails
    BY <1>9 DEF StartNetworkFails
  <1>10. QED
    BY <1>1, <1>2, <1>3, <1>4, <1>5, <1>6, <1>7, <1>8, <1>9 DEF InitFailure

\* Shutdown stops each user before what it uses.
LEMMA AliveShutdown == Alive /\ Shutdown => Alive'
  <1> SUFFICES ASSUME Alive, Shutdown PROVE Alive'
    OBVIOUS
  <1> USE DEF Alive, Kinds, Built, Destroyed, SchedulerAlive, HttpAlive, NetAlive, LoadAlive,
         IndexAlive, Parts, Threads, IndexGone, PeersGone, LoadGone, SchedulerGone, NetGone, HttpGone,
         Loading, IndexThere, PeersThere, ChainThere, NetworkThere, SchedulerThere, Steps, Down
  <1>1. CASE Interrupt
    BY <1>1 DEF Interrupt
  <1>2. CASE StopHttp
    BY <1>2 DEF StopHttp
  <1>3. CASE StopNet
    BY <1>3 DEF StopNet
  <1>4. CASE StopScheduler
    BY <1>4 DEF StopScheduler
  <1>5. CASE JoinLoad
    BY <1>5 DEF JoinLoad
  <1>6. CASE ResetPeers
    BY <1>6 DEF ResetPeers
  <1>7. CASE DumpPool
    BY <1>7 DEF DumpPool
  <1>8. CASE FlushFees
    BY <1>8 DEF FlushFees
  <1>9. CASE FlushChain
    BY <1>9 DEF FlushChain
  <1>10. CASE RunCallbacks
    BY <1>10 DEF RunCallbacks
  <1>11. CASE FlushCallbacks
    BY <1>11 DEF FlushCallbacks
  <1>12. CASE StopIndexes
    BY <1>12 DEF StopIndexes
  <1>13. CASE FlushAgain
    BY <1>13 DEF FlushAgain
  <1>14. CASE ClearSignals
    BY <1>14 DEF ClearSignals
  <1>15. QED
    BY <1>1, <1>2, <1>3, <1>4, <1>5, <1>6, <1>7, <1>8, <1>9, <1>10, <1>11, <1>12, <1>13, <1>14 DEF Shutdown

\* A thread that ends, or does something else than start another one.
LEMMA AliveFewer ==
    Alive /\ UNCHANGED <<npc, nintr, nlive, nlisten, ntasks, nwarm>> /\ nthr' \subseteq nthr => Alive'
  BY DEF Alive, Kinds, Built, Destroyed, SchedulerAlive, HttpAlive, NetAlive, LoadAlive,
         IndexAlive, Parts, Threads, IndexGone, PeersGone, LoadGone, SchedulerGone, NetGone, HttpGone,
         Loading, IndexThere, PeersThere, ChainThere, NetworkThere, SchedulerThere, Steps

\* The steps of the other threads.
ThreadStep == PollGenesis \/ RequestShutdown \/ SchedulerThread \/ LoadThread \/ OtherThreads
              \/ IndexThread \/ AtRest

\* The steps of the other threads.
LEMMA AliveThreads == Alive /\ ThreadStep => Alive'
  <1> SUFFICES ASSUME Alive, ThreadStep PROVE Alive'
    OBVIOUS
  <1>1. CASE StartIndexBackgroundSync
    <2>1. /\ "load" \in nthr /\ nthr' \in {nthr, nthr \cup {"index"}}
          /\ UNCHANGED <<npc, nintr, nlive, nlisten, ntasks, nwarm>>
      BY <1>1 DEF StartIndexBackgroundSync
    <2>2. QED
      BY <2>1 DEF Alive, Kinds, Built, Destroyed, SchedulerAlive, HttpAlive, NetAlive, LoadAlive,
         IndexAlive, Parts, Threads, IndexGone, PeersGone, LoadGone, SchedulerGone, NetGone, HttpGone,
         Loading, IndexThere, PeersThere, ChainThere, NetworkThere, SchedulerThere, Steps
  <1>2. CASE ~StartIndexBackgroundSync
    <2>1. UNCHANGED <<npc, nintr, nlive, nlisten, ntasks, nwarm>> /\ nthr' \subseteq nthr
      BY <1>2 DEF ThreadStep, PollGenesis, RequestShutdown, SchedulerThread, LoadThread, OtherThreads,
         IndexThread, AtRest, Deliver, SchedulerEnds, Ends, ConnectBlock, LimitQueue, QueueEmpty, ImportDone,
         StopAfterImport, LoadTransaction, SetLoadTried, LoadEnds, HttpEnds, NetEnds, IndexStep,
         IndexInterrupted, nodeVars
    <2>2. QED
      BY <2>1, AliveFewer
  <1>3. QED
    BY <1>1, <1>2

\* Every step preserves Alive.
LEMMA AliveNext == Alive /\ [NodeNext]_nodeVars => Alive'
  <1> SUFFICES ASSUME Alive, [NodeNext]_nodeVars PROVE Alive'
    OBVIOUS
  <1>1. CASE UNCHANGED nodeVars
    BY <1>1, AliveFewer DEF nodeVars
  <1>2. CASE ThreadStep
    BY <1>2, AliveThreads
  <1>3. QED
    BY <1>1, <1>2, AliveStart, AliveFailure, AliveShutdown DEF NodeNext, Main, ThreadStep

\* Alive implies NothingOutlived.
LEMMA AliveSound == Alive => NothingOutlived
  <1> SUFFICES ASSUME Alive PROVE NothingOutlived
    OBVIOUS
  <1> USE DEF Alive, Kinds, Built, Destroyed, SchedulerAlive, HttpAlive, NetAlive, LoadAlive,
         IndexAlive, Parts, Threads, IndexGone, PeersGone, LoadGone, SchedulerGone, NetGone, HttpGone,
         Loading, IndexThere, PeersThere, ChainThere, NetworkThere, SchedulerThere, Steps
  <1>1. ASSUME NEW t \in nthr PROVE Uses(t) \subseteq nlive
    <2>1. CASE t = "scheduler"
      BY <1>1, <2>1 DEF Uses
    <2>2. CASE t = "http"
      BY <1>1, <2>2 DEF Uses
    <2>3. CASE t = "net"
      BY <1>1, <2>3 DEF Uses
    <2>4. CASE t = "load"
      BY <1>1, <2>4 DEF Uses
    <2>5. CASE t = "index"
      BY <1>1, <2>5 DEF Uses
    <2>6. CASE t \in {"map", "tor"}
      BY <1>1, <2>6 DEF Uses
    <2>7. QED
      BY <1>1, <2>1, <2>2, <2>3, <2>4, <2>5, <2>6
  <1>2. npc = "exited" => nthr = {} /\ nlive = {}
    OBVIOUS
  <1>3. QED
    BY <1>1, <1>2 DEF NothingOutlived

\* No thread of the node outlives what it uses, however the start went.
THEOREM NodeOutlived == NodeSpec => []NothingOutlived
  <1>1. NodeInit => Alive
    BY AliveInit
  <1>2. Alive /\ [NodeNext]_nodeVars => Alive'
    BY AliveNext
  <1>3. Alive => NothingOutlived
    BY AliveSound
  <1>4. QED
    BY <1>1, <1>2, <1>3, PTL DEF NodeSpec

----------------------------------------------------------------------------
\* What the callbacks pending will make of an index that listens: the last
\* block they tell of is the tip.
Told ==
    /\ ntip \in Nat /\ ndisk \in Nat /\ nq \in Seq(Nat)
    /\ nidx \in [mem : Nat, disk : Nat, synced : BOOLEAN] /\ nidx.mem <= ntip
    /\ \A i \in 1 .. Len(nq) : nq[i] <= ntip
    /\ \A i \in 1 .. Len(nq) :
         nq[i] # FlushedTip /\ (\A j \in 1 .. Len(nq) : j > i => nq[j] = FlushedTip) => nq[i] = ntip
    /\ /\ "index" \in nlisten /\ nidx.synced
       /\ \A i \in 1 .. Len(nq) : nq[i] = FlushedTip
       => nidx.mem = ntip

\* From the last flush on, ChainStateFlushed comes after the last block.
Committed ==
    /\ "index" \in nthr => ~nidx.synced
    /\ "index" \notin nlisten /\ nidx.synced => nidx.mem = ntip /\ nidx.disk = ntip
    /\ npc = "callbacks" /\ "index" \in nlisten /\ nidx.synced =>
         IF nq = << >> THEN nidx.disk = nidx.mem ELSE nq[Len(nq)] = FlushedTip
    /\ npc = "stopindex" /\ "index" \in nlisten /\ nidx.synced => nidx.mem = ntip /\ nidx.disk = ntip
    /\ "chainman" \notin nlive \/ npc = "clear" => ndisk = ntip

\* mempool.dat was read to its end if the load counts as tried.
PoolKept == nfile = LPoolFile /\ (ntried => nloaded = LPoolFile /\ nload = "done")

DInv == Told /\ Committed /\ PoolKept

\* At the start, memory and disk agree.
LEMMA DInvInit == NodeInit => DInv
  <1> SUFFICES ASSUME NodeInit PROVE DInv
    OBVIOUS
  <1>1. PICK h \in 0 .. ntip : nidx = [mem |-> h, disk |-> h, synced |-> h = ntip /\ h > 0]
    BY DEF NodeInit
  <1>2. ntip \in Nat /\ ndisk = ntip /\ h \in Nat /\ h <= ntip
    BY DEF NodeInit
  <1>3. nq \in Seq(Nat) /\ Len(nq) = 0
    BY DEF NodeInit
  <1>4. nidx \in [mem : Nat, disk : Nat, synced : BOOLEAN] /\ (nidx.synced => h = ntip)
    BY <1>1, <1>2
  <1>5. Told
    BY <1>1, <1>2, <1>3, <1>4 DEF Told
  <1>6. Committed /\ PoolKept
    BY <1>1, <1>2, <1>4 DEF NodeInit, Committed, PoolKept
  <1>7. QED
    BY <1>5, <1>6 DEF DInv

\* A callback added at the end: a new tip, or the flush of the tip.
LEMMA ToldMore ==
    ASSUME Told, NEW v \in Nat, nq' = Append(nq, v), UNCHANGED nidx, ndisk' \in Nat,
           \/ v = FlushedTip /\ UNCHANGED <<ntip, nlisten>>
           \/ v = ntip + 1 /\ ntip' = v
    PROVE  Told'
  <1> USE DEF FlushedTip
  <1>1. /\ ntip \in Nat /\ nq \in Seq(Nat) /\ Len(nq) \in Nat
        /\ nidx \in [mem : Nat, disk : Nat, synced : BOOLEAN] /\ nidx.mem <= ntip
    BY DEF Told
  <1>2. /\ nq' \in Seq(Nat) /\ Len(nq') = Len(nq) + 1 /\ nq'[Len(nq) + 1] = v
        /\ \A i \in 1 .. Len(nq) : nq'[i] = nq[i]
    BY <1>1
  <1>3. ntip' \in Nat /\ ntip' >= ntip /\ nidx'.mem <= ntip'
    BY <1>1
  <1>4. \A i \in 1 .. Len(nq') : nq'[i] <= ntip'
    <2>1. \A i \in 1 .. Len(nq) : nq[i] \in Nat /\ nq[i] <= ntip
      BY <1>1 DEF Told
    <2>2. \A i \in 1 .. Len(nq') : i \in 1 .. Len(nq) \/ i = Len(nq) + 1
      BY <1>1, <1>2
    <2>3. v <= ntip'
      BY <1>1
    <2>4. QED
      BY <1>1, <1>2, <1>3, <2>1, <2>2, <2>3
  <1>5. ASSUME NEW i \in 1 .. Len(nq'), nq'[i] # FlushedTip,
               \A j \in 1 .. Len(nq') : j > i => nq'[j] = FlushedTip
        PROVE  nq'[i] = ntip'
    <2>1. CASE v = FlushedTip
      <3>1. i \in 1 .. Len(nq) /\ ntip' = ntip
        BY <1>1, <1>2, <1>5, <2>1
      <3>2. \A j \in 1 .. Len(nq) : j > i => nq[j] = FlushedTip
        BY <1>1, <1>2, <1>5
      <3>3. QED
        BY <1>2, <1>5, <3>1, <3>2 DEF Told
    <2>2. CASE v = ntip + 1 /\ ntip' = v
      BY <1>1, <1>2, <1>5, <2>2
    <2>3. QED
      BY <2>1, <2>2
  <1>6. ASSUME "index" \in nlisten', nidx'.synced, \A i \in 1 .. Len(nq') : nq'[i] = FlushedTip
        PROVE  nidx'.mem = ntip'
    <2>1. v = FlushedTip /\ \A i \in 1 .. Len(nq) : nq[i] = FlushedTip
      BY <1>1, <1>2, <1>6
    <2>2. UNCHANGED <<ntip, nlisten>>
      BY <1>1, <2>1
    <2>3. QED
      BY <1>6, <2>1, <2>2 DEF Told
  <1>7. QED
    BY <1>1, <1>2, <1>3, <1>4, <1>5, <1>6 DEF Told

\* The callback at the head delivered.
LEMMA ToldLess ==
    ASSUME Told, nq # << >>, nidx' = Heard(nidx, Head(nq)), nq' = Tail(nq),
           UNCHANGED <<ntip, ndisk, nlisten>>
    PROVE  Told'
  <1> USE DEF FlushedTip
  <1>1. /\ ntip \in Nat /\ ndisk \in Nat /\ nq \in Seq(Nat) /\ Len(nq) \in Nat /\ Len(nq) > 0
        /\ nidx \in [mem : Nat, disk : Nat, synced : BOOLEAN] /\ nidx.mem <= ntip
        /\ \A i \in 1 .. Len(nq) : nq[i] \in Nat /\ nq[i] <= ntip
    BY DEF Told
  <1>2. /\ nq' \in Seq(Nat) /\ Len(nq') = Len(nq) - 1 /\ Head(nq) = nq[1]
        /\ \A i \in 1 .. Len(nq') : nq'[i] = nq[i + 1] /\ i + 1 \in 1 .. Len(nq)
    BY <1>1
  <1>3. /\ nidx' \in [mem : Nat, disk : Nat, synced : BOOLEAN] /\ nidx'.mem <= ntip
        /\ nidx'.synced = nidx.synced
    <2>1. Head(nq) \in Nat /\ Head(nq) <= ntip
      BY <1>1, <1>2
    <2>2. CASE nidx' = nidx
      BY <1>1, <2>2
    <2>3. CASE nidx' = [nidx EXCEPT !.disk = nidx.mem]
      BY <1>1, <2>3
    <2>4. CASE nidx' = [nidx EXCEPT !.mem = Head(nq)]
      BY <1>1, <2>1, <2>4
    <2>5. QED
      BY <2>2, <2>3, <2>4 DEF Heard
  <1>4. \A i \in 1 .. Len(nq') : nq'[i] <= ntip'
    BY <1>1, <1>2
  <1>5. ASSUME NEW i \in 1 .. Len(nq'), nq'[i] # FlushedTip,
               \A j \in 1 .. Len(nq') : j > i => nq'[j] = FlushedTip
        PROVE  nq'[i] = ntip'
    <2>1. ASSUME NEW j \in 1 .. Len(nq), j > i + 1 PROVE nq[j] = FlushedTip
      <3>1. j - 1 \in 1 .. Len(nq') /\ j - 1 > i /\ nq'[j - 1] = nq[(j - 1) + 1] /\ (j - 1) + 1 = j
        BY <1>1, <1>2, <2>1
      <3>2. QED
        BY <1>5, <3>1
    <2>2. QED
      BY <1>2, <1>5, <2>1 DEF Told
  <1>6. ASSUME "index" \in nlisten', nidx'.synced, \A i \in 1 .. Len(nq') : nq'[i] = FlushedTip
        PROVE  nidx'.mem = ntip'
    <2>1. ASSUME NEW j \in 1 .. Len(nq), j > 1 PROVE nq[j] = FlushedTip
      <3>1. j - 1 \in 1 .. Len(nq') /\ nq'[j - 1] = nq[(j - 1) + 1] /\ (j - 1) + 1 = j
        BY <1>1, <1>2, <2>1
      <3>2. QED
        BY <1>6, <3>1
    <2>2. "index" \in nlisten /\ nidx.synced /\ 1 \in 1 .. Len(nq)
      BY <1>1, <1>3, <1>6
    <2>3. CASE nq[1] = FlushedTip
      <3>1. \A j \in 1 .. Len(nq) : nq[j] = FlushedTip
        BY <1>1, <2>1, <2>3
      <3>2. nidx.mem = ntip
        BY <2>2, <3>1 DEF Told
      <3>3. QED
        BY <1>1, <1>2, <2>2, <2>3, <3>2 DEF Heard
    <2>4. CASE nq[1] # FlushedTip
      <3>1. nq[1] = ntip
        BY <2>1, <2>2, <2>4 DEF Told
      <3>2. QED
        BY <1>1, <1>2, <2>2, <2>4, <3>1 DEF Heard
    <2>5. QED
      BY <2>3, <2>4
  <1>7. QED
    BY <1>1, <1>2, <1>3, <1>4, <1>5, <1>6 DEF Told

\* A step that neither connects a block nor delivers a callback.
LEMMA DInvSame ==
    ASSUME DInv, UNCHANGED <<nq, ntip, ndisk, nidx>>, PoolKept',
           "index" \in nlisten' <=> "index" \in nlisten,
           "index" \in nthr' => "index" \in nthr,
           npc' = npc \/ npc' \notin {"callbacks", "stopindex", "clear"},
           "chainman" \in nlive => "chainman" \in nlive'
    PROVE  DInv'
  BY DEF DInv, Told, Committed

\* The steps of AppInitMain.
LEMMA DInvStart == Alive /\ DInv /\ InitStep => DInv'
  <1> SUFFICES ASSUME Alive, DInv, InitStep PROVE DInv'
    OBVIOUS
  <1>1. PoolKept'
    BY DEF DInv, PoolKept, InitStep, Setup, AppInitServers, InitNetwork, LoadChain, StartPeers, InitIndexes,
       StartLoad, WaitGenesis, StartNetwork, Finished, WaitShutdown, nodeChain
  <1>2. CASE InitIndexes
    BY <1>1, <1>2 DEF InitIndexes, Start, nodeChain, DInv, Told, Committed
  <1>3. CASE InitNetwork
    <2>1. "index" \notin nlisten
      BY <1>3 DEF Alive, Kinds, InitNetwork, Start
    <2>2. QED
      BY <1>1, <1>3, <2>1, DInvSame DEF InitNetwork, Start, nodeChain
  <1>4. CASE ~InitIndexes /\ ~InitNetwork
    BY <1>1, <1>4, DInvSame DEF InitStep, Setup, AppInitServers, LoadChain, StartPeers,
       StartLoad, WaitGenesis, StartNetwork, Finished, WaitShutdown, Start, nodeChain
  <1>5. QED
    BY <1>2, <1>3, <1>4

\* A failed start.
LEMMA DInvFailure == DInv /\ InitFailure => DInv'
  <1> SUFFICES ASSUME DInv, InitFailure PROVE DInv'
    OBVIOUS
  <1>1. PICK live, thr : /\ npc' = "interrupt" /\ nlive' = nlive \cup live /\ nthr' = nthr \cup thr
                         /\ thr \in {{}, {"map", "tor"}} /\ UNCHANGED <<nlisten, nodeChain>>
    BY DEF InitFailure, InitFails, AppInit, ServersFail, NetworkFails, LoadChainFails, StopBeforePeers,
       IndexesFail, DiskSpaceLow, StopBeforeStart, StartNetworkFails
  <1>2. PoolKept'
    BY <1>1 DEF DInv, PoolKept, nodeChain
  <1>3. QED
    BY <1>1, <1>2, DInvSame DEF nodeChain

\* The steps of Shutdown: flushes, callbacks, indexes, the mempool dump.
LEMMA DInvShutdown == Alive /\ DInv /\ Shutdown => DInv'
  <1> SUFFICES ASSUME Alive, DInv, Shutdown PROVE DInv'
    OBVIOUS
  <1>1. PoolKept'
    BY DEF DInv, PoolKept, Shutdown, Interrupt, StopHttp, StopNet, StopScheduler, JoinLoad, ResetPeers, DumpPool,
       FlushFees, FlushChain, RunCallbacks, FlushCallbacks, StopIndexes, FlushAgain, ClearSignals, nodeChain
  <1>2. CASE FlushChain
    <2>1. "index" \in nlisten => "chainman" \in nlive
      BY DEF Alive, Kinds
    <2>2. Told'
      <3>1. CASE "chainman" \in nlive
        <4>1. /\ Told /\ FlushedTip \in Nat /\ nq' = Append(nq, FlushedTip) /\ ndisk' = ntip
              /\ UNCHANGED <<nidx, ntip, nlisten>>
          BY <1>2, <3>1 DEF FlushChain, Down, DInv, FlushedTip
        <4>2. ndisk' \in Nat
          BY <4>1 DEF Told
        <4>3. QED
          BY <4>1, <4>2, ToldMore
      <3>2. CASE "chainman" \notin nlive
        BY <1>2, <3>2 DEF FlushChain, Down, DInv, Told
      <3>3. QED
        BY <3>1, <3>2
    <2>3. Committed'
      BY <1>2, <2>1 DEF FlushChain, Down, DInv, Told, Committed, FlushedTip
    <2>4. QED
      BY <1>1, <2>2, <2>3 DEF DInv
  <1>3. CASE RunCallbacks
    <2>2. Told'
      BY <1>3, ToldLess DEF RunCallbacks, DInv
    <2>3. Committed'
      BY <1>3 DEF RunCallbacks, Heard, DInv, Told, Committed, FlushedTip
    <2>4. QED
      BY <1>1, <2>2, <2>3 DEF DInv
  <1>4. CASE FlushCallbacks
    BY <1>1, <1>4 DEF FlushCallbacks, Down, nodeChain, DInv, Told, Committed
  <1>5. CASE StopIndexes
    BY <1>1, <1>5 DEF StopIndexes, Down, nodeChain, DInv, Told, Committed
  <1>6. CASE FlushAgain
    BY <1>1, <1>6 DEF FlushAgain, Down, DInv, Told, Committed
  <1>7. CASE ClearSignals
    <2>1. "index" \notin nlisten
      BY <1>7 DEF ClearSignals, Down, Alive, Kinds, Destroyed, IndexGone
    <2>2. QED
      BY <1>1, <1>7, <2>1 DEF ClearSignals, Down, nodeChain, DInv, Told, Committed
  <1>8. CASE Interrupt \/ StopHttp \/ StopNet \/ StopScheduler \/ JoinLoad \/ ResetPeers \/ DumpPool \/ FlushFees
    BY <1>1, <1>8, DInvSame DEF Interrupt, StopHttp, StopNet, StopScheduler, JoinLoad, ResetPeers, DumpPool,
       FlushFees, Down, nodeChain
  <1>9. QED
    BY <1>2, <1>3, <1>4, <1>5, <1>6, <1>7, <1>8 DEF Shutdown

\* The steps of the other threads.
LEMMA DInvThreads == Alive /\ DInv /\ ThreadStep => DInv'
  <1> SUFFICES ASSUME Alive, DInv, ThreadStep PROVE DInv'
    OBVIOUS
  <1>1. PoolKept'
    <2>1. CASE LoadTransaction \/ SetLoadTried
      <3>1. CASE LoadTransaction
        BY <3>1 DEF DInv, PoolKept, LoadTransaction
      <3>2. CASE SetLoadTried
        BY <3>2, Zenon DEF DInv, PoolKept, SetLoadTried
      <3>3. QED
        BY <2>1, <3>1, <3>2
    <2>2. CASE ImportDone \/ StopAfterImport \/ StartIndexBackgroundSync
      BY <2>2 DEF DInv, PoolKept, ImportDone, StopAfterImport, StartIndexBackgroundSync
    <2>3. CASE ~(LoadTransaction \/ SetLoadTried \/ ImportDone \/ StopAfterImport \/ StartIndexBackgroundSync)
      <3>1. UNCHANGED <<nload, nloaded, ntried, nfile>>
        BY <2>3 DEF ThreadStep, PollGenesis, RequestShutdown, SchedulerThread, LoadThread, OtherThreads,
           IndexThread, AtRest, Deliver, SchedulerEnds, Ends, ConnectBlock, LimitQueue, QueueEmpty,
           LoadEnds, HttpEnds, NetEnds, IndexStep, IndexInterrupted, nodeVars, nodeChain
      <3>2. QED
        BY <3>1 DEF DInv, PoolKept
    <2>4. QED
      BY <2>1, <2>2, <2>3
  <1>2. CASE Deliver
    <2>1. npc \notin {"callbacks", "stopindex", "clear"}
      BY <1>2 DEF Deliver, Alive, SchedulerAlive, SchedulerGone, LoadGone, PeersGone, IndexGone
    <2>2. Told'
      BY <1>2, ToldLess DEF Deliver, DInv
    <2>3. Committed'
      BY <1>2, <2>1 DEF Deliver, Heard, DInv, Told, Committed, FlushedTip
    <2>4. QED
      BY <1>1, <2>2, <2>3 DEF DInv
  <1>3. CASE \E t \in {"net", "http", "load"} : ConnectBlock(t)
    <2>1. PICK t \in {"net", "http", "load"} : ConnectBlock(t)
      BY <1>3
    <2>2. /\ "index" \in nlisten /\ "chainman" \in nlive
          /\ npc \notin {"callbacks", "stopindex", "clear"}
      BY <2>1 DEF ConnectBlock, Connects, Alive, Kinds, NetAlive, HttpAlive, LoadAlive, Loading
    <2>3. Told'
      <3>1. /\ Told /\ nq' = Append(nq, ntip + 1) /\ ntip' = ntip + 1
            /\ UNCHANGED <<nidx, ndisk, nlisten>>
        BY <2>1 DEF ConnectBlock, DInv
      <3>2. ntip + 1 \in Nat /\ ndisk' \in Nat
        BY <3>1 DEF Told
      <3>3. QED
        BY <3>1, <3>2, ToldMore
    <2>4. Committed'
      BY <2>1, <2>2 DEF ConnectBlock, DInv, Told, Committed
    <2>5. QED
      BY <1>1, <2>3, <2>4 DEF DInv
  <1>4. CASE IndexThread
    <2>1. /\ "index" \in nlisten
          /\ npc \in {"callbacks", "stopindex", "clear"} => nintr
      BY <1>4 DEF IndexThread, IndexStep, IndexInterrupted, Alive, IndexAlive, Kinds, HttpGone, NetGone,
         SchedulerGone, LoadGone, PeersGone, IndexGone
    <2>2. Told'
      <3>1. /\ UNCHANGED <<nq, ntip, ndisk, nlisten>>
            /\ \/ nidx.mem < ntip /\ nidx' = [nidx EXCEPT !.mem = @ + 1]
               \/ ~(nidx.mem < ntip) /\ nidx' = [nidx EXCEPT !.synced = TRUE, !.disk = nidx.mem]
               \/ nidx' = [nidx EXCEPT !.disk = nidx.mem]
        BY <1>4 DEF IndexThread, IndexStep, IndexInterrupted
      <3>2. /\ Told /\ ~nidx.synced
            /\ ntip \in Nat /\ nidx \in [mem : Nat, disk : Nat, synced : BOOLEAN] /\ nidx.mem <= ntip
        BY <1>4 DEF IndexThread, IndexStep, IndexInterrupted, DInv, Told, Committed
      <3>3. /\ nidx' \in [mem : Nat, disk : Nat, synced : BOOLEAN] /\ nidx'.mem <= ntip
            /\ nidx'.synced => nidx'.mem = ntip
        <4>1. CASE nidx.mem < ntip /\ nidx' = [nidx EXCEPT !.mem = @ + 1]
          BY <3>2, <4>1
        <4>2. CASE ~(nidx.mem < ntip) /\ nidx' = [nidx EXCEPT !.synced = TRUE, !.disk = nidx.mem]
          <5>1. nidx.mem = ntip
            BY <3>2, <4>2
          <5>2. QED
            BY <3>2, <4>2, <5>1
        <4>3. CASE nidx' = [nidx EXCEPT !.disk = nidx.mem]
          BY <3>2, <4>3
        <4>4. QED
          BY <3>1, <4>1, <4>2, <4>3
      <3>4. QED
        BY <3>1, <3>2, <3>3 DEF Told
    <2>3. Committed'
      BY <1>4, <2>1 DEF IndexThread, IndexStep, IndexInterrupted, DInv, Told, Committed
    <2>4. QED
      BY <1>1, <2>2, <2>3 DEF DInv
  <1>5. CASE StartIndexBackgroundSync
    <2>1. /\ UNCHANGED <<npc, nlive, nlisten, nq, ntip, ndisk, nidx>>
          /\ "index" \in nthr' => "index" \in nthr \/ ~nidx.synced
      BY <1>5 DEF StartIndexBackgroundSync
    <2>2. QED
      BY <1>1, <2>1 DEF DInv, Told, Committed
  <1>6. CASE ~(Deliver \/ IndexThread \/ StartIndexBackgroundSync
               \/ \E t \in {"net", "http", "load"} : ConnectBlock(t))
    <2>1. UNCHANGED <<npc, nlive, nlisten, nq, ntip, ndisk, nidx>> /\ nthr' \subseteq nthr
      BY <1>6 DEF ThreadStep, PollGenesis, RequestShutdown, SchedulerThread, LoadThread, OtherThreads,
       AtRest, SchedulerEnds, Ends, LimitQueue, QueueEmpty, ImportDone,
       StopAfterImport, LoadTransaction, SetLoadTried, LoadEnds, HttpEnds, NetEnds, nodeVars, nodeChain
    <2>2. QED
      BY <1>1, <2>1, DInvSame
  <1>7. QED
    BY <1>2, <1>3, <1>4, <1>5, <1>6

\* Every step preserves DInv.
LEMMA DInvNext == Alive /\ DInv /\ [NodeNext]_nodeVars => DInv'
  <1> SUFFICES ASSUME Alive, DInv, [NodeNext]_nodeVars PROVE DInv'
    OBVIOUS
  <1>1. CASE UNCHANGED nodeVars
    <2>1. PoolKept'
      BY <1>1 DEF DInv, PoolKept, nodeVars
    <2>2. QED
      BY <1>1, <2>1, DInvSame DEF nodeVars
  <1>2. CASE ThreadStep
    BY <1>2, DInvThreads
  <1>3. QED
    BY <1>1, <1>2, DInvStart, DInvFailure, DInvShutdown DEF NodeNext, Main, ThreadStep

\* DInv implies CleanExitDurable and MempoolFileKept.
LEMMA DInvSound == Alive /\ DInv => CleanExitDurable /\ MempoolFileKept
  BY DEF Alive, Kinds, Destroyed, DInv, Committed, PoolKept, CleanExitDurable, MempoolFileKept

\* After Shutdown the disk holds the chain and the index that was in step with
\* it, whatever failed or was interrupted on the way, and mempool.dat has lost
\* nothing.
THEOREM NodeDurable == NodeSpec => [](CleanExitDurable /\ MempoolFileKept)
  <1>1. NodeInit => Alive /\ DInv
    BY AliveInit, DInvInit
  <1>2. Alive /\ DInv /\ [NodeNext]_nodeVars => Alive' /\ DInv'
    BY AliveNext, DInvNext
  <1>3. Alive /\ DInv => CleanExitDurable /\ MempoolFileKept
    BY DInvSound
  <1>4. QED
    BY <1>1, <1>2, <1>3, PTL DEF NodeSpec
=============================================================================

------------------------------ MODULE NodeLife ------------------------------
(***************************************************************************)
(* The life of the node process (init.cpp, kpcoind.cpp): the main thread   *)
(* creates the components and starts the threads in the order of           *)
(* AppInitMain, waits for the request to stop, and takes everything down   *)
(* in the order of Interrupt and Shutdown.  Any step may fail; the request *)
(* to stop may come at any time.  The import thread, the connections, the  *)
(* RPC workers, the index and the scheduler threads run meanwhile, connect *)
(* blocks and deliver callbacks.                                           *)
(***************************************************************************)
EXTENDS Integers, Sequences, FiniteSets

CONSTANTS
    LMaxTip,     \* bound on the blocks of the chain
    LPoolFile,   \* transactions in mempool.dat
    LQueue       \* callbacks that may be pending (10 in the code)

VARIABLES
    npc,       \* where the main thread is
    nok,       \* AppInit has not failed
    nreq,      \* node.shutdown
    nintr,     \* Interrupt has been called
    nlive,     \* the components that exist
    nthr,      \* the threads that run
    nwait,     \* threads in LimitValidationInterfaceQueue
    nlisten,   \* the registered validation interfaces
    ntasks,    \* what the periodic tasks of the scheduler use
    nwarm,     \* RPC is out of its warmup
    nq,        \* the callbacks pending
    ntip, ndisk,   \* the height of the chain, in memory and flushed
    nidx,      \* an index: [mem, disk, synced]
    nload,     \* the stage of the import thread
    nloaded, ntried, nfile    \* transactions loaded; GetLoadTried; in mempool.dat

nodeVars == <<npc, nok, nreq, nintr, nlive, nthr, nwait, nlisten, ntasks, nwarm, nq, ntip, ndisk,
              nidx, nload, nloaded, ntried, nfile>>
nodeChain == <<nq, ntip, ndisk, nidx, nload, nloaded, ntried, nfile>>

NodeInit ==
    /\ npc = "setup" /\ nok = TRUE /\ nreq = FALSE /\ nintr = FALSE
    /\ nlive = {} /\ nthr = {} /\ nwait = {} /\ nlisten = {} /\ ntasks = {} /\ nwarm = FALSE
    /\ nq = << >> /\ ntip \in 0 .. 1 /\ ndisk = ntip
    /\ \E h \in 0 .. ntip : nidx = [mem |-> h, disk |-> h, synced |-> h = ntip /\ h > 0]
    /\ nload = "import" /\ nloaded = 0 /\ ntried = FALSE /\ nfile = LPoolFile

----------------------------------------------------------------------------
\* The main thread goes on to the next step with more components and threads.
Start(from, to, live, thr) ==
    /\ npc = from /\ npc' = to
    /\ nlive' = nlive \cup live /\ nthr' = nthr \cup thr

InitFails(from, live, thr) ==
    /\ npc = from /\ npc' = "interrupt" /\ nok' = FALSE
    /\ nlive' = nlive \cup live /\ nthr' = nthr \cup thr
    /\ UNCHANGED <<nreq, nintr, nwait, nlisten, ntasks, nwarm, nodeChain>>

\* Basic setup, parameters, sanity checks, the lock on the data directory, the
\* PID file, the log; then the scheduler thread.
Setup ==
    /\ Start("setup", "servers", {"pid", "scheduler"}, {"scheduler"})
    /\ UNCHANGED <<nok, nreq, nintr, nwait, nlisten, ntasks, nwarm, nodeChain>>
AppInit == InitFails("setup", {}, {})

AppInitServers ==
    /\ Start("servers", "network", {"http"}, {"http"})
    /\ UNCHANGED <<nok, nreq, nintr, nwait, nlisten, ntasks, nwarm, nodeChain>>
ServersFail == InitFails("servers", {}, {})

\* Addresses, bans, the connection manager, the fee estimator, ZMQ.
NetworkParts == {"netgroup", "addrman", "banman", "connman", "feeest", "zmq"}
InitNetwork ==
    /\ Start("network", "chain", NetworkParts, {})
    /\ nlisten' = {"feeest", "zmq"} /\ ntasks' = {"feeest"}
    /\ UNCHANGED <<nok, nreq, nintr, nwait, nwarm, nodeChain>>
NetworkFails == InitFails("network", {"netgroup"}, {})

\* Without a user interface no question is answered with yes, so a failure to
\* load ends the start; a request to stop is seen behind the loop.
LoadChain ==
    /\ npc = "chain" /\ ~nreq
    /\ Start("chain", "peers", {"mempool", "chainman"}, {})
    /\ UNCHANGED <<nok, nreq, nintr, nwait, nlisten, ntasks, nwarm, nodeChain>>
LoadChainFails == InitFails("chain", IF nreq THEN {} ELSE {"mempool", "chainman"}, {})

StartPeers ==
    /\ ~nreq
    /\ Start("peers", "indexes", {"peerman"}, {})
    /\ nlisten' = nlisten \cup {"peerman"}
    /\ UNCHANGED <<nok, nreq, nintr, nwait, ntasks, nwarm, nodeChain>>
StopBeforePeers == nreq /\ InitFails("peers", {}, {})

\* The indexes register; wallets load; the first pruning.
InitIndexes ==
    /\ Start("indexes", "load", {"index"}, {})
    /\ nlisten' = nlisten \cup {"index"}
    /\ UNCHANGED <<nok, nreq, nintr, nwait, ntasks, nwarm, nodeChain>>
IndexesFail == InitFails("indexes", {"index"}, {})

StartLoad ==
    /\ Start("load", "genesis", {}, {"load"})
    /\ UNCHANGED <<nok, nreq, nintr, nwait, nlisten, ntasks, nwarm, nodeChain>>
DiskSpaceLow == InitFails("load", {}, {})

\* Wait for the genesis block or the request to stop.
WaitGenesis ==
    /\ ntip > 0 /\ ~nreq
    /\ Start("genesis", "connect", {}, {})
    /\ UNCHANGED <<nok, nreq, nintr, nwait, nlisten, ntasks, nwarm, nodeChain>>
\* The mutated form of StopBeforeStart: only the genesis block ends the wait.
StopBeforeStart_Genesis == nreq /\ ntip > 0 /\ InitFails("genesis", {}, {})
StopBeforeStart == nreq /\ InitFails("genesis", {}, {})
\* The wait wakes up twice a second.
PollGenesis == npc = "genesis" /\ UNCHANGED nodeVars

\* Port mapping and Tor control start before the addresses are bound.
StartNetwork ==
    /\ Start("connect", "finish", {}, {"map", "tor", "net"})
    /\ UNCHANGED <<nok, nreq, nintr, nwait, nlisten, ntasks, nwarm, nodeChain>>
StartNetworkFails == InitFails("connect", {}, {"map", "tor"})

Finished ==
    /\ Start("finish", "run", {}, {})
    /\ nwarm' = TRUE /\ ntasks' = ntasks \cup {"banman", "peerman"}
    /\ UNCHANGED <<nok, nreq, nintr, nwait, nlisten, nodeChain>>

WaitShutdown ==
    /\ npc = "run" /\ nreq /\ npc' = "interrupt"
    /\ UNCHANGED <<nok, nreq, nintr, nlive, nthr, nwait, nlisten, ntasks, nwarm, nodeChain>>

----------------------------------------------------------------------------
Interrupt ==
    /\ npc = "interrupt" /\ npc' = "stophttp" /\ nintr' = TRUE
    /\ UNCHANGED <<nok, nreq, nlive, nthr, nwait, nlisten, ntasks, nwarm, nodeChain>>

\* A step of Shutdown: joins threads, then destroys components.
Down(from, to, join, dead) ==
    /\ npc = from /\ npc' = to /\ join \cap nthr = {}
    /\ nlive' = nlive \ dead
    /\ UNCHANGED <<nok, nreq, nintr, nthr, nwait, ntasks>>

StopHttp ==
    /\ Down("stophttp", "stopnet", {"http"}, {"http"})
    /\ nwarm' = FALSE /\ nlisten' = nlisten \ {"peerman"}
    /\ UNCHANGED nodeChain
StopNet == Down("stopnet", "stopsched", {"map", "tor", "net"}, {}) /\ UNCHANGED <<nlisten, nwarm, nodeChain>>
StopScheduler == Down("stopsched", "joinload", {"scheduler"}, {}) /\ UNCHANGED <<nlisten, nwarm, nodeChain>>
\* The mutated form of JoinLoad: the thread that imports is not waited for.
JoinLoad_Not == Down("joinload", "reset", {}, {}) /\ UNCHANGED <<nlisten, nwarm, nodeChain>>
JoinLoad == Down("joinload", "reset", {"load"}, {}) /\ UNCHANGED <<nlisten, nwarm, nodeChain>>
ResetPeers ==
    /\ Down("reset", "dump", {}, {"peerman", "connman", "banman", "addrman", "netgroup"})
    /\ UNCHANGED <<nlisten, nwarm, nodeChain>>

DumpPool ==
    /\ Down("dump", "fees", {}, {})
    /\ nfile' = IF "mempool" \in nlive /\ ntried THEN nloaded ELSE nfile
    /\ UNCHANGED <<nlisten, nwarm, nq, ntip, ndisk, nidx, nload, nloaded, ntried>>
FlushFees == Down("fees", "flush", {}, {}) /\ nlisten' = nlisten \ {"feeest"} /\ UNCHANGED <<nwarm, nodeChain>>

\* A callback is the height of a block connected, or ChainStateFlushed.
FlushedTip == 0

\* ForceFlushStateToDisk sends ChainStateFlushed.
FlushChain ==
    /\ Down("flush", "callbacks", {}, {})
    /\ IF "chainman" \in nlive THEN ndisk' = ntip /\ nq' = Append(nq, FlushedTip)
       ELSE UNCHANGED <<ndisk, nq>>
    /\ UNCHANGED <<nlisten, nwarm, ntip, nidx, nload, nloaded, ntried, nfile>>

\* What the index makes of the callback at the head of the queue.
Heard(i, cb) ==
    IF "index" \notin nlisten \/ ~i.synced THEN i
    ELSE IF cb = FlushedTip THEN [i EXCEPT !.disk = i.mem] ELSE [i EXCEPT !.mem = cb]

\* FlushBackgroundCallbacks: the main thread runs what is left.
RunCallbacks ==
    /\ npc = "callbacks" /\ nq # << >>
    /\ nidx' = Heard(nidx, Head(nq)) /\ nq' = Tail(nq)
    /\ UNCHANGED <<npc, nok, nreq, nintr, nlive, nthr, nwait, nlisten, ntasks, nwarm, ntip, ndisk,
                   nload, nloaded, ntried, nfile>>

\* The mutated form of FlushCallbacks: what is left of the queue is dropped.
FlushCallbacks_Drop ==
    /\ Down("callbacks", "stopindex", {}, {}) /\ nq' = << >>
    /\ UNCHANGED <<nlisten, nwarm, ntip, ndisk, nidx, nload, nloaded, ntried, nfile>>
FlushCallbacks ==
    /\ nq = << >> /\ Down("callbacks", "stopindex", {}, {})
    /\ UNCHANGED <<nlisten, nwarm, nodeChain>>
StopIndexes ==
    /\ Down("stopindex", "flush2", {"index"}, {"index"})
    /\ nlisten' = nlisten \ {"index"} /\ UNCHANGED <<nwarm, nodeChain>>
FlushAgain ==
    /\ Down("flush2", "clear", {}, {})
    /\ ndisk' = IF "chainman" \in nlive THEN ntip ELSE ndisk
    /\ UNCHANGED <<nlisten, nwarm, nq, ntip, nidx, nload, nloaded, ntried, nfile>>
ClearSignals ==
    /\ Down("clear", "exited", {}, {"zmq", "mempool", "feeest", "chainman", "scheduler", "pid"})
    /\ nlisten' = {} /\ UNCHANGED <<nwarm, nodeChain>>

----------------------------------------------------------------------------
\* HandleSIGTERM, the stop command, a full disk, a fatal error.
RequestShutdown ==
    /\ npc # "exited" /\ ~nreq /\ nreq' = TRUE
    /\ UNCHANGED <<npc, nok, nintr, nlive, nthr, nwait, nlisten, ntasks, nwarm, nodeChain>>

\* The scheduler thread delivers the callbacks in order.
Deliver ==
    /\ "scheduler" \in nthr /\ nq # << >>
    /\ nidx' = Heard(nidx, Head(nq)) /\ nq' = Tail(nq)
    /\ UNCHANGED <<npc, nok, nreq, nintr, nlive, nthr, nwait, nlisten, ntasks, nwarm, ntip, ndisk,
                   nload, nloaded, ntried, nfile>>

Ends(t) ==
    /\ t \in nthr \ nwait /\ nthr' = nthr \ {t}
    /\ UNCHANGED <<npc, nok, nreq, nintr, nlive, nwait, nlisten, ntasks, nwarm, nodeChain>>
SchedulerEnds == npc = "stopsched" /\ Ends("scheduler")
HttpEnds == npc = "stophttp" /\ Ends("http")
NetEnds == nintr /\ \E t \in {"map", "tor", "net"} : Ends(t)

\* The threads that call ActivateBestChain.
Connects(t) == \/ t = "net" /\ ~nintr
               \/ t = "http" /\ nwarm /\ ~nintr
               \/ t = "load" /\ nload = "import" /\ ~nreq

ConnectBlock(t) ==
    /\ t \in nthr \ nwait /\ Connects(t)
    /\ ntip < LMaxTip /\ Len(nq) <= LQueue
    /\ ntip' = ntip + 1 /\ nq' = Append(nq, ntip + 1)
    /\ UNCHANGED <<npc, nok, nreq, nintr, nlive, nthr, nwait, nlisten, ntasks, nwarm, ndisk, nidx,
                   nload, nloaded, ntried, nfile>>

\* LimitValidationInterfaceQueue: wait until the callbacks have been delivered.
LimitQueue(t) ==
    /\ t \in nthr \ nwait /\ Connects(t)
    /\ Len(nq) > LQueue /\ nwait' = nwait \cup {t}
    /\ UNCHANGED <<npc, nok, nreq, nintr, nlive, nthr, nlisten, ntasks, nwarm, nodeChain>>
QueueEmpty(t) ==
    /\ t \in nwait /\ nq = << >> /\ nwait' = nwait \ {t}
    /\ UNCHANGED <<npc, nok, nreq, nintr, nlive, nthr, nlisten, ntasks, nwarm, nodeChain>>

\* The import thread: blocks, then the indexes, then the mempool.
ImportDone ==
    /\ "load" \in nthr \ nwait /\ nload = "import" /\ (nreq \/ ntip > 0)
    /\ nload' = "indexes"
    /\ UNCHANGED <<npc, nok, nreq, nintr, nlive, nthr, nwait, nlisten, ntasks, nwarm, nq, ntip, ndisk,
                   nidx, nloaded, ntried, nfile>>
StopAfterImport ==
    /\ "load" \in nthr \ nwait /\ nload = "import" /\ (nreq \/ ntip > 0)
    /\ nload' = "done" /\ nreq' = TRUE
    /\ UNCHANGED <<npc, nok, nintr, nlive, nthr, nwait, nlisten, ntasks, nwarm, nq, ntip, ndisk,
                   nidx, nloaded, ntried, nfile>>
StartIndexBackgroundSync ==
    /\ "load" \in nthr /\ nload = "indexes"
    /\ \/ nload' = "pool" /\ nthr' = nthr \cup (IF nidx.synced THEN {} ELSE {"index"}) /\ UNCHANGED nreq
       \/ nload' = "done" /\ nreq' = TRUE /\ UNCHANGED nthr
    /\ UNCHANGED <<npc, nok, nintr, nlive, nwait, nlisten, ntasks, nwarm, nq, ntip, ndisk, nidx,
                   nloaded, ntried, nfile>>
LoadTransaction ==
    /\ "load" \in nthr /\ nload = "pool" /\ ~nreq /\ nloaded < LPoolFile
    /\ nloaded' = nloaded + 1
    /\ UNCHANGED <<npc, nok, nreq, nintr, nlive, nthr, nwait, nlisten, ntasks, nwarm, nq, ntip, ndisk,
                   nidx, nload, ntried, nfile>>
SetLoadTried ==
    /\ "load" \in nthr /\ nload = "pool" /\ (nreq \/ nloaded = LPoolFile)
    /\ ntried' = ~nreq /\ nload' = "done"
    /\ UNCHANGED <<npc, nok, nreq, nintr, nlive, nthr, nwait, nlisten, ntasks, nwarm, nq, ntip, ndisk,
                   nidx, nloaded, nfile>>
LoadEnds == nload = "done" /\ Ends("load")

\* The thread of the index: one block after the other, then it is synced; what
\* it has is committed there and when it is interrupted.
IndexStep ==
    /\ "index" \in nthr /\ ~nintr
    /\ nidx' = IF nidx.mem < ntip THEN [nidx EXCEPT !.mem = @ + 1]
               ELSE [nidx EXCEPT !.synced = TRUE, !.disk = nidx.mem]
    /\ nthr' = IF nidx.mem < ntip THEN nthr ELSE nthr \ {"index"}
    /\ UNCHANGED <<npc, nok, nreq, nintr, nlive, nwait, nlisten, ntasks, nwarm, nq, ntip, ndisk,
                   nload, nloaded, ntried, nfile>>
IndexInterrupted ==
    /\ "index" \in nthr /\ nintr
    /\ nidx' = [nidx EXCEPT !.disk = nidx.mem] /\ nthr' = nthr \ {"index"}
    /\ UNCHANGED <<npc, nok, nreq, nintr, nlive, nwait, nlisten, ntasks, nwarm, nq, ntip, ndisk,
                   nload, nloaded, ntried, nfile>>

----------------------------------------------------------------------------
InitStep == Setup \/ AppInitServers \/ InitNetwork \/ LoadChain \/ StartPeers \/ InitIndexes
            \/ StartLoad \/ WaitGenesis \/ StartNetwork \/ Finished \/ WaitShutdown
InitFailure == AppInit \/ ServersFail \/ NetworkFails \/ LoadChainFails \/ StopBeforePeers \/ IndexesFail
               \/ DiskSpaceLow \/ StopBeforeStart \/ StartNetworkFails
Shutdown == Interrupt \/ StopHttp \/ StopNet \/ StopScheduler \/ JoinLoad \/ ResetPeers \/ DumpPool
            \/ FlushFees \/ FlushChain \/ RunCallbacks \/ FlushCallbacks \/ StopIndexes \/ FlushAgain
            \/ ClearSignals
Main == InitStep \/ InitFailure \/ Shutdown
Workers == {"net", "http", "load"}
SchedulerThread == Deliver \/ SchedulerEnds
LoadThread == ConnectBlock("load") \/ LimitQueue("load") \/ QueueEmpty("load") \/ ImportDone
              \/ StopAfterImport \/ StartIndexBackgroundSync \/ LoadTransaction \/ SetLoadTried \/ LoadEnds
OtherThreads == (\E t \in {"net", "http"} : ConnectBlock(t) \/ LimitQueue(t) \/ QueueEmpty(t))
                \/ HttpEnds \/ NetEnds
IndexThread == IndexStep \/ IndexInterrupted
\* The import thread waits for callbacks that no thread delivers any more.
LoadStuck == "load" \in nwait /\ "scheduler" \notin nthr
AtRest == (npc = "exited" \/ LoadStuck) /\ UNCHANGED nodeVars

NodeNext == Main \/ PollGenesis \/ RequestShutdown \/ SchedulerThread \/ LoadThread \/ OtherThreads \/ IndexThread
            \/ AtRest
NodeFair == /\ WF_nodeVars(Main) /\ WF_nodeVars(SchedulerThread) /\ WF_nodeVars(LoadThread)
            /\ WF_nodeVars(IndexThread) /\ WF_nodeVars(HttpEnds) /\ WF_nodeVars(NetEnds)
            /\ \A t \in {"net", "http"} : WF_nodeVars(QueueEmpty(t))

NodeSpec == NodeInit /\ [][NodeNext]_nodeVars /\ NodeFair

----------------------------------------------------------------------------
PeerParts == {"connman", "addrman", "banman", "netgroup", "peerman", "chainman", "mempool"}
\* What a thread may touch at any moment.
Uses(t) ==
    CASE t = "scheduler" -> {"scheduler"} \cup ntasks \cup (IF nq = << >> THEN {} ELSE nlisten)
                            \cup (IF "peerman" \in ntasks THEN PeerParts ELSE {})
      [] t = "http" -> IF nwarm THEN PeerParts \cup {"feeest"} ELSE {}
      [] t = "net" -> PeerParts \cup {"scheduler"}
      [] t = "load" -> {"chainman", "mempool", "index", "scheduler"}
      [] t = "index" -> {"chainman", "index"}
      [] OTHER -> {}

\* No thread outlives what it uses, wherever the start failed and whenever the
\* request to stop came: Shutdown destroys a component only after the threads,
\* periodic tasks and callbacks that reach it have ended, and leaves nothing.
NothingOutlived ==
    /\ \A t \in nthr : Uses(t) \subseteq nlive
    /\ npc = "callbacks" => nlisten \subseteq nlive
    /\ npc = "exited" => nthr = {} /\ nlive = {}

\* After the process has ended by Shutdown, the chain on disk is the chain it
\* had in memory, and an index that was in step has committed the same block.
CleanExitDurable ==
    npc = "exited" => ndisk = ntip /\ (nidx.synced => nidx.disk = ntip)

\* mempool.dat is never replaced by what an interrupted load had read of it.
MempoolFileKept == nfile = LPoolFile

\* A process that was asked to stop, or failed to start, ends, but for the
\* import thread that waits for callbacks no thread delivers any more.
ProcessEnds == (nreq \/ ~nok) ~> (npc = "exited" \/ LoadStuck)
============================================================================

# A TLA+ verification of KPCoin

KPCoin is a full node in C++: a fork of Bitcoin Core 27 whose proof of work is
meant to be RandomX. This directory holds TLA+ models of its parts, the TLC
configurations that check them on small instances, and proofs that TLAPS checks
for every instance. Paths below are relative to `src/src/` of the repository.
`PROJECT.json` says, definition by definition, which lines are modelled.

The repository does not contain `node/`, `kernel/`, `policy/`, `script/`, `rpc/`,
`wallet/`, `util/`, `primitives/`, `qt/` and the tests. What the code here calls
there is modelled from the calls and marked external in `PROJECT.json`.

## 1. The system and its parts

A node is a set of threads around two locks, `cs_main` and the mempool's. The
**message thread** (net.cpp) calls net_processing.cpp for every peer in turn:
`ProcessMessages`, then `SendMessages`. Headers, blocks and transactions go from
there to validation.cpp, which maintains the block index, picks the best chain,
connects blocks and keeps the set of unspent outputs in a stack of caches over a
LevelDB database. Scripts are checked by **script check threads** (checkqueue.h).
What changed is announced through validationinterface.cpp to callbacks that the
**scheduler threads** run one after another, some time later. The **socket
thread**, the threads that open connections, **RPC and HTTP threads**, the **index
threads**, the **import thread** and the start and stop of the process (init.cpp)
interleave with all this.

| Part | Sources | Modules | Run |
|---|---|---|---|
| Block index, best chain | validation.cpp, chain.cpp | ChainState | chain |
| Unspent outputs, flushing, crash recovery | validation.cpp, coins.cpp, txdb.cpp | CoinsCache, UtxoState | utxo |
| Script check threads | checkqueue.h | CheckQueue | work |
| RandomX wrapper | crypto/randomx_wrapper.cpp | RandomXWrapper | work, randomx_alloc_failure |
| Scheduler and validation signals | scheduler.cpp, validationinterface.cpp, init.cpp | Signals, SerialQueue | work |
| Transaction requests, orphans | txrequest.cpp, txorphanage.cpp, net_processing.cpp | TxRequest, TxDownload | tx_download |
| Mempool and acceptance | txmempool.cpp, validation.cpp | Mempool, MempoolAccept | pool |
| Indexes | index/ | Index | pool |
| Block download, compact blocks | net_processing.cpp, blockencodings.cpp | BlockDownload | block_download |
| Headers synchronisation | headerssync.cpp, net_processing.cpp | HeadersSync | peers |
| Handshake, pings, addresses, relay | net_processing.cpp | PeerSession | peers |
| Announcing and serving blocks | net_processing.cpp | Announce | announcements |
| Connection manager | net.cpp | Connman | connections |
| Transports | net.cpp, bip324.cpp | Transport | services |
| Addresses, bans, their files | addrman.cpp, banman.cpp, addrdb.cpp | PeerStore | services |
| HTTP server, REST | httpserver.cpp, rest.cpp | Http | services |
| Reindexing, VerifyDB, network options | validation.cpp, init.cpp | Startup | services |
| 256-bit integers, proof of work, header rules | arith_uint256.*, pow.cpp, chain.h | Arith, Pow | rules |
| Deployments | versionbits.cpp | VersionBits | rules |
| Block body rules | validation.cpp, consensus/ | BlockCheck | rules |
| Assumeutxo | validation.cpp | Snapshot | rules |
| Start and stop of the process | init.cpp, kpcoind.cpp | NodeLife | rules |

The components of `PROJECT.json` are the complete list, with the reason for each
part that is left out: parsing and formatting, ciphers and hashes, tables of
constants, blocking system calls and one-shot tools, in which nothing interleaves.

## 2. How the models are made

An action is one critical section of the lock that protects the state, or one
step between two points at which another thread, a failure or a crash can come
in. Data is reduced to what the control depends on: a block is a node of a
constant tree, a transaction a name with its inputs, a message a record, a coin
the height it was created at, a check its outcome. Time is a counter, or an event
that may happen whenever the code's timer could expire. What another thread may
have read just before a critical section is a nondeterministic choice. Budgets
(`Max...`) bound commands, faults and counters, in the guards of the actions.

Mutated versions of single operators (`Name_What`) stand before the original;
each is a plausible bug, and one checked property fails if it takes the
original's place (`mutants` in `PROJECT.json`).

Some runs hold several machines that do not interact (WorkMC, PoolMC, PeersMC,
ServicesMC, RulesMC). A variable `part` or `rrun` says which of them a behaviour
runs, the variables of the others rest, and fairness is demanded of that machine only.

## 3. The modules

**ChainState.** The block index as sets of blocks (`known`, `haveData`, `processed` for
nTx, `txValid`, `scriptValid`, `linked` for nChainTx, `failedValid`, `failedChild`),
`seq` for nSequenceId; setBlockIndexCandidates (`cand`), m_blocks_unlinked,
m_failed_blocks, the tip, the best header and the best invalid block; `pc` and the
locals `abc`, `inv` of ActivateBestChain and InvalidateBlock; `pending`, a call of
ActivateBestChain that is still to be made. m_chainstate_mutex is held by one caller
from start to end while cs_main is released between iterations, so headers, blocks,
PreciousBlock and ResetBlockFailureFlags come between iterations, never inside them.
A restart rebuilds the index as LoadBlockIndex does. ReconsiderAny = FALSE limits
reconsiderblock to blocks that are marked themselves and have no failed ancestor (section 6).

**CoinsCache, UtxoState.** One operator per operation of CCoinsViewCache on one
outpoint, with the flags DIRTY and FRESH; then the stack: the view of ConnectBlock or
DisconnectBlock over CoinsTip over the database. FlushStateToDisk writes undo
data, the index, prunes, and writes coins in any partition into batches; each may
fail and the process may die between any two. A restart runs ReplayBlocks, which may
be interrupted in turn. Left out: scripts, amounts, memory accounting. After
FatalError the node does no further block work until Shutdown.

**CheckQueue.** Workers and master at the granularity of m_mutex and the two condition
variables. Notifications wake one or all waiters, spurious wakeups happen.
**RandomXWrapper.** One action per public operation under m_mutex; every allocation may
fail, an exception leaves behind what earlier steps did. A VM remembers the cache
it was created on. **Signals.** Threads that serve the task queue, the client that
serialises callbacks on them, the list of subscribers walked without the lock, and
the end of it in Shutdown. **SerialQueue** is what scheduler.h promises of it.

**TxRequest, TxDownload.** TxRequest has the operations of TxRequestTracker; the order
that PromoteCandidateReady and ChangeAndReselect walk along is modelled, because
the best candidate is found by looking at a neighbour only. Times are relative to
the clock, which may be set back. TxDownload adds INV, TX, NOTFOUND, ProcessOrphanTx,
the getdata loop of SendMessages turn by turn, peers that come and go, blocks, and
BlockConnected, which runs late in another thread. Left out: reorganisations,
ForceRelay, additions to the mempool by RPC.

**Mempool, MempoolAccept.** A pool is a record and every method of CTxMemPool an operator,
with the cached totals of ancestors and descendants, mapNextTx, deltas, lock points,
the rolling fee. MempoolAccept has single and package acceptance, replacement,
blocks and reorganisations as jobs of several steps under both locks.
**Index.** The sync thread, callbacks, the batches and locator on disk, failures, crashes.

**BlockDownload.** Requests by peer and block, FindNextBlocksToDownload, compact blocks
with parallel round trips, blame, stalling. **HeadersSync.** Presync, redownload with
commitments, which peer is asked, time-outs. **PeerSession.** Two nodes of this code, or
one and a stranger, from the handshake on. **Announce.** Fast announcement, headers, inv or
compact block, and the answers to requests, to peers of four kinds.

**Connman.** The seven threads around m_nodes: references, grants of the two semaphores,
reconnections, eviction, deletion, Stop. **Transport.** Version 1 and 2 (BIP 324) with
symbolic encryption, byte by byte, and the queues and pause flags at each end.
**PeerStore.** The tables of addresses with their collisions, the ban list, and the way through
the files. **Http.** Event loop, workers, tracker and stop; each REST endpoint with its
locked sections. **Startup.** -reindex, VerifyDB and the network options.

**Arith, Pow, VersionBits, BlockCheck.** Algorithms, with a small machine that applies
them in sequence, beside reference definitions: numbers modulo 2^BITS, the full
header rules, BIP 9 without a cache, the body the miner built. **Snapshot.** A snapshot
loaded, validated, put in place, over crashes. **NodeLife.** What lives and runs at
each step of start and stop.

## 4. The runs

| Run | Instance | What it shows |
|---|---|---|
| chain | 6 blocks, 3 branches, an invalid body, a failing script; no command, or one or two | The active chain is valid at every moment. The assertion on m_failed_blocks holds. No other thread sees a tip worse than the one the call started from. IndexHolds: candidates complete, links and m_blocks_unlinked exact, failures have causes, the settled tip is best (each where commands do not break it, section 6). A better block gets active. |
| utxo | 8 blocks, 3 outpoints, 2 stops, 1 write error, 2 disconnections | FRESH is never wrong across two layers. CoinsSurvive: tip and database show exactly the coins of their block, recovery never fails, no logic_error. KeepBlocks = 4: nothing is old enough to be pruned. |
| work | 2 workers, batches of 1 and 4 checks, 2 controls; 3 keys; 2 scheduler threads, 1 sender, 2 events | Wait returns the verdict of its own checks; hashes are under the requested key; a subscriber is deleted exactly when nobody uses it; callbacks are a serial queue; all threads can be stopped. |
| tx_download | 2 peers, a transaction, its stripped form, a child, 3 announcements | SanityCheck holds; RequestedTx finds the best candidate although a callback interleaves; orphans are reconsidered; nothing is left of a peer that is gone; an announcement goes through its states in order. |
| pool | 8 related transactions, 6 blocks; 4 blocks for each kind of index | Links, totals and spends are exact; all that stays could be mined next; reorganised transactions come back; limits hold; index lookups are right, its database is never refused, it reaches the tip. |
| block_download | an honest and a strange peer, 2 blocks and an invalid one | Requests, queues and counters agree; the honest peer is not punished; the tip is reached. |
| peers | 5 headers and a branch with little work; 14 kinds of session | No header of a chain without enough work is stored; both ends agree on what they negotiated; headers get synced. |
| announcements | 2 branches, an invalid block, 5 kinds of peer | What is announced is served; the peer learns the tip. |
| connections | 10 combinations of threads, 3 addresses | No node is used after deletion; slots are conserved; limits and groups hold; Stop returns. |
| services | one small instance per part | Messages arrive in order and transports agree; tables and files keep addresses and bans; requests are answered once, from one chain; reindex, VerifyDB and options do what they say; stopping ends. |
| rules | one small instance per part | Algorithms equal their references; mutated bodies never condemn a header; a snapshot is never trusted before it is validated; nothing is used after its destruction; what is durable survives; the process ends; pruning spares what the background needs. |
| randomx_alloc_failure | 2 keys | *Violation*, section 6. |

**Why the bounds suffice.** Two branches, a fork within one, and one more block than a
batch of ConnectTip are the smallest trees in which a reorganisation can fail half-way
and a block can wait for two ancestors. Two stops let a crash hit the recovery from a
crash. Two workers and a master are all roles the check queue has. One honest and
one unconstrained peer are all roles of the download; the second may fill every
slot. Limbs of 3 bits carry as limbs of 32 do. What is proved (section 5) does
not depend on the bounds.

**Deadlock** is checked where the system never stops (chain, utxo, tx_download,
connections); the other machines end, or have budgets that run out.

**Fairness.** A thread inside ActivateBestChain, an index thread, the scheduler's and
connection manager's threads, the event loop and the main thread of the process go
on when they can (weak fairness). In CheckQueue neither fair locks nor wakeups
beyond those signalled are assumed. In HeadersSync starting a sync with a
preferred peer is strongly fair, because SendMessages visits each peer again and
again; only the honest peer is obliged to answer. BlockDownload and Announce assume
that the honest peer answers and that both message threads go on. An index
additionally relies on the operator to restart it after a failure.

## 5. What is proved

TLAPS checks the modules `*_proofs`. The theorems hold for all values of the
constants that satisfy the named ASSUME of the module.

**ChainState_proofs** (any block tree). `ActiveChainAlwaysValid`: no block of the
active chain is marked failed and every one passed ConnectBlock, in any
interleaving of arrivals, commands, pruning and restarts.
`FailedBlocksAssertionHolds`: m_failed_blocks holds only blocks that are marked.
ActiveChainValid is not inductive. A step that connects blocks relies on what was
decided in an earlier critical section, so the inductive invariant says in addition
that linked blocks are closed under ancestors and that candidates are linked
(IndexInv); that the branch ActivateBestChain is heading for is linked and free of
failure marks, also while cs_main is released (ChainInv); and what the position of
the lock holder implies for its locals (CallInv).

**UtxoConnect_proofs, UtxoState_proofs** (any block tree, any transactions).
`FlagsAlwaysSound`: a coin that the layer below may hold is never marked FRESH.
`CoinsNeverThrowTheorem`: AddCoin and BatchWrite never throw logic_error. The
invariant adds that undo data restore exactly what was spent (UndoInv), and what
holds in the middle of connecting, disconnecting and replaying a block (ConnectInv,
DisconnectInv, ReplayInv).

**RandomXWrapper_proofs** (any set of keys). `NeverAnotherKeyHolds`: m_currentKey
describes the cache, and a hash read from an allocated cache is under the
requested key, whichever allocations fail. `HashUsesRequestedKeyHolds`: if only
creating the VM can fail, every hash is under the requested key on an allocated
cache. The strengthening is that a live VM on an allocated cache was created on
the current one.

**Signals_proofs** (any threads, senders, subscribers). `SignalsImplementSerialQueue`:
Signals refines SerialQueue: callbacks begin in the order in which they were queued
and never overlap. The invariant ties m_are_callbacks_running to the one thread
that is inside ProcessQueue.

**TxDownload_proofs** (any peers, transactions, delays, limits).
`TrackerAlwaysSound`: SanityCheck always holds. `RequestedTxAlwaysFindsBest`: the
branch of RequestedTx that "will never execute" never does. `AlwaysOnlyConnected`:
the assertions of FinalizeNode. The lemmas say of each operation of the tracker that
it takes a sound row of announcements to a sound one. The central ones are
`PromoteSound` and `ChangeSound`: swapping with the neighbour is enough, because
candidates are ordered by priority and the selected one comes right after the ready
ones. They need that priorities differ (the salted hash) and that each set
of peers has a member of least and one of highest priority.

Only model-checked: every liveness property, which the installed provers cannot
reason about; properties over folds or recursive functions (WaitReturnsVerdict,
CoinsSurvive, the mempool's totals, the algorithms of the rules run); and the
properties of the components without a proof module.

## 6. Findings and observations

*randomx_alloc_failure.* A failed allocation leaves m_vm on a released cache while
m_currentKey can equal the next key (randomx_wrapper.cpp:60).

Met while modelling, without a run of their own. The passing runs are restricted
where one of these would break a property, as noted.

Chain and coins:

- AcceptBlock stores a block whose parent is marked failed and not yet linked without
  entering it into m_blocks_unlinked (validation.cpp:3650); once the parent is linked the
  block is not, which validation.cpp:5034 asserts against. IndexHolds asks for exact
  links only without commands.
- ResetBlockFailureFlags of a descendant (validation.cpp:3576) clears the marks of its
  ancestors but does not make those candidates again, and may leave marks on siblings.
- BatchWrite erases cache entries before their batch is written (txdb.cpp:127). If the
  write fails, the flush at shutdown completes without them; CoinsSurvive excludes
  entries lost so.
- Pruned files are unlinked before the coins are flushed (validation.cpp:2668); after a
  crash ReplayBlocks may need a file that is gone. The run prunes nothing that deep.
- InvalidateBlock returns early (validation.cpp:3474) past the scan of lines 3524-3535;
  PreciousBlock restarts its reverse sequence ids when the tip's work grows
  (validation.cpp:3385); AcceptBlock does not add to m_failed_blocks (validation.cpp:4232).
- validation.cpp:3659 and :3853 check the proof of work of the double SHA-256 hash;
  CheckProofOfWorkRandomX, "the main validation entry point" by pow.h, is not called.
  CalculateNextWorkRequired wraps if powLimit times four timespans reaches 2^256.
- RandomXWrapper::InitVM(true) creates the VM with RANDOMX_FLAG_DEFAULT
  (randomx_wrapper.cpp:104); randomx_wrapper.h:79 says mining mode "uses full dataset".

Snapshots: a crash between the two renames of ValidatedSnapshotCleanup, or a failed
deletion, leaves chainstate_todelete, and a later cleanup's rename fails at every start;
a crash in the middle of the intermediate flush leaves a directory whose head blocks
fail an assertion on each load; the base hash file is written before the faked index
entries are flushed; the assertion that the mempool is empty at the swap
(validation.cpp:5419) can fail when a transaction is submitted while coins load; after
handle_invalid_snapshot the active chainstate has no mempool until shutdown.

Indexes: Rewind asserts that m_best_block_index is the sync thread's position
(index/base.cpp:239), which is updated only every 30 seconds, so a reorganisation during
the initial sync can fail it; after a failed write the running MuHash and the best block
diverge (coinstatsindex.cpp:234); an index is refused after a crash that lost the blocks
above a locator (index/base.cpp:107; compare base.h:45).

Mempool: a replacement can evict its conflicts and then be trimmed itself; a parent of
a package evicted by a later member's replacement is reported as "mempool full".

Network: a version 1 reconnection bypasses the check for one connection per group
(net.cpp:2496); the socket and I2P threads can together exceed m_max_inbound; a peer banned
while it is being connected stays; with full queues at both ends of a connection each
waits for the other until the time-out of 20 minutes; a full late answer after an aborted
headers sync costs an honest peer 10 points; a block announced before validation is
never served if a branch with more work arrives first; WriteSettings truncates the ban
list in place.

HTTP and REST: a request callback begun before InterruptHTTPServer and delayed past
WaitUntilEmpty posts its reply behind evhttp_free, or the loop exits before the free event
is posted; the filter message "This error is unexpected and indicates index corruption"
(rest.cpp) can be given while the index is only behind.

Start and stop: a start that fails after the import thread began does not set the
shutdown flag, so Shutdown waits for the whole import; the import thread can wait on the
scheduler that was stopped before it is joined (init.cpp:301, validation.cpp:3217);
nMaxConnections can become negative (init.cpp:985); -cjdnsreachable=0 counts as set
(init.cpp:1338).

## 7. Running

    tlc -workers 2 -config Chain.cfg ChainStateMC
    tlapm TxDownload_proofs.tla

The `module` and `cfg` of every run are in `PROJECT.json`. *randomx_alloc_failure* ends with
the counterexample described above; the others end without error.

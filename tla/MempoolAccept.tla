---------------------------- MODULE MempoolAccept ----------------------------
(***************************************************************************)
(* How transactions enter and leave the pool (validation.cpp): acceptance  *)
(* of single transactions and of packages by MemPoolAccept, replacement,   *)
(* connected blocks, and reorganisations (MaybeUpdateMempoolForReorg).     *)
(* Each of these is a job of several steps, during which cs_main and       *)
(* CTxMemPool::cs are held: no other job starts before it is done, and the *)
(* pool is seen by others only when no job is under way.                   *)
(*                                                                         *)
(* The block tree is given: every block is valid on its own chain.  Lock   *)
(* times count blocks; no transaction has version 3, whose rules are not   *)
(* under src/.                                                             *)
(***************************************************************************)
EXTENDS Mempool

CONSTANTS
    Blocks, Genesis, Parent, Height, Vtx, \* the block tree; Vtx[b] starts with the coinbase
    BadScripts,      \* transactions that fail the script checks
    LockHeight,      \* nLockTime (0: none)
    RelLock,         \* RelLock[t][o]: the input's relative lock, -1 if disabled
    Replaceable,     \* what signals replaceability (SignalsOptInRBF)
    FullRbf,         \* -mempoolfullrbf
    MinRelay,        \* -minrelaytxfee
    ExtraSize,       \* EXTRA_DESCENDANT_TX_SIZE_LIMIT
    MaxReplacements, \* MAX_REPLACEMENT_CANDIDATES
    Maturity,        \* COINBASE_MATURITY
    DisconnectMax,   \* MAX_DISCONNECTED_TX_POOL_BYTES, in transactions
    Packages,        \* the packages submitted: sequences of transactions
    Deltas,          \* the fee deltas of prioritisetransaction
    MaxPrioritised   \* bound: how many transactions carry a delta

VARIABLES
    pool,  \* the CTxMemPool
    tip,   \* the active chain's tip
    job    \* what the holder of the locks is at

vars == <<pool, tip, job>>

\* phase  the next step of the job
\* todo   transactions still to be tried, one by one
\* args   the ATMPArgs they are tried with
\* eval   txns_package_eval: those of a package left for later
\* quit   quit_early
\* hashes vHashUpdate: disconnected transactions that are back in the pool
\* queue  the DisconnectedBlockTransactions, the earliest first
\* target the block to be connected in the end
Idle == [phase |-> "idle", todo |-> <<>>, args |-> None, eval |-> <<>>, quit |-> FALSE,
         hashes |-> <<>>, queue |-> <<>>, target |-> None]

(***************************************************************************)
(* The chain and its coins.                                                *)
(***************************************************************************)
RECURSIVE PathTo(_)
PathTo(b) == IF b = Genesis THEN <<b>> ELSE Append(PathTo(Parent[b]), b)
Chain == [b \in Blocks |-> PathTo(b)]

Confirmed == [b \in Blocks |-> UNION {ToSet(Vtx[x]) : x \in ToSet(Chain[b])}]
HeightOf(b, creator) ==
    Height[CHOOSE x \in ToSet(Chain[b]) : creator \in ToSet(Vtx[x])]
CoinBases == {Vtx[b][1] : b \in Blocks \ {Genesis}}

\* CoinsTip: what the chain has created and not spent.
Coins == [b \in Blocks |->
    {o \in Outpoints : /\ o[1] \in Confirmed[b]
                       /\ \A t \in Confirmed[b] \cap Txs : o \notin In[t]}]
HaveCoin(b, o) == o \in Coins[b]

\* CheckFinalTxAtTip
IsFinal(b, t) == LockHeight[t] = 0 \/ LockHeight[t] < Height[b] + 1

\* CalculateLockPointsAtTip: a coin of the pool counts as confirmed in the
\* next block, an input without a lock as one of height 0.
LockPoints(b, p, extra, t) ==
    LET at(o) == IF RelLock[t][o] = -1 THEN 0
                 ELSE IF o[1] \in Entries(p) \cup extra THEN Height[b] + 1
                 ELSE HeightOf(b, o[1])
        deep == {at(o) : o \in {x \in In[t] : at(x) # Height[b] + 1}}
        locks == {at(o) + RelLock[t][o] - 1 : o \in {x \in In[t] : RelLock[t][x] # -1}}
    IN  [height |-> Max({-1} \cup locks), block |-> Chain[b][Max({0} \cup deep) + 1]]
CheckSequenceLocks(b, lp) == lp.height < Height[b] + 1

\* Consensus::CheckTxInputs at the next height: coinbases are mature.
Immature(b, o) == o[1] \in CoinBases /\ Height[b] + 1 - HeightOf(b, o[1]) < Maturity

(***************************************************************************)
(* MemPoolAccept.  An outcome is the pool and the verdict: "valid",        *)
(* "missing" (TX_MISSING_INPUTS), "reconsiderable" or "invalid".           *)
(***************************************************************************)
ModifiedFee(p, t) == Fee[t] + p.deltas[t]

CheckFeeRate(p, size, fee) ==
    /\ fee >= GetMinFee(p) * size
    /\ fee >= MinRelay * size

Conflicts(p, t) == {p.next[o] : o \in In[t]} \ {None}

\* ATMPArgs, by constructor: SingleAccept with and without bypass_limits,
\* PackageChildWithParents, and SingleInPackageAccept.
SingleAccept == "single"
ReorgAccept == "reorg"
PackageAccept == "package"
SingleInPackage == "single in package"

\* The limits of PreChecks: room for the one transaction replaced, and the
\* carve-out for a small child of a full parent.
RbfLimits(p, t) ==
    LET C == Conflicts(p, t)
    IN  IF Cardinality(C) # 1 THEN DefaultLimits
        ELSE [DefaultLimits EXCEPT
                !.desc = @ + 1,
                !.descSize = @ + p.desc[CHOOSE c \in C : TRUE].size]
CarveOutLimits(lim) ==
    [lim EXCEPT !.anc = 2, !.desc = @ + 1, !.descSize = @ + ExtraSize]
MeetsLimits(p, t, A) ==
    \/ WithinLimits(p, A, Size[t], 1, RbfLimits(p, t))
    \/ /\ Size[t] <= ExtraSize
       /\ WithinLimits(p, A, Size[t], 1, CarveOutLimits(RbfLimits(p, t)))

\* CCoinsViewMemPool: the coins of the chain, of the pool, and of earlier
\* members of the package (extra).  What the pool spends is not left out.
CoinAvailable(p, b, extra, o) == o[1] \in Entries(p) \cup extra \/ HaveCoin(b, o)

\* PreChecks.  extra: earlier members of the package, whose coins
\* CCoinsViewMemPool provides for the time being.
PreChecks(p, b, t, args, extra) ==
    LET A == CalculateMemPoolAncestors(p, t)
        C == Conflicts(p, t)
        known == \E o \in Outpoints : o[1] = t /\ HaveCoin(b, o)
    IN  CASE ~IsFinal(b, t) -> "invalid"
          [] t \in Entries(p) -> "invalid"
          [] C # {} /\ args = PackageAccept -> "invalid"
          [] ~FullRbf /\ ~(C \subseteq Replaceable) -> "invalid"
          [] \E o \in In[t] : ~CoinAvailable(p, b, extra, o) -> IF known THEN "invalid" ELSE "missing"
          [] ~CheckSequenceLocks(b, LockPoints(b, p, extra, t)) -> "invalid"
          [] \E o \in In[t] : o[1] \notin Entries(p) \cup extra /\ Immature(b, o) -> "invalid"
          [] args # ReorgAccept /\ ModifiedFee(p, t) < MinRelay * Size[t] -> "invalid"
          [] /\ args \notin {ReorgAccept, PackageAccept}
             /\ ~CheckFeeRate(p, Size[t], ModifiedFee(p, t)) -> "reconsiderable"
          [] ~MeetsLimits(p, t, A) -> "invalid"
          [] A \cap C # {} -> "invalid"
          [] OTHER -> "valid"

\* ReplacementChecks: Rules 6, 5, 2, 3 and 4 of replacement (policy/rbf,
\* external).
ReplacementChecks(p, t) ==
    LET C == Conflicts(p, t)
        All == CalculateDescendants(p, C)
        fees == Total(p, All).fee
    IN  /\ \A c \in C : FeeRate(ModifiedFee(p, t), Size[t]) > FeeRate(p.fee[c], Size[c])
        /\ MapThenSumSet(LAMBDA c : p.desc[c].count, C) <= MaxReplacements
        /\ MemPoolParents(p, t) \subseteq UNION {Sources(c) : c \in C}
        /\ ModifiedFee(p, t) >= fees
        /\ ModifiedFee(p, t) - fees >= Incremental * Size[t]

\* Finalize: the replaced go and t enters.
Finalize(p, b, t, A) ==
    addUnchecked(RemoveStaged(p, CalculateDescendants(p, Conflicts(p, t)), FALSE),
                 t, A, LockPoints(b, p, {}, t))

\* AcceptSingleTransaction up to Finalize.
Verdict(p, b, t, args) ==
    LET pre == PreChecks(p, b, t, args, {})
    IN  CASE pre # "valid" -> pre
          [] Conflicts(p, t) # {} /\ ~ReplacementChecks(p, t) -> "invalid"
          [] t \in BadScripts -> "invalid"
          [] OTHER -> "valid"

\* IsWellFormedPackage and IsChildWithParents (external).
WellFormed(package) ==
    LET n == Len(package)
    IN  /\ n > 1 /\ IsInjective(package)
        /\ \A i, j \in 1 .. n : i # j => In[package[i]] \cap In[package[j]] = {}
        /\ \A i, j \in 1 .. n : package[j] \in Sources(package[i]) => j < i
        /\ \A i \in 1 .. n - 1 : package[i] \in Sources(package[n])

Init ==
    /\ pool = EmptyPool
    /\ tip = Genesis
    /\ job = Idle

\* AcceptToMemoryPool, for a peer, a wallet or sendrawtransaction, and
\* ProcessNewPackage: the locks are taken.
AcceptToMemoryPool(t) ==
    /\ job = Idle
    /\ job' = [Idle EXCEPT !.phase = "accept", !.todo = <<t>>, !.args = SingleAccept]
    /\ UNCHANGED <<pool, tip>>

ProcessNewPackage(package) ==
    /\ job = Idle
    /\ WellFormed(package)
    /\ \A o \in In[Last(package)] : o[1] \in ToSet(Front(package)) \/ HaveCoin(tip, o)
    /\ job' = [Idle EXCEPT !.phase = "accept", !.todo = package, !.args = SingleInPackage]
    /\ UNCHANGED <<pool, tip>>

\* What becomes of a transaction that is not accepted: nothing, when it came
\* alone; the evaluation with the rest of its package; or, after a
\* reorganisation, the end of what depends on it.
Refused(t, why) ==
    CASE job.args = SingleAccept ->
           job' = Idle /\ UNCHANGED pool
      [] job.args = SingleInPackage ->
           /\ job' = [job EXCEPT !.todo = Tail(@),
                                 !.eval = IF why = "invalid" THEN @ ELSE Append(@, t),
                                 !.quit = @ \/ why = "invalid"]
           /\ UNCHANGED pool
      [] job.args = ReorgAccept \/ job.args = None ->
           /\ job' = [job EXCEPT !.todo = Tail(@)]
           /\ pool' = removeRecursive(pool, t)

\* The next transaction of the job: an iteration of the loop of AcceptPackage
\* or of MaybeUpdateMempoolForReorg, or the only one.
AcceptNext ==
    /\ job.phase = "accept" /\ job.todo # <<>>
    /\ LET t == Head(job.todo)
           why == IF t \in Txs /\ job.args # None THEN Verdict(pool, tip, t, job.args)
                  ELSE "invalid"
       IN  \/ /\ job.args = SingleInPackage /\ t \in Entries(pool)
              /\ job' = [job EXCEPT !.todo = Tail(@)]
              /\ UNCHANGED pool
           \/ /\ ~(job.args = SingleInPackage /\ t \in Entries(pool))
              /\ why # "valid"
              /\ Refused(t, why)
           \/ /\ why = "valid"
              /\ pool' = Finalize(pool, tip, t, CalculateMemPoolAncestors(pool, t))
              /\ job' = [job EXCEPT !.todo = Tail(@),
                            !.hashes = IF job.queue # <<>> THEN Append(@, t) ELSE @]
    /\ UNCHANGED tip

\* AcceptMultipleTransactions, for what AcceptPackage has left: all or none.
PackageFails(p, b, txns) ==
    LET S == ToSet(txns)
        before(i) == {txns[j] : j \in 1 .. i - 1}
        fees == MapThenSumSet(LAMBDA t : ModifiedFee(p, t), S)
    IN  \/ \E i \in DOMAIN txns : PreChecks(p, b, txns[i], PackageAccept, before(i)) # "valid"
        \/ ~CheckFeeRate(p, Total(p, S).size, fees)
        \/ ~CheckPackageLimits(p, S)
        \/ S \cap BadScripts # {}
AcceptTogether ==
    /\ job.phase = "accept" /\ job.args = SingleInPackage /\ job.todo = <<>>
    /\ job' = CASE job.quit \/ job.eval = <<>> -> [Idle EXCEPT !.phase = "limit"]
                [] Len(job.eval) = 1 -> [job EXCEPT !.todo = job.eval, !.quit = TRUE]
                [] OTHER -> IF PackageFails(pool, tip, job.eval)
                            THEN [Idle EXCEPT !.phase = "limit"]
                            ELSE [Idle EXCEPT !.phase = "submit", !.todo = job.eval]
    /\ UNCHANGED <<pool, tip>>

\* SubmitPackage, the next transaction: its ancestors are looked up again,
\* now that those before it have entered.  bug: it exceeds the limits the
\* checks before were to ensure.
SubmitNext ==
    /\ job.phase = "submit" /\ job.todo # <<>>
    /\ LET t == Head(job.todo)
           A == CalculateMemPoolAncestors(pool, t)
       IN  pool' = [Finalize(pool, tip, t, A) EXCEPT
                      !.bug = @ \/ ~WithinLimits(pool, A, Size[t], 1, DefaultLimits)]
    /\ job' = [job EXCEPT !.todo = Tail(@), !.phase = IF Len(job.todo) = 1 THEN "limit" ELSE @]
    /\ UNCHANGED tip

\* LimitMempoolSize ends every job that may have added something: it expires
\* the old ones, then evicts the worst until the pool fits.
FinishSingle ==
    /\ job.phase = "accept" /\ job.args = SingleAccept /\ job.todo = <<>>
    /\ job' = [Idle EXCEPT !.phase = "limit"]
    /\ UNCHANGED <<pool, tip>>
LimitMempoolSize ==
    /\ job.phase = "limit"
    /\ pool' = Expire(pool)
    /\ job' = [job EXCEPT !.phase = "trim"]
    /\ UNCHANGED tip
TrimMore ==
    /\ job.phase = "trim"
    /\ IF Total(pool, Entries(pool)).size > MaxSize
       THEN pool' = TrimWorst(pool) /\ UNCHANGED job
       ELSE job' = Idle /\ UNCHANGED pool
    /\ UNCHANGED tip

(***************************************************************************)
(* Blocks and reorganisations.                                             *)
(***************************************************************************)
Fork(a, b) == Last(LongestCommonPrefix({Chain[a], Chain[b]}))

\* ActivateBestChainStep towards a chain with more work; it stops as soon as
\* the tip is better than the one it started from.
ActivateBestChainStep(b) ==
    /\ job = Idle
    /\ Height[b] = Height[tip] + 1
    /\ job' = [Idle EXCEPT !.phase = "switch", !.target = b]
    /\ UNCHANGED <<pool, tip>>

\* The mutated form of DisconnectTip: later blocks come first.
DisconnectTip_LatestFirst(j) ==
    /\ job' = [j EXCEPT !.queue = @ \o Vtx[tip]]
    /\ pool' = pool
    /\ tip' = Parent[tip]

\* DisconnectTip: the transactions of the block queue up; beyond
\* DisconnectMax the ones that came in first are dropped
\* (DisconnectedBlockTransactions, external), and with them what spends them.
DisconnectTip(j) ==
    LET queue == Vtx[tip] \o j.queue
        n == IF Len(queue) < DisconnectMax THEN Len(queue) ELSE DisconnectMax
    IN  /\ job' = [j EXCEPT !.queue = SubSeq(queue, 1, n)]
        /\ pool' = FoldLeft(removeRecursive, pool, Reverse(SubSeq(queue, n + 1, Len(queue))))
        /\ tip' = Parent[tip]
Disconnect ==
    /\ job.phase = "switch"
    /\ tip # Fork(tip, job.target)
    /\ DisconnectTip(job)

\* ConnectTip: out of the pool, and out of the queue.
ConnectTip ==
    /\ job.phase = "switch"
    /\ tip = Fork(tip, job.target) /\ tip # job.target
    /\ LET b == Chain[job.target][Height[tip] + 2]
       IN  /\ pool' = removeForBlock(pool, Vtx[b])
           /\ job' = [job EXCEPT !.queue = SelectSeq(@, LAMBDA t : t \notin ToSet(Vtx[b]))]
           /\ tip' = b

\* InvalidateBlock, one disconnected block; from the eleventh on nothing is
\* added back.
InvalidateBlock(add) ==
    /\ job = Idle
    /\ tip # Genesis
    /\ DisconnectTip([Idle EXCEPT !.phase = "invalidate",
                                  !.args = IF add THEN ReorgAccept ELSE None])

\* MaybeUpdateMempoolForReorg(disconnectpool, fAddToMempool) takes over if
\* blocks were disconnected.
Connected ==
    /\ job.phase = "switch" /\ tip = job.target
    /\ job' = IF job.queue = <<>> THEN Idle
              ELSE [job EXCEPT !.phase = "accept", !.todo = job.queue, !.args = ReorgAccept]
    /\ UNCHANGED <<pool, tip>>
Invalidated ==
    /\ job.phase = "invalidate"
    /\ job' = [job EXCEPT !.phase = "accept", !.todo = job.queue]
    /\ UNCHANGED <<pool, tip>>

\* All have been tried: their descendants in the pool learn of them.
UpdateFromBlock ==
    /\ job.phase = "accept" /\ job.queue # <<>> /\ job.todo = <<>>
    /\ pool' = UpdateTransactionsFromBlock(pool, job.hashes)
    /\ job' = [job EXCEPT !.phase = "filter"]
    /\ UNCHANGED tip

\* filter_final_and_mature: cached lock points serve as long as the block
\* they depend on is in the chain, else they are computed again.
LockPointsAtTip(p, t) ==
    IF p.lock[t].block \in ToSet(Chain[tip]) THEN p.lock[t] ELSE LockPoints(tip, p, {}, t)
NotFinalOrMature(p, t) ==
    \/ ~IsFinal(tip, t)
    \/ ~CheckSequenceLocks(tip, LockPointsAtTip(p, t))
    \/ \E o \in In[t] : o[1] \notin Entries(p) /\ Immature(tip, o)
FilterFinalAndMature ==
    /\ job.phase = "filter"
    /\ LET reject == {t \in Entries(pool) : NotFinalOrMature(pool, t)}
           fresh == [t \in Txs |-> IF t \in Entries(pool) THEN LockPointsAtTip(pool, t)
                                   ELSE pool.lock[t]]
       IN  pool' = removeForReorg([pool EXCEPT !.lock = fresh], reject)
    /\ job' = [job EXCEPT !.phase = "limit"]
    /\ UNCHANGED tip

(***************************************************************************)
(* Priorities and time.                                                    *)
(***************************************************************************)
Prioritise(t, delta) ==
    /\ job = Idle
    /\ pool' = PrioritiseTransaction(pool, t, delta)
    /\ pool'.deltas[t] \in Deltas \cup {0}
    /\ Cardinality({x \in Txs : pool'.deltas[x] # 0}) <= MaxPrioritised
    /\ UNCHANGED <<tip, job>>

\* The clock: the rolling fee halves (GetMinFee applies it when asked), and
\* the oldest entries reach the expiry.
HalfLifePasses ==
    /\ job = Idle
    /\ pool' = Decay(pool)
    /\ pool' # pool
    /\ UNCHANGED <<tip, job>>
EntriesAge ==
    /\ job = Idle
    /\ \E n \in pool.aged + 1 .. Len(pool.order) : pool' = [pool EXCEPT !.aged = n]
    /\ UNCHANGED <<tip, job>>

Next ==
    \/ \E t \in Txs : AcceptToMemoryPool(t)
    \/ \E package \in Packages : ProcessNewPackage(package)
    \/ AcceptNext \/ AcceptTogether \/ SubmitNext
    \/ FinishSingle \/ LimitMempoolSize \/ TrimMore
    \/ \E b \in Blocks : ActivateBestChainStep(b)
    \/ Disconnect \/ ConnectTip \/ Connected
    \/ \E add \in BOOLEAN : InvalidateBlock(add)
    \/ Invalidated \/ UpdateFromBlock \/ FilterFinalAndMature
    \/ \E t \in Txs, delta \in Deltas : Prioritise(t, delta)
    \/ HalfLifePasses \/ EntriesAge

Spec == Init /\ [][Next]_vars

(***************************************************************************)
(* Properties, of the pool as it is when the locks are released.           *)
(***************************************************************************)
\* What CTxMemPool::check asserts after every block, and more: the links are
\* exactly the spends between entries, mapNextTx lists exactly the inputs,
\* the modified fees carry the deltas, the memory accounted is that of the
\* links, and the cached totals with ancestors and (which check() leaves out)
\* with descendants are the true ones.
PoolConsistent ==
    LET E == Entries(pool)
        up == [t \in Txs |-> IF t \in E THEN Sources(t) \cap E ELSE {}]
        down == [t \in Txs |-> {x \in E : t \in E /\ t \in Sources(x)}]
    IN  job = Idle =>
        /\ IsInjective(pool.order)
        /\ pool.parents = up /\ pool.children = down
        /\ \A o \in Outpoints : {t \in E : o \in In[t]} = {pool.next[o]} \ {None}
        /\ \A t \in E : /\ pool.fee[t] = Fee[t] + pool.deltas[t]
                        /\ pool.anc[t] = Total(pool, Closure(up, {t}))
                        /\ pool.desc[t] = Total(pool, Closure(down, {t}))
        /\ pool.usage = Cardinality(E) + 2 * MapThenSumSet(LAMBDA t : Cardinality(up[t]), E)

\* "CTxMemPool stores valid-according-to-the-current-best-chain transactions
\* that may be included in the next block": whatever blocks came and went,
\* every entry spends coins of the chain or of other entries, is final, has
\* its relative locks satisfied and its coinbases mature, for the next block
\* on the current tip, computed afresh and not from the cached lock points.
NextBlockReady ==
    job = Idle => \A t \in Entries(pool) :
        /\ t \notin Confirmed[tip]
        /\ \A o \in In[t] : o[1] \in Entries(pool) \/ (HaveCoin(tip, o) /\ ~Immature(tip, o))
        /\ IsFinal(tip, t)
        /\ CheckSequenceLocks(tip, LockPoints(tip, pool, {}, t))

\* No entry is left with more ancestors than the limit, reorganisations
\* included.  Acceptance never takes the descendants of an entry further
\* over the limit than by the one carve-out child, and the checks made before
\* a package is submitted do not underestimate ("this should never fail").
ChainLimits ==
    /\ ~pool'.bug
    /\ job' = Idle => \A t \in Entries(pool') : pool'.anc[t].count <= AncestorLimit
    /\ job.queue = <<>> /\ job' # Idle => \A t \in Entries(pool) :
         pool'.desc[t].count > pool.desc[t].count => pool'.desc[t].count <= DescendantLimit + 1

\* After a reorganisation "all the missing transactions will have been
\* re-added to the mempool and should be present if they meet size and
\* consistency constraints": before the pool is cut down to size, a
\* disconnected transaction is confirmed again, in the pool, or one the pool
\* as it now is would refuse.
ReorgRestores ==
    job.phase = "filter" /\ job.args = ReorgAccept =>
        \A t \in Txs \cap ToSet(job.queue) :
            \/ t \in Entries(pool') \cup Confirmed[tip]
            \/ Verdict(pool', tip, t, ReorgAccept) # "valid"
==============================================================================

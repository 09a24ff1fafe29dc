------------------------------- MODULE Mempool -------------------------------
(***************************************************************************)
(* CTxMemPool (txmempool.cpp): the transactions waiting to be mined, with  *)
(* the links between them and the totals each entry caches about its       *)
(* ancestors and its descendants.  A pool is a record; the methods of the  *)
(* class are operators from pools to pools, so that a caller that holds    *)
(* CTxMemPool::cs over several of them is one step.                        *)
(*                                                                         *)
(*   order      the keys of mapTx, by entry time (oldest first)            *)
(*   aged       how many of them are older than the expiry                 *)
(*   parents,   CTxMemPoolEntry's m_parents and m_children                 *)
(*   children                                                              *)
(*   fee        the modified fee                                           *)
(*   anc, desc  the cached totals with ancestors and with descendants      *)
(*   next       mapNextTx: the transaction spending an outpoint            *)
(*   deltas     mapDeltas (0: no entry)                                    *)
(*   usage      cachedInnerUsage, one unit per entry and per link          *)
(*   rolling    rollingMinimumFeeRate                                      *)
(*   bumped     ~blockSinceLastRollingFeeBump                              *)
(*   lock       the cached LockPoints of an entry                          *)
(*   bug        an Assume of SubmitPackage has failed                      *)
(*                                                                         *)
(* Sizes stand for virtual size, signature operations and memory alike.    *)
(***************************************************************************)
EXTENDS Integers, Sequences, FiniteSets, FiniteSetsExt, SequencesExt

CONSTANTS
    Txs,            \* transactions other than coinbases
    In,             \* In[t]: the outpoints t spends, <<creator, index>>
    Size, Fee,      \* virtual size and base fee of each transaction
    AncestorLimit,  \* -limitancestorcount
    DescendantLimit,\* -limitdescendantcount
    AncSizeLimit,   \* -limitancestorsize
    DescSizeLimit,  \* -limitdescendantsize
    MaxSize,        \* -maxmempool
    Incremental     \* the incremental relay fee rate

None == "none"

Outpoints == UNION {In[t] : t \in Txs}

\* The transactions that create what t spends.
Sources(t) == {o[1] : o \in In[t]}

Entries(p) == ToSet(p.order)

\* A cached total: how many entries, their size and their modified fees.
NoTotal == [count |-> 0, size |-> 0, fee |-> 0]
Plus(a, b) == [count |-> a.count + b.count, size |-> a.size + b.size, fee |-> a.fee + b.fee]
Less(a, b) == [count |-> a.count - b.count, size |-> a.size - b.size, fee |-> a.fee - b.fee]
Own(p, t) == [count |-> 1, size |-> Size[t], fee |-> p.fee[t]]
Total(p, S) ==
    [count |-> Cardinality(S),
     size |-> MapThenSumSet(LAMBDA t : Size[t], S),
     fee |-> MapThenSumSet(LAMBDA t : p.fee[t], S)]

EmptyPool ==
    [order |-> <<>>, aged |-> 0,
     parents |-> [t \in Txs |-> {}], children |-> [t \in Txs |-> {}],
     fee |-> [t \in Txs |-> 0],
     anc |-> [t \in Txs |-> NoTotal], desc |-> [t \in Txs |-> NoTotal],
     next |-> [o \in Outpoints |-> None], deltas |-> [t \in Txs |-> 0],
     usage |-> 0, rolling |-> 0, bumped |-> TRUE, bug |-> FALSE,
     lock |-> [t \in Txs |-> [height |-> 0, block |-> None]]]

\* Everything reached from S along the links, S included.
RECURSIVE Closure(_, _)
Closure(links, S) ==
    LET more == UNION {links[t] : t \in S}
    IN  IF more \subseteq S THEN S ELSE Closure(links, S \cup more)

CalculateDescendants(p, S) == Closure(p.children, S)

\* CalculateMemPoolAncestors with fSearchForParents: t is not in the pool.
MemPoolParents(p, t) == Sources(t) \cap Entries(p)
CalculateMemPoolAncestors(p, t) == Closure(p.parents, MemPoolParents(p, t))

DefaultLimits ==
    [anc |-> AncestorLimit, desc |-> DescendantLimit,
     ancSize |-> AncSizeLimit, descSize |-> DescSizeLimit]

\* CalculateAncestorsAndCheckLimits for `count` transactions of total size
\* `size` with in-pool ancestors A: nothing is looked at when A is empty.
WithinLimits(p, A, size, count, lim) ==
    A # {} =>
        /\ \A a \in A : /\ p.desc[a].size + size <= lim.descSize
                        /\ p.desc[a].count + count <= lim.desc
        /\ Total(p, A).size + size <= lim.ancSize
        /\ Cardinality(A) + count <= lim.anc

\* CheckPackageLimits: the package is treated as one transaction that
\* spends what any of its members spends.
CheckPackageLimits(p, S) ==
    LET size == Total(p, S).size
        A == Closure(p.parents, UNION {MemPoolParents(p, t) : t \in S})
    IN  /\ Cardinality(S) <= AncestorLimit /\ Cardinality(S) <= DescendantLimit
        /\ size <= AncSizeLimit /\ size <= DescSizeLimit
        /\ WithinLimits(p, A, size, Cardinality(S), DefaultLimits)
        /\ Cardinality(UNION {MemPoolParents(p, t) : t \in S}) + Cardinality(S) <= AncestorLimit

(***************************************************************************)
(* Adding and removing entries.                                            *)
(***************************************************************************)
\* addUnchecked: links to the parents, totals of the ancestors and its own;
\* a new entry is taken to have no descendants in the pool.
addUnchecked(p, t, A, lp) ==
    LET P == MemPoolParents(p, t)
        q == [p EXCEPT !.fee[t] = Fee[t] + p.deltas[t]]
    IN  [q EXCEPT
           !.order = Append(@, t),
           !.parents[t] = P,
           !.children = [x \in Txs |-> IF x \in P THEN @[x] \cup {t} ELSE @[x]],
           !.anc[t] = Plus(Own(q, t), Total(q, A)),
           !.desc = [x \in Txs |-> CASE x \in A -> Plus(@[x], Own(q, t))
                                     [] x = t -> Own(q, t)
                                     [] OTHER -> @[x]],
           !.next = [o \in Outpoints |-> IF o \in In[t] /\ @[o] = None THEN t ELSE @[o]],
           !.usage = @ + 1 + 2 * Cardinality(P),
           !.lock[t] = lp]

\* UpdateForRemoveFromMempool: what the removal of R does to the others.
\* The ancestors come from the cached links; the descendants' totals are
\* only adjusted when they stay (a block took their ancestors away).
UpdateForRemoveFromMempool(p, R, updateDescendants) ==
    LET Above(t) == Closure(p.parents, {t}) \ {t}
        Below(t) == CalculateDescendants(p, {t}) \ {t}
        Gone(x, near(_)) == Total(p, {r \in R : x \in near(r)})
        links == MapThenSumSet(LAMBDA r : Cardinality(p.parents[r]), R)
        stay == [t \in Txs |-> p.children[t] \ R]
    IN  [p EXCEPT
           !.anc = [x \in Txs |-> IF updateDescendants THEN Less(@[x], Gone(x, Below)) ELSE @[x]],
           !.desc = [x \in Txs |-> Less(@[x], Gone(x, Above))],
           !.children = stay,
           !.parents = [x \in Txs |-> @[x] \ {r \in R : x \in stay[r]}],
           !.usage = @ - links - MapThenSumSet(LAMBDA r : Cardinality(stay[r]), R)]

\* removeUnchecked, for every member of R.
removeUnchecked(p, R) ==
    [p EXCEPT
       !.order = SelectSeq(@, LAMBDA t : t \notin R),
       !.aged = Cardinality({i \in 1 .. p.aged : p.order[i] \notin R}),
       !.next = [o \in Outpoints |-> IF \E r \in R : o \in In[r] THEN None ELSE @[o]],
       !.usage = @ - MapThenSumSet(
           LAMBDA r : 1 + Cardinality(p.parents[r]) + Cardinality(p.children[r]), R),
       !.parents = [t \in Txs |-> IF t \in R THEN {} ELSE @[t]],
       !.children = [t \in Txs |-> IF t \in R THEN {} ELSE @[t]],
       !.fee = [t \in Txs |-> IF t \in R THEN 0 ELSE @[t]],
       !.anc = [t \in Txs |-> IF t \in R THEN NoTotal ELSE @[t]],
       !.desc = [t \in Txs |-> IF t \in R THEN NoTotal ELSE @[t]],
       !.lock = [t \in Txs |-> IF t \in R THEN EmptyPool.lock[t] ELSE @[t]]]

RemoveStaged(p, R, updateDescendants) ==
    removeUnchecked(UpdateForRemoveFromMempool(p, R, updateDescendants), R)

\* removeRecursive: t need not be in the pool; its descendants may be.
removeRecursive(p, t) ==
    LET spenders == {p.next[o] : o \in {x \in Outpoints : x[1] = t}} \ {None}
        roots == IF t \in Entries(p) THEN {t} ELSE spenders
    IN  RemoveStaged(p, CalculateDescendants(p, roots), FALSE)

ClearPrioritisation(p, t) ==
    IF t \in Txs THEN [p EXCEPT !.deltas[t] = 0] ELSE p

\* removeConflicts: whoever else spends one of t's inputs, with descendants.
removeConflicts(p, t) ==
    FoldSet(LAMBDA o, q :
              LET c == q.next[o]
              IN  IF c \in {None, t} THEN q
                  ELSE removeRecursive(ClearPrioritisation(q, c), c),
            p, In[t])

\* The mutated form of removeForBlock: the descendants that stay are not told.
removeForBlock_NoUpdate(p, vtx) ==
    LET one(q, t) ==
          LET r == IF t \in Entries(q) THEN RemoveStaged(q, {t}, FALSE) ELSE q
          IN  ClearPrioritisation(removeConflicts(r, t), t)
    IN  [FoldLeft(one, p, SelectSeq(vtx, LAMBDA t : t \in Txs)) EXCEPT !.bumped = FALSE]

\* removeForBlock: the coinbase (no member of Txs) conflicts with nothing.
removeForBlock(p, vtx) ==
    LET one(q, t) ==
          LET r == IF t \in Entries(q) THEN RemoveStaged(q, {t}, TRUE) ELSE q
          IN  ClearPrioritisation(removeConflicts(r, t), t)
    IN  [FoldLeft(one, p, SelectSeq(vtx, LAMBDA t : t \in Txs)) EXCEPT !.bumped = FALSE]

(***************************************************************************)
(* After a reorganisation.                                                 *)
(***************************************************************************)
\* UpdateForDescendants: the in-pool descendants D of t, which addUnchecked
\* did not know of; those pushed over the ancestor limit are to go.
UpdateForDescendants(st, t, exclude) ==
    LET p == st.pool
        D == (CalculateDescendants(p, {t}) \ {t}) \ exclude
        q == [p EXCEPT
                !.anc = [x \in Txs |-> IF x \in D THEN Plus(@[x], Own(p, t)) ELSE @[x]],
                !.desc[t] = Plus(@, Total(p, D))]
        over == {d \in D : q.anc[d].count > AncestorLimit \/ q.anc[d].size > AncSizeLimit}
    IN  [pool |-> q, remove |-> st.remove \cup over]

\* UpdateTransactionsFromBlock: from the last one back, link the children
\* mapNextTx knows of, then bring the totals up to date.
UpdateTransactionsFromBlock(p, hashes) ==
    LET exclude == ToSet(hashes)
        link(q, t) ==
          LET kids == {q.next[o] : o \in {x \in Outpoints : x[1] = t}} \ ({None} \cup exclude)
              new == kids \ q.children[t]
          IN  [q EXCEPT !.children[t] = @ \cup kids,
                        !.parents = [x \in Txs |-> IF x \in kids THEN @[x] \cup {t} ELSE @[x]],
                        !.usage = @ + 2 * Cardinality(new)]
        one(st, t) ==
          IF t \notin Entries(st.pool) THEN st
          ELSE UpdateForDescendants([st EXCEPT !.pool = link(@, t)], t, exclude)
        done == FoldLeft(one, [pool |-> p, remove |-> {}], Reverse(hashes))
    IN  FoldSet(LAMBDA t, q : IF t \in Entries(q) THEN removeRecursive(q, t) ELSE q,
                done.pool, done.remove)

\* removeForReorg: out with what the filter rejects, and its descendants.
removeForReorg(p, reject) ==
    RemoveStaged(p, CalculateDescendants(p, reject), FALSE)

(***************************************************************************)
(* Size, fees and priorities.                                              *)
(***************************************************************************)
\* CFeeRate (external): fees per size unit, rounded down.
FeeRate(fee, size) == IF size = 0 THEN 0 ELSE fee \div size

\* CompareTxMemPoolEntryByDescendantScore: the better of the fee rate alone
\* and with descendants; of two equal ones the newer goes first.
Score(p, t) ==
    IF p.desc[t].fee * Size[t] > p.fee[t] * p.desc[t].size
    THEN <<p.desc[t].fee, p.desc[t].size>> ELSE <<p.fee[t], Size[t]>>
WorstEntry(p) ==
    LET lower(a, b) == Score(p, a)[1] * Score(p, b)[2] < Score(p, b)[1] * Score(p, a)[2]
        worst == {t \in Entries(p) : \A x \in Entries(p) : ~lower(x, t)}
        at == Max({i \in DOMAIN p.order : p.order[i] \in worst})
    IN  p.order[at]

trackPackageRemoved(p, rate) ==
    IF rate > p.rolling THEN [p EXCEPT !.rolling = rate, !.bumped = TRUE] ELSE p

\* An iteration of TrimToSize: evict the worst package, and raise the
\* minimum fee rate above what it paid.
TrimWorst(p) ==
    LET w == WorstEntry(p)
        rate == FeeRate(p.desc[w].fee, p.desc[w].size) + Incremental
    IN  RemoveStaged(trackPackageRemoved(p, rate), CalculateDescendants(p, {w}), FALSE)

\* Expire: what entered before the cutoff, with descendants.
Expire(p) ==
    RemoveStaged(p, CalculateDescendants(p, {p.order[i] : i \in 1 .. p.aged}), FALSE)

\* GetMinFee is the larger of the rolling rate and the incremental one; the
\* rolling rate only decays once a block has come.
GetMinFee(p) == IF p.bumped \/ p.rolling = 0 THEN p.rolling ELSE Max({p.rolling, Incremental})
Decay(p) ==
    IF p.bumped \/ p.rolling = 0 THEN p
    ELSE LET half == p.rolling \div 2
         IN  [p EXCEPT !.rolling = IF 2 * half < Incremental THEN 0 ELSE half]

\* PrioritiseTransaction: the delta also reaches the totals of those around.
PrioritiseTransaction(p, t, delta) ==
    LET d == p.deltas[t] + delta
        Shift(S, totals) ==
          [x \in Txs |-> IF x \in S THEN [totals[x] EXCEPT !.fee = @ + delta] ELSE totals[x]]
    IN  IF t \notin Entries(p) THEN [p EXCEPT !.deltas[t] = d]
        ELSE [p EXCEPT
                !.deltas[t] = d,
                !.fee[t] = @ + delta,
                !.desc = Shift(Closure(p.parents, {t}), @),
                !.anc = Shift(CalculateDescendants(p, {t}), @)]
==============================================================================

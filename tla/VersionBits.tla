---------------------------- MODULE VersionBits ----------------------------
(***************************************************************************)
(* Deployments by miner signalling (versionbits.cpp): the state machine of *)
(* BIP 9, evaluated lazily with a cache per deployment that is shared by   *)
(* all branches of the block tree and never invalidated but by Clear.      *)
(*                                                                         *)
(*   vtree   the block tree of the behaviour: block 1 is genesis, and      *)
(*           vtree[b] = [parent, height, time, version]; 0 is nullptr      *)
(*   vknown  the number of blocks in the block index                       *)
(*   vcache  m_caches: deployment -> (last block of a period -> state)     *)
(***************************************************************************)
EXTENDS Integers, SequencesExt

CONSTANTS
    Trees,           \* the block trees tried
    Deployments,     \* id -> [start, timeout, height]: vDeployments
    Period,          \* nMinerConfirmationWindow
    Threshold,       \* nRuleChangeActivationThreshold
    MedianSpan       \* CBlockIndex::nMedianTimeSpan

\* BIP9Deployment::ALWAYS_ACTIVE and NEVER_ACTIVE, as start times.
ALWAYS_ACTIVE == "always"
NEVER_ACTIVE == "never"
Ids == DOMAIN Deployments
Timed == {d \in Ids : Deployments[d].kind = "timed"}

VARIABLES vtree, vknown, vcache
versionVars == <<vtree, vknown, vcache>>

----------------------------------------------------------------------------
\* The block index: heights, ancestors (CBlockIndex::GetAncestor, 0 below the
\* genesis block), the median time past.
Height(b) == IF b = 0 THEN -1 ELSE vtree[b].height

GetAncestor(b, height) ==
    LET up[x \in 0 .. b] ==
            IF x = 0 \/ Height(x) <= height THEN x ELSE up[vtree[x].parent]
    IN  IF height < 0 THEN 0 ELSE up[b]

\* The n last blocks of the branch that ends in b.
Recent(b, n) == {GetAncestor(b, Height(b) - i) : i \in 0 .. n - 1} \ {0}

MedianTimePast(b) ==
    LET blocks == SetToSortSeq(Recent(b, MedianSpan),
                               LAMBDA x, y : vtree[x].time < vtree[y].time
                                             \/ (vtree[x].time = vtree[y].time /\ x < y))
    IN  vtree[blocks[Len(blocks) \div 2 + 1]].time

\* Condition: the top bits say that the version is a bit field and the bit of
\* the deployment is set.
Condition(b) == vtree[b].version.top /\ vtree[b].version.bit

----------------------------------------------------------------------------
\* One period: the state of the period after block p, from the one before.
NextState(d, p, state) ==
    CASE state = "DEFINED" /\ MedianTimePast(p) >= Deployments[d].start -> "STARTED"
      [] state = "STARTED" ->
            (IF Cardinality({b \in Recent(p, Period) : Condition(b)}) >= Threshold
             THEN "LOCKED_IN"
             ELSE IF MedianTimePast(p) >= Deployments[d].timeout THEN "FAILED"
             ELSE "STARTED")
      [] state = "LOCKED_IN" /\ Height(p) + 1 >= Deployments[d].height -> "ACTIVE"
      [] OTHER -> state

\* The last block of the period before the one that the block after b is in.
PeriodEnd(b) == IF b = 0 THEN 0 ELSE GetAncestor(b, Height(b) - ((Height(b) + 1) % Period))
PreviousEnd(p) == GetAncestor(p, Height(p) - Period)

\* No block before p can have reached the start time either.
Early(d, p) == MedianTimePast(p) < Deployments[d].start

\* GetStateFor: walk back to a period whose state is known, then forward.  The
\* period ends on the way are cached.
GetStateFor(d, b, cache) ==
    LET Known(p) == p \in DOMAIN cache \/ p = 0 \/ Early(d, p)
        state[p \in 0 .. b] ==
            IF p \in DOMAIN cache THEN cache[p]
            ELSE IF Known(p) THEN "DEFINED"
            ELSE NextState(d, p, state[PreviousEnd(p)])
        walk[p \in 0 .. b] == IF Known(p) THEN {p} ELSE {p} \cup walk[PreviousEnd(p)]
        first == PeriodEnd(b)
    IN  [state |-> state[first],
         cache |-> [p \in DOMAIN cache \cup walk[first] |->
                       IF p \in DOMAIN cache THEN cache[p] ELSE state[p]]]

\* VersionBitsCache::State.
State(d, b, cache) ==
    CASE Deployments[d].kind = ALWAYS_ACTIVE -> [state |-> "ACTIVE", cache |-> cache]
      [] Deployments[d].kind = NEVER_ACTIVE -> [state |-> "FAILED", cache |-> cache]
      [] OTHER -> GetStateFor(d, b, cache)

\* GetStateSinceHeightFor: back over the periods with the state of the first.
GetStateSinceHeightFor(d, b, cache) ==
    LET initial == State(d, b, cache)
        since[p \in 0 .. b] ==
            IF PreviousEnd(p) # 0 /\ GetStateFor(d, PreviousEnd(p), cache).state = initial.state
            THEN since[PreviousEnd(p)] ELSE Height(p) + 1
    IN  IF d \notin Timed \/ initial.state = "DEFINED" THEN 0 ELSE since[PeriodEnd(b)]

\* GetStateStatisticsFor a block b: the blocks of its period up to it.
GetStateStatisticsFor(b) ==
    LET elapsed == 1 + (Height(b) % Period)
        count == Cardinality({x \in Recent(b, elapsed) : Condition(x)})
    IN  [elapsed |-> elapsed, count |-> count,
         possible |-> Period - Threshold >= elapsed - count]

----------------------------------------------------------------------------
VersionInit ==
    /\ vtree \in Trees
    /\ vknown = 1
    /\ vcache = [d \in Ids |-> << >>]

\* A header enters the block index.
AddBlock ==
    /\ vknown < Len(vtree)
    /\ vknown' = vknown + 1
    /\ UNCHANGED <<vtree, vcache>>

\* The state of a deployment after block b is asked for (b = 0: for genesis).
AskState ==
    \E d \in Ids, b \in 0 .. vknown :
        /\ vcache' = [vcache EXCEPT ![d] = State(d, b, @).cache]
        /\ UNCHANGED <<vtree, vknown>>

\* ComputeBlockVersion: every deployment is asked about the same block.
ComputeBlockVersion ==
    \E b \in 0 .. vknown :
        /\ vcache' = [d \in Ids |-> State(d, b, vcache[d]).cache]
        /\ UNCHANGED <<vtree, vknown>>

\* VersionBitsCache::Clear, when the block index is unloaded.
Clear ==
    /\ vcache' = [d \in Ids |-> << >>]
    /\ UNCHANGED <<vtree, vknown>>

VersionNext == AddBlock \/ AskState \/ ComputeBlockVersion \/ Clear
VersionSpec == VersionInit /\ [][VersionNext]_versionVars

\* The reference: the state of BIP 9 from the genesis block on, period by
\* period, with no cache and no shortcut.
Bip9(d, b) ==
    LET state[p \in 0 .. b] ==
            IF p = 0 THEN "DEFINED" ELSE NextState(d, p, state[PreviousEnd(p)])
    IN  CASE Deployments[d].kind = ALWAYS_ACTIVE -> "ACTIVE"
          [] Deployments[d].kind = NEVER_ACTIVE -> "FAILED"
          [] OTHER -> state[PeriodEnd(b)]

\* Whatever blocks on whatever branches were asked about before, the lazily
\* filled cache answers as BIP 9 evaluated from genesis does, although entries
\* are kept over reorganisations and the walk stops at the first block before
\* the start time.  GetStateSinceHeightFor names the first block in the present
\* state, and the statistics call a lock-in possible until too many blocks of
\* the period have not signalled.
CachedStateIsBip9 ==
    \A d \in Ids, b \in 0 .. vknown :
        LET state == State(d, b, vcache[d]).state
            since == GetStateSinceHeightFor(d, b, vcache[d])
        IN  /\ state = Bip9(d, b)
            /\ d \in Timed /\ state # "DEFINED" =>
                   /\ \A x \in 1 .. b : GetAncestor(b, Height(x)) = x /\ Height(x) + 1 >= since
                                        => Bip9(d, x) = state
                   /\ Bip9(d, GetAncestor(b, since - 2)) # state
            /\ b # 0 /\ d \in Timed /\ Bip9(d, b) = "STARTED"
                     /\ GetStateStatisticsFor(b).elapsed = Period =>
                   (GetStateStatisticsFor(b).possible
                    <=> GetStateStatisticsFor(b).count >= Threshold)
============================================================================

-------------------------------- MODULE Pow --------------------------------
(***************************************************************************)
(* The proof-of-work and header rules: GetNextWorkRequired,                *)
(* CalculateNextWorkRequired, CheckProofOfWork, the transition test of the *)
(* headers presync (pow.cpp), GetMedianTimePast (chain.h) and the header   *)
(* checks of AcceptBlockHeader (validation.cpp).                           *)
(*                                                                         *)
(*   hchain   the branch the last accepted header ends, genesis first      *)
(*   hcheck   the height of the last checkpoint block in the block index   *)
(*   hnow     NodeClock::now()                                             *)
(*                                                                         *)
(* The rules read only the ancestors of a header, so one branch at a time  *)
(* is enough: a header on an earlier block continues from there.           *)
(***************************************************************************)
EXTENDS Arith

CONSTANTS
    PowLimit,            \* params.powLimit
    TargetSpacing,       \* params.nPowTargetSpacing
    TargetTimespan,      \* params.nPowTargetTimespan
    NoRetargeting,       \* params.fPowNoRetargeting
    AllowMinDifficulty,  \* params.fPowAllowMinDifficultyBlocks
    MedianTimeSpan,      \* CBlockIndex::nMedianTimeSpan
    MaxFutureBlockTime,  \* MAX_FUTURE_BLOCK_TIME
    Checkpoints,         \* the heights of the checkpoints, when enabled
    DeploymentHeight,    \* version -> height from which lower ones are refused
    Deltas,              \* block times tried, relative to the median time past
    MaxHeight,           \* bound on the branch
    MaxNow               \* bound on the clock

VARIABLES hchain, hcheck, hnow
powVars == <<hchain, hcheck, hnow>>

Interval == TargetTimespan \div TargetSpacing
LimitCompact == GetCompact(FromInt(PowLimit))
Le(a, b) == CompareTo(a, b) <= 0

\* A product with PowLimit stays below 2^BITS: what the parameters of a
\* retargeting chain have to satisfy for the 256-bit product not to wrap.
ASSUME PowAssumption ==
    /\ Interval >= 2
    /\ NoRetargeting \/ PowLimit * TargetTimespan * 4 < Modulus

----------------------------------------------------------------------------
\* GetMedianTimePast of the last header of a branch.
GetMedianTimePast(chain) ==
    LET last == SubSeq(chain, MaxOf({1, Len(chain) - MedianTimeSpan + 1}), Len(chain))
        sorted == SortSeq([i \in DOMAIN last |-> last[i].time], <)
    IN  sorted[Len(sorted) \div 2 + 1]

\* The target scaled by timespan / TargetTimespan, the product modulo 2^BITS.
Scale(nBits, timespan) ==
    Strict(LAMBDA product : Div(product, FromInt(TargetTimespan)),
           Mul(SetCompact(nBits).num, FromInt(timespan)))

\* CalculateNextWorkRequired: the timespan clamped to a quarter and four times
\* the target, the scaled target never above the limit.
CalculateNextWorkRequired(nBits, last, first) ==
    LET actual == MinOf({MaxOf({last - first, TargetTimespan \div 4}), TargetTimespan * 4})
        Capped(new) == IF Le(new, FromInt(PowLimit)) THEN GetCompact(new) ELSE LimitCompact
    IN  IF NoRetargeting THEN nBits ELSE Strict(Capped, Scale(nBits, actual))

\* GetNextWorkRequired for the header after the branch (its last height is
\* Len(chain) - 1).
GetNextWorkRequired(chain) ==
    IF Len(chain) < Interval THEN LimitCompact
    ELSE IF Len(chain) % Interval # 0 THEN chain[Len(chain)].bits
    ELSE CalculateNextWorkRequired(chain[Len(chain)].bits, chain[Len(chain)].time,
                                   chain[Len(chain) - (Interval - 1)].time)

\* CheckProofOfWork(hash, nBits).
CheckProofOfWork(hash, nBits) ==
    LET t == SetCompact(nBits)
    IN  /\ ~t.negative /\ ~t.overflow /\ t.num # FromInt(0)
        /\ Le(t.num, FromInt(PowLimit))
        /\ Le(FromInt(hash), t.num)

\* PermittedDifficultyTransition: what a header may claim of its predecessor
\* when nothing but the two headers is known.
PermittedDifficultyTransition(height, old, new) ==
    LET Capped(t) == IF Le(t, FromInt(PowLimit)) THEN t ELSE FromInt(PowLimit)
        Scaled(timespan) ==
            SetCompact(Strict(GetCompact, Strict(Capped, Scale(old, timespan)))).num
        observed == SetCompact(new).num
    IN  \/ AllowMinDifficulty
        \/ IF height % Interval = 0
           THEN /\ Le(observed, Scaled(TargetTimespan * 4))
                /\ Le(Scaled(TargetTimespan \div 4), observed)
           ELSE old = new

----------------------------------------------------------------------------
\* CheckBlockHeader and ContextualCheckBlockHeader, in the order of
\* AcceptBlockHeader: the reject reason of header h after chain, where
\* required is GetNextWorkRequired(chain).
ContextualCheckBlockHeader(chain, required, h) ==
    CASE ~CheckProofOfWork(h.hash, h.bits) -> "high-hash"
      [] h.bits # required -> "bad-diffbits"
      [] Len(chain) < hcheck -> "bad-fork-prior-to-checkpoint"
      [] h.time <= GetMedianTimePast(chain) -> "time-too-old"
      [] h.time > hnow + MaxFutureBlockTime -> "time-too-new"
      [] \E v \in DOMAIN DeploymentHeight :
             h.version < v /\ Len(chain) >= DeploymentHeight[v] -> "bad-version"
      [] OTHER -> ""

Genesis == [time |-> 0, bits |-> LimitCompact, version |-> 1, hash |-> 0]

\* The headers offered after a branch: the required bits and wrong ones, a
\* hash that meets every target or none.
Offers(chain, required) ==
    [time : {GetMedianTimePast(chain) + d : d \in Deltas},
     bits : {required, LimitCompact, 0},
     version : {1, 4}, hash : {0, Modulus - 1}]

PowInit == /\ hchain = <<Genesis>>
           /\ hcheck = 0 /\ hnow = 0

\* AcceptBlockHeader for a header on block p of the branch; a refused one
\* changes nothing.
AcceptBlockHeader ==
    \E p \in DOMAIN hchain : \E prev \in {SubSeq(hchain, 1, p)} :
        /\ p < MaxHeight + 1
        /\ \E required \in {GetNextWorkRequired(prev)} : \E h \in Offers(prev, required) :
            /\ ContextualCheckBlockHeader(prev, required, h) = ""
            /\ hchain' = Append(prev, h)
            /\ hcheck' = IF p \in Checkpoints THEN MaxOf({p, hcheck}) ELSE hcheck
            /\ UNCHANGED hnow

Tick == /\ hnow < MaxNow
        /\ hnow' = hnow + MaxFutureBlockTime
        /\ UNCHANGED <<hchain, hcheck>>

PowNext == AcceptBlockHeader \/ Tick
PowSpec == PowInit /\ [][PowNext]_powVars

\* Whatever sequence of headers the full rules accept (CalculateNextWorkRequired
\* with its clamps, rounding and modular product), the headers presync, which
\* sees only two neighbouring headers, never refuses: an honest chain is not
\* thrown away by PermittedDifficultyTransition.  And the work that a header
\* adds (GetBlockProof) is never zero.
HonestChainPermitted ==
    \A i \in 2 .. Len(hchain) :
        /\ PermittedDifficultyTransition(i - 1, hchain[i - 1].bits, hchain[i].bits)
        /\ GetBlockProof(hchain[i].bits) # FromInt(0)
============================================================================

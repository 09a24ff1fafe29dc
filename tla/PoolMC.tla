------------------------------- MODULE PoolMC -------------------------------
(***************************************************************************)
(* What follows the active chain, each on a small instance: the mempool    *)
(* and the indexes.  They do not interact: a behaviour is one of them.     *)
(*                                                                         *)
(* The mempool: p has three outputs, spent by c, d and e; g spends c; r    *)
(* replaces p; m spends c and the coinbase of block a1; s stands alone.  d *)
(* needs p to be confirmed (a relative lock), e a first block (a lock      *)
(* time).  The chain may switch between a1, a2 and b1, b2, b3.             *)
(***************************************************************************)
EXTENDS MempoolAccept, Index

MCTxs == {"p", "c", "d", "e", "g", "r", "m", "s"}
MCIn ==
    [t \in MCTxs |->
       CASE t = "p" -> {<<"base", 0>>}
         [] t = "c" -> {<<"p", 0>>}
         [] t = "d" -> {<<"p", 1>>}
         [] t = "e" -> {<<"p", 2>>}
         [] t = "g" -> {<<"c", 0>>}
         [] t = "r" -> {<<"base", 0>>}
         [] t = "m" -> {<<"ka1", 0>>, <<"c", 1>>}
         [] t = "s" -> {<<"base", 1>>}]
MCSize == [t \in MCTxs |-> IF t = "r" THEN 2 ELSE 1]
MCFee ==
    [t \in MCTxs |->
       CASE t = "p" -> 1 [] t = "c" -> 4 [] t \in {"d", "e"} -> 2
         [] t = "g" -> 3 [] t = "r" -> 9 [] t = "m" -> 2
         [] t = "s" -> 3]
MCLockHeight == [t \in MCTxs |-> IF t = "e" THEN 1 ELSE 0]
MCRelLock ==
    [t \in MCTxs |-> [o \in MCIn[t] |->
       CASE o[1] = "ka1" \/ t = "d" -> 1 [] t = "g" -> 0 [] OTHER -> -1]]

MCBlocks == {"g0", "a1", "a2", "b1", "b2", "b3"}
MCParent == [b \in MCBlocks |->
    CASE b \in {"g0", "a1", "b1"} -> "g0" [] b = "a2" -> "a1" [] b = "b2" -> "b1" [] b = "b3" -> "b2"]
MCHeight == [b \in MCBlocks |->
    CASE b = "g0" -> 0 [] b \in {"a1", "b1"} -> 1 [] b \in {"a2", "b2"} -> 2 [] b = "b3" -> 3]
MCVtx == [b \in MCBlocks |->
    CASE b = "g0" -> <<"base">>
      [] b = "a1" -> <<"ka1", "p">>
      [] b = "a2" -> <<"ka2", "c">>
      [] b = "b1" -> <<"kb1">>
      [] b = "b2" -> <<"kb2", "s">>
      [] b = "b3" -> <<"kb3">>]
MCPackages == {<<"p", "c">>, <<"p", "e">>, <<"c", "g">>}
MCReplaceable == {"p", "c"}
MCDeltas == {2}

(* An index: the genesis block G with a child A1 and a longer branch B1-B2. *)
MCIdxBlocks == {"G", "A1", "B1", "B2"}
MCIdxParent == [b \in MCIdxBlocks \ {"G"} |-> IF b = "B2" THEN "B1" ELSE "G"]

VARIABLE part

MCInit ==
    /\ Init /\ IndexInit
    /\ \/ part = "mempool" /\ kind = "tx"
       \/ part = "index"

MCNext ==
    \/ part = "mempool" /\ Next /\ UNCHANGED <<part, indexVars>>
    \/ part = "index" /\ IndexNext /\ UNCHANGED <<part, vars>>

(* The fairness of IndexSpec, for the behaviours of the indexes. *)
MCSpec ==
    /\ MCInit /\ [][MCNext]_<<part, vars, indexVars>>
    /\ WF_indexVars(part = "index" /\ Sync) /\ WF_indexVars(part = "index" /\ Callback)
    /\ WF_indexVars(part = "index" /\ Operator)
    /\ WF_indexVars(part = "index" /\ Activate(IdxGenesis))

(* PoolConsistent, and NextBlockReady: every transaction that stays in the *)
(* pool could be in the next block.                                        *)
PoolSound == PoolConsistent /\ NextBlockReady

(* No step of the pool loses what a disconnected block held and the pool   *)
(* would take (ReorgRestores), or lets a family of transactions grow past  *)
(* the limits by replacements, carve-outs or reorganisations (ChainLimits).*)
PoolMoves == [][ReorgRestores /\ ChainLimits]_vars


(* EventuallySynced, of the indexes. *)
MCSynced == part = "index" => EventuallySynced
=============================================================================

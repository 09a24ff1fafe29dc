---------------------------- MODULE ChainState ----------------------------
(***************************************************************************)
(* The block index and the choice of the active chain (validation.cpp):    *)
(* headers and blocks arriving (AcceptBlockHeader, AcceptBlock,            *)
(* ReceivedBlockTransactions), ActivateBestChain switching to the best     *)
(* candidate, and the operator commands InvalidateBlock, PreciousBlock     *)
(* and ResetBlockFailureFlags, pruning and a restart.                      *)
(*                                                                         *)
(* Two locks matter.  m_chainstate_mutex is held by at most one            *)
(* ActivateBestChain or InvalidateBlock from start to end; pc says where   *)
(* that caller is.  cs_main protects all of the state and is released      *)
(* between the iterations of both loops; while pc is in CsMainHeld no      *)
(* other thread may take a step.                                           *)
(***************************************************************************)
EXTENDS Integers, FiniteSets, Functions

CONSTANTS
    Blocks,            \* every block that can exist, by hash
    Genesis,
    NoBlock,           \* nullptr
    Parent,            \* pprev
    Height,            \* nHeight
    ChainWork,         \* nChainWork
    Ancestors,         \* the block and all its pprev's: GetAncestor's range
    Addr,              \* order of the CBlockIndex objects in memory
    BadBody,           \* blocks that ContextualCheckBlock rejects
    BadConnect,        \* blocks that ConnectBlock rejects
    MinimumChainWork,  \* anti-DoS threshold of AcceptBlock
    MinBlocksToKeep,   \* MIN_BLOCKS_TO_KEEP
    ConnectBatch,      \* the 32 of ActivateBestChainStep
    ReverseIds,        \* how far nBlockReverseSequenceId can go: -int32 min
    ReconsiderAny,     \* TRUE: reconsider any block; FALSE: only failed roots
    Budgets            \* bound: how many operator commands of each kind, one choice per run

Commands == {"invalidate", "reconsider", "precious", "prune", "restart"}

(* The block tree is what AddToBlockIndex builds from the headers. *)
ASSUME TreeAssumption ==
    /\ Genesis \in Blocks /\ NoBlock \notin Blocks
    /\ Parent \in [Blocks -> Blocks \cup {NoBlock}]
    /\ \A b \in Blocks : (Parent[b] = NoBlock) <=> (b = Genesis)
    /\ Height \in [Blocks -> Nat]
    /\ ChainWork \in [Blocks -> Nat]
    /\ Ancestors \in [Blocks -> SUBSET Blocks]
    /\ Ancestors[Genesis] = {Genesis} /\ Height[Genesis] = 0
    /\ \A b \in Blocks \ {Genesis} :
          /\ Ancestors[b] = {b} \cup Ancestors[Parent[b]]
          /\ b \notin Ancestors[Parent[b]]
          /\ Height[b] = Height[Parent[b]] + 1
          /\ ChainWork[b] > ChainWork[Parent[b]]
    /\ IsFiniteSet(Blocks)
    /\ \A b \in Blocks :
          /\ b \in Ancestors[b]
          /\ \A a \in Ancestors[b] : /\ Ancestors[a] \subseteq Ancestors[b]
                                    /\ Height[a] <= Height[b]
          /\ \A a, c \in Ancestors[b] : Height[a] = Height[c] => a = c
          /\ \A h \in 0..Height[b] : \E a \in Ancestors[b] : Height[a] = h
          /\ \A S \in SUBSET Ancestors[b] :
                S # {} => \E top \in S : \A a \in S : a \in Ancestors[top]

ASSUME ParameterAssumption ==
    /\ Addr \in [Blocks -> Nat] /\ IsInjective(Addr)
    /\ BadBody \subseteq Blocks \ {Genesis}
    /\ BadConnect \subseteq Blocks \ {Genesis}
    /\ MinimumChainWork \in Nat /\ MinBlocksToKeep \in Nat
    /\ ConnectBatch \in Nat \ {0} /\ ReverseIds \in Nat \ {0}
    /\ ReconsiderAny \in BOOLEAN
    /\ Budgets \subseteq [Commands -> Nat]

VARIABLES
    known,         \* m_block_index
    processed,     \* nTx > 0
    haveData,      \* BLOCK_HAVE_DATA
    txValid,       \* validity level at least BLOCK_VALID_TRANSACTIONS
    scriptValid,   \* validity level BLOCK_VALID_SCRIPTS
    failedValid,   \* BLOCK_FAILED_VALID
    failedChild,   \* BLOCK_FAILED_CHILD
    linked,        \* HaveNumChainTxs(): nChainTx # 0
    seq,           \* nSequenceId
    unlinked,      \* m_blocks_unlinked: the child of every entry
    cand,          \* setBlockIndexCandidates
    failedBlocks,  \* m_failed_blocks
    bestHeader,    \* m_best_header
    bestInvalid,   \* m_best_invalid
    tip,           \* m_chain.Tip()
    counters,      \* nBlockSequenceId, nBlockReverseSequenceId, nLastPreciousChainwork
    pc,            \* position of the holder of m_chainstate_mutex
    abc,           \* locals of ActivateBestChain and ActivateBestChainStep
    inv,           \* locals of InvalidateBlock
    pending,       \* some thread still has to call ActivateBestChain
    interrupt,     \* m_interrupt
    left           \* how many commands of each kind may still be given

dataVars   == <<known, processed, haveData, txValid, linked, unlinked>>
failVars   == <<failedValid, failedChild, failedBlocks, bestInvalid>>
orderVars  == <<seq, counters>>
callVars   == <<pc, abc, inv, pending, interrupt>>
vars == <<dataVars, failVars, orderVars, callVars, scriptValid, cand,
          bestHeader, tip, left>>

CsMainHeld == {"find", "disconnect", "connect", "stepdone", "unlock"}
Pcs == {"idle", "loop", "invalidate", "invmark", "halted"} \cup CsMainHeld
CsMainFree == pc \notin CsMainHeld \cup {"halted"}

NoAbc == [mostWork |-> NoBlock, newTip |-> NoBlock, startTip |-> NoBlock,
          oldTip |-> NoBlock, forkHeight |-> 0, connected |-> FALSE]
NoInv == [target |-> NoBlock, toMark |-> NoBlock, cands |-> {}]

----------------------------------------------------------------------------
(* What the code reads off the index. *)

Failed == failedValid \cup failedChild
Chain == Ancestors[tip]                          \* m_chain.Contains
IsValidTx(b) == b \in txValid /\ b \notin Failed  \* IsValid(BLOCK_VALID_TRANSACTIONS)

(* CBlockIndexWorkComparator: a sorts before (is worse than) b. *)
Less(sq, a, b) ==
    \/ ChainWork[a] < ChainWork[b]
    \/ ChainWork[a] = ChainWork[b] /\ sq[a] > sq[b]
    \/ ChainWork[a] = ChainWork[b] /\ sq[a] = sq[b] /\ Addr[a] > Addr[b]

AncestorAt(b, h) == CHOOSE a \in Ancestors[b] : Height[a] = h
Highest(S) == CHOOSE b \in S : \A c \in S : c \in Ancestors[b]
FindFork(b) == Highest(Ancestors[b] \cap Chain)
Descendants(b) == {d \in known : b \in Ancestors[d]}

(* InvalidChainFound: the new m_best_invalid and m_best_header. *)
BetterInvalid(cur, b) ==
    IF cur = NoBlock \/ ChainWork[b] > ChainWork[cur] THEN b ELSE cur
HeaderAfterInvalid_Null(hdr, b) ==
    IF hdr # NoBlock /\ b \in Ancestors[hdr] THEN NoBlock ELSE hdr
HeaderAfterInvalid(hdr, b) == IF b \in Ancestors[hdr] THEN tip ELSE hdr

(* PruneBlockIndexCandidates for a chain ending in t. *)
PruneBlockIndexCandidates_DropsTip(sq, C, t) == {c \in C : Less(sq, t, c)}
PruneBlockIndexCandidates_Never(sq, C, t) == C
PruneBlockIndexCandidates(sq, C, t) == {c \in C : ~Less(sq, c, t)}

----------------------------------------------------------------------------
(* Startup with an empty data directory: LoadGenesisBlock and the first    *)
(* ActivateBestChain have run, and every later header is still unknown.    *)
Init ==
    /\ known = {Genesis} /\ processed = {Genesis} /\ haveData = {Genesis}
    /\ txValid = {Genesis} /\ scriptValid = {Genesis}
    /\ failedValid = {} /\ failedChild = {} /\ failedBlocks = {}
    /\ linked = {Genesis} /\ unlinked = {} /\ cand = {Genesis}
    /\ seq = [b \in Blocks |-> IF b = Genesis THEN 1 ELSE 0]
    /\ counters = [next |-> 2, reverse |-> -1, lastPrecious |-> 0]
    /\ bestHeader = Genesis /\ bestInvalid = NoBlock /\ tip = Genesis
    /\ pc = "idle" /\ abc = NoAbc /\ inv = NoInv
    /\ pending = FALSE /\ interrupt = FALSE
    /\ left \in Budgets

MayCommand(c) == left[c] > 0 /\ ~interrupt
Spend(c) == left' = [left EXCEPT ![c] = @ - 1]

----------------------------------------------------------------------------
(* AcceptBlockHeader.  A header whose own checks fail leaves no trace.     *)

(* The m_failed_blocks an unknown header's parent descends from. *)
FailedAncestors_AnyBranch(b) == failedBlocks
FailedAncestors(b) ==
    IF Parent[b] \in scriptValid \ Failed THEN {}
    ELSE failedBlocks \cap Ancestors[Parent[b]]

HeaderConnects(b) ==
    /\ b \notin known
    /\ Parent[b] \in known \ Failed

HeaderAcceptable(b) == HeaderConnects(b) /\ FailedAncestors(b) = {}

HeaderAfterAdd(b) ==
    IF ChainWork[bestHeader] < ChainWork[b] THEN b ELSE bestHeader

(* AddToBlockIndex *)
AcceptBlockHeader(b) ==
    /\ CsMainFree /\ ~interrupt
    /\ HeaderAcceptable(b)
    /\ known' = known \cup {b}
    /\ bestHeader' = HeaderAfterAdd(b)
    /\ UNCHANGED <<processed, haveData, txValid, linked, unlinked, failVars,
                   orderVars, callVars, scriptValid, cand, tip, left>>

(* The parent descends from a failed block f: the walk from the parent     *)
(* down to f marks every block it passes.  failedit is the first such      *)
(* block in the iteration order of m_failed_blocks, any of them here.      *)
RejectHeaderOfFailedBranch(b) ==
    /\ CsMainFree /\ ~interrupt
    /\ HeaderConnects(b)
    /\ \E f \in FailedAncestors(b) :
          failedChild' = failedChild \cup (Ancestors[Parent[b]] \ Ancestors[f])
    /\ UNCHANGED <<dataVars, failedValid, failedBlocks, bestInvalid, orderVars,
                   callVars, scriptValid, cand, bestHeader, tip, left>>

----------------------------------------------------------------------------
(* AcceptBlock and the ActivateBestChain that ProcessNewBlock calls next.  *)

(* The early returns of AcceptBlock for a block whose header is accepted. *)
Skipped(b, requested) ==
    \/ b \in haveData
    \/ /\ ~requested
       /\ \/ b \in processed
          \/ ChainWork[b] < ChainWork[tip]
          \/ Height[b] > Height[tip] + MinBlocksToKeep
          \/ ChainWork[b] < MinimumChainWork

(* ReceivedBlockTransactions: the blocks its queue visits, b first and then *)
(* every descendant that b leads to through m_blocks_unlinked.              *)
NewlyLinked_NoDescendants(b) ==
    IF b # Genesis /\ Parent[b] \notin linked THEN {} ELSE {b}
NewlyLinked(b) ==
    IF b # Genesis /\ Parent[b] \notin linked THEN {}
    ELSE {b} \cup {d \in unlinked : b \in Ancestors[d]
                                    /\ Ancestors[d] \ Ancestors[b] \subseteq unlinked}

(* The queue is breadth first; entries of one parent come in the order in  *)
(* which they were inserted, which the model leaves open.                  *)
QueueOrders(S) ==
    {f \in [S -> 1..Cardinality(S)] :
        IsInjective(f) /\ \A x, y \in S : Height[x] < Height[y] => f[x] < f[y]}

ReceivedBlockTransactions(b) ==
    /\ processed' = processed \cup {b}
    /\ haveData' = haveData \cup {b}
    /\ txValid' = IF b \in Failed THEN txValid ELSE txValid \cup {b}
    /\ LET new == NewlyLinked(b)
       IN  /\ \E f \in QueueOrders(new) :
                 seq' = [x \in Blocks |-> IF x \in new THEN counters.next + f[x] - 1
                                                       ELSE seq[x]]
           /\ counters' = [counters EXCEPT !.next = @ + Cardinality(new)]
           /\ linked' = (linked \ {b}) \cup new
           /\ cand' = cand \cup {x \in new : ~Less(seq', x, tip)}
           /\ unlinked' =
                 IF new # {} THEN unlinked \ (new \ {b})
                 ELSE IF Parent[b] \notin Failed THEN unlinked \cup {b}
                 ELSE unlinked

AcceptBlock(b, requested) ==
    /\ CsMainFree /\ ~interrupt
    /\ b \in known \ Failed \/ HeaderAcceptable(b)
    /\ ~Skipped(b, requested)
    /\ b \notin BadBody
    /\ known' = known \cup {b}
    /\ bestHeader' = IF b \in known THEN bestHeader ELSE HeaderAfterAdd(b)
    /\ ReceivedBlockTransactions(b)
    /\ pending' = TRUE
    /\ UNCHANGED <<failVars, pc, abc, inv, interrupt, scriptValid, tip, left>>

(* CheckBlock passed but ContextualCheckBlock did not. *)
AcceptBlockInvalid(b, requested) ==
    /\ CsMainFree /\ ~interrupt
    /\ b \in known \ Failed \/ HeaderAcceptable(b)
    /\ ~Skipped(b, requested)
    /\ b \in BadBody
    /\ known' = known \cup {b}
    /\ bestHeader' = IF b \in known THEN bestHeader ELSE HeaderAfterAdd(b)
    /\ failedValid' = failedValid \cup {b}
    /\ UNCHANGED <<processed, haveData, txValid, linked, unlinked, failedChild,
                   failedBlocks, bestInvalid, orderVars, callVars, scriptValid,
                   cand, tip, left>>

----------------------------------------------------------------------------
(* ActivateBestChain *)

(* Mutant: does nothing before the data of the best header is there. *)
ActivateBestChain_WhenSynced ==
    /\ pc = "idle" /\ ~interrupt /\ abc' = NoAbc
    /\ pc' = IF bestHeader \in haveData THEN "loop" ELSE pc
    /\ pending' = (bestHeader \notin haveData /\ pending)
    /\ UNCHANGED <<dataVars, failVars, orderVars, inv, interrupt, scriptValid,
                   cand, bestHeader, tip, left>>

(* Called by ProcessNewBlock and the commands below, and at any time by    *)
(* net_processing.  Takes m_chainstate_mutex.                              *)
ActivateBestChain ==
    /\ pc = "idle" /\ ~interrupt
    /\ pc' = "loop" /\ pending' = FALSE /\ abc' = NoAbc
    /\ UNCHANGED <<dataVars, failVars, orderVars, inv, interrupt, scriptValid,
                   cand, bestHeader, tip, left>>

(* Take cs_main for one iteration of the outer loop. *)
LockCsMain ==
    /\ pc = "loop"
    /\ pc' = "find"
    /\ abc' = [abc EXCEPT !.startTip = tip, !.connected = FALSE]
    /\ UNCHANGED <<dataVars, failVars, orderVars, inv, pending, interrupt,
                   scriptValid, cand, bestHeader, tip, left>>

(* FindMostWorkChain: one iteration of its loop. *)
IsBestCandidate(c) == c \in cand /\ \A d \in cand \ {c} : Less(seq, d, c)
PathTo(b) == Ancestors[b] \ Chain
Unusable_TipOnly(b) == {t \in {b} \ Chain : t \in Failed \/ t \notin haveData}
Unusable(b) == {t \in PathTo(b) : t \in Failed \/ t \notin haveData}

FindMostWorkChain(c) ==
    /\ pc = "find" /\ abc.mostWork = NoBlock
    /\ IsBestCandidate(c) /\ Unusable(c) = {}
    /\ abc' = [abc EXCEPT !.mostWork = c]
    /\ UNCHANGED <<dataVars, failVars, orderVars, pc, inv, pending, interrupt,
                   scriptValid, cand, bestHeader, tip, left>>

DropUnusableCandidate(c) ==
    /\ pc = "find" /\ abc.mostWork = NoBlock
    /\ IsBestCandidate(c) /\ Unusable(c) # {}
    /\ LET test  == Highest(Unusable(c))
           above == Ancestors[c] \ Ancestors[test]
       IN  /\ cand' = cand \ (above \cup {test})
           /\ IF test \in Failed
              THEN /\ failedChild' = failedChild \cup above
                   /\ bestInvalid' = BetterInvalid(bestInvalid, c)
                   /\ UNCHANGED unlinked
              ELSE /\ unlinked' = unlinked \cup above
                   /\ UNCHANGED <<failedChild, bestInvalid>>
    /\ UNCHANGED <<known, processed, haveData, txValid, linked, failedValid,
                   failedBlocks, orderVars, callVars, scriptValid, bestHeader,
                   tip, left>>

(* Nothing (more) to do in this iteration. *)
NothingToActivate ==
    /\ pc = "find"
    /\ \/ abc.mostWork = NoBlock /\ cand = {}
       \/ abc.mostWork = tip
    /\ pc' = "unlock"
    /\ UNCHANGED <<dataVars, failVars, orderVars, abc, inv, pending, interrupt,
                   scriptValid, cand, bestHeader, tip, left>>

(* ActivateBestChainStep *)
EnterStep ==
    /\ pc = "find" /\ abc.mostWork \notin {NoBlock, tip}
    /\ pc' = "disconnect"
    /\ abc' = [abc EXCEPT !.oldTip = tip, !.forkHeight = Height[FindFork(abc.mostWork)]]
    /\ UNCHANGED <<dataVars, failVars, orderVars, inv, pending, interrupt,
                   scriptValid, cand, bestHeader, tip, left>>

(* DisconnectTip reads the block and its undo data from disk. *)
DisconnectTip ==
    /\ pc = "disconnect" /\ Height[tip] > abc.forkHeight
    /\ tip \in haveData
    /\ tip' = Parent[tip]
    /\ UNCHANGED <<dataVars, failVars, orderVars, callVars, scriptValid, cand,
                   bestHeader, left>>

(* ... and the node aborts when it cannot: FatalError. *)
DisconnectTipFails ==
    /\ pc = "disconnect" /\ Height[tip] > abc.forkHeight
    /\ tip \notin haveData
    /\ pc' = "halted"
    /\ UNCHANGED <<dataVars, failVars, orderVars, abc, inv, pending, interrupt,
                   scriptValid, cand, bestHeader, tip, left>>

DisconnectDone ==
    /\ pc = "disconnect" /\ Height[tip] = abc.forkHeight
    /\ pc' = IF tip = abc.mostWork THEN "stepdone" ELSE "connect"
    /\ UNCHANGED <<dataVars, failVars, orderVars, abc, inv, pending, interrupt,
                   scriptValid, cand, bestHeader, tip, left>>

Connecting == AncestorAt(abc.mostWork, Height[tip] + 1)

(* The block's file was pruned while the chain was being disconnected. *)
ConnectTipFails ==
    /\ pc = "connect" /\ Connecting \notin haveData
    /\ pc' = "halted"
    /\ UNCHANGED <<dataVars, failVars, orderVars, abc, inv, pending, interrupt,
                   scriptValid, cand, bestHeader, tip, left>>

ConnectTip ==
    /\ pc = "connect" /\ Connecting \in haveData \ BadConnect
    /\ tip' = Connecting
    /\ scriptValid' = IF Connecting \in Failed THEN scriptValid
                                               ELSE scriptValid \cup {Connecting}
    /\ cand' = PruneBlockIndexCandidates(seq, cand, Connecting)
    /\ pc' = IF ChainWork[Connecting] > ChainWork[abc.oldTip] \/ Connecting = abc.mostWork
             THEN "stepdone" ELSE "connect"
    /\ UNCHANGED <<dataVars, failVars, orderVars, abc, inv, pending, interrupt,
                   bestHeader, left>>

(* vpindexToConnect.front(): the top of the batch being connected. *)
BatchTop ==
    LET done == Height[tip] - abc.forkHeight
        top  == abc.forkHeight + ConnectBatch * (done \div ConnectBatch + 1)
    IN  AncestorAt(abc.mostWork, IF top < Height[abc.mostWork] THEN top
                                                               ELSE Height[abc.mostWork])

(* ConnectBlock finds the block invalid: InvalidBlockFound on it and       *)
(* InvalidChainFound on the top of its batch.                              *)
ConnectTipInvalid ==
    /\ pc = "connect" /\ Connecting \in haveData \cap BadConnect
    /\ failedValid' = failedValid \cup {Connecting}
    /\ failedBlocks' = failedBlocks \cup {Connecting}
    /\ cand' = cand \ {Connecting}
    /\ bestInvalid' = BetterInvalid(BetterInvalid(bestInvalid, Connecting), BatchTop)
    /\ bestHeader' = HeaderAfterInvalid(HeaderAfterInvalid(bestHeader, Connecting), BatchTop)
    /\ abc' = [abc EXCEPT !.mostWork = NoBlock]
    /\ pc' = "stepdone"
    /\ UNCHANGED <<dataVars, failedChild, orderVars, inv, pending, interrupt,
                   scriptValid, tip, left>>

(* The end of the step and the condition of the inner loop: go on while    *)
(* the chain is worse than where this iteration started.                   *)
StepDone_NoLoop ==
    /\ pc = "stepdone"
    /\ abc' = [abc EXCEPT !.newTip = tip, !.connected = TRUE]
    /\ pc' = "unlock"
    /\ UNCHANGED <<dataVars, failVars, orderVars, inv, pending, interrupt,
                   scriptValid, cand, bestHeader, tip, left>>

StepDone ==
    /\ pc = "stepdone"
    /\ abc' = [abc EXCEPT !.newTip = tip, !.connected = TRUE]
    /\ pc' = IF Less(seq, tip, abc.startTip) THEN "find" ELSE "unlock"
    /\ UNCHANGED <<dataVars, failVars, orderVars, inv, pending, interrupt,
                   scriptValid, cand, bestHeader, tip, left>>

(* Release cs_main; return unless the outer loop has more to do. *)
UnlockCsMain ==
    /\ pc = "unlock"
    /\ pc' = IF ~abc.connected \/ interrupt \/ abc.newTip = abc.mostWork
             THEN "idle" ELSE "loop"
    /\ abc' = IF pc' = "idle" THEN NoAbc ELSE abc
    /\ UNCHANGED <<dataVars, failVars, orderVars, inv, pending, interrupt,
                   scriptValid, cand, bestHeader, tip, left>>

----------------------------------------------------------------------------
(* InvalidateBlock: the candidates are collected once under cs_main, then  *)
(* each iteration disconnects one block, and a last section marks.         *)
InvalidateBlock(b) ==
    /\ pc = "idle" /\ MayCommand("invalidate") /\ Spend("invalidate")
    /\ b \in known \ {Genesis}
    /\ pc' = "invalidate"
    /\ inv' = [target |-> b, toMark |-> b,
               cands  |-> {c \in known \ Chain : /\ ~Less(seq, c, Parent[b])
                                                 /\ IsValidTx(c) /\ c \in linked}]
    /\ UNCHANGED <<dataVars, failVars, orderVars, abc, pending, interrupt,
                   scriptValid, cand, bestHeader, tip>>

(* The children-become-FAILED_CHILD test of the loop, as it is written. *)
BecomesFailedChild(walk) ==
    IF Parent[walk] = inv.toMark /\ inv.toMark \in failedValid THEN {inv.toMark} ELSE {}

InvalidateStep ==
    /\ pc = "invalidate" /\ ~interrupt
    /\ inv.target \in Chain /\ tip \in haveData
    /\ LET walk == tip
           child == BecomesFailedChild(walk)
           more == {c \in inv.cands : ~Less(seq, c, Parent[walk])}
       IN  /\ tip' = Parent[walk]
           /\ failedValid' = (failedValid \cup {walk}) \ child
           /\ failedChild' = failedChild \cup child
           /\ cand' = (cand \ {walk}) \cup {Parent[walk]} \cup more
           /\ inv' = [inv EXCEPT !.toMark = walk, !.cands = @ \ more]
    /\ UNCHANGED <<dataVars, failedBlocks, bestInvalid, orderVars, pc, abc,
                   pending, interrupt, scriptValid, bestHeader, left>>

(* The block to disconnect is pruned: InvalidateBlock returns false. *)
InvalidateStepFails ==
    /\ pc = "invalidate" /\ ~interrupt
    /\ inv.target \in Chain /\ tip \notin haveData
    /\ pc' = "idle" /\ inv' = NoInv /\ pending' = TRUE
    /\ UNCHANGED <<dataVars, failVars, orderVars, abc, interrupt, scriptValid,
                   cand, bestHeader, tip, left>>

InvalidateLoopDone ==
    /\ pc = "invalidate" /\ (interrupt \/ inv.target \notin Chain)
    /\ pc' = "invmark"
    /\ UNCHANGED <<dataVars, failVars, orderVars, abc, inv, pending, interrupt,
                   scriptValid, cand, bestHeader, tip, left>>

(* Mark the last disconnected block and add whatever the precomputed       *)
(* candidates missed; the caller then runs ActivateBestChain.              *)
InvalidateMark ==
    /\ pc = "invmark"
    /\ pc' = "idle" /\ inv' = NoInv /\ pending' = TRUE
    /\ IF inv.toMark \in Chain
       THEN UNCHANGED <<failedValid, failedBlocks, bestInvalid, cand, bestHeader>>
       ELSE /\ failedValid' = failedValid \cup {inv.toMark}
            /\ failedBlocks' = failedBlocks \cup {inv.toMark}
            /\ cand' = (cand \ {inv.toMark}) \cup
                       {c \in known : /\ c \in txValid \cap linked
                                      /\ c \notin failedValid' \cup failedChild
                                      /\ ~Less(seq, c, tip)}
            /\ bestInvalid' = BetterInvalid(bestInvalid, inv.toMark)
            /\ bestHeader' = HeaderAfterInvalid(bestHeader, inv.toMark)
    /\ UNCHANGED <<dataVars, failedChild, orderVars, abc, interrupt, scriptValid,
                   tip, left>>

(* What the two loops of ResetBlockFailureFlags leave in m_failed_blocks. *)
StillTracked_Forgets(b, reset) == failedBlocks
StillTracked(b, reset) == failedBlocks \ (reset \cup (Ancestors[b] \cap Failed))

(* ResetBlockFailureFlags, followed by the caller's ActivateBestChain.     *)
(* ReconsiderAny restricts the operator to blocks without failed ancestor. *)
ResetBlockFailureFlags(b) ==
    /\ CsMainFree /\ MayCommand("reconsider") /\ Spend("reconsider")
    /\ b \in known
    /\ ReconsiderAny \/ (b \in failedValid /\ Ancestors[b] \cap Failed = {b})
    /\ LET reset == {d \in Descendants(b) : ~IsValidTx(d)}
           clear == reset \cup Ancestors[b]
       IN  /\ failedValid' = failedValid \ clear
           /\ failedChild' = failedChild \ clear
           /\ failedBlocks' = StillTracked(b, reset)
           /\ bestInvalid' = IF bestInvalid \in reset THEN NoBlock ELSE bestInvalid
           /\ cand' = cand \cup {d \in reset \cap txValid \cap linked : Less(seq, tip, d)}
    /\ pending' = TRUE
    /\ UNCHANGED <<dataVars, orderVars, pc, abc, inv, interrupt, scriptValid,
                   bestHeader, tip>>

(* PreciousBlock, before the ActivateBestChain it ends with. *)
PreciousBlock(b) ==
    /\ CsMainFree /\ MayCommand("precious") /\ Spend("precious")
    /\ b \in known /\ ChainWork[b] >= ChainWork[tip]
    /\ LET reverse == IF ChainWork[tip] > counters.lastPrecious THEN -1
                                                                ELSE counters.reverse
       IN  /\ seq' = [seq EXCEPT ![b] = reverse]
           /\ counters' = [counters EXCEPT
                             !.reverse = IF reverse > -ReverseIds THEN reverse - 1
                                                                    ELSE reverse,
                             !.lastPrecious = ChainWork[tip]]
    /\ cand' = IF IsValidTx(b) /\ b \in linked
               THEN PruneBlockIndexCandidates(seq', cand \cup {b}, tip)
               ELSE cand \ {b}
    /\ pending' = TRUE
    /\ UNCHANGED <<dataVars, failVars, pc, abc, inv, interrupt, scriptValid,
                   bestHeader, tip>>

----------------------------------------------------------------------------
(* FlushStateToDisk pruning one block file (here: one block) that lies far *)
(* enough below the tip; it may run inside ConnectTip and DisconnectTip.   *)
PruneBlockFile_StaysUnlinked(b) ==
    /\ CsMainFree \/ pc \in {"disconnect", "connect"}
    /\ MayCommand("prune") /\ Spend("prune")
    /\ b \in haveData \ {Genesis} /\ Height[b] + MinBlocksToKeep <= Height[tip]
    /\ haveData' = haveData \ {b}
    /\ UNCHANGED <<known, processed, txValid, linked, unlinked, failVars, orderVars,
                   callVars, scriptValid, cand, bestHeader, tip>>

PruneBlockFile(b) ==
    /\ CsMainFree \/ pc \in {"disconnect", "connect"}
    /\ MayCommand("prune") /\ Spend("prune")
    /\ b \in haveData \ {Genesis} /\ Height[b] + MinBlocksToKeep <= Height[tip]
    /\ haveData' = haveData \ {b}
    /\ unlinked' = unlinked \ {b}
    /\ UNCHANGED <<known, processed, txValid, linked, failVars, orderVars,
                   callVars, scriptValid, cand, bestHeader, tip>>

(* A shutdown request: loops are left at their next test of m_interrupt.   *)
Interrupt ==
    /\ MayCommand("restart") /\ Spend("restart") /\ pc # "halted"
    /\ interrupt' = TRUE
    /\ UNCHANGED <<dataVars, failVars, orderVars, pc, abc, inv, pending,
                   scriptValid, cand, bestHeader, tip>>

(* LoadBlockIndex: IsValid(BLOCK_VALID_TRANSACTIONS) and HaveNumChainTxs. *)
LoadedCandidates_ScriptsOnly(valid, linkedNow) == valid \cap scriptValid \cap linkedNow
LoadedCandidates(valid, linkedNow) == valid \cap txValid \cap linkedNow

(* Shutdown with a full flush, then LoadBlockIndex and LoadChainTip.       *)
Restart ==
    /\ (interrupt /\ pc = "idle") \/ pc = "halted"
    /\ interrupt' = FALSE /\ pending' = TRUE
    /\ pc' = "idle" /\ abc' = NoAbc
    /\ LET failedNow == {b \in known : Ancestors[b] \cap Failed # {}}
           linkedNow == {b \in known : Ancestors[b] \subseteq processed}
           best == {b \in failedNow : \A c \in failedNow : ChainWork[c] <= ChainWork[b]}
           valid == known \ failedNow
       IN  /\ failedChild' = failedChild \cup (failedNow \ Failed)
           /\ failedBlocks' = {}
           /\ linked' = linkedNow
           /\ unlinked' = {b \in processed \ {Genesis} : Parent[b] \notin linkedNow}
           /\ seq' = [b \in Blocks |-> 0]
           /\ counters' = [next |-> 1, reverse |-> -1, lastPrecious |-> 0]
           /\ cand' = PruneBlockIndexCandidates(
                         seq', LoadedCandidates(valid, linkedNow), tip)
           /\ bestInvalid' \in IF best = {} THEN {NoBlock} ELSE best
           /\ \E b \in valid : /\ \A c \in valid \ {b} : Less(seq', c, b)
                               /\ bestHeader' = b
    /\ UNCHANGED <<known, processed, haveData, txValid, failedValid, scriptValid,
                   inv, tip, left>>

----------------------------------------------------------------------------
ActivationStep ==
    \/ \E c \in Blocks : FindMostWorkChain(c) \/ DropUnusableCandidate(c)
    \/ LockCsMain \/ NothingToActivate \/ EnterStep \/ DisconnectTip \/ DisconnectTipFails
    \/ DisconnectDone \/ ConnectTip \/ ConnectTipInvalid \/ ConnectTipFails
    \/ StepDone \/ UnlockCsMain

InvalidationStep ==
    InvalidateStep \/ InvalidateStepFails \/ InvalidateLoopDone \/ InvalidateMark

Arrival ==
    \E b \in Blocks \ {Genesis} :
        \/ AcceptBlockHeader(b)
        \/ RejectHeaderOfFailedBranch(b)
        \/ \E requested \in BOOLEAN : AcceptBlock(b, requested)
        \/ \E requested \in BOOLEAN : AcceptBlockInvalid(b, requested)

Command ==
    \/ \E b \in Blocks : \/ InvalidateBlock(b) \/ ResetBlockFailureFlags(b)
                         \/ PreciousBlock(b) \/ PruneBlockFile(b)
    \/ Interrupt \/ Restart

Next == ActivateBestChain \/ ActivationStep \/ InvalidationStep \/ Arrival \/ Command

Spec == Init /\ [][Next]_vars

(* A thread that called ActivateBestChain or InvalidateBlock runs to the   *)
(* end, and a call that was decided upon is made.                          *)
FairSpec ==
    /\ Spec
    /\ WF_vars(ActivationStep) /\ WF_vars(InvalidationStep)
    /\ WF_vars(ActivateBestChain /\ pending)

----------------------------------------------------------------------------
MaybeBlock == Blocks \cup {NoBlock}
AbcType == [mostWork : MaybeBlock, newTip : MaybeBlock, startTip : MaybeBlock,
            oldTip : MaybeBlock, forkHeight : Int, connected : BOOLEAN]
InvType == [target : MaybeBlock, toMark : MaybeBlock, cands : SUBSET Blocks]
CountersType == [next : Int, reverse : Int, lastPrecious : Int]

(* Every variable has its type; flags are only ever set on indexed blocks. *)
TypeOK ==
    /\ known \subseteq Blocks /\ processed \subseteq Blocks /\ haveData \subseteq Blocks
    /\ txValid \subseteq Blocks /\ scriptValid \subseteq Blocks
    /\ failedValid \subseteq Blocks /\ failedChild \subseteq Blocks
    /\ failedBlocks \subseteq Blocks
    /\ linked \subseteq Blocks /\ unlinked \subseteq Blocks /\ cand \subseteq Blocks
    /\ seq \in [Blocks -> Int]
    /\ tip \in Blocks /\ bestHeader \in Blocks /\ bestInvalid \in MaybeBlock
    /\ counters \in CountersType
    /\ pc \in Pcs
    /\ abc \in AbcType /\ inv \in InvType
    /\ pending \in BOOLEAN /\ interrupt \in BOOLEAN
    /\ left \in [Commands -> Nat]

(* FindMostWorkChain and InvalidateBlock treat every block of m_chain as   *)
(* valid without looking: no block of the active chain is marked failed    *)
(* and each one passed ConnectBlock, at every moment, reorganisations and  *)
(* half-done invalidations included.                                       *)
ActiveChainValid == Chain \cap Failed = {} /\ Chain \subseteq scriptValid

(* CheckBlockIndex, "All parents having had data (at some point) is        *)
(* equivalent to all parents being VALID_TRANSACTIONS, which is equivalent *)
(* to HaveNumChainTxs()", in whatever order blocks arrive.                 *)
LinkedIffAncestorsProcessed ==
    \A b \in known : /\ b \in linked <=> Ancestors[b] \subseteq processed
                     /\ b \in linked <=> Ancestors[b] \subseteq txValid

(* The block index entries CheckBlockIndex requires to be candidates:      *)
(* at least as good as the tip, not invalid, all data of the branch there. *)
MustBeCandidate(b) ==
    /\ ~Less(seq, b, tip)
    /\ Ancestors[b] \subseteq processed
    /\ Ancestors[b] \cap failedValid = {}
    /\ Ancestors[b] \subseteq haveData \/ b = tip

(* cs_main is free and no InvalidateBlock is under way: blocks that arrive *)
(* between its iterations are put right only at its end, as it says.       *)
NotInvalidating == CsMainFree /\ pc \notin {"invalidate", "invmark"}

(* CheckBlockIndex on setBlockIndexCandidates: no block that could replace *)
(* the tip is missing from the set, however arrivals, commands and the     *)
(* critical sections of ActivateBestChain interleave.                      *)
CandidatesComplete ==
    NotInvalidating => \A b \in known : MustBeCandidate(b) => b \in cand

(* CheckBlockIndex: a block worse than the tip, or with an ancestor whose  *)
(* transactions were never seen, is no candidate.                          *)
CandidatesNotWorse ==
    CsMainFree => \A b \in cand : ~Less(seq, b, tip) /\ Ancestors[b] \subseteq processed

(* CheckBlockIndex on m_blocks_unlinked. *)
UnlinkedExact ==
    CsMainFree => \A b \in known \ {Genesis} :
        /\ /\ b \in haveData /\ ~(Ancestors[b] \subseteq processed)
           /\ Ancestors[b] \cap failedValid = {}
           => b \in unlinked
        /\ b \in unlinked => b \in haveData /\ ~(Ancestors[b] \subseteq haveData)
        /\ /\ NotInvalidating
           /\ b \in haveData /\ Ancestors[b] \subseteq processed
           /\ ~(Ancestors[b] \subseteq haveData)
           /\ ~Less(seq, b, tip) /\ b \notin cand /\ Ancestors[b] \cap failedValid = {}
           => b \in unlinked

(* CheckBlockIndex: "The failed mask cannot be set for blocks without      *)
(* invalid parents."                                                       *)
FailureHasCause ==
    CsMainFree => \A b \in Failed : Ancestors[b] \cap failedValid # {}

(* AcceptBlockHeader asserts that every m_failed_blocks entry it meets is  *)
(* still marked BLOCK_FAILED_VALID.                                        *)
FailedBlocksStillFailed == failedBlocks \subseteq failedValid

(* ConnectTip reads each block from disk and connects it onto the tip: its *)
(* data is there and its parent is the tip, although mostWork was chosen   *)
(* in an earlier critical section.                                         *)
ConnectsOntoTip ==
    pc = "connect" => /\ tip \in Ancestors[abc.mostWork] /\ tip # abc.mostWork
                      /\ Connecting \in haveData \ Failed
                      /\ Parent[Connecting] = tip

(* A block that could be the tip: linked, its branch on disk and not failed. *)
Usable(b) ==
    /\ b \in linked /\ Ancestors[b] \subseteq haveData \cup Chain
    /\ Ancestors[b] \cap Failed = {}

(* A usable block better than the tip. *)
PassedOver == \E b \in known : Usable(b) /\ Less(seq, tip, b)

(* Once no call of ActivateBestChain is running or due, no usable block    *)
(* beats the tip.                                                          *)
SettledTipIsBest ==
    pc = "idle" /\ ~pending /\ ~interrupt => ~PassedOver

(* "We absolutely may not unlock cs_main until we've made forward          *)
(* progress": whatever invalid blocks a reorganisation meets, other        *)
(* threads never see ActivateBestChain on a worse tip than it started      *)
(* with.                                                                   *)
NoRegressAtUnlock == pc = "unlock" => ~Less(seq, tip, abc.startTip)

===========================================================================

------------------------- MODULE ChainState_proofs -------------------------
(***************************************************************************)
(* For every block tree and every number of commands: the active chain     *)
(* never contains a block marked failed, and m_failed_blocks only holds    *)
(* blocks marked BLOCK_FAILED_VALID.                                       *)
(***************************************************************************)
EXTENDS ChainState, FiniteSetTheorems, TLAPS

(* The block index only grows by blocks whose parent is indexed; what is   *)
(* linked is closed under ancestors and was received; candidates are       *)
(* linked.                                                                 *)
IndexInv ==
    /\ \A b \in known : Ancestors[b] \subseteq known
    /\ processed \subseteq known /\ processed \cap BadBody = {}
    /\ unlinked \subseteq processed /\ linked \subseteq processed
    /\ \A b \in linked : Ancestors[b] \subseteq linked
    /\ cand \subseteq linked /\ inv.cands \subseteq linked
    /\ failedBlocks \subseteq failedValid

(* The active chain is linked, connected and not failed, and so is the     *)
(* branch ActivateBestChain is heading for, across the releases of cs_main *)
(* in which it is remembered.                                              *)
ChainInv ==
    /\ Ancestors[tip] \subseteq scriptValid \cap linked
    /\ \A b \in Ancestors[tip] : b \notin failedValid /\ b \notin failedChild
    /\ abc.mostWork # NoBlock =>
          /\ abc.mostWork \in linked
          /\ \A b \in Ancestors[abc.mostWork] : b \notin failedValid /\ b \notin failedChild

(* What the position of the lock holder says about its locals. *)
CallInv ==
    /\ pc \in {"idle", "invalidate", "invmark"} => abc.mostWork = NoBlock
    /\ pc \notin {"invalidate", "invmark"} => inv = NoInv
    /\ pc \in {"invalidate", "invmark"} =>
          inv.target \in known \ {Genesis} /\ inv.toMark \in known \ {Genesis}
    /\ pc \in {"disconnect", "connect"} => abc.mostWork # NoBlock
    /\ pc = "disconnect" =>
          \E f \in Ancestors[abc.mostWork] \cap Ancestors[tip] : Height[f] = abc.forkHeight
    /\ pc = "connect" => tip \in Ancestors[abc.mostWork] /\ tip # abc.mostWork

IInv == TypeOK /\ IndexInv /\ ChainInv /\ CallInv

----------------------------------------------------------------------------
(* Facts of the block tree. *)

LEMMA AncestorFacts ==
    /\ Genesis \in Blocks /\ NoBlock \notin Blocks
    /\ \A b \in Blocks : b \in Ancestors[b] /\ Ancestors[b] \subseteq Blocks
    /\ \A b \in Blocks : \A a \in Ancestors[b] : Ancestors[a] \subseteq Ancestors[b]
    /\ Ancestors[Genesis] = {Genesis}
BY TreeAssumption

LEMMA ParentFacts ==
    ASSUME NEW b \in Blocks, b # Genesis
    PROVE  /\ Parent[b] \in Blocks
           /\ Parent[b] \in Ancestors[b]
           /\ Ancestors[b] = {b} \cup Ancestors[Parent[b]]
           /\ b \notin Ancestors[Parent[b]]
           /\ Height[b] = Height[Parent[b]] + 1
<1>1. Parent[b] \in Blocks
  BY TreeAssumption
<1>2. /\ Ancestors[b] = {b} \cup Ancestors[Parent[b]]
      /\ b \notin Ancestors[Parent[b]]
      /\ Height[b] = Height[Parent[b]] + 1
  BY TreeAssumption
<1>3. Parent[b] \in Ancestors[Parent[b]]
  BY <1>1, AncestorFacts
<1> QED BY <1>1, <1>2, <1>3

LEMMA HeightFacts ==
    /\ Height \in [Blocks -> Nat] /\ Height[Genesis] = 0
    /\ \A b \in Blocks : \A a \in Ancestors[b] : Height[a] <= Height[b]
    /\ \A b \in Blocks : \A a, c \in Ancestors[b] : Height[a] = Height[c] => a = c
BY TreeAssumption

(* Two ancestors of a block lie on one line. *)
LEMMA Linear ==
    ASSUME NEW b \in Blocks, NEW a \in Ancestors[b], NEW c \in Ancestors[b]
    PROVE  a \in Ancestors[c] \/ c \in Ancestors[a]
<1>1. \A S \in SUBSET Ancestors[b] :
         S # {} => \E top \in S : \A x \in S : x \in Ancestors[top]
  BY TreeAssumption
<1>2. {a, c} \in SUBSET Ancestors[b] /\ {a, c} # {}
  OBVIOUS
<1>3. PICK top \in {a, c} : \A x \in {a, c} : x \in Ancestors[top]
  BY <1>1, <1>2
<1> QED BY <1>3

LEMMA HighestIn ==
    ASSUME NEW b \in Blocks, NEW S \in SUBSET Ancestors[b], S # {}
    PROVE  Highest(S) \in S
<1>1. \A T \in SUBSET Ancestors[b] :
         T # {} => \E top \in T : \A x \in T : x \in Ancestors[top]
  BY TreeAssumption
<1>2. \E top \in S : \A x \in S : x \in Ancestors[top]
  BY <1>1
<1> QED BY <1>2 DEF Highest

LEMMA GenesisCommon ==
    ASSUME NEW b \in Blocks
    PROVE  Genesis \in Ancestors[b]
<1>1. 0 \in 0..Height[b]
  BY HeightFacts
<1>2. PICK a \in Ancestors[b] : Height[a] = 0
  BY <1>1, TreeAssumption
<1>3. a \in Blocks
  BY AncestorFacts
<1>4. a = Genesis
  <2> SUFFICES ASSUME a # Genesis PROVE FALSE
    OBVIOUS
  <2>1. Parent[a] \in Blocks /\ Height[a] = Height[Parent[a]] + 1
    BY <1>3, ParentFacts
  <2> QED BY <1>2, <2>1, HeightFacts
<1> QED BY <1>4

(* The block ActivateBestChainStep connects next is a child of the tip.    *)
LEMMA NextOnPath ==
    ASSUME NEW m \in Blocks, NEW t \in Ancestors[m], t # m
    PROVE  LET n == AncestorAt(m, Height[t] + 1)
           IN  /\ n \in Ancestors[m] /\ n \in Blocks \ {Genesis}
               /\ Parent[n] = t
               /\ Ancestors[n] = {n} \cup Ancestors[t]
<1> DEFINE n == AncestorAt(m, Height[t] + 1)
<1>1. m \in Ancestors[m] /\ t \in Blocks /\ Ancestors[m] \subseteq Blocks
  BY AncestorFacts
<1>2. Height[t] < Height[m]
  BY <1>1, HeightFacts
<1>3. Height[t] + 1 \in 0..Height[m]
  BY <1>1, <1>2, HeightFacts
<1>4. \E a \in Ancestors[m] : Height[a] = Height[t] + 1
  BY <1>3, TreeAssumption
<1>5. n \in Ancestors[m] /\ Height[n] = Height[t] + 1
  BY <1>4 DEF AncestorAt
<1> HIDE DEF n
<1>6. n \in Blocks /\ n # Genesis
  BY <1>1, <1>5, HeightFacts
<1>7. /\ Parent[n] \in Blocks /\ Parent[n] \in Ancestors[n]
      /\ Ancestors[n] = {n} \cup Ancestors[Parent[n]]
      /\ Height[n] = Height[Parent[n]] + 1
  BY <1>6, ParentFacts
<1>8. Parent[n] \in Ancestors[m]
  BY <1>5, <1>7, AncestorFacts
<1>9. Height[Parent[n]] = Height[t]
  BY <1>1, <1>5, <1>7, HeightFacts
<1>10. Parent[n] = t
  BY <1>8, <1>9, HeightFacts
<1> QED BY <1>5, <1>6, <1>7, <1>10 DEF n
----------------------------------------------------------------------------
LEMMA NoLocalsType == NoAbc \in AbcType /\ NoInv \in InvType
<1>0. 0 \in Int
  OBVIOUS
<1>1. NoAbc \in AbcType
  BY <1>0, Zenon DEF NoAbc, AbcType, MaybeBlock
<1>2. NoInv \in InvType
  BY DEF NoInv, InvType, MaybeBlock
<1> QED BY <1>1, <1>2

LEMMA InitInv == Init => IInv
<1> SUFFICES ASSUME Init PROVE IInv
  OBVIOUS
<1> USE AncestorFacts, ParameterAssumption DEF Init
<1>1. TypeOK
  <2>1. abc \in AbcType /\ inv \in InvType /\ pending \in BOOLEAN /\ interrupt \in BOOLEAN
    BY NoLocalsType
  <2>2. seq \in [Blocks -> Int] /\ counters \in CountersType /\ left \in [Commands -> Nat]
    BY DEF CountersType
  <2>3. pc \in Pcs
    BY DEF Pcs
  <2> QED BY <2>1, <2>2, <2>3 DEF TypeOK, MaybeBlock
<1>2. IndexInv
  BY DEF IndexInv, NoInv
<1>3. ChainInv
  BY DEF ChainInv, NoAbc
<1>4. CallInv
  BY DEF CallInv, NoAbc
<1> QED BY <1>1, <1>2, <1>3, <1>4 DEF IInv

(* Steps that only move the lock holder along. *)
LEMMA MoveInv ==
    ASSUME IInv,
           \/ ActivateBestChain \/ LockCsMain \/ NothingToActivate \/ DisconnectTipFails
           \/ ConnectTipFails \/ StepDone \/ UnlockCsMain
    PROVE  IInv'
<1> USE DEF IInv
<1>1. CASE ActivateBestChain
  <2>1. TypeOK'
    BY <1>1, NoLocalsType DEF TypeOK, ActivateBestChain, dataVars, failVars, orderVars, Pcs
  <2>2. IndexInv'
    BY <1>1 DEF IndexInv, ActivateBestChain, dataVars, failVars
  <2>3. ChainInv'
    BY <1>1 DEF ChainInv, ActivateBestChain, dataVars, failVars, NoAbc
  <2>4. CallInv'
    BY <1>1 DEF CallInv, ActivateBestChain, dataVars, NoAbc
  <2> QED BY <2>1, <2>2, <2>3, <2>4
<1>2. CASE LockCsMain
  <2>1. TypeOK'
    BY <1>2 DEF TypeOK, LockCsMain, dataVars, failVars, orderVars, AbcType, MaybeBlock, Pcs, CsMainHeld
  <2>2. IndexInv'
    BY <1>2 DEF IndexInv, LockCsMain, dataVars, failVars
  <2>3. abc'.mostWork = abc.mostWork /\ inv' = inv
    BY <1>2 DEF LockCsMain, TypeOK, AbcType
  <2>4. ChainInv'
    BY <1>2, <2>3 DEF ChainInv, LockCsMain, dataVars, failVars
  <2>5. CallInv'
    BY <1>2, <2>3 DEF CallInv, LockCsMain, dataVars
  <2> QED BY <2>1, <2>2, <2>4, <2>5
<1>3. CASE NothingToActivate
  <2>1. TypeOK'
    BY <1>3 DEF TypeOK, NothingToActivate, dataVars, failVars, orderVars, Pcs, CsMainHeld
  <2>2. IndexInv' /\ ChainInv' /\ CallInv'
    BY <1>3 DEF IndexInv, ChainInv, CallInv, NothingToActivate, dataVars, failVars
  <2> QED BY <2>1, <2>2
<1>4. CASE DisconnectTipFails
  <2>1. TypeOK'
    BY <1>4 DEF TypeOK, DisconnectTipFails, dataVars, failVars, orderVars, Pcs
  <2>2. IndexInv' /\ ChainInv' /\ CallInv'
    BY <1>4 DEF IndexInv, ChainInv, CallInv, DisconnectTipFails, dataVars, failVars
  <2> QED BY <2>1, <2>2
<1>5. CASE ConnectTipFails
  <2>1. TypeOK'
    BY <1>5 DEF TypeOK, ConnectTipFails, dataVars, failVars, orderVars, Pcs
  <2>2. IndexInv' /\ ChainInv' /\ CallInv'
    BY <1>5 DEF IndexInv, ChainInv, CallInv, ConnectTipFails, dataVars, failVars
  <2> QED BY <2>1, <2>2
<1>6. CASE StepDone
  <2>1. TypeOK'
    BY <1>6 DEF TypeOK, StepDone, dataVars, failVars, orderVars, AbcType, MaybeBlock, Pcs, CsMainHeld
  <2>2. IndexInv'
    BY <1>6 DEF IndexInv, StepDone, dataVars, failVars
  <2>3. abc'.mostWork = abc.mostWork /\ inv' = inv
    BY <1>6 DEF StepDone, TypeOK, AbcType
  <2>4. ChainInv'
    BY <1>6, <2>3 DEF ChainInv, StepDone, dataVars, failVars
  <2>5. CallInv'
    BY <1>6, <2>3 DEF CallInv, StepDone, dataVars
  <2> QED BY <2>1, <2>2, <2>4, <2>5
<1>7. CASE UnlockCsMain
  <2>1. TypeOK'
    BY <1>7, NoLocalsType DEF TypeOK, UnlockCsMain, dataVars, failVars, orderVars, Pcs
  <2>2. IndexInv'
    BY <1>7 DEF IndexInv, UnlockCsMain, dataVars, failVars
  <2>3. ChainInv'
    BY <1>7 DEF ChainInv, UnlockCsMain, dataVars, failVars, NoAbc
  <2>4. CallInv'
    BY <1>7 DEF CallInv, UnlockCsMain, dataVars, NoAbc
  <2> QED BY <2>1, <2>2, <2>3, <2>4
<1> QED BY <1>1, <1>2, <1>3, <1>4, <1>5, <1>6, <1>7
----------------------------------------------------------------------------
(* The steps of FindMostWorkChain and ActivateBestChainStep. *)

LEMMA FindInv ==
    ASSUME IInv, NEW c \in Blocks, FindMostWorkChain(c)
    PROVE  IInv'
<1> USE DEF IInv, FindMostWorkChain
<1>1. TypeOK'
  BY DEF TypeOK, dataVars, failVars, orderVars, AbcType, MaybeBlock
<1>2. IndexInv'
  BY DEF IndexInv, dataVars, failVars
<1>3. abc'.mostWork = c /\ c \in linked
  BY DEF TypeOK, AbcType, IsBestCandidate, IndexInv
<1>4. \A b \in Ancestors[c] : b \notin failedValid /\ b \notin failedChild
  BY DEF Unusable, PathTo, Chain, Failed, ChainInv
<1>5. ChainInv'
  BY <1>3, <1>4 DEF ChainInv, dataVars, failVars
<1>6. CallInv'
  BY <1>3, AncestorFacts DEF CallInv, dataVars
<1> QED BY <1>1, <1>2, <1>5, <1>6

LEMMA DropInv ==
    ASSUME IInv, NEW c \in Blocks, DropUnusableCandidate(c)
    PROVE  IInv'
<1> DEFINE test == Highest(Unusable(c))
           above == Ancestors[c] \ Ancestors[test]
<1>1. Unusable(c) \in SUBSET Ancestors[c] /\ Unusable(c) # {}
  BY DEF DropUnusableCandidate, Unusable, PathTo
<1>2. test \in Unusable(c)
  BY <1>1, HighestIn
<1>3. test \in Ancestors[c] /\ test \notin Ancestors[tip]
  BY <1>2 DEF Unusable, PathTo, Chain
<1>4. above \subseteq Blocks /\ above \subseteq linked /\ test \in Blocks
  <2>1. c \in linked
    BY DEF IInv, DropUnusableCandidate, IsBestCandidate, IndexInv
  <2> QED BY <2>1, <1>3, AncestorFacts DEF IInv, IndexInv
<1>5. /\ cand' = cand \ (above \cup {test})
      /\ \/ failedChild' = failedChild \cup above /\ unlinked' = unlinked
            /\ bestInvalid' = BetterInvalid(bestInvalid, c) /\ test \in Failed
         \/ failedChild' = failedChild /\ unlinked' = unlinked \cup above
            /\ bestInvalid' = bestInvalid
      /\ UNCHANGED <<known, processed, haveData, txValid, linked, failedValid,
                     failedBlocks, seq, counters, pc, abc, inv, pending, interrupt,
                     scriptValid, bestHeader, tip, left>>
  BY DEF DropUnusableCandidate, orderVars, callVars
<1> HIDE DEF test, above
<1>6. TypeOK'
  BY <1>4, <1>5 DEF IInv, TypeOK, BetterInvalid, MaybeBlock
<1>7. IndexInv'
  BY <1>4, <1>5 DEF IInv, IndexInv
<1>8. abc.mostWork = NoBlock
  BY DEF DropUnusableCandidate
<1>9. \A b \in Ancestors[tip] : b \notin above
  <2> SUFFICES ASSUME NEW b \in Ancestors[tip], b \in Ancestors[c], b \notin Ancestors[test]
               PROVE  FALSE
    BY DEF above
  <2>1. test \in Ancestors[b]
    BY <1>3, Linear
  <2>2. test \in Ancestors[tip]
    BY <2>1, AncestorFacts DEF IInv, TypeOK
  <2> QED BY <2>2, <1>3
<1>10. ChainInv'
  BY <1>5, <1>8, <1>9 DEF IInv, ChainInv
<1>11. CallInv'
  BY <1>5 DEF IInv, CallInv
<1> QED BY <1>6, <1>7, <1>10, <1>11 DEF IInv

LEMMA EnterStepInv ==
    ASSUME IInv, EnterStep
    PROVE  IInv'
<1> DEFINE m == abc.mostWork
           fork == FindFork(m)
<1>1. m \in Blocks /\ m # NoBlock /\ tip \in Blocks
  BY DEF IInv, EnterStep, TypeOK, AbcType, MaybeBlock
<1>2. Ancestors[m] \cap Ancestors[tip] # {}
  BY <1>1, GenesisCommon
<1>3. fork \in Ancestors[m] \cap Ancestors[tip]
  BY <1>1, <1>2, HighestIn DEF FindFork, Chain
<1>4. Height[fork] \in Int
  BY <1>1, <1>3, AncestorFacts, HeightFacts
<1>5. /\ pc' = "disconnect"
      /\ abc' = [abc EXCEPT !.oldTip = tip, !.forkHeight = Height[fork]]
      /\ UNCHANGED <<dataVars, failVars, orderVars, inv, pending, interrupt,
                     scriptValid, cand, bestHeader, tip, left>>
      /\ pc = "find"
  BY DEF EnterStep
<1> HIDE DEF fork
<1>6. TypeOK'
  BY <1>1, <1>4, <1>5 DEF IInv, TypeOK, dataVars, failVars, orderVars, AbcType, MaybeBlock,
     Pcs, CsMainHeld
<1>7. abc'.mostWork = m /\ abc'.forkHeight = Height[fork] /\ tip' = tip /\ inv' = inv
  BY <1>5 DEF IInv, TypeOK, AbcType
<1>8. IndexInv'
  BY <1>5 DEF IInv, IndexInv, dataVars, failVars
<1>9. ChainInv'
  BY <1>5, <1>7 DEF IInv, ChainInv, dataVars, failVars
<1>10. CallInv'
  BY <1>1, <1>3, <1>5, <1>7 DEF IInv, CallInv, dataVars
<1> QED BY <1>6, <1>8, <1>9, <1>10 DEF IInv

LEMMA DisconnectTipInv ==
    ASSUME IInv, DisconnectTip
    PROVE  IInv'
<1>1. PICK f \in Ancestors[abc.mostWork] \cap Ancestors[tip] : Height[f] = abc.forkHeight
  BY DEF IInv, CallInv, DisconnectTip
<1>2. tip \in Blocks /\ abc.mostWork \in Blocks
  BY DEF IInv, TypeOK, AbcType, MaybeBlock, CallInv, DisconnectTip
<1>3. tip # Genesis
  BY <1>1, <1>2, AncestorFacts, HeightFacts DEF DisconnectTip
<1>4. /\ tip' = Parent[tip] /\ Parent[tip] \in Blocks
      /\ Ancestors[tip] = {tip} \cup Ancestors[Parent[tip]]
  BY <1>2, <1>3, ParentFacts DEF DisconnectTip
<1>5. f \in Ancestors[tip']
  BY <1>1, <1>2, <1>4, HeightFacts, AncestorFacts DEF DisconnectTip
<1>6. TypeOK'
  BY <1>4 DEF IInv, TypeOK, DisconnectTip, dataVars, failVars, orderVars, callVars
<1>7. IndexInv'
  BY DEF IInv, IndexInv, DisconnectTip, dataVars, failVars, callVars
<1>8. ChainInv'
  BY <1>4 DEF IInv, ChainInv, DisconnectTip, dataVars, failVars, callVars
<1>9. CallInv'
  BY <1>1, <1>5 DEF IInv, CallInv, DisconnectTip, dataVars, callVars
<1> QED BY <1>6, <1>7, <1>8, <1>9 DEF IInv

LEMMA DisconnectDoneInv ==
    ASSUME IInv, DisconnectDone
    PROVE  IInv'
<1>1. PICK f \in Ancestors[abc.mostWork] \cap Ancestors[tip] : Height[f] = abc.forkHeight
  BY DEF IInv, CallInv, DisconnectDone
<1>2. tip \in Blocks /\ tip \in Ancestors[tip]
  BY AncestorFacts DEF IInv, TypeOK
<1>3. f = tip
  BY <1>1, <1>2, HeightFacts DEF DisconnectDone
<1>4. TypeOK'
  BY DEF IInv, TypeOK, DisconnectDone, dataVars, failVars, orderVars, Pcs, CsMainHeld
<1>5. IndexInv' /\ ChainInv'
  BY DEF IInv, IndexInv, ChainInv, DisconnectDone, dataVars, failVars
<1>6. CallInv'
  BY <1>1, <1>3 DEF IInv, CallInv, DisconnectDone, dataVars
<1> QED BY <1>4, <1>5, <1>6 DEF IInv

LEMMA ConnectTipInv ==
    ASSUME IInv, ConnectTip
    PROVE  IInv'
<1> DEFINE m == abc.mostWork
           n == Connecting
<1>1. m \in Blocks /\ m \in linked /\ tip \in Ancestors[m] /\ tip # m
  BY DEF IInv, TypeOK, AbcType, MaybeBlock, CallInv, ChainInv, ConnectTip
<1>2. /\ n \in Ancestors[m] /\ n \in Blocks
      /\ Ancestors[n] = {n} \cup Ancestors[tip]
  BY <1>1, NextOnPath DEF Connecting
<1>3. n \notin Failed /\ n \in linked
  BY <1>1, <1>2, AncestorFacts DEF IInv, ChainInv, IndexInv, Failed
<1>4. /\ tip' = n /\ scriptValid' = scriptValid \cup {n}
      /\ cand' \subseteq cand
      /\ pc' = "stepdone" \/ (pc' = "connect" /\ n # m)
      /\ UNCHANGED <<known, processed, haveData, txValid, linked, unlinked, failedValid,
                     failedChild, failedBlocks, bestInvalid, seq, counters, abc, inv, pending,
                     interrupt, bestHeader, left>>
  BY <1>3 DEF ConnectTip, PruneBlockIndexCandidates, dataVars, failVars, orderVars
<1> HIDE DEF n
<1>5. TypeOK'
  BY <1>2, <1>4 DEF IInv, TypeOK, Pcs, CsMainHeld
<1>6. IndexInv'
  BY <1>4 DEF IInv, IndexInv
<1>7. ChainInv'
  BY <1>2, <1>3, <1>4 DEF IInv, ChainInv, Failed
<1>8. inv = NoInv /\ m # NoBlock
  BY DEF IInv, CallInv, ConnectTip
<1>9. CallInv'
  BY <1>2, <1>4, <1>8 DEF CallInv
<1> QED BY <1>5, <1>6, <1>7, <1>9 DEF IInv

(* Rounding up to a multiple of k goes above d. *)
LEMMA NextMultiple ==
    ASSUME NEW d \in Int, NEW k \in Nat \ {0}
    PROVE  k * (d \div k + 1) \in Int /\ k * (d \div k + 1) > d
<1>1. d \div k \in Int /\ d % k \in 0..(k-1) /\ d = k * (d \div k) + (d % k)
  OBVIOUS
<1>2. k * (d \div k + 1) = k * (d \div k) + k
  BY <1>1
<1> QED BY <1>1, <1>2

LEMMA BatchTopIn ==
    ASSUME IInv, pc = "connect"
    PROVE  BatchTop \in Blocks
<1> DEFINE m == abc.mostWork
           done == Height[tip] - abc.forkHeight
           top  == abc.forkHeight + ConnectBatch * (done \div ConnectBatch + 1)
           h == IF top < Height[m] THEN top ELSE Height[m]
<1>1. m \in Blocks /\ m \in Ancestors[m] /\ Ancestors[m] \subseteq Blocks
  BY AncestorFacts DEF IInv, TypeOK, AbcType, MaybeBlock, CallInv
<1>2. tip \in Blocks /\ Height[tip] \in Nat /\ Height[m] \in Nat /\ abc.forkHeight \in Int
  BY <1>1, HeightFacts DEF IInv, TypeOK, AbcType
<1>3. done \in Int /\ ConnectBatch \in Nat \ {0}
  BY <1>2, ParameterAssumption
<1> HIDE DEF done
<1>4. /\ ConnectBatch * (done \div ConnectBatch + 1) \in Int
      /\ ConnectBatch * (done \div ConnectBatch + 1) > done
  BY <1>3, NextMultiple
<1>5. top \in Int /\ top > Height[tip]
  BY <1>2, <1>3, <1>4 DEF done
<1> HIDE DEF top, m
<1>6. h \in 0..Height[m]
  BY <1>2, <1>5
<1> HIDE DEF h
<1>7. AncestorAt(m, h) \in Ancestors[m]
  BY <1>1, <1>6, TreeAssumption DEF AncestorAt
<1>8. BatchTop = AncestorAt(m, h)
  BY DEF BatchTop, m, h, top, done
<1> QED BY <1>1, <1>7, <1>8

LEMMA ConnectTipInvalidInv ==
    ASSUME IInv, ConnectTipInvalid
    PROVE  IInv'
<1> DEFINE m == abc.mostWork
           n == Connecting
<1>1. m \in Blocks /\ tip \in Ancestors[m] /\ tip # m /\ inv = NoInv /\ tip \in Blocks
  BY DEF IInv, TypeOK, AbcType, MaybeBlock, CallInv, ConnectTipInvalid
<1>2. n \in Blocks /\ n # Genesis /\ Parent[n] = tip
  BY <1>1, NextOnPath DEF Connecting
<1>3. n \notin Ancestors[tip]
  BY <1>2, ParentFacts
<1>4. BatchTop \in Blocks
  BY BatchTopIn DEF ConnectTipInvalid
<1>5. /\ failedValid' = failedValid \cup {n} /\ failedBlocks' = failedBlocks \cup {n}
      /\ cand' \subseteq cand
      /\ abc' = [abc EXCEPT !.mostWork = NoBlock] /\ pc' = "stepdone"
      /\ UNCHANGED <<known, processed, haveData, txValid, linked, unlinked, failedChild,
                     seq, counters, inv, pending, interrupt, scriptValid, tip, left>>
  BY DEF ConnectTipInvalid, dataVars, orderVars
<1>6. bestInvalid' \in MaybeBlock /\ bestHeader' \in Blocks
  BY <1>2, <1>4 DEF ConnectTipInvalid, BetterInvalid, HeaderAfterInvalid, IInv, TypeOK, MaybeBlock
<1> HIDE DEF n
<1>7. abc' \in AbcType /\ abc'.mostWork = NoBlock
  BY <1>5 DEF IInv, TypeOK, AbcType, MaybeBlock
<1>8. TypeOK'
  BY <1>2, <1>5, <1>6, <1>7 DEF IInv, TypeOK, Pcs, CsMainHeld
<1>9. IndexInv'
  BY <1>5 DEF IInv, IndexInv
<1>10. ChainInv'
  BY <1>3, <1>5, <1>7 DEF IInv, ChainInv
<1>11. CallInv'
  BY <1>1, <1>5 DEF CallInv
<1> QED BY <1>8, <1>9, <1>10, <1>11 DEF IInv
----------------------------------------------------------------------------
(* Headers and blocks arriving while cs_main is free. *)

LEMMA HeaderInv ==
    ASSUME IInv, NEW b \in Blocks \ {Genesis}, AcceptBlockHeader(b)
    PROVE  IInv'
<1>1. Parent[b] \in known /\ Ancestors[b] = {b} \cup Ancestors[Parent[b]]
  BY ParentFacts DEF AcceptBlockHeader, HeaderAcceptable, HeaderConnects
<1>2. /\ known' = known \cup {b} /\ bestHeader' \in {b, bestHeader}
      /\ UNCHANGED <<processed, haveData, txValid, linked, unlinked, failedValid,
                     failedChild, failedBlocks, bestInvalid, seq, counters, pc, abc, inv,
                     pending, interrupt, scriptValid, cand, tip, left>>
  BY DEF AcceptBlockHeader, HeaderAfterAdd, failVars, orderVars, callVars
<1>3. TypeOK'
  BY <1>2 DEF IInv, TypeOK
<1>4. IndexInv'
  BY <1>1, <1>2 DEF IInv, IndexInv
<1>5. ChainInv' /\ CallInv'
  BY <1>2 DEF IInv, ChainInv, CallInv
<1> QED BY <1>3, <1>4, <1>5 DEF IInv

(* A walk down to a failed block meets no block whose ancestors are valid. *)
LEMMA WalkAvoids ==
    ASSUME NEW p \in Blocks, NEW f \in Ancestors[p], NEW t \in Blocks, f \notin Ancestors[t]
    PROVE  Ancestors[t] \cap (Ancestors[p] \ Ancestors[f]) = {}
<1> SUFFICES ASSUME NEW x \in Ancestors[t], x \in Ancestors[p], x \notin Ancestors[f]
             PROVE  FALSE
  OBVIOUS
<1>1. f \in Ancestors[x]
  BY Linear
<1> QED BY <1>1, AncestorFacts

LEMMA RejectHeaderInv ==
    ASSUME IInv, NEW b \in Blocks \ {Genesis}, RejectHeaderOfFailedBranch(b)
    PROVE  IInv'
<1> DEFINE p == Parent[b]
<1>1. p \in Blocks
  BY ParentFacts
<1>2. PICK f \in FailedAncestors(b) : failedChild' = failedChild \cup (Ancestors[p] \ Ancestors[f])
  BY DEF RejectHeaderOfFailedBranch
<1>3. f \in Ancestors[p] /\ f \in failedValid
  BY <1>2 DEF FailedAncestors, IInv, IndexInv
<1>4. UNCHANGED <<known, processed, haveData, txValid, linked, unlinked, failedValid,
                  failedBlocks, bestInvalid, seq, counters, pc, abc, inv,
                  pending, interrupt, scriptValid, cand, bestHeader, tip, left>>
  BY DEF RejectHeaderOfFailedBranch, dataVars, orderVars, callVars
<1> HIDE DEF p
<1>5. \A t \in Blocks : (\A x \in Ancestors[t] : x \notin failedValid /\ x \notin failedChild)
                       => (\A x \in Ancestors[t] : x \notin failedValid' /\ x \notin failedChild')
  <2> SUFFICES ASSUME NEW t \in Blocks,
                      \A x \in Ancestors[t] : x \notin failedValid /\ x \notin failedChild
               PROVE  \A x \in Ancestors[t] : x \notin failedValid' /\ x \notin failedChild'
    OBVIOUS
  <2>1. Ancestors[t] \cap (Ancestors[p] \ Ancestors[f]) = {}
    BY <1>1, <1>3, WalkAvoids
  <2> QED BY <2>1, <1>2, <1>4
<1>6. TypeOK'
  BY <1>1, <1>2, <1>4, AncestorFacts DEF IInv, TypeOK
<1>7. IndexInv' /\ CallInv'
  BY <1>4 DEF IInv, IndexInv, CallInv
<1>8. ChainInv'
  BY <1>4, <1>5 DEF IInv, ChainInv, TypeOK, AbcType, MaybeBlock
<1> QED BY <1>6, <1>7, <1>8 DEF IInv

(* What ReceivedBlockTransactions links: everything linked before stays    *)
(* so, and the new blocks bring all their ancestors.                       *)
LEMMA LinkFacts ==
    ASSUME IInv, NEW b \in Blocks \ {Genesis}
    PROVE  LET new  == NewlyLinked(b)
               now  == (linked \ {b}) \cup new
           IN  /\ new \subseteq unlinked \cup {b}
               /\ linked \subseteq now
               /\ \A d \in now : Ancestors[d] \subseteq now
<1> DEFINE new == NewlyLinked(b)
           now == (linked \ {b}) \cup new
<1>1. /\ Parent[b] \in Blocks /\ Parent[b] \in Ancestors[b]
      /\ Ancestors[b] = {b} \cup Ancestors[Parent[b]] /\ b \notin Ancestors[Parent[b]]
  BY ParentFacts
<1>2. unlinked \subseteq Blocks /\ linked \subseteq Blocks
  BY DEF IInv, TypeOK
<1>3. \A d \in linked : Ancestors[d] \subseteq linked
  BY DEF IInv, IndexInv
<1>4. CASE Parent[b] \notin linked
  <2>1. new = {}
    BY <1>4 DEF NewlyLinked
  <2>2. b \notin linked
    BY <1>1, <1>3, <1>4
  <2> QED BY <2>1, <2>2, <1>3
<1>5. CASE Parent[b] \in linked
  <2>1. new = {b} \cup {d \in unlinked : b \in Ancestors[d]
                                         /\ Ancestors[d] \ Ancestors[b] \subseteq unlinked}
    BY <1>5 DEF NewlyLinked
  <2>2. now = linked \cup new
    BY <2>1
  <2>3. Ancestors[b] \subseteq now
    BY <1>1, <1>3, <1>5, <2>1
  <2>4. ASSUME NEW d \in new, d # b, NEW x \in Ancestors[d] PROVE x \in now
    <3>1. /\ d \in Blocks /\ b \in Ancestors[d]
          /\ Ancestors[d] \ Ancestors[b] \subseteq unlinked
      BY <2>1, <2>4, <1>2
    <3>2. CASE x \in Ancestors[b]
      BY <3>2, <2>3
    <3>3. CASE x \notin Ancestors[b]
      <4>1. x \in unlinked /\ x \in Blocks
        BY <3>1, <3>3, <1>2, <2>4
      <4>2. b \in Ancestors[x]
        BY <3>1, <3>3, <2>4, Linear
      <4>3. Ancestors[x] \subseteq Ancestors[d]
        BY <3>1, <2>4, AncestorFacts
      <4>4. x \in new
        BY <4>1, <4>2, <4>3, <3>1, <2>1
      <4> QED BY <4>4
    <3> QED BY <3>2, <3>3
  <2> QED BY <1>3, <2>1, <2>2, <2>3, <2>4
<1> QED BY <1>4, <1>5

LEMMA AcceptBlockInv ==
    ASSUME IInv, NEW b \in Blocks \ {Genesis}, NEW r \in BOOLEAN, AcceptBlock(b, r)
    PROVE  IInv'
<1> DEFINE new == NewlyLinked(b)
<1>1. /\ new \subseteq unlinked \cup {b}
      /\ linked \subseteq (linked \ {b}) \cup new
      /\ \A d \in (linked \ {b}) \cup new : Ancestors[d] \subseteq (linked \ {b}) \cup new
  BY LinkFacts
<1>2. \A d \in known' : Ancestors[d] \subseteq known'
  <2>1. known' = known \cup {b}
    BY DEF AcceptBlock
  <2>2. CASE b \in known
    BY <2>1, <2>2 DEF IInv, IndexInv
  <2>3. CASE b \notin known
    <3>1. Parent[b] \in known
      BY <2>3 DEF AcceptBlock, HeaderAcceptable, HeaderConnects
    <3> QED BY <2>1, <3>1, ParentFacts DEF IInv, IndexInv
  <2> QED BY <2>2, <2>3
<1>3. IsFiniteSet(new) /\ Cardinality(new) \in Nat
  <2>1. new \subseteq Blocks /\ IsFiniteSet(Blocks)
    BY <1>1, TreeAssumption DEF IInv, TypeOK
  <2> QED BY <2>1, FS_Subset, FS_CardinalityType
<1>4. /\ known' = known \cup {b} /\ bestHeader' \in {b, bestHeader}
      /\ processed' = processed \cup {b} /\ haveData' = haveData \cup {b}
      /\ txValid' \subseteq txValid \cup {b}
      /\ linked' = (linked \ {b}) \cup new
      /\ cand' \subseteq cand \cup new
      /\ unlinked' \subseteq unlinked \cup {b}
      /\ b \notin BadBody /\ pending' = TRUE
      /\ UNCHANGED <<failedValid, failedChild, failedBlocks, bestInvalid, pc, abc, inv,
                     interrupt, scriptValid, tip, left>>
  BY DEF AcceptBlock, ReceivedBlockTransactions, HeaderAfterAdd, failVars
<1>5. /\ \E f \in QueueOrders(new) :
             seq' = [x \in Blocks |-> IF x \in new THEN counters.next + f[x] - 1 ELSE seq[x]]
      /\ counters' = [counters EXCEPT !.next = @ + Cardinality(new)]
  BY DEF AcceptBlock, ReceivedBlockTransactions
<1> HIDE DEF new
<1>6. counters' \in CountersType
  BY <1>3, <1>5 DEF IInv, TypeOK, CountersType
<1>7. seq' \in [Blocks -> Int]
  <2>1. PICK f \in QueueOrders(new) :
             seq' = [x \in Blocks |-> IF x \in new THEN counters.next + f[x] - 1 ELSE seq[x]]
    BY <1>5
  <2>2. f \in [new -> 1..Cardinality(new)]
    BY DEF QueueOrders
  <2>3. \A x \in new : f[x] \in Int
    BY <1>3, <2>2
  <2>4. counters.next \in Int /\ seq \in [Blocks -> Int]
    BY DEF IInv, TypeOK, CountersType
  <2> QED BY <2>1, <2>3, <2>4
<1>8. TypeOK'
  BY <1>1, <1>4, <1>6, <1>7 DEF IInv, TypeOK
<1>9. IndexInv'
  BY <1>1, <1>2, <1>4 DEF IInv, IndexInv
<1>10. ChainInv'
  BY <1>1, <1>4 DEF IInv, ChainInv
<1>11. CallInv'
  BY <1>4 DEF IInv, CallInv
<1> QED BY <1>8, <1>9, <1>10, <1>11 DEF IInv

LEMMA AcceptBlockInvalidInv ==
    ASSUME IInv, NEW b \in Blocks \ {Genesis}, NEW r \in BOOLEAN, AcceptBlockInvalid(b, r)
    PROVE  IInv'
<1>1. \A d \in known' : Ancestors[d] \subseteq known'
  <2>1. known' = known \cup {b}
    BY DEF AcceptBlockInvalid
  <2>2. CASE b \in known
    BY <2>1, <2>2 DEF IInv, IndexInv
  <2>3. CASE b \notin known
    <3>1. Parent[b] \in known
      BY <2>3 DEF AcceptBlockInvalid, HeaderAcceptable, HeaderConnects
    <3> QED BY <2>1, <3>1, ParentFacts DEF IInv, IndexInv
  <2> QED BY <2>2, <2>3
<1>2. /\ known' = known \cup {b} /\ bestHeader' \in {b, bestHeader}
      /\ failedValid' = failedValid \cup {b} /\ b \in BadBody
      /\ UNCHANGED <<processed, haveData, txValid, linked, unlinked, failedChild,
                     failedBlocks, bestInvalid, seq, counters, pc, abc, inv, pending,
                     interrupt, scriptValid, cand, tip, left>>
  BY DEF AcceptBlockInvalid, HeaderAfterAdd, orderVars, callVars
<1>3. b \notin linked
  BY <1>2 DEF IInv, IndexInv
<1>4. TypeOK'
  BY <1>2 DEF IInv, TypeOK
<1>5. IndexInv'
  BY <1>1, <1>2 DEF IInv, IndexInv
<1>6. ChainInv'
  BY <1>2, <1>3 DEF IInv, ChainInv, IndexInv
<1>7. CallInv'
  BY <1>2 DEF IInv, CallInv
<1> QED BY <1>4, <1>5, <1>6, <1>7 DEF IInv
----------------------------------------------------------------------------
(* InvalidateBlock and the other commands. *)

LEMMA InvalidateBlockInv ==
    ASSUME IInv, NEW b \in Blocks, InvalidateBlock(b)
    PROVE  IInv'
<1>1. /\ pc = "idle" /\ pc' = "invalidate" /\ b \in known \ {Genesis}
      /\ inv'.target = b /\ inv'.toMark = b /\ inv'.cands \subseteq linked
      /\ inv' \in InvType
      /\ left' = [left EXCEPT !["invalidate"] = @ - 1] /\ left["invalidate"] > 0
      /\ UNCHANGED <<known, processed, haveData, txValid, linked, unlinked, failedValid,
                     failedChild, failedBlocks, bestInvalid, seq, counters, abc, pending,
                     interrupt, scriptValid, cand, bestHeader, tip>>
  BY DEF InvalidateBlock, MayCommand, Spend, IInv, TypeOK, InvType, MaybeBlock, dataVars, failVars, orderVars
<1>2. TypeOK'
  <2>0. left \in [Commands -> Nat] /\ "invalidate" \in Commands
    BY DEF IInv, TypeOK, Commands
  <2>1. left' \in [Commands -> Nat]
    <3>1. left["invalidate"] - 1 \in Nat
      BY <1>1, <2>0
    <3> QED BY <1>1, <2>0, <3>1
  <2> QED BY <1>1, <2>1 DEF IInv, TypeOK, Pcs
<1>3. IndexInv'
  BY <1>1 DEF IInv, IndexInv
<1>4. ChainInv' /\ CallInv'
  BY <1>1 DEF IInv, ChainInv, CallInv
<1> QED BY <1>2, <1>3, <1>4 DEF IInv

LEMMA InvalidateStepInv ==
    ASSUME IInv, InvalidateStep
    PROVE  IInv'
<1>1. tip \in Blocks /\ tip # Genesis
  BY AncestorFacts DEF IInv, TypeOK, CallInv, InvalidateStep, Chain
<1>2. /\ Parent[tip] \in Blocks /\ Parent[tip] \in Ancestors[tip]
      /\ Ancestors[tip] = {tip} \cup Ancestors[Parent[tip]]
      /\ tip \notin Ancestors[Parent[tip]]
  BY <1>1, ParentFacts
<1>3. BecomesFailedChild(tip) = {}
  BY <1>2 DEF BecomesFailedChild, IInv, ChainInv
<1>4. /\ tip \in linked /\ Parent[tip] \in linked /\ tip \in known
  BY <1>1, <1>2 DEF IInv, ChainInv, IndexInv
<1>5. /\ pc = "invalidate" /\ tip' = Parent[tip]
      /\ failedValid' = failedValid \cup {tip} /\ failedChild' = failedChild
      /\ cand' \subseteq cand \cup {Parent[tip]} \cup inv.cands
      /\ \E C \in SUBSET inv.cands : inv' = [inv EXCEPT !.toMark = tip, !.cands = C]
      /\ UNCHANGED <<known, processed, haveData, txValid, linked, unlinked,
                     failedBlocks, bestInvalid, seq, counters, pc, abc,
                     pending, interrupt, scriptValid, bestHeader, left>>
  BY <1>3 DEF InvalidateStep, dataVars, orderVars
<1>6. /\ inv' \in InvType /\ inv'.target = inv.target /\ inv'.toMark = tip
      /\ inv'.cands \subseteq inv.cands
  BY <1>1, <1>5 DEF IInv, TypeOK, InvType, MaybeBlock
<1>7. TypeOK'
  BY <1>1, <1>2, <1>5, <1>6 DEF IInv, TypeOK, InvType
<1>8. IndexInv'
  BY <1>4, <1>5, <1>6 DEF IInv, IndexInv
<1>9. abc.mostWork = NoBlock
  BY <1>5 DEF IInv, CallInv
<1>10. ChainInv'
  BY <1>2, <1>5, <1>9 DEF IInv, ChainInv
<1>11. CallInv'
  BY <1>1, <1>4, <1>5, <1>6 DEF IInv, CallInv
<1> QED BY <1>7, <1>8, <1>10, <1>11 DEF IInv

LEMMA InvalidateEndInv ==
    ASSUME IInv, InvalidateStepFails \/ InvalidateLoopDone \/ InvalidateMark
    PROVE  IInv'
<1> USE DEF IInv
<1>1. CASE InvalidateStepFails
  <2>1. TypeOK'
    BY <1>1, NoLocalsType DEF TypeOK, InvalidateStepFails, dataVars, failVars, orderVars, Pcs
  <2>2. IndexInv' /\ ChainInv' /\ CallInv'
    BY <1>1 DEF IndexInv, ChainInv, CallInv, InvalidateStepFails, dataVars, failVars, NoInv
  <2> QED BY <2>1, <2>2
<1>2. CASE InvalidateLoopDone
  <2>1. TypeOK'
    BY <1>2 DEF TypeOK, InvalidateLoopDone, dataVars, failVars, orderVars, Pcs
  <2>2. IndexInv' /\ ChainInv' /\ CallInv'
    BY <1>2 DEF IndexInv, ChainInv, CallInv, InvalidateLoopDone, dataVars, failVars
  <2> QED BY <2>1, <2>2
<1>3. CASE InvalidateMark
  <2> DEFINE m == inv.toMark
  <2>1. m \in Blocks /\ abc.mostWork = NoBlock /\ tip \in Blocks
    BY <1>3 DEF InvalidateMark, CallInv, TypeOK
  <2>2. /\ pc' = "idle" /\ inv' = NoInv /\ pending' = TRUE
        /\ UNCHANGED <<known, processed, haveData, txValid, linked, unlinked, failedChild,
                       seq, counters, abc, interrupt, scriptValid, tip, left>>
    BY <1>3 DEF InvalidateMark, dataVars, orderVars
  <2>3. /\ \/ failedValid' = failedValid /\ failedBlocks' = failedBlocks
           \/ /\ failedValid' = failedValid \cup {m}
              /\ failedBlocks' = failedBlocks \cup {m}
              /\ m \notin Ancestors[tip]
        /\ cand' \subseteq cand \cup linked
    BY <1>3 DEF InvalidateMark, Chain
  <2>4. bestInvalid' \in MaybeBlock /\ bestHeader' \in Blocks
    BY <1>3, <2>1 DEF InvalidateMark, BetterInvalid, HeaderAfterInvalid, TypeOK, MaybeBlock
  <2> HIDE DEF m
  <2>5. TypeOK'
    BY <2>1, <2>2, <2>3, <2>4, NoLocalsType DEF TypeOK, Pcs
  <2>6. IndexInv'
    BY <2>2, <2>3 DEF IndexInv, NoInv
  <2>7. ChainInv'
    BY <2>1, <2>2, <2>3 DEF ChainInv
  <2>8. CallInv'
    BY <2>1, <2>2 DEF CallInv
  <2> QED BY <2>5, <2>6, <2>7, <2>8
<1> QED BY <1>1, <1>2, <1>3

LEMMA ResetInv ==
    ASSUME IInv, NEW b \in Blocks, ResetBlockFailureFlags(b)
    PROVE  IInv'
<1> DEFINE reset == {d \in Descendants(b) : ~IsValidTx(d)}
           clear == reset \cup Ancestors[b]
<1>1. /\ failedValid' = failedValid \ clear /\ failedChild' = failedChild \ clear
      /\ failedBlocks' = StillTracked(b, reset)
      /\ bestInvalid' \in {NoBlock, bestInvalid}
      /\ cand' \subseteq cand \cup linked /\ pending' = TRUE
      /\ left' = [left EXCEPT !["reconsider"] = @ - 1] /\ left["reconsider"] > 0
      /\ UNCHANGED <<known, processed, haveData, txValid, linked, unlinked, seq, counters,
                     pc, abc, inv, interrupt, scriptValid, bestHeader, tip>>
  BY DEF ResetBlockFailureFlags, MayCommand, Spend, dataVars, orderVars
<1>2. failedBlocks' \subseteq failedValid'
  BY <1>1 DEF StillTracked, Failed, IInv, IndexInv
<1>3. failedBlocks' \subseteq failedBlocks
  BY <1>1 DEF StillTracked
<1> HIDE DEF reset, clear
<1>4. TypeOK'
  BY <1>1, <1>3 DEF IInv, TypeOK, MaybeBlock, Commands
<1>5. IndexInv'
  BY <1>1, <1>2 DEF IInv, IndexInv
<1>6. ChainInv'
  BY <1>1 DEF IInv, ChainInv
<1>7. CallInv'
  BY <1>1 DEF IInv, CallInv
<1> QED BY <1>4, <1>5, <1>6, <1>7 DEF IInv

LEMMA PreciousInv ==
    ASSUME IInv, NEW b \in Blocks, PreciousBlock(b)
    PROVE  IInv'
<1>1. /\ cand' \subseteq cand \cup linked /\ pending' = TRUE
      /\ left' = [left EXCEPT !["precious"] = @ - 1] /\ left["precious"] > 0
      /\ UNCHANGED <<known, processed, haveData, txValid, linked, unlinked, failedValid,
                     failedChild, failedBlocks, bestInvalid,
                     pc, abc, inv, interrupt, scriptValid, bestHeader, tip>>
  BY DEF PreciousBlock, MayCommand, Spend, PruneBlockIndexCandidates, dataVars, failVars
<1>2. counters.reverse \in Int /\ ChainWork[tip] \in Int /\ ReverseIds \in Int
  BY TreeAssumption, ParameterAssumption DEF IInv, TypeOK, CountersType
<1>3. seq' \in [Blocks -> Int] /\ counters' \in CountersType
  <2> DEFINE reverse == IF ChainWork[tip] > counters.lastPrecious THEN -1 ELSE counters.reverse
             after   == IF reverse > -ReverseIds THEN reverse - 1 ELSE reverse
  <2>1. reverse \in Int
    BY <1>2
  <2>2. /\ seq' = [seq EXCEPT ![b] = reverse]
        /\ counters' = [counters EXCEPT !.reverse = after, !.lastPrecious = ChainWork[tip]]
    BY DEF PreciousBlock
  <2> HIDE DEF reverse
  <2>3. after \in Int
    BY <1>2, <2>1
  <2> HIDE DEF after
  <2>4. seq' \in [Blocks -> Int]
    BY <2>1, <2>2 DEF IInv, TypeOK
  <2>5. counters' \in CountersType
    BY <1>2, <2>2, <2>3 DEF IInv, TypeOK, CountersType
  <2> QED BY <2>4, <2>5
<1>4. TypeOK'
  BY <1>1, <1>3 DEF IInv, TypeOK, Commands
<1>5. IndexInv' /\ ChainInv' /\ CallInv'
  BY <1>1 DEF IInv, IndexInv, ChainInv, CallInv
<1> QED BY <1>4, <1>5 DEF IInv

LEMMA PruneInv ==
    ASSUME IInv, NEW b \in Blocks, PruneBlockFile(b)
    PROVE  IInv'
<1>1. /\ haveData' \subseteq haveData /\ unlinked' \subseteq unlinked
      /\ left' = [left EXCEPT !["prune"] = @ - 1] /\ left["prune"] > 0
      /\ UNCHANGED <<known, processed, txValid, linked, failedValid,
                     failedChild, failedBlocks, bestInvalid, seq, counters,
                     pc, abc, inv, pending, interrupt, scriptValid, cand, bestHeader, tip>>
  BY DEF PruneBlockFile, MayCommand, Spend, failVars, orderVars, callVars
<1>2. TypeOK'
  BY <1>1 DEF IInv, TypeOK, Commands
<1>3. IndexInv' /\ ChainInv' /\ CallInv'
  BY <1>1 DEF IInv, IndexInv, ChainInv, CallInv
<1> QED BY <1>2, <1>3 DEF IInv

LEMMA InterruptInv ==
    ASSUME IInv, Interrupt
    PROVE  IInv'
<1>1. /\ interrupt' = TRUE
      /\ left' = [left EXCEPT !["restart"] = @ - 1] /\ left["restart"] > 0
      /\ UNCHANGED <<known, processed, haveData, txValid, linked, unlinked, failedValid,
                     failedChild, failedBlocks, bestInvalid, seq, counters,
                     pc, abc, inv, pending, scriptValid, cand, bestHeader, tip>>
  BY DEF Interrupt, MayCommand, Spend, dataVars, failVars, orderVars
<1>2. TypeOK'
  BY <1>1 DEF IInv, TypeOK, Commands
<1>3. IndexInv' /\ ChainInv' /\ CallInv'
  BY <1>1 DEF IInv, IndexInv, ChainInv, CallInv
<1> QED BY <1>2, <1>3 DEF IInv

LEMMA RestartInv ==
    ASSUME IInv, Restart
    PROVE  IInv'
<1> DEFINE failedNow == {b \in known : Ancestors[b] \cap Failed # {}}
           linkedNow == {b \in known : Ancestors[b] \subseteq processed}
<1>1. /\ failedChild' = failedChild \cup (failedNow \ Failed) /\ failedBlocks' = {}
      /\ linked' = linkedNow /\ unlinked' \subseteq processed
      /\ cand' \subseteq linkedNow
      /\ interrupt' = FALSE /\ pending' = TRUE /\ pc' = "idle" /\ abc' = NoAbc
      /\ UNCHANGED <<known, processed, haveData, txValid, failedValid, scriptValid,
                     inv, tip, left>>
  BY DEF Restart, PruneBlockIndexCandidates, LoadedCandidates
<1>2. bestInvalid' \in MaybeBlock /\ bestHeader' \in Blocks
  BY DEF Restart, IInv, TypeOK, MaybeBlock
<1>3. seq' \in [Blocks -> Int] /\ counters' \in CountersType
  <2>1. /\ seq' = [b \in Blocks |-> 0]
        /\ counters' = [next |-> 1, reverse |-> -1, lastPrecious |-> 0]
    BY Zenon DEF Restart
  <2> QED BY <2>1 DEF CountersType
<1>4. inv = NoInv
  BY DEF Restart, IInv, CallInv
<1>5. \A b \in linkedNow : b \in processed /\ Ancestors[b] \subseteq linkedNow
  BY AncestorFacts DEF IInv, TypeOK, IndexInv
<1>6. \A b \in Ancestors[tip] : b \in linkedNow /\ b \notin failedNow
  <2> SUFFICES ASSUME NEW b \in Ancestors[tip] PROVE b \in linkedNow /\ b \notin failedNow
    OBVIOUS
  <2>1. Ancestors[b] \subseteq Ancestors[tip]
    BY AncestorFacts DEF IInv, TypeOK
  <2>2. b \in known /\ Ancestors[b] \subseteq processed
    BY <2>1 DEF IInv, ChainInv, IndexInv
  <2>3. Ancestors[b] \cap Failed = {}
    BY <2>1 DEF IInv, ChainInv, Failed
  <2> QED BY <2>2, <2>3
<1>7. failedNow \subseteq Blocks /\ linkedNow \subseteq Blocks
  BY DEF IInv, TypeOK
<1> HIDE DEF failedNow, linkedNow
<1>8. TypeOK'
  BY <1>1, <1>2, <1>3, <1>4, <1>7, NoLocalsType DEF IInv, TypeOK, Pcs
<1>9. IndexInv'
  BY <1>1, <1>4, <1>5 DEF IInv, IndexInv, NoInv
<1>10. ChainInv'
  BY <1>1, <1>6 DEF IInv, ChainInv, NoAbc
<1>11. CallInv'
  BY <1>1, <1>4 DEF CallInv, NoAbc
<1> QED BY <1>8, <1>9, <1>10, <1>11 DEF IInv
----------------------------------------------------------------------------
LEMMA StepInv == IInv /\ [Next]_vars => IInv'
<1> SUFFICES ASSUME IInv, [Next]_vars PROVE IInv'
  OBVIOUS
<1>1. CASE ActivateBestChain
  BY <1>1, MoveInv
<1>2. CASE ActivationStep
  BY <1>2, MoveInv, FindInv, DropInv, EnterStepInv, DisconnectTipInv, DisconnectDoneInv,
     ConnectTipInv, ConnectTipInvalidInv DEF ActivationStep
<1>3. CASE InvalidationStep
  BY <1>3, InvalidateStepInv, InvalidateEndInv DEF InvalidationStep
<1>4. CASE Arrival
  BY <1>4, HeaderInv, RejectHeaderInv, AcceptBlockInv, AcceptBlockInvalidInv DEF Arrival
<1>5. CASE Command
  BY <1>5, InvalidateBlockInv, ResetInv, PreciousInv, PruneInv, InterruptInv, RestartInv
     DEF Command
<1>6. CASE UNCHANGED vars
  BY <1>6 DEF IInv, TypeOK, IndexInv, ChainInv, CallInv, vars, dataVars, failVars, orderVars,
     callVars
<1> QED BY <1>1, <1>2, <1>3, <1>4, <1>5, <1>6 DEF Next

LEMMA Inductive == Spec => []IInv
BY InitInv, StepInv, PTL DEF Spec

(* Type correctness of the block index and of the locals of the two long   *)
(* calls, for every block tree.                                            *)
THEOREM TypeCorrect == Spec => []TypeOK
<1>1. IInv => TypeOK
  BY DEF IInv
<1> QED BY <1>1, Inductive, PTL

(* In every block tree and every interleaving of arrivals, commands,       *)
(* pruning and restarts with ActivateBestChain and InvalidateBlock, no     *)
(* block of m_chain is marked failed and each one passed ConnectBlock.     *)
THEOREM ActiveChainAlwaysValid == Spec => []ActiveChainValid
<1>1. IInv => ActiveChainValid
  BY DEF IInv, ChainInv, ActiveChainValid, Chain, Failed
<1> QED BY <1>1, Inductive, PTL

(* The assertion of AcceptBlockHeader on m_failed_blocks never fires.      *)
THEOREM FailedBlocksAssertionHolds == Spec => []FailedBlocksStillFailed
<1>1. IInv => FailedBlocksStillFailed
  BY DEF IInv, IndexInv, FailedBlocksStillFailed
<1> QED BY <1>1, Inductive, PTL
============================================================================

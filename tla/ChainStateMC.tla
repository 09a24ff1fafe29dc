--------------------------- MODULE ChainStateMC ---------------------------
(* Small block trees for ChainState, given by their parent links.          *)
EXTENDS ChainState, TLC

AncestorsIn(parent) ==
    LET anc[b \in DOMAIN parent] ==
            {b} \cup (IF parent[b] = "none" THEN {} ELSE anc[parent[b]])
    IN  anc

(* Two branches, of which the first forks again: a2 and c2 above a1.     *)
MCParent == "g" :> "none" @@ "a1" :> "g" @@ "a2" :> "a1" @@ "c2" :> "a1"
            @@ "b1" :> "g" @@ "b2" :> "b1"
MCBlocks == DOMAIN MCParent
MCAncestors == AncestorsIn(MCParent)
MCHeight == [b \in MCBlocks |-> Cardinality(MCAncestors[b]) - 1]

(* Every block adds one unit of work. *)
MCWork == [b \in MCBlocks |-> Cardinality(MCAncestors[b])]

(* Two blocks of equal work are told apart by their place in memory. *)
MCAddr == "g" :> 1 @@ "a1" :> 6 @@ "a2" :> 3 @@ "b1" :> 2 @@ "b2" :> 4 @@ "c2" :> 7

Give(f) == [c \in Commands |-> IF c \in DOMAIN f THEN f[c] ELSE 0]
NoCommand == [c \in Commands |-> 0]
MCBudgets == {NoCommand,
              Give("prune" :> 1),
              Give("invalidate" :> 1 @@ "reconsider" :> 1),
              Give("precious" :> 1),
              Give("invalidate" :> 1 @@ "restart" :> 1),
              Give("invalidate" :> 1 @@ "prune" :> 1)}

(* The commands the operator gives in a behaviour are chosen at its start. *)
VARIABLE budget
MCInit == Init /\ budget = left
MCNext == Next /\ UNCHANGED budget
Quiet == budget = NoCommand
MCSpec == /\ MCInit /\ [][MCNext]_<<vars, budget>>
          /\ WF_vars(Quiet /\ ActivationStep)
          /\ WF_vars(Quiet /\ ActivateBestChain /\ pending)

(* CheckBlockIndex and what ActivateBestChain leaves: while blocks arrive  *)
(* and no command is given, no block that could replace the tip is missing *)
(* from setBlockIndexCandidates, what is chosen is connected onto the tip, *)
(* a block is linked once all its ancestors were processed, and a failed   *)
(* one has its cause below it; while blocks arrive and are pruned,         *)
(* m_blocks_unlinked is exact; and as long as nothing is pruned no         *)
(* candidate is worse than the tip, and no usable block beats the tip once *)
(* no call of ActivateBestChain is running or due.                         *)
IndexHolds ==
    /\ Quiet => /\ CandidatesComplete /\ ConnectsOntoTip
                /\ LinkedIffAncestorsProcessed /\ FailureHasCause
    /\ (\A c \in Commands \ {"prune"} : budget[c] = 0) => UnlinkedExact
    /\ budget["prune"] = 0 => SettledTipIsBest /\ CandidatesNotWorse

(* A usable block better than the tip does not stay passed over. *)
BetterBlockGetsActive == Quiet /\ PassedOver ~> ~PassedOver
===========================================================================

---------------------------- MODULE UtxoStateMC -----------------------------
(* A small block tree for UtxoState.  Transaction t spends the coinbase of *)
(* r on both branches, at different heights, and is spent inside b2; block *)
(* x spends a coin a second time; block y repeats the coinbase of r.       *)
EXTENDS UtxoState, TLC

MCBlocks == {"g", "r", "a1", "a2", "b1", "b2", "x", "y"}
MCParent == "g" :> NoBlock @@ "r" :> "g" @@ "a1" :> "r" @@ "a2" :> "a1"
            @@ "b1" :> "r" @@ "b2" :> "b1" @@ "x" :> "a1" @@ "y" :> "a1"
MCHeight == "g" :> 0 @@ "r" :> 1 @@ "a1" :> 2 @@ "a2" :> 3
            @@ "b1" :> 2 @@ "b2" :> 3 @@ "x" :> 3 @@ "y" :> 3

MCAncestors ==
    LET anc[b \in MCBlocks] == {b} \cup IF b = "g" THEN {} ELSE anc[MCParent[b]]
    IN  anc

MCOutpoints == {"r0", "t", "u"}

Coinbase(outs) == [vin |-> {}, vout |-> outs, coinbase |-> TRUE]
Pays(ins, outs) == [vin |-> ins, vout |-> outs, coinbase |-> FALSE]

MCTxs == "g"  :> << >>
      @@ "r"  :> <<Coinbase({"r0"})>>
      @@ "a1" :> <<Coinbase({}), Pays({"r0"}, {"t"})>>
      @@ "a2" :> <<Coinbase({}), Pays({"t"}, {"u"})>>
      @@ "b1" :> <<Coinbase({})>>
      @@ "b2" :> <<Coinbase({}), Pays({"r0"}, {"t"}), Pays({"t"}, {})>>
      @@ "x"  :> <<Coinbase({}), Pays({"r0"}, {"u"})>>
      @@ "y"  :> <<Coinbase({"r0", "t"})>>

(* The coins, whatever is interrupted: the tip shows the coins of its      *)
(* chain, a database that names a best block holds the coins of it, the    *)
(* blocks a replay needs are there, and no exception or assertion of the   *)
(* coins code is reached (the four properties of module UtxoState).        *)
CoinsSurvive ==
    /\ TipShowsUtxo /\ DbMatchesBestUnlessLost
    /\ RecoveryNeverFails /\ NoLogicError
=============================================================================

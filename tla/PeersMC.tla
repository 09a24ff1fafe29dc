------------------------------ MODULE PeersMC ------------------------------
(***************************************************************************)
(* Two conversations with peers, each on a small instance: the headers     *)
(* synchronisation, and a session from its handshake on.  A behaviour is   *)
(* one of them.                                                            *)
(***************************************************************************)
EXTENDS HeadersSync, PeerSession

(* A chain of five headers, four of which are enough work, and a branch    *)
(* that never gets there; two outbound peers, one of them honest.          *)
CONSTANTS o, u, g, h1, h2, h3, h4, h5, x2, x3
MCParent == (h1 :> g) @@ (h2 :> h1) @@ (h3 :> h2) @@ (h4 :> h3) @@ (h5 :> h4) @@ (x2 :> h1) @@ (x3 :> x2)
MCBit == (h1 :> 1) @@ (h2 :> 1) @@ (h3 :> 0) @@ (h4 :> 1) @@ (h5 :> 0) @@ (x2 :> 0) @@ (x3 :> 1)

(* A connection of every kind between two nodes, or a node and a stranger. *)
Everything == [bloom |-> TRUE, blocksonly |-> FALSE, recon |-> TRUE]
BlocksOnly == [bloom |-> FALSE, blocksonly |-> TRUE, recon |-> TRUE]
Plain == [bloom |-> FALSE, blocksonly |-> FALSE, recon |-> FALSE]
Pair(a, b) == A :> a @@ B :> b
MCScenarios ==
    [conf : {Pair(Everything, Everything)}, conn : {"full"}, stranger : {Nobody}, ibd : {{}}, work : {0}]
    \cup [conf : {Pair(Everything, Everything), Pair(Everything, BlocksOnly), Pair(BlocksOnly, Everything), Pair(Plain, Everything)},
          conn : {"full"}, stranger : {Nobody}, ibd : {{B}}, work : {1}]
    \cup [conf : {Pair(Everything, Everything)}, conn : {"blockonly", "feeler", "addrfetch"},
          stranger : {Nobody}, ibd : {{}}, work : {0}]
    \cup [conf : {Pair(Everything, Everything), Pair(BlocksOnly, BlocksOnly)},
          conn : {"full", "blockonly", "addrfetch", "manual"}, stranger : {A, B}, ibd : {{}}, work : {1}]
MCStrange ==
    {[type |-> "version", v |-> v, serves |-> s, relay |-> s, self |-> FALSE] : v \in {1, 9}, s \in BOOLEAN}
    \cup {[type |-> "version", v |-> 9, serves |-> TRUE, relay |-> TRUE, self |-> TRUE]}
    \cup {[type |-> t] : t \in {"verack", "wtxidrelay", "sendtxrcncl", "mempool", "filterclear"}}
    \cup {[type |-> "inv", wtxid |-> w, txs |-> Txs] : w \in BOOLEAN}
    \cup {[type |-> "pong", nonce |-> 0],
          [type |-> "filterload", ok |-> TRUE], [type |-> "filteradd", ok |-> TRUE], [type |-> "filteradd", ok |-> FALSE],
          [type |-> "addr", v2 |-> FALSE, addrs |-> Addrs],
          [type |-> "addr", v2 |-> FALSE, addrs |-> Addrs \cup {Nobody}]}  \* one too many

VARIABLE part

MCSession == CHOOSE s \in Scenarios : TRUE

(* A resting session is one that has not begun. *)
MCInit ==
    /\ Init
    /\ \/ part = "session" /\ PsInit
       \/ /\ part = "headers" /\ conf = MCSession.conf /\ conn = MCSession.conn /\ stranger = MCSession.stranger
          /\ ibd = [n \in Nodes |-> FALSE] /\ work = 0
          /\ end = [n \in Nodes |-> NewEnd] /\ wire = [n \in Nodes |-> <<>>]
          /\ pool = [n \in Nodes |-> {}] /\ strange = 0

MCNext ==
    \/ part = "headers" /\ Next /\ UNCHANGED <<part, psVars>>
    \/ part = "session" /\ PsNext /\ UNCHANGED <<part, vars>>

(* Fairness, for the behaviours of the headers synchronisation. *)
MCFairness ==
    /\ \A p \in Peers :
         /\ WF_vars(part = "headers" /\ FinalizeNode(p))
         /\ WF_vars(part = "headers" /\ MaybeDiscourageAndDisconnect(p))
         /\ WF_vars(part = "headers" /\ HeadersTimeOut(p))
         /\ p \in Preferred => SF_vars(part = "headers" /\ StartSync(p))
         /\ p \in Honest => /\ WF_vars(part = "headers" /\ Answer(p))
                            /\ WF_vars(part = "headers" /\ InitializeNode(p))

MCSpec == MCInit /\ [][MCNext]_<<part, vars, psVars>> /\ MCFairness

(* HandshakeAgrees and BlockRelayOnlyQuiet: two nodes of this code always  *)
(* agree on what they negotiated, and a block-relay-only connection stays  *)
(* one, whatever a stranger at the other end sends.  The counts of peers   *)
(* synced from, preferred and protected are those of the connections that  *)
(* are there (CountersExact).                                              *)
SessionSound == HandshakeAgrees /\ BlockRelayOnlyQuiet /\ CountersExact

(* HeadersSynced, of the headers synchronisation. *)
MCHeadersSynced == part = "headers" => HeadersSynced
=============================================================================

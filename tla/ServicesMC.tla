----------------------------- MODULE ServicesMC -----------------------------
(***************************************************************************)
(* The parts around the node's core, each on a small instance: the         *)
(* transports of a connection, the address manager, the ban list and the   *)
(* peers file, the HTTP server, the REST handlers, and what happens at the *)
(* start: the scan of the block files, the check of the block database,    *)
(* the options.  They do not interact: a behaviour is one of them.         *)
(***************************************************************************)
EXTENDS Transport, PeerStore, Http, Startup, TLC

(* Ends with every pair of transports, keys that look like the version 1   *)
(* prefix, garbage of every length and decoys, one of another network, and *)
(* queues so short that the two ends fill all of them.                     *)
Conf == [v2 |-> TRUE, net |-> "main", lucky |-> FALSE, garbage |-> 0, decoys |-> 0, script |-> 2,
         sendMax |-> 1, recvMax |-> 1, answers |-> 1]
V1 == [Conf EXCEPT !.v2 = FALSE]
Short == [V1 EXCEPT !.script = 1, !.sendMax = 0, !.recvMax = 0, !.answers = 2]
MCEnds ==
    { [A |-> Short, B |-> Short],
      [A |-> V1, B |-> [V1 EXCEPT !.script = 1]],
      [A |-> [V1 EXCEPT !.script = 1], B |-> [Conf EXCEPT !.script = 1]],
      [A |-> [V1 EXCEPT !.net = "test", !.script = 0], B |-> Conf],
      [A |-> [Conf EXCEPT !.garbage = 1, !.script = 1], B |-> V1],
      [A |-> [Conf EXCEPT !.lucky = TRUE, !.garbage = 1, !.script = 1], B |-> [Conf EXCEPT !.decoys = 1, !.script = 1]],
      [A |-> [Conf EXCEPT !.decoys = 1, !.script = 1], B |-> [Conf EXCEPT !.garbage = 1, !.script = 0]] }

(* Three addresses of two networks, two of which share a tried slot, three *)
(* sources and three new buckets; the second address map moves everything. *)
MCNetOf == "a" :> "ipv4" @@ "b" :> "ipv4" @@ "c" :> "onion"
MCNewBucket ==
    << "a" :> ("s" :> 1 @@ "t" :> 2) @@ "b" :> ("s" :> 1 @@ "t" :> 2) @@ "c" :> ("s" :> 1 @@ "t" :> 1),
       "a" :> ("s" :> 2 @@ "t" :> 2) @@ "b" :> ("s" :> 2 @@ "t" :> 1) @@ "c" :> ("s" :> 2 @@ "t" :> 1) >>
MCNewPos == "a" :> <<1, 2>> @@ "b" :> <<1, 1>> @@ "c" :> <<1, 1>>
MCTriedSlot ==
    << "a" :> <<1, 1>> @@ "b" :> <<1, 1>> @@ "c" :> <<2, 1>>, "a" :> <<1, 1>> @@ "b" :> <<2, 1>> @@ "c" :> <<2, 1>> >>
MCStarts ==
    { [now |-> 1, last |-> 1, calls |-> <<>>],
      [now |-> 1, last |-> 1, calls |-> <<<<"add", "a", "s", 1>>, <<"good", "a", "s", 1>>, <<"add", "b", "s", 1>>, <<"good", "b", "s", 1>>>>],
      [now |-> 1, last |-> 1, calls |-> <<<<"add", "b", "s", 1>>, <<"good", "b", "s", 1>>, <<"add", "a", "s", 0>>, <<"add", "a", "t", 1>>,
                                          <<"add", "c", "t", 1>>>>] }

\* Two requests on one connection, one on another, one nobody handles.
MCConnOf == "r1" :> "c1" @@ "r2" :> "c1" @@ "r3" :> "c2" @@ "r4" :> "c3"
MCPathOf == "r1" :> "rpc" @@ "r2" :> "rpc" @@ "r3" :> "rpc" @@ "r4" :> "other"

(* The REST handlers: a chain of three blocks with a branch that overtakes *)
(* it.                                                                     *)
MCTree == "g" :> "g" @@ "a" :> "g" @@ "b" :> "a" @@ "x" :> "g" @@ "y" :> "x" @@ "z" :> "y"
MCSpends == "g" :> "g" @@ "a" :> "a" @@ "b" :> "a" @@ "x" :> "x" @@ "y" :> "y" @@ "z" :> "g"

Q == [end |-> "headers", warmup |-> FALSE, fmt |-> "bin", parts |-> 2, count |-> 2, hash |-> "a",
      index |-> TRUE, uri |-> << >>, body |-> FALSE, bodyOuts |-> << >>, checkmempool |-> FALSE,
      verbose |-> FALSE, sequence |-> FALSE]
MCQueries ==
    {[Q EXCEPT !.end = e, !.count = n, !.hash = h] :
         e \in {"headers", "filterheaders"}, n \in {0, 1, 2, 3}, h \in {"g", "a", "y", "none", "junk"}}
    \cup {[Q EXCEPT !.end = "headers", !.warmup = TRUE], [Q EXCEPT !.end = "headers", !.parts = 3],
          [Q EXCEPT !.fmt = "xml"], [Q EXCEPT !.end = "filterheaders", !.index = FALSE]}
    \cup {[Q EXCEPT !.end = "block", !.hash = h, !.fmt = f] : h \in {"a", "none", "junk"}, f \in {"json", "dat"}}
    \cup {[Q EXCEPT !.end = "blockfilter", !.hash = h, !.parts = n] : h \in {"a", "y", "none", "junk"}, n \in {1, 2}}
    \cup {[Q EXCEPT !.end = "blockhash", !.count = n] : n \in {-1, 0, 1, 3}}
    \cup {[Q EXCEPT !.end = "getutxos", !.uri = u, !.body = b, !.fmt = f, !.checkmempool = m, !.bodyOuts = <<"g">>] :
             u \in {<< >>, <<"g">>, <<"a", "x">>, <<"g", "a", "b">>, <<"parse error">>}, b \in BOOLEAN,
             f \in {"bin", "hex", "json", ""}, m \in BOOLEAN}
    \cup {[Q EXCEPT !.end = e, !.fmt = f, !.hash = h, !.verbose = v, !.sequence = s] :
             e \in {"chaininfo", "deploymentinfo", "mempool"}, f \in {"json", "bin"},
             h \in {"", "a", "contents", "info"}, v \in BOOLEAN, s \in BOOLEAN}

(* The start. *)
\* A chain g-a-b-c with a branch d on a, and e on the bad block x.
MCParent == "g" :> "g" @@ "a" :> "g" @@ "b" :> "a" @@ "c" :> "b" @@ "d" :> "a"
            @@ "x" :> "g" @@ "e" :> "x"
MCBad == {"x"}

W(b) == [block |-> b, whole |-> TRUE]
T(b) == [block |-> b, whole |-> FALSE]
Junk == [block |-> "junk", whole |-> FALSE]

\* In order; backwards over two files; doubled and torn; a torn copy first and
\* a whole one behind; a missing parent; children before their bad parent.
MCLayouts == {
    <<<<W("g"), W("a"), W("b"), W("c")>>, <<W("d"), Junk>>>>,
    <<<<W("g"), W("c"), W("b")>>, <<W("d"), Junk, W("a")>>>>,
    <<<<W("g"), T("b"), W("c"), W("b"), T("b")>>, <<T("a"), W("a"), W("a")>>>>,
    <<<<W("c"), T("c"), W("d"), W("g")>>, <<W("b"), W("a"), W("c")>>>>,
    <<<<W("g"), W("c"), W("d")>>, <<W("b"), T("a"), W("e"), W("x")>>>>,
    <<<<W("e"), W("g"), W("x"), W("e")>>, <<W("b"), W("b"), W("a"), T("d")>>>> }

\* At most two faulty blocks of a chain of four.
MCKinds == {"none", "nodata", "unread", "invalid", "badundo", "unclean", "failed", "unconnectable"}
MCFaults == {f \in [1 .. VHeight -> MCKinds] : Cardinality({h \in 1 .. VHeight : f[h] # "none"}) <= 2}

VARIABLE part

(* A part that rests. *)
TransportRest ==
    LET c == CHOOSE c \in Ends : TRUE IN
    /\ tend = [x \in {"A", "B"} |-> NewEnd(x, c[x])]
    /\ tchan = [x \in {"A", "B"} |-> <<>>] /\ tsent = [x \in {"A", "B"} |-> <<>>]
AddrManRest == am = Empty /\ anow = 1 /\ aops = 0
RestRest ==
    /\ wtip = WGenesis /\ wpruned = {} /\ wpool = {} /\ wconnected = {WGenesis}
    /\ wsynced = FALSE /\ wfiltered = {WGenesis} /\ wbest = WGenesis /\ wqueue = << >>
    /\ wreq = Ask(Q) /\ wtips = {WGenesis} /\ wmoves = 0
ReindexRest ==
    /\ rfiles = << >> /\ rmode = "" /\ rat = <<1, 1>> /\ runknown = {} /\ rqueue = << >>
    /\ rindex = << >> /\ rsaved = << >> /\ rup = "" /\ rstops = 0
VerifyRest ==
    /\ vfault = << >> /\ vlevel = 0 /\ vdepth = 0 /\ vskips = FALSE /\ vmem = 0
    /\ vat = 0 /\ vcoins = 0 /\ vflags = {} /\ vres = ""
OptionsRest ==
    /\ ogiven = << >> /\ oset = << >> /\ ostep = "" /\ oreach = {} /\ oproxy = {}

MCInit ==
    \/ /\ part = "transport" /\ TpInit
       /\ AddrManRest /\ BmInit /\ HttpInit /\ RestRest /\ ReindexRest /\ VerifyRest /\ OptionsRest
    \/ /\ part = "addrman" /\ AmInit
       /\ TransportRest /\ BmInit /\ HttpInit /\ RestRest /\ ReindexRest /\ VerifyRest /\ OptionsRest
    \/ /\ part = "banman" /\ BmInit
       /\ TransportRest /\ AddrManRest /\ HttpInit /\ RestRest /\ ReindexRest /\ VerifyRest /\ OptionsRest
    \/ /\ part = "http" /\ HttpInit
       /\ TransportRest /\ AddrManRest /\ BmInit /\ RestRest /\ ReindexRest /\ VerifyRest /\ OptionsRest
    \/ /\ part = "rest" /\ RestInit
       /\ TransportRest /\ AddrManRest /\ BmInit /\ HttpInit /\ ReindexRest /\ VerifyRest /\ OptionsRest
    \/ /\ part = "reindex" /\ ReindexInit
       /\ TransportRest /\ AddrManRest /\ BmInit /\ HttpInit /\ RestRest /\ VerifyRest /\ OptionsRest
    \/ /\ part = "verify" /\ VerifyInit
       /\ TransportRest /\ AddrManRest /\ BmInit /\ HttpInit /\ RestRest /\ ReindexRest /\ OptionsRest
    \/ /\ part = "options" /\ OptionsInit
       /\ TransportRest /\ AddrManRest /\ BmInit /\ HttpInit /\ RestRest /\ ReindexRest /\ VerifyRest

MCNext ==
    \/ /\ part = "transport" /\ TpNext
       /\ UNCHANGED <<part, amVars, bmVars, httpVars, restVars, reindexVars, verifyVars, optionVars>>
    \/ /\ part = "addrman" /\ AmNext
       /\ UNCHANGED <<part, tpVars, bmVars, httpVars, restVars, reindexVars, verifyVars, optionVars>>
    \/ /\ part = "banman" /\ BmNext
       /\ UNCHANGED <<part, tpVars, amVars, httpVars, restVars, reindexVars, verifyVars, optionVars>>
    \/ /\ part = "http" /\ HttpNext
       /\ UNCHANGED <<part, tpVars, amVars, bmVars, restVars, reindexVars, verifyVars, optionVars>>
    \/ /\ part = "rest" /\ RestNext
       /\ UNCHANGED <<part, tpVars, amVars, bmVars, httpVars, reindexVars, verifyVars, optionVars>>
    \/ /\ part = "reindex" /\ ReindexNext
       /\ UNCHANGED <<part, tpVars, amVars, bmVars, httpVars, restVars, verifyVars, optionVars>>
    \/ /\ part = "verify" /\ VerifyNext
       /\ UNCHANGED <<part, tpVars, amVars, bmVars, httpVars, restVars, reindexVars, optionVars>>
    \/ /\ part = "options" /\ OptionsNext
       /\ UNCHANGED <<part, tpVars, amVars, bmVars, httpVars, restVars, reindexVars, verifyVars>>

MCVars == <<part, tpVars, amVars, bmVars, httpVars, restVars, reindexVars, verifyVars, optionVars>>

(* The fairness of TpSpec and HttpFair, each for the behaviours of its own *)
(* part.                                                                   *)
MCFairness ==
    /\ \A x \in {"A", "B"} : /\ WF_tpVars(part = "transport" /\ SocketThread(x))
                             /\ WF_tpVars(part = "transport" /\ MessageThread(x))
    /\ WF_httpVars(part = "http" /\ InterruptQueue) /\ WF_httpVars(part = "http" /\ StopHTTPRPC)
    /\ WF_httpVars(part = "http" /\ JoinWorkers) /\ WF_httpVars(part = "http" /\ WaitUntilEmpty)
    /\ WF_httpVars(part = "http" /\ PostFree) /\ WF_httpVars(part = "http" /\ JoinLoop)
    /\ WF_httpVars(part = "http" /\ LoopStep)
    /\ \A w \in HWorkers : WF_httpVars(part = "http" /\ Worker(w))
    /\ \A c \in Conns : WF_httpVars(part = "http" /\ TimedOut(c))

MCSpec == MCInit /\ [][MCNext]_MCVars /\ MCFairness

(* A finished -reindex knows exactly the blocks that are there with all    *)
(* their ancestors (LoadExternalBlockFile); the verdict of VerifyDB        *)
(* promises no more than was looked at; the user's options are kept, a     *)
(* proxied node stays private, and -onlynet holds (InitParameterInter-     *)
(* action and what AppInitMain makes of it).                               *)
StartSound ==
    /\ part = "reindex" => ReindexComplete
    /\ part = "verify" => VerdictExact
    /\ part = "options" => OptionsHonoured /\ RestrictionKept


(* Messages are processed in the order in which they were pushed           *)
(* (DeliveredInOrder), and two ends never give up a connection over the    *)
(* transport that both could speak (TransportsAgree).                      *)
MessagesSound == DeliveredInOrder /\ TransportsAgree

(* A request taken is answered once (AnsweredOnce), the tracker that       *)
(* StopHTTPServer waits for counts exactly the open ones (TrackerExact),   *)
(* and an answer of the REST interface describes one chain that was active *)
(* meanwhile (AnswerOfOneChain).                                           *)
RequestsAnswered == AnsweredOnce /\ TrackerExact /\ AnswerOfOneChain

(* Every message of a connection is processed in the end, unless both ends *)
(* fill all queues (EverythingDelivered), and StopHTTPServer returns       *)
(* (StopCompletes).                                                        *)
ServicesProgress == (part = "transport" => EverythingDelivered) /\ StopCompletes
=============================================================================

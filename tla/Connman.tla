------------------------------ MODULE Connman ------------------------------
(***************************************************************************)
(* CConnman (net.cpp): the life of a connection.  The threads of the       *)
(* connection manager are "net" (ThreadSocketHandler), "msg"               *)
(* (ThreadMessageHandler), "open" (ThreadOpenConnections), "add"           *)
(* (ThreadOpenAddedConnections), "dns" (ThreadDNSAddressSeed), "i2p"       *)
(* (ThreadI2PAcceptIncoming) and "rpc", a caller of AddConnection.  A step *)
(* is one critical section of m_nodes_mutex or one blocking call.          *)
(*                                                                         *)
(* A node is in m_nodes, then in m_nodes_disconnected, then deleted; a     *)
(* thread that works on a copy of m_nodes counts a reference on each node  *)
(* of it.  A connection that the node opens by itself holds a grant of     *)
(* semOutbound or semAddnode, which moves from the thread to the node and, *)
(* when the connection is tried again with the older transport, to         *)
(* m_reconnections.                                                        *)
(***************************************************************************)
EXTENDS Integers, Sequences, FiniteSets, SequencesExt, FiniteSetsExt

CONSTANTS
    None,
    Group,       \* the network group of each address; None in Tor, I2P and CJDNS
    MaxNodes,    \* bound on the connections made
    Scenarios    \* the threads, limits and inputs of a behaviour

VARIABLES
    cnode,  \* the CNode objects
    cm,     \* the members of CConnman
    cth,    \* the threads
    cenv    \* what is left of the inputs, and the thread that stops the node

vars == <<cnode, cm, cth, cenv>>

Addrs == DOMAIN Group
Ids == 1..MaxNodes
Threads == {"net", "msg", "open", "add", "dns", "i2p", "rpc"}
Net(a) == IF Group[a] = None THEN "onion" ELSE "ip"

Unused == [at |-> "unused", type |-> "inbound", addr |-> None, auto |-> FALSE, noban |-> FALSE, disc |-> FALSE, ok |-> FALSE,
           refs |-> 0, grant |-> "none", v2 |-> "no", peer |-> FALSE]
Thread(pc) == [pc |-> pc, snap |-> {}, left |-> {}, grant |-> "none", job |-> None, node |-> 0, groups |-> {},
               list |-> {}, pend |-> <<>>]

\* Start: the semaphores are full and the threads are at the head of their loops.
Init ==
    \E s \in Scenarios :
        /\ cnode = [n \in Ids |-> Unused]
        /\ cm = [nodes |-> {}, gone |-> {}, out |-> s.max.full + s.max.block + s.max.feeler, add |-> s.max.add,
                 max |-> s.max,
                 active |-> TRUE, interrupt |-> FALSE, interruptMsg |-> FALSE, try |-> FALSE,
                 counts |-> [w \in {"ip", "onion"} |-> 0], retry |-> <<>>, fetch |-> <<>>, anchors |-> s.anchors,
                 added |-> s.added, banned |-> {}, discouraged |-> s.discouraged]
        /\ cth = [t \in Threads |-> Thread(CASE t \notin s.threads -> "done"
                                             [] t = "open" /\ s.connect # {} -> "connect"
                                             [] t = "add" -> "grant"
                                             [] OTHER -> "loop")]
        /\ cenv = [main |-> "run", incoming |-> s.incoming, commands |-> s.commands, seeds |-> s.seeds,
                   connect |-> s.connect, v2 |-> s.v2, asked |-> s.asked, known |-> s.known, last |-> s.last]

MaxAutomatic == cm.max.full + cm.max.block + cm.max.feeler
At(t, pc) == cth[t].pc = pc
Goto(t, pc) == cth' = [cth EXCEPT ![t].pc = pc]
Exit(t) == cth' = [cth EXCEPT ![t] = Thread("done")]
Full(n) == cnode[n].type = "full"
Manual(n) == cnode[n].type = "manual"
Inbound(n) == cnode[n].type = "inbound"
InNodes(P(_)) == Cardinality({n \in cm.nodes : P(n)})
\* FindNode by IP address, by IP and port, and by name: the port of an incoming connection is not the one it listens on.
HasIP(a) == \E n \in cm.nodes : cnode[n].addr = a
FindNode(a) == \E n \in cm.nodes : cnode[n].addr = a /\ ~Inbound(n)

\* CSemaphore: a grant that is destroyed posts.
Posted(grants) == [cm EXCEPT !.out = @ + Len(SelectSeq(grants, LAMBDA g : g = "out")),
                             !.add = @ + Len(SelectSeq(grants, LAMBDA g : g = "add"))]

Snapshot(t, pc) ==
    /\ cnode' = [n \in Ids |-> IF n \in cm.nodes THEN [cnode[n] EXCEPT !.refs = @ + 1] ELSE cnode[n]]
    /\ cth' = [cth EXCEPT ![t].pc = pc, ![t].snap = cm.nodes, ![t].left = cm.nodes]
    /\ UNCHANGED <<cm, cenv>>
Released(t) == [n \in Ids |-> IF n \in cth[t].snap THEN [cnode[n] EXCEPT !.refs = @ - 1] ELSE cnode[n]]

(***************************************************************************)
(* OpenNetworkConnection, by any thread: the checks, the connection        *)
(* attempt of ConnectNode, and the new node's entry into m_nodes.          *)
(***************************************************************************)
Job(a, type, grant, named, auto, v2, ret) ==
    [addr |-> a, type |-> type, grant |-> grant, named |-> named, auto |-> auto, v2 |-> v2, ret |-> ret]
Opens(t, job) == [cth EXCEPT ![t].pc = "check", ![t].job = job, ![t].grant = "none", ![t].groups = {}]
\* The call returns without a node; only ThreadOpenAddedConnections still holds its grant then.
Fails(t) ==
    LET job == cth[t].job IN
    /\ cth' = [cth EXCEPT ![t].pc = job.ret, ![t].job = None, ![t].grant = IF t = "add" /\ job.ret = "after" THEN job.grant ELSE "none"]
    /\ cm' = IF t = "add" /\ job.ret = "after" THEN cm ELSE Posted(<<job.grant>>)
    /\ UNCHANGED <<cnode, cenv>>
Refused(job) ==
    \/ cm.interrupt \/ ~cm.active
    \/ IF job.named THEN FindNode(job.addr)
       ELSE job.addr \in cm.banned \cup cm.discouraged \/ HasIP(job.addr)
OpenNetworkConnection(t) ==
    /\ At(t, "check")
    /\ IF Refused(cth[t].job) THEN Fails(t) ELSE Goto(t, "connect2") /\ UNCHANGED <<cnode, cm, cenv>>
NewNode(fields) == cnode' = [cnode EXCEPT ![cenv.last + 1] = fields]
ConnectNode(t) ==
    /\ At(t, "connect2")
    /\ \/ Fails(t)
       \/ LET job == cth[t].job IN
          /\ ~FindNode(job.addr) /\ cenv.last < MaxNodes
          /\ NewNode([Unused EXCEPT !.at = "new", !.type = job.type, !.addr = job.addr, !.auto = job.auto, !.refs = 1,
                                    !.grant = job.grant, !.v2 = IF job.v2 THEN "try" ELSE "no", !.peer = TRUE])
          /\ cth' = [cth EXCEPT ![t].pc = "push", ![t].node = cenv.last + 1, ![t].job.grant = "none"]
          /\ cenv' = [cenv EXCEPT !.last = @ + 1]
          /\ UNCHANGED cm
Counted(n) == Manual(n) \/ Full(n)
PushNode(t) ==
    LET n == cth[t].node IN
    /\ At(t, "push")
    /\ cm' = [cm EXCEPT !.nodes = @ \cup {n}, !.counts[Net(cnode[n].addr)] = @ + IF Counted(n) THEN 1 ELSE 0]
    /\ cnode' = [cnode EXCEPT ![n].at = "open"]
    /\ cth' = [cth EXCEPT ![t].pc = cth[t].job.ret, ![t].node = 0, ![t].job = None]
    /\ UNCHANGED cenv
Connecting(t) == OpenNetworkConnection(t) \/ ConnectNode(t) \/ PushNode(t)

\* PerformReconnections: one entry, or none left.
PerformReconnections(t, next) ==
    /\ At(t, "reconnect")
    /\ IF cm.retry = <<>> THEN Goto(t, next) /\ UNCHANGED <<cnode, cm, cenv>>
       ELSE LET r == Head(cm.retry) IN
            /\ cm' = [cm EXCEPT !.retry = Tail(@)]
            /\ cth' = Opens(t, Job(r.addr, r.type, r.grant, r.named, FALSE, FALSE, "reconnect"))
            /\ UNCHANGED <<cnode, cenv>>

(***************************************************************************)
(* ThreadSocketHandler                                                     *)
(***************************************************************************)
\* V2Transport::ShouldReconnectV1: an outgoing handshake that got no answer.
ShouldReconnectV1(n) == cnode[n].v2 = "try" /\ ~Inbound(n)
Retry(n) == [addr |-> cnode[n].addr, grant |-> cnode[n].grant, type |-> cnode[n].type, named |-> Manual(n)]
\* DisconnectNodes, under m_nodes_mutex: the nodes to drop leave m_nodes, and their grants are released or kept to reconnect.
DisconnectNodes ==
    /\ At("net", "loop") /\ ~cm.interrupt
    /\ LET out   == IF cm.active THEN {n \in cm.nodes : cnode[n].disc} ELSE cm.nodes
           again == {n \in out : ShouldReconnectV1(n)}
           free  == SetToSortSeq(out \ again, <)
       IN  /\ cm' = [Posted([i \in DOMAIN free |-> cnode[free[i]].grant]) EXCEPT
                        !.nodes = @ \ out, !.gone = @ \cup out,
                        !.counts = [w \in DOMAIN @ |-> @[w] - Cardinality({n \in out : Counted(n) /\ Net(cnode[n].addr) = w})]]
           /\ cnode' = [n \in Ids |-> IF n \in out THEN [cnode[n] EXCEPT !.at = "gone", !.disc = TRUE, !.refs = @ - 1, !.grant = "none"]
                                                   ELSE cnode[n]]
           /\ cth' = [cth EXCEPT !["net"].pc = "delete", !["net"].pend = LET s == SetToSortSeq(again, <) IN [i \in DOMAIN s |-> Retry(s[i])]]
    /\ UNCHANGED cenv
\* DisconnectNodes: the nodes nobody refers to are deleted, and the reconnections are queued.
DeleteNodes ==
    /\ At("net", "delete")
    /\ LET dead == {n \in cm.gone : cnode[n].refs <= 0}
       IN  /\ cm' = [cm EXCEPT !.gone = @ \ dead, !.retry = @ \o cth["net"].pend]
           /\ cnode' = [n \in Ids |-> IF n \in dead THEN [cnode[n] EXCEPT !.at = "deleted", !.peer = FALSE] ELSE cnode[n]]
    /\ cth' = [cth EXCEPT !["net"].pc = "snap", !["net"].pend = <<>>]
    /\ UNCHANGED cenv
SocketSnapshot == At("net", "snap") /\ Snapshot("net", "service")
\* SocketHandlerConnected, one node: bytes move, or the connection is found to be closed, broken or inactive.
SocketHandlerConnected ==
    /\ At("net", "service") /\ ~cm.interrupt
    /\ \E n \in cth["net"].left :
        /\ \/ UNCHANGED cnode
           \/ cnode[n].v2 = "try" /\ ~cnode[n].disc /\ cnode' = [cnode EXCEPT ![n].v2 = "yes"]
           \/ cnode' = [cnode EXCEPT ![n].disc = TRUE]
        /\ cth' = [cth EXCEPT !["net"].left = @ \ {n}]
    /\ UNCHANGED <<cm, cenv>>
SocketHandlerEnd ==
    /\ At("net", "service") /\ (cm.interrupt \/ cth["net"].left = {})
    /\ cnode' = Released("net")
    /\ cth' = [cth EXCEPT !["net"].pc = "listen", !["net"].snap = {}, !["net"].left = {}]
    /\ UNCHANGED <<cm, cenv>>

(***************************************************************************)
(* AcceptConnection and CreateNodeFromAcceptedSocket, by the socket        *)
(* handler or the I2P thread.                                              *)
(***************************************************************************)
Rejects(t) == cth' = [cth EXCEPT ![t] = Thread("loop")] /\ UNCHANGED <<cnode, cm>>
CreateNodeFromAcceptedSocket(t) ==
    /\ At(t, "accept")
    /\ cenv' = cenv
    /\ LET c == cth[t].job
           nInbound == InNodes(Inbound)
       IN  IF \/ ~cm.active
              \/ ~c.noban /\ c.addr \in cm.banned
              \/ ~c.noban /\ c.addr \in cm.discouraged /\ nInbound + 1 >= cm.max.inbound
           THEN Rejects(t)
           ELSE Goto(t, IF nInbound >= cm.max.inbound THEN "evict" ELSE "create") /\ UNCHANGED <<cnode, cm>>
Backlog(t) == {c \in cenv.incoming : c.via = t}
\* SocketHandlerListening: a connection waits in the backlog, or not.
SocketHandlerListening ==
    /\ At("net", "listen")
    /\ \/ (cm.interrupt \/ Backlog("net") = {}) /\ Goto("net", "loop") /\ UNCHANGED cenv
       \/ /\ ~cm.interrupt
          /\ \E c \in Backlog("net") :
                /\ cth' = [cth EXCEPT !["net"].pc = "accept", !["net"].job = c]
                /\ cenv' = [cenv EXCEPT !.incoming = @ \ {c}]
    /\ UNCHANGED <<cnode, cm>>
ThreadI2PAcceptIncoming ==
    /\ At("i2p", "loop")
    /\ IF cm.interrupt THEN Exit("i2p") /\ UNCHANGED cenv
       ELSE \E c \in Backlog("i2p") :
                /\ cth' = [cth EXCEPT !["i2p"].pc = "accept", !["i2p"].job = c]
                /\ cenv' = [cenv EXCEPT !.incoming = @ \ {c}]
    /\ UNCHANGED <<cnode, cm>>
\* AttemptToEvictConnection: the candidates are copied under the lock, one is chosen without it.
EvictionCandidates == {n \in cm.nodes : ~cnode[n].disc}
\* SelectNodeToEvict protects every other kind of connection and, by its criteria, possibly each of these.
SelectNodeToEvict(candidates) == {n \in candidates : Inbound(n) /\ ~cnode[n].noban}
AttemptToEvictConnection(t) ==
    /\ At(t, "evict")
    /\ \/ Rejects(t)
       \/ \E n \in SelectNodeToEvict(EvictionCandidates) : cth' = [cth EXCEPT ![t].pc = "mark", ![t].node = n] /\ UNCHANGED <<cnode, cm>>
    /\ UNCHANGED cenv
MarkEvicted(t) ==
    /\ At(t, "mark")
    /\ LET n == cth[t].node IN
       IF n \in cm.nodes THEN /\ cnode' = [cnode EXCEPT ![n].disc = TRUE]
                              /\ cth' = [cth EXCEPT ![t].pc = "create", ![t].node = 0]
       ELSE /\ cth' = [cth EXCEPT ![t] = Thread("loop")]
            /\ UNCHANGED cnode
    /\ UNCHANGED <<cm, cenv>>
CreateInbound(t) ==
    /\ At(t, "create")
    /\ IF cenv.last < MaxNodes
       THEN /\ NewNode([Unused EXCEPT !.at = "new", !.addr = cth[t].job.addr, !.noban = cth[t].job.noban, !.refs = 1, !.peer = TRUE])
            /\ cth' = [cth EXCEPT ![t].pc = "push", ![t].node = cenv.last + 1, ![t].job = [ret |-> "loop"]]
            /\ cenv' = [cenv EXCEPT !.last = @ + 1]
       ELSE cth' = [cth EXCEPT ![t] = Thread("loop")] /\ UNCHANGED <<cnode, cenv>>
    /\ UNCHANGED cm
Accepting(t) ==
    CreateNodeFromAcceptedSocket(t) \/ AttemptToEvictConnection(t) \/ MarkEvicted(t) \/ CreateInbound(t) \/ PushNode(t)

NetEnds == At("net", "loop") /\ cm.interrupt /\ Exit("net") /\ UNCHANGED <<cnode, cm, cenv>>
ThreadSocketHandler ==
    \/ DisconnectNodes \/ DeleteNodes \/ SocketSnapshot \/ SocketHandlerConnected \/ SocketHandlerEnd
    \/ SocketHandlerListening \/ Accepting("net") \/ NetEnds

(***************************************************************************)
(* ThreadMessageHandler: over a copy of m_nodes, the nodes that are not to *)
(* be disconnected are served.                                             *)
(***************************************************************************)
MessageSnapshot ==
    /\ At("msg", "loop")
    /\ IF cm.interruptMsg THEN Exit("msg") /\ UNCHANGED <<cnode, cm, cenv>> ELSE Snapshot("msg", "process")
\* ProcessMessages and SendMessages may complete the handshake, which ends a feeler, or give up the peer.
ProcessMessages ==
    /\ At("msg", "process") /\ ~cm.interruptMsg
    /\ \E n \in cth["msg"].left :
        /\ \/ UNCHANGED cnode
           \/ ~cnode[n].disc /\ cnode[n].v2 # "try" /\ ~cnode[n].ok
              /\ cnode' = [cnode EXCEPT ![n].ok = TRUE, ![n].disc = @ \/ cnode[n].type \in {"feeler", "fetch"}]
           \/ ~cnode[n].disc /\ cnode' = [cnode EXCEPT ![n].disc = TRUE]
        /\ cth' = [cth EXCEPT !["msg"].left = @ \ {n}]
    /\ UNCHANGED <<cm, cenv>>
\* Mutant: the early return forgets the references.
MessagesEnd_Leak ==
    /\ At("msg", "process") /\ (cm.interruptMsg \/ cth["msg"].left = {})
    /\ cnode' = cnode
    /\ cth' = [cth EXCEPT !["msg"] = Thread(IF cm.interruptMsg THEN "done" ELSE "loop")]
    /\ UNCHANGED <<cm, cenv>>
MessagesEnd ==
    /\ At("msg", "process") /\ (cm.interruptMsg \/ cth["msg"].left = {})
    /\ cnode' = Released("msg")
    /\ cth' = [cth EXCEPT !["msg"] = Thread(IF cm.interruptMsg THEN "done" ELSE "loop")]
    /\ UNCHANGED <<cm, cenv>>
ThreadMessageHandler == MessageSnapshot \/ ProcessMessages \/ MessagesEnd

(***************************************************************************)
(* ThreadOpenConnections                                                   *)
(***************************************************************************)
\* ProcessAddrFetch, with a grant if one is free at once.
ProcessAddrFetch ==
    /\ At("open", "loop")
    /\ IF cm.interrupt THEN Exit("open") /\ UNCHANGED cm
       ELSE IF cm.fetch = <<>> THEN Goto("open", "sleep") /\ UNCHANGED cm
       ELSE IF cm.out < 1 THEN Goto("open", "sleep") /\ cm' = [cm EXCEPT !.fetch = Tail(@)]
       ELSE /\ cth' = Opens("open", Job(Head(cm.fetch), "fetch", "out", TRUE, FALSE, cenv.v2, "sleep"))
            /\ cm' = [cm EXCEPT !.fetch = Tail(@), !.out = @ - 1]
    /\ UNCHANGED <<cnode, cenv>>
\* interruptNet.sleep_for returns false once the node stops.
Sleeps(t, pc, next) == At(t, pc) /\ UNCHANGED <<cnode, cm, cenv>> /\ IF cm.interrupt THEN Exit(t) ELSE Goto(t, next)
WaitOutbound ==
    /\ At("open", "wait") /\ cm.out >= 1
    /\ cm' = [cm EXCEPT !.out = @ - 1]
    /\ cth' = [cth EXCEPT !["open"].pc = "count", !["open"].grant = "out"]
    /\ UNCHANGED <<cnode, cenv>>
\* The scope of the grant ends: the thread goes back to the head of its loop, or returns.
GivesUp(end) ==
    /\ cm' = Posted(<<cth["open"].grant>>)
    /\ cth' = [cth EXCEPT !["open"] = Thread(IF end THEN "done" ELSE "loop")]
\* What kind of connection is wanted; timers decide among the last ones.
Wanted ==
    LET nFull  == InNodes(Full)
        nBlock == InNodes(LAMBDA n : cnode[n].type = "block")
    IN  CASE cm.anchors # <<>> /\ nBlock < cm.max.block -> {"anchor"}
          [] nFull < cm.max.full -> {"full"}
          [] nBlock < cm.max.block -> {"block"}
          [] cm.try -> {"full"}
          [] OTHER -> {"block", "feeler", "none"} \cup IF nFull = cm.max.full /\ \E w \in DOMAIN cm.counts : cm.counts[w] = 0
                                                      THEN {"network"} ELSE {}
Groups == {Group[cnode[n].addr] : n \in {m \in cm.nodes : cnode[m].type \in {"manual", "full", "block"}}} \ {None}
ChooseType ==
    /\ At("open", "count")
    /\ IF cm.interrupt THEN GivesUp(TRUE)
       ELSE \E w \in Wanted :
            IF w = "none" THEN GivesUp(FALSE)
            ELSE /\ cth' = [cth EXCEPT !["open"].pc = "pick", !["open"].job = w, !["open"].groups = Groups,
                                       !["open"].list = {v \in DOMAIN cm.counts : w # "network" \/ cm.counts[v] = 0}]
                 /\ UNCHANGED cm
    /\ UNCHANGED <<cnode, cenv>>
ConnType(w) == CASE w = "anchor" -> "block" [] w = "network" -> "full" [] OTHER -> w
\* The anchors in turn, then whatever the address manager selects.
PickAnchor ==
    /\ At("open", "pick") /\ cth["open"].job = "anchor" /\ cm.anchors # <<>> /\ ~cm.interrupt
    /\ LET a == Last(cm.anchors) IN
       cth' = IF Group[a] \in cth["open"].groups THEN cth
              ELSE [Opens("open", Job(a, "block", "out", FALSE, TRUE, cenv.v2, "loop")) EXCEPT !["open"].list = {}]
    /\ cm' = [cm EXCEPT !.anchors = Front(@)]
    /\ UNCHANGED <<cnode, cenv>>
GroupAllowed(w, a) == w = "feeler" \/ Group[a] \notin cth["open"].groups
PickAddress ==
    /\ At("open", "pick") /\ (cm.interrupt \/ cth["open"].job # "anchor" \/ cm.anchors = <<>>)
    /\ \/ GivesUp(FALSE)
       \/ \E a \in cenv.known \ cm.added :
            /\ ~cm.interrupt /\ GroupAllowed(cth["open"].job, a) /\ Net(a) \in cth["open"].list
            /\ cth' = [Opens("open", Job(a, ConnType(cth["open"].job), "out", FALSE, TRUE, cenv.v2, "loop")) EXCEPT !["open"].list = {}]
            /\ UNCHANGED cm
    /\ UNCHANGED <<cnode, cenv>>
\* With -connect: the given addresses in turn, without grants.
ConnectOnly ==
    \/ /\ At("open", "connect")
       /\ cth' = [cth EXCEPT !["open"].pc = "each", !["open"].list = cenv.connect]
       /\ UNCHANGED <<cnode, cm, cenv>>
    \/ /\ At("open", "each")
       /\ IF cth["open"].list = {} THEN Goto("open", "rest")
          ELSE \E a \in cth["open"].list :
               cth' = [Opens("open", Job(a, "manual", "none", TRUE, FALSE, cenv.v2, "pause")) EXCEPT !["open"].list = @ \ {a}]
       /\ UNCHANGED <<cnode, cm, cenv>>
    \/ Sleeps("open", "pause", "each")
    \/ Sleeps("open", "rest", "reconnect")
ThreadOpenConnections ==
    \/ ProcessAddrFetch \/ Sleeps("open", "sleep", "reconnect")
    \/ PerformReconnections("open", IF cenv.connect = {} THEN "wait" ELSE "connect")
    \/ WaitOutbound \/ ChooseType \/ PickAnchor \/ PickAddress \/ ConnectOnly \/ Connecting("open")

(***************************************************************************)
(* ThreadOpenAddedConnections                                              *)
(***************************************************************************)
WaitAddnode ==
    /\ At("add", "grant") /\ cm.add >= 1
    /\ cm' = [cm EXCEPT !.add = @ - 1]
    /\ cth' = [cth EXCEPT !["add"].pc = "info", !["add"].grant = "add"]
    /\ UNCHANGED <<cnode, cenv>>
\* GetAddedNodeInfo: the added nodes that are not connected.
GetAddedNodeInfo ==
    /\ At("add", "info")
    /\ cth' = [cth EXCEPT !["add"].pc = "next", !["add"].list = {a \in cm.added : ~FindNode(a)}]
    /\ UNCHANGED <<cnode, cm, cenv>>
OpenAdded ==
    /\ At("add", "next")
    /\ IF cth["add"].list = {} \/ cth["add"].grant = "none" THEN Goto("add", "reconnect")
       ELSE \E a \in cth["add"].list :
            cth' = [Opens("add", Job(a, "manual", cth["add"].grant, TRUE, FALSE, cenv.v2, "after")) EXCEPT !["add"].list = @ \ {a}]
    /\ UNCHANGED <<cnode, cm, cenv>>
\* A further grant is tried for before the one still held, if any, is released.
NextGrant ==
    /\ At("add", "after")
    /\ LET held == Posted(<<cth["add"].grant>>)
           got  == cm.add >= 1
       IN  IF cm.interrupt THEN cm' = held /\ Exit("add")
           ELSE /\ cm' = [held EXCEPT !.add = @ - IF got THEN 1 ELSE 0]
                /\ cth' = [cth EXCEPT !["add"].pc = "next", !["add"].grant = IF got THEN "add" ELSE "none"]
    /\ UNCHANGED <<cnode, cenv>>
AddedRound ==
    /\ At("add", "end")
    /\ cm' = Posted(<<cth["add"].grant>>)
    /\ cth' = [cth EXCEPT !["add"] = Thread(IF cm.interrupt THEN "done" ELSE "grant")]
    /\ UNCHANGED <<cnode, cenv>>
ThreadOpenAddedConnections ==
    WaitAddnode \/ GetAddedNodeInfo \/ OpenAdded \/ NextGrant \/ PerformReconnections("add", "end") \/ AddedRound \/ Connecting("add")

(***************************************************************************)
(* ThreadDNSAddressSeed: a seed that cannot be resolved is fetched from.   *)
(***************************************************************************)
ThreadDNSAddressSeed ==
    /\ At("dns", "loop")
    /\ LET relevant == InNodes(LAMBDA n : cnode[n].ok /\ Full(n)) IN
       \/ (cm.interrupt \/ cenv.seeds = {} \/ relevant >= 2) /\ Exit("dns") /\ UNCHANGED <<cm, cenv>>
       \/ /\ ~cm.interrupt /\ cm.active
          /\ \E a \in cenv.seeds :
                /\ cenv' = [cenv EXCEPT !.seeds = @ \ {a}]
                /\ cm' = [cm EXCEPT !.fetch = Append(@, a)]
                /\ UNCHANGED cth
    /\ UNCHANGED cnode

(***************************************************************************)
(* AddConnection, and the other commands of the operator and of the        *)
(* message processing that act on connections.                             *)
(***************************************************************************)
Limit(type) == CASE type = "full" -> cm.max.full [] type = "block" -> cm.max.block [] OTHER -> MaxNodes
AddConnection ==
    /\ At("rpc", "loop") /\ cenv.asked # {}
    /\ \E r \in cenv.asked :
        /\ cenv' = [cenv EXCEPT !.asked = @ \ {r}]
        /\ IF InNodes(LAMBDA n : cnode[n].type = r.type) >= Limit(r.type) \/ cm.out < 1 THEN UNCHANGED <<cm, cth>>
           ELSE /\ cm' = [cm EXCEPT !.out = @ - 1]
                /\ cth' = Opens("rpc", Job(r.addr, r.type, "out", TRUE, FALSE, cenv.v2, "loop"))
    /\ UNCHANGED cnode
RpcEnds == At("rpc", "loop") /\ (cm.interrupt \/ cenv.asked = {}) /\ Exit("rpc") /\ UNCHANGED <<cnode, cm, cenv>>
Command(c) == c \in cenv.commands /\ cenv.main = "run" /\ cenv' = [cenv EXCEPT !.commands = @ \ {c}] /\ UNCHANGED cth
SetNetworkActive ==
    \/ Command("off") /\ cm' = [cm EXCEPT !.active = FALSE] /\ UNCHANGED cnode
    \/ Command("on") /\ cm' = [cm EXCEPT !.active = TRUE] /\ UNCHANGED cnode
DisconnectNode ==
    Command("disconnect") /\ \E n \in cm.nodes : cnode' = [cnode EXCEPT ![n].disc = TRUE] /\ UNCHANGED cm
SetTryNewOutboundPeer == Command("try") /\ cm' = [cm EXCEPT !.try = TRUE] /\ UNCHANGED cnode
AddNode == \E a \in Addrs \ cm.added : Command("addnode") /\ cm' = [cm EXCEPT !.added = @ \cup {a}] /\ UNCHANGED cnode
RemoveAddedNode == \E a \in cm.added : Command("remove") /\ cm' = [cm EXCEPT !.added = @ \ {a}] /\ UNCHANGED cnode
Commands == SetNetworkActive \/ DisconnectNode \/ SetTryNewOutboundPeer \/ AddNode \/ RemoveAddedNode

(***************************************************************************)
(* Interrupt, StopThreads and StopNodes.                                   *)
(***************************************************************************)
Interrupt ==
    /\ cenv.main = "run"
    /\ cm' = [cm EXCEPT !.interruptMsg = TRUE, !.interrupt = TRUE]
    /\ cenv' = [cenv EXCEPT !.main = "post"]
    /\ UNCHANGED <<cnode, cth>>
InterruptPosts ==
    /\ cenv.main = "post"
    /\ cm' = [cm EXCEPT !.out = @ + MaxAutomatic, !.add = @ + cm.max.add]
    /\ cenv' = [cenv EXCEPT !.main = "join"]
    /\ UNCHANGED <<cnode, cth>>
StopNodes ==
    /\ cenv.main = "join" /\ \A t \in Threads : At(t, "done")
    /\ cnode' = [n \in Ids |-> IF n \in cm.nodes \cup cm.gone THEN [cnode[n] EXCEPT !.at = "deleted", !.peer = FALSE, !.grant = "none"]
                               ELSE cnode[n]]
    /\ LET s == SetToSortSeq(cm.nodes \cup cm.gone, <) IN
       cm' = [Posted([i \in DOMAIN s |-> cnode[s[i]].grant]) EXCEPT !.nodes = {}, !.gone = {}]
    /\ cenv' = [cenv EXCEPT !.main = "stopped"]
    /\ UNCHANGED cth
Stopping == InterruptPosts \/ StopNodes
Stopped == cenv.main = "stopped" /\ UNCHANGED vars

Next ==
    \/ ThreadSocketHandler \/ ThreadMessageHandler \/ ThreadOpenConnections \/ ThreadOpenAddedConnections
    \/ ThreadDNSAddressSeed \/ ThreadI2PAcceptIncoming \/ Accepting("i2p") \/ AddConnection \/ Connecting("rpc") \/ RpcEnds
    \/ Commands \/ Interrupt \/ Stopping \/ Stopped

\* Every thread runs, and once the node is told to stop the main thread does.
Fairness ==
    /\ WF_vars(ThreadSocketHandler) /\ WF_vars(ThreadMessageHandler)
    /\ WF_vars(ThreadOpenConnections) /\ WF_vars(ThreadOpenAddedConnections)
    /\ WF_vars(ThreadDNSAddressSeed) /\ WF_vars(ThreadI2PAcceptIncoming \/ Accepting("i2p"))
    /\ WF_vars(AddConnection \/ Connecting("rpc") \/ RpcEnds) /\ WF_vars(Stopping)

Spec == Init /\ [][Next]_vars /\ Fairness

(***************************************************************************)
(* Properties                                                              *)
(***************************************************************************)
\* DisconnectNodes deletes a node only after every thread has stopped using it, and nothing in m_nodes is unknown to the
\* message processing: a node in a thread's copy of m_nodes, or about to enter m_nodes, is not deleted.
NodeLifetime ==
    /\ \A t \in Threads : \A n \in cth[t].snap \cup (IF At(t, "push") THEN {cth[t].node} ELSE {}) : cnode[n].at # "deleted"
    /\ \A n \in cm.nodes : cnode[n].peer
    /\ \A n \in Ids : cnode[n].refs >= 0

\* Every outgoing slot is free or held by exactly one of a thread, a connection and a queued reconnection, so that the
\* automatic connections never exceed their number, until Interrupt adds slots to wake the threads.
Slots(g, limit, free) ==
    LET held == Cardinality({n \in Ids : cnode[n].grant = g})
                + Cardinality({t \in Threads : cth[t].grant = g \/ (cth[t].pc \in {"check", "connect2"} /\ cth[t].job.grant = g)})
                + Len(SelectSeq(cm.retry \o cth["net"].pend, LAMBDA r : r.grant = g))
    IN  free + held = limit
SlotsConserved == cenv.main \in {"run", "post"} => Slots("out", MaxAutomatic, cm.out) /\ Slots("add", cm.max.add, cm.add)

\* With one accepting thread the incoming connections that are kept never exceed m_max_inbound: a full node accepts a
\* connection only after it marked another one, not already on its way out, for disconnection.
InboundBound ==
    Cardinality({n \in Ids : cnode[n].at \in {"new", "open"} /\ Inbound(n) /\ ~cnode[n].disc}) <= cm.max.inbound

\* ThreadOpenConnections connects to one peer per network group: two connections it chose itself, neither of them a
\* reconnection, are not in the same group.
OneChoicePerGroup ==
    \A m, n \in cm.nodes :
        (m # n /\ cnode[m].auto /\ cnode[n].auto /\ {cnode[m].type, cnode[n].type} \subseteq {"full", "block"}
            /\ Group[cnode[m].addr] # None) => Group[cnode[m].addr] # Group[cnode[n].addr]

\* A connection marked for disconnection is deleted, however many threads worked on it.
DroppedIsDeleted == \A n \in Ids : (cnode[n].at = "open" /\ cnode[n].disc) ~> (cnode[n].at = "deleted")

\* Interrupt wakes every thread, wherever it waits, and Stop returns with every connection deleted.
StopCompletes == (cenv.main = "post") ~> (cenv.main = "stopped" /\ \A n \in Ids : cnode[n].at \in {"unused", "deleted"})

=============================================================================

------------------------------- MODULE Http --------------------------------
(***************************************************************************)
(* Requests over HTTP: the server that takes and answers them, and the     *)
(* handlers of the REST interface.                                         *)
(***************************************************************************)
EXTENDS Integers, Sequences, FiniteSets

----------------------------------------------------------------------------
(***************************************************************************)
(* The HTTP server (httpserver.cpp): the event loop thread takes requests  *)
(* and sends replies, workers run the handlers from a bounded queue, the   *)
(* tracker counts the requests open on each connection, and the main       *)
(* thread takes the server down while requests are on their way.  libevent *)
(* is external: it calls the loop thread back for requests, completed      *)
(* replies and closed connections, one request per connection at a time.   *)
(***************************************************************************)

CONSTANTS
    Requests, HWorkers,
    ConnOf,      \* the connection a request comes in on
    PathOf,      \* "rpc", or a path no handler is registered for, or "denied"
    HDepth       \* -rpcworkqueue

Conns == {ConnOf[r] : r \in Requests}

VARIABLES
    hstage,    \* the main thread
    hgencb,    \* the callback for requests: "request" or "reject"
    hrunning, hqueue,       \* WorkQueue
    hwork,     \* worker -> its request, "idle" or "exited"
    hloop,     \* the callback the loop thread is in: [at, req]
    hreq,      \* request -> where it is
    htracker,  \* connection -> requests open (m_tracker)
    hopen,     \* the open connections
    hevents,   \* the active events of the base: replies, and "free"
    hlistening, hhandlers

httpVars == <<hstage, hgencb, hrunning, hqueue, hwork, hloop, hreq, htracker, hopen, hevents,
              hlistening, hhandlers>>

Idle == [at |-> "idle", req |-> "none"]

HttpInit ==
    /\ hstage = "up" /\ hgencb = "request" /\ hrunning = TRUE /\ hqueue = << >>
    /\ hwork = [w \in HWorkers |-> "idle"] /\ hloop = Idle
    /\ hreq = [r \in Requests |-> "new"] /\ htracker = [c \in Conns |-> 0]
    /\ hopen = {} /\ hevents = << >> /\ hlistening = TRUE /\ hhandlers = {"rpc"}

Active == {"taken", "queued", "work", "posted", "sent"}
OfConn(c) == {r \in Requests : ConnOf[r] = c}

----------------------------------------------------------------------------
\* The loop thread takes a request with the callback that is set now.
TakeRequest(r) ==
    /\ hloop = Idle /\ hreq[r] = "new"
    /\ ConnOf[r] \in hopen \/ hlistening
    /\ \A q \in OfConn(ConnOf[r]) : hreq[q] \notin Active
    /\ hopen' = hopen \cup {ConnOf[r]}
    /\ hloop' = [at |-> hgencb, req |-> r] /\ hreq' = [hreq EXCEPT ![r] = "taken"]
    /\ UNCHANGED <<hstage, hgencb, hrunning, hqueue, hwork, htracker, hevents, hlistening, hhandlers>>

\* http_reject_request_cb: the error is sent at once, nothing is tracked.
HttpReject ==
    /\ hloop.at = "reject"
    /\ hreq' = [hreq EXCEPT ![hloop.req] = "done"] /\ hloop' = Idle
    /\ UNCHANGED <<hstage, hgencb, hrunning, hqueue, hwork, htracker, hopen, hevents, hlistening, hhandlers>>

\* http_request_cb: the request is tracked first.
AddRequest ==
    /\ hloop.at = "request"
    /\ htracker' = [htracker EXCEPT ![ConnOf[hloop.req]] = @ + 1]
    /\ hloop' = [hloop EXCEPT !.at = "dispatch"]
    /\ UNCHANGED <<hstage, hgencb, hrunning, hqueue, hwork, hreq, hopen, hevents, hlistening, hhandlers>>

\* WriteReply: the reply is posted to the loop thread.
Posted(r) == hreq' = [hreq EXCEPT ![r] = "posted"] /\ hevents' = Append(hevents, r)

\* The client may not be allowed, its method unknown, or no handler found.
RefuseRequest ==
    /\ hloop.at = "dispatch" /\ PathOf[hloop.req] \notin hhandlers
    /\ Posted(hloop.req) /\ hloop' = Idle
    /\ UNCHANGED <<hstage, hgencb, hrunning, hqueue, hwork, htracker, hopen, hlistening, hhandlers>>

\* The mutated form of Enqueue: a stopped queue still takes the item.
Enqueue_Stopped ==
    /\ hloop.at = "dispatch" /\ PathOf[hloop.req] \in hhandlers /\ hloop' = Idle
    /\ IF Len(hqueue) >= HDepth THEN Posted(hloop.req) /\ UNCHANGED hqueue
       ELSE /\ hqueue' = Append(hqueue, hloop.req)
            /\ hreq' = [hreq EXCEPT ![hloop.req] = "queued"] /\ UNCHANGED hevents
    /\ UNCHANGED <<hstage, hgencb, hrunning, hwork, htracker, hopen, hlistening, hhandlers>>

\* WorkQueue::Enqueue: refused when the queue is full or has been stopped.
Enqueue ==
    /\ hloop.at = "dispatch" /\ PathOf[hloop.req] \in hhandlers /\ hloop' = Idle
    /\ IF ~hrunning \/ Len(hqueue) >= HDepth THEN Posted(hloop.req) /\ UNCHANGED hqueue
       ELSE /\ hqueue' = Append(hqueue, hloop.req)
            /\ hreq' = [hreq EXCEPT ![hloop.req] = "queued"] /\ UNCHANGED hevents
    /\ UNCHANGED <<hstage, hgencb, hrunning, hwork, htracker, hopen, hlistening, hhandlers>>

\* Closing a connection (closecb): RemoveConnection.  A reply still to come is
\* thrown away by libevent; one that was being written is lost.
CloseAll(C) ==
    /\ hopen' = hopen \ C
    /\ htracker' = [c \in Conns |-> IF c \in C THEN 0 ELSE htracker[c]]

\* The reply is handed to libevent; the event that frees the server closes every
\* connection.
RunEvent ==
    /\ hloop = Idle /\ hevents # << >> /\ hevents' = Tail(hevents)
    /\ IF Head(hevents) = "free"
       THEN /\ CloseAll(hopen)
            /\ hreq' = [r \in Requests |-> IF hreq[r] = "sent" THEN "lost" ELSE hreq[r]]
       ELSE /\ hreq' = [hreq EXCEPT ![Head(hevents)] = IF ConnOf[Head(hevents)] \in hopen THEN "sent" ELSE "lost"]
            /\ UNCHANGED <<hopen, htracker>>
    /\ UNCHANGED <<hstage, hgencb, hrunning, hqueue, hwork, hloop, hlistening, hhandlers>>

\* The reply has been written (on_complete): RemoveRequest.
ReplyWritten(r) ==
    /\ hloop = Idle /\ hreq[r] = "sent"
    /\ hreq' = [hreq EXCEPT ![r] = "done"]
    /\ htracker' = [htracker EXCEPT ![ConnOf[r]] = IF @ > 0 THEN @ - 1 ELSE @]
    /\ UNCHANGED <<hstage, hgencb, hrunning, hqueue, hwork, hloop, hopen, hevents, hlistening, hhandlers>>

\* The client hangs up, or -rpcservertimeout has passed.
ConnectionClosed(c) ==
    /\ hloop = Idle /\ c \in hopen /\ CloseAll({c})
    /\ hreq' = [r \in Requests |-> IF ConnOf[r] = c /\ hreq[r] = "sent" THEN "lost" ELSE hreq[r]]
    /\ UNCHANGED <<hstage, hgencb, hrunning, hqueue, hwork, hloop, hevents, hlistening, hhandlers>>

\* The timeout only runs while libevent reads or writes on the connection.
TimedOut(c) ==
    /\ \A r \in OfConn(c) : hreq[r] \notin {"taken", "queued", "work", "posted"}
    /\ ConnectionClosed(c)

\* The dispatch returns when the base has nothing left to wait for.
LoopEnds ==
    /\ hloop = Idle /\ ~hlistening /\ hopen = {} /\ hevents = << >>
    /\ hloop' = [at |-> "exited", req |-> "none"]
    /\ UNCHANGED <<hstage, hgencb, hrunning, hqueue, hwork, hreq, htracker, hopen, hevents, hlistening, hhandlers>>

----------------------------------------------------------------------------
\* WorkQueue::Run; the handler answers, or else the request's destructor does.
TakeItem(w) ==
    /\ hwork[w] = "idle" /\ hqueue # << >>
    /\ hwork' = [hwork EXCEPT ![w] = Head(hqueue)] /\ hqueue' = Tail(hqueue)
    /\ hreq' = [hreq EXCEPT ![Head(hqueue)] = "work"]
    /\ UNCHANGED <<hstage, hgencb, hrunning, hloop, htracker, hopen, hevents, hlistening, hhandlers>>

HandleItem(w) ==
    /\ hwork[w] \in Requests
    /\ Posted(hwork[w]) /\ hwork' = [hwork EXCEPT ![w] = "idle"]
    /\ UNCHANGED <<hstage, hgencb, hrunning, hqueue, hloop, htracker, hopen, hlistening, hhandlers>>

WorkerEnds(w) ==
    /\ hwork[w] = "idle" /\ ~hrunning /\ hqueue = << >>
    /\ hwork' = [hwork EXCEPT ![w] = "exited"]
    /\ UNCHANGED <<hstage, hgencb, hrunning, hqueue, hloop, hreq, htracker, hopen, hevents, hlistening, hhandlers>>

----------------------------------------------------------------------------
MainStep(from, to) == hstage = from /\ hstage' = to

\* InterruptHTTPServer: first the callback, then the queue.
SetReject ==
    /\ MainStep("up", "reject") /\ hgencb' = "reject"
    /\ UNCHANGED <<hrunning, hqueue, hwork, hloop, hreq, htracker, hopen, hevents, hlistening, hhandlers>>
InterruptQueue ==
    /\ MainStep("reject", "interrupted") /\ hrunning' = FALSE
    /\ UNCHANGED <<hgencb, hqueue, hwork, hloop, hreq, htracker, hopen, hevents, hlistening, hhandlers>>
\* StopHTTPRPC: UnregisterHTTPHandler takes the handlers' lock.
StopHTTPRPC ==
    /\ MainStep("interrupted", "unregistered") /\ hloop.at # "dispatch" /\ hhandlers' = {}
    /\ UNCHANGED <<hgencb, hrunning, hqueue, hwork, hloop, hreq, htracker, hopen, hevents, hlistening>>
\* The mutated form of JoinWorkers: the listening sockets stay open.
JoinWorkers_Listening ==
    /\ MainStep("unregistered", "waiting") /\ \A w \in HWorkers : hwork[w] = "exited"
    /\ UNCHANGED <<hgencb, hrunning, hqueue, hwork, hloop, hreq, htracker, hopen, hevents, hlistening, hhandlers>>

\* StopHTTPServer: join the workers and close the listening sockets ...
JoinWorkers ==
    /\ MainStep("unregistered", "waiting") /\ \A w \in HWorkers : hwork[w] = "exited"
    /\ hlistening' = FALSE
    /\ UNCHANGED <<hgencb, hrunning, hqueue, hwork, hloop, hreq, htracker, hopen, hevents, hhandlers>>
\* ... wait for the tracker to empty ...
WaitUntilEmpty ==
    /\ MainStep("waiting", "empty") /\ \A c \in Conns : htracker[c] = 0
    /\ UNCHANGED <<hgencb, hrunning, hqueue, hwork, hloop, hreq, htracker, hopen, hevents, hlistening, hhandlers>>
\* ... have the loop thread free the server, whether or not it still runs ...
PostFree ==
    /\ MainStep("empty", "joining")
    /\ hevents' = Append(hevents, "free")
    /\ UNCHANGED <<hgencb, hrunning, hqueue, hwork, hloop, hreq, htracker, hopen, hlistening, hhandlers>>
\* ... join it, free the base and the queue.  An event left behind goes with it.
JoinLoop ==
    /\ MainStep("joining", "down") /\ hloop.at = "exited" /\ hevents' = << >>
    /\ UNCHANGED <<hgencb, hrunning, hqueue, hwork, hloop, hreq, htracker, hopen, hlistening, hhandlers>>

MainThread == SetReject \/ InterruptQueue \/ StopHTTPRPC \/ JoinWorkers \/ WaitUntilEmpty \/ PostFree \/ JoinLoop
LoopStep == \/ HttpReject \/ AddRequest \/ RefuseRequest \/ Enqueue \/ RunEvent \/ LoopEnds
            \/ \E r \in Requests : ReplyWritten(r)
Worker(w) == TakeItem(w) \/ HandleItem(w) \/ WorkerEnds(w)
ServerRests == UNCHANGED httpVars

HttpNext ==
    \/ MainThread \/ LoopStep \/ ServerRests
    \/ \E r \in Requests : TakeRequest(r)
    \/ \E c \in Conns : ConnectionClosed(c)
    \/ \E w \in HWorkers : Worker(w)

\* The threads run; a connection on which nothing happens is closed by timeout.
StopFair ==
    /\ WF_httpVars(InterruptQueue) /\ WF_httpVars(StopHTTPRPC) /\ WF_httpVars(JoinWorkers)
    /\ WF_httpVars(WaitUntilEmpty) /\ WF_httpVars(PostFree) /\ WF_httpVars(JoinLoop)
HttpFair == /\ StopFair /\ WF_httpVars(LoopStep)
            /\ \A w \in HWorkers : WF_httpVars(Worker(w))
            /\ \A c \in Conns : WF_httpVars(TimedOut(c))

----------------------------------------------------------------------------
\* Every request taken is answered exactly once while its connection is open: a
\* posted reply has its event, a queued request its place in the queue or with
\* one worker (assert(!replySent) in WriteReply), and when StopHTTPServer has
\* returned nothing is left queued, at work or posted.
AnsweredOnce ==
    /\ \A r \in Requests :
           LET n == Cardinality({i \in DOMAIN hevents : hevents[i] = r})
               q == Cardinality({i \in DOMAIN hqueue : hqueue[i] = r})
                    + Cardinality({w \in HWorkers : hwork[w] = r})
           IN  /\ n = IF hreq[r] = "posted" THEN 1 ELSE 0
               /\ q = IF hreq[r] \in {"queued", "work"} THEN 1 ELSE 0
    /\ hstage = "down" => \A r \in Requests : hreq[r] \in {"new", "done", "lost"}

\* m_tracker holds, for each open connection, the requests that have been
\* tracked and not completed; what is not open is not waited for.
TrackerExact ==
    \A c \in Conns :
        htracker[c] = IF c \notin hopen THEN 0
                      ELSE Cardinality({r \in OfConn(c) :
                               \/ hreq[r] \in Active \ {"taken"}
                               \/ hloop = [at |-> "dispatch", req |-> r]})

\* StopHTTPServer returns: the workers end, the tracker empties, the loop ends.
StopCompletes == hstage = "reject" ~> hstage = "down"

----------------------------------------------------------------------------
(***************************************************************************)
(* The REST interface (rest.cpp): each endpoint checks its arguments, then *)
(* looks at the block index and the active chain in one or more locked     *)
(* sections, may wait for an index in between, and answers afterwards,     *)
(* while the chain is reorganised, blocks are pruned and the filter index  *)
(* catches up.  Formats only decide between an answer and an error, so     *)
(* they are "bin", "hex", "json" and "" (RESTResponseFormat::UNDEF).       *)
(***************************************************************************)

CONSTANTS
    WBlocks, WParent,   \* the block tree; the genesis block is its own parent
    WSpends,            \* the block whose coin a block spends; its own: none
    WMaxHeaders,        \* MAX_REST_HEADERS_RESULTS
    WMaxOutpoints,      \* MAX_GETUTXOS_OUTPOINTS
    WQueries,           \* the requests that can come in
    WMoves              \* bound on the changes around one request

WGenesis == CHOOSE b \in WBlocks : WParent[b] = b
WHeight[b \in WBlocks] == IF b = WGenesis THEN 0 ELSE WHeight[WParent[b]] + 1
WChain[b \in WBlocks] == IF b = WGenesis THEN <<b>> ELSE Append(WChain[WParent[b]], b)
OnChain(b, t) == b \in WBlocks /\ WHeight[b] <= WHeight[t] /\ WChain[t][WHeight[b] + 1] = b
Coins(t) == {b \in WBlocks : OnChain(b, t)}
            \ {WSpends[b] : b \in {c \in WBlocks : OnChain(c, t) /\ WSpends[c] # c}}

VARIABLES
    wtip, wpruned,
    wconnected,       \* blocks that have been connected at some time
    wpool,            \* coins the mempool's transactions spend
    wsynced, wfiltered, wbest, wqueue,   \* the filter index and its callbacks
    wreq,             \* the request: its arguments, step, what it has seen and its answer
    wtips,            \* history: the tips that were active during the request
    wmoves

restEnv == <<wtip, wpruned, wconnected, wpool, wsynced, wfiltered, wbest, wqueue>>
restVars == <<wtip, wpruned, wconnected, wpool, wsynced, wfiltered, wbest, wqueue, wreq, wtips, wmoves>>

Ask(q) == [q |-> q, at |-> "args", items |-> << >>, tip |-> WGenesis, flag |-> FALSE, wait |-> 0, code |-> 0, msg |-> ""]

RestInit ==
    /\ wtip = WGenesis /\ wpruned = {} /\ wpool = {}
    /\ wconnected = {WGenesis}
    /\ wsynced = FALSE /\ wfiltered = {WGenesis} /\ wbest = WGenesis /\ wqueue = << >>
    /\ \E q \in WQueries : wreq = Ask(q)
    /\ wtips = {WGenesis} /\ wmoves = WMoves

Answered == wreq.at = "done"
Asks(e) == wreq.at = "args" /\ wreq.q.end = e
RestReply(r, code) == wreq' = [r EXCEPT !.code = code, !.at = "done"]
RestKeeps == UNCHANGED restEnv /\ UNCHANGED <<wtips, wmoves>>

----------------------------------------------------------------------------
\* ParseDataFormat: what follows the last dot, the query cut off, names a format.
ParseDataFormat(q) == IF q.fmt \in {"bin", "hex", "json"} THEN q.fmt ELSE ""

\* CheckWarmup, which every endpoint calls first.
CheckWarmup(q) == ~q.warmup

\* The number of headers asked for, from the path or the query, 5 unless given.
CountOk(q) == q.parts \in {1, 2} /\ q.count \in 1..WMaxHeaders
ParseHashStr(q) == q.hash # "junk"
WKnown(q) == q.hash \in WBlocks

\* The error an endpoint finds in its arguments, 0 for none.
ArgsError(q) ==
    CASE ~CheckWarmup(q) -> 503
      [] q.end = "headers" /\ ~(CountOk(q) /\ ParseHashStr(q)) -> 400
      [] q.end = "filterheaders" /\ ~(CountOk(q) /\ ParseHashStr(q) /\ q.index) -> 400
      [] q.end = "blockfilter" /\ ~(q.parts = 2 /\ ParseHashStr(q) /\ q.index) -> 400
      [] q.end = "block" /\ ~ParseHashStr(q) -> 400
      [] q.end = "blockhash" /\ q.count < 0 -> 400
      [] OTHER -> 0

\* The last switch of every endpoint: an unknown format is an error after all.
Formatted(r) == IF ParseDataFormat(r.q) = "" THEN 404 ELSE 200

RefuseArgs ==
    /\ wreq.at = "args" /\ ArgsError(wreq.q) # 0
    /\ RestReply(wreq, ArgsError(wreq.q)) /\ RestKeeps

\* The headers from hash on, as many as asked for, while they are in the chain of t.
Segment(q, t) ==
    IF ~OnChain(q.hash, t) THEN << >>
    ELSE LET h == WHeight[q.hash]
             n == IF q.count < WHeight[t] - h + 1 THEN q.count ELSE WHeight[t] - h + 1
         IN  [i \in 1..n |-> WChain[t][h + i]]

\* rest_headers: one look under cs_main.
RestHeaders ==
    /\ Asks("headers") /\ ArgsError(wreq.q) = 0
    /\ LET r == [wreq EXCEPT !.items = Segment(wreq.q, wtip), !.tip = wtip] IN RestReply(r, Formatted(r))
    /\ RestKeeps

\* rest_block: the index entry and the tip are looked up under cs_main ...
RestBlockLookup ==
    /\ Asks("block") /\ ArgsError(wreq.q) = 0
    /\ IF ~WKnown(wreq.q) \/ wreq.q.hash \in wpruned THEN RestReply(wreq, 404)
       ELSE wreq' = [wreq EXCEPT !.at = "disk", !.tip = wtip]
    /\ RestKeeps
\* ... the block is read from disk without it.
RestBlockRead ==
    /\ wreq.at = "disk"
    /\ LET r == [wreq EXCEPT !.items = <<wreq.q.hash>>]
       IN  RestReply(r, IF wreq.q.hash \in wpruned THEN 404 ELSE Formatted(r))
    /\ RestKeeps

\* rest_filter_header: the headers under cs_main.
RestFilterHeader ==
    /\ Asks("filterheaders") /\ ArgsError(wreq.q) = 0
    /\ wreq' = [wreq EXCEPT !.items = Segment(wreq.q, wtip), !.tip = wtip, !.at = "index", !.wait = Len(wqueue)]
    /\ RestKeeps

\* rest_block_filter: whether the block was ever connected, under cs_main.
RestBlockFilter ==
    /\ Asks("blockfilter") /\ ArgsError(wreq.q) = 0
    /\ IF ~WKnown(wreq.q) THEN RestReply(wreq, 404)
       ELSE wreq' = [wreq EXCEPT !.items = <<wreq.q.hash>>, !.flag = wreq.q.hash \in wconnected,
                                 !.at = "index", !.wait = Len(wqueue)]
    /\ RestKeeps

\* BlockUntilSyncedToCurrentChain: false while the index is being built, else it
\* waits for the callbacks queued by now; then the filters are looked up.
RestIndexReady ==
    /\ wreq.at = "index" /\ (~wsynced \/ wreq.wait = 0)
    /\ LET missing == \E i \in DOMAIN wreq.items : wreq.items[i] \notin wfiltered
           r == [wreq EXCEPT !.wait = 0]
       IN  wreq' = IF ~missing THEN [r EXCEPT !.code = Formatted(r), !.at = "done"]
                   ELSE [r EXCEPT !.code = 404, !.at = "done", !.msg =
                         IF wreq.q.end = "blockfilter" /\ ~wreq.flag THEN "unconnected"
                         ELSE IF ~wsynced THEN "indexing" ELSE "corrupt"]
    /\ RestKeeps

\* rest_blockhash_by_height.
RestBlockhash ==
    /\ Asks("blockhash") /\ ArgsError(wreq.q) = 0
    /\ IF wreq.q.count > WHeight[wtip] THEN RestReply([wreq EXCEPT !.tip = wtip], 404)
       ELSE LET r == [wreq EXCEPT !.items = <<WChain[wtip][wreq.q.count + 1]>>, !.tip = wtip] IN RestReply(r, Formatted(r))
    /\ RestKeeps

----------------------------------------------------------------------------
\* A binary body carries outpoints of its own.  What does not parse, or names no
\* outpoint, is <<"parse error">>.
Outpoints(q) == IF q.uri # << >> THEN q.uri ELSE q.bodyOuts

\* The outpoints of rest_getutxos come in the path or in the body, not in both;
\* json takes them from the path only.
UtxosArgs(q) ==
    LET f == ParseDataFormat(q)
    IN  CASE q.uri = << >> /\ ~q.body -> 400
          [] q.uri = <<"parse error">> -> 400
          [] q.body /\ q.uri # << >> /\ f \in {"bin", "hex"} -> 400
          [] f = "json" /\ q.uri = << >> -> 400
          [] f = "" -> 404
          [] Outpoints(q) = <<"parse error">> -> 400
          [] Len(Outpoints(q)) > WMaxOutpoints -> 400
          [] OTHER -> 0

UtxoHits(q, t, pool) ==
    [i \in DOMAIN Outpoints(q) |-> Outpoints(q)[i] \in Coins(t) /\ ~(q.checkmempool /\ Outpoints(q)[i] \in pool)]

\* rest_getutxos: cs_main, and the mempool's lock with checkmempool, cover the
\* coins and the tip they are answered with.
RestGetutxos ==
    /\ Asks("getutxos") /\ CheckWarmup(wreq.q)
    /\ IF UtxosArgs(wreq.q) # 0 THEN RestReply(wreq, UtxosArgs(wreq.q))
       ELSE RestReply([wreq EXCEPT !.items = UtxoHits(wreq.q, wtip, wpool), !.tip = wtip], 200)
    /\ RestKeeps

\* rest_chaininfo, rest_deploymentinfo and rest_mempool only answer in json; the
\* last two check their argument first, rest_mempool also its two flags.
RestInfo ==
    /\ wreq.at = "args" /\ wreq.q.end \in {"chaininfo", "deploymentinfo", "mempool"} /\ CheckWarmup(wreq.q)
    /\ LET q == wreq.q
           json == ParseDataFormat(q) = "json"
           code == CASE q.end = "mempool" /\ q.hash \notin {"contents", "info"} -> 400
                     [] ~json -> 404
                     [] q.end = "mempool" /\ q.hash = "contents" /\ q.verbose /\ q.sequence -> 400
                     [] q.end = "deploymentinfo" /\ q.hash # "" /\ ~WKnown(q) -> 400
                     [] OTHER -> 200
       IN  RestReply([wreq EXCEPT !.tip = wtip], code)
    /\ RestKeeps

\* StopREST unregisters every prefix; a later request meets no handler.
RestHandler == \/ RefuseArgs \/ RestHeaders \/ RestBlockLookup \/ RestBlockRead \/ RestFilterHeader
               \/ RestBlockFilter \/ RestIndexReady \/ RestBlockhash \/ RestGetutxos \/ RestInfo

----------------------------------------------------------------------------
Spend == wmoves > 0 /\ wmoves' = wmoves - 1

\* The chain moves to another tip under cs_main; the callbacks are queued, and the
\* mempool drops what the new chain has spent.
ChainMoves(t) ==
    /\ Spend /\ t # wtip /\ wtip' = t /\ wtips' = wtips \cup {t}
    /\ LET new == SelectSeq(WChain[t], LAMBDA b : ~OnChain(b, wtip)) IN
           /\ wqueue' = IF wsynced THEN wqueue \o new ELSE wqueue
           /\ wconnected' = wconnected \cup {new[i] : i \in DOMAIN new}
    /\ wpool' = wpool \cap Coins(t)
    /\ UNCHANGED <<wpruned, wsynced, wfiltered, wbest, wreq>>

Prune(b) ==
    /\ Spend /\ b \in wconnected /\ WHeight[b] < WHeight[wtip] /\ wpruned' = wpruned \cup {b}
    /\ UNCHANGED <<wtip, wconnected, wpool, wsynced, wfiltered, wbest, wqueue, wreq, wtips>>

PoolSpends(c) ==
    /\ Spend /\ c \in Coins(wtip) \ wpool /\ wpool' = wpool \cup {c}
    /\ UNCHANGED <<wtip, wpruned, wconnected, wsynced, wfiltered, wbest, wqueue, wreq, wtips>>

\* The index's thread follows the active chain, from the fork if it was left.
IndexSyncs ==
    /\ ~wsynced
    /\ IF wbest = wtip THEN wsynced' = TRUE /\ UNCHANGED <<wbest, wfiltered>>
       ELSE LET rest == SelectSeq(WChain[wtip], LAMBDA b : ~OnChain(b, wbest))
                next == IF rest = << >> THEN wtip ELSE Head(rest)
            IN  wbest' = next /\ wfiltered' = wfiltered \cup {next} /\ UNCHANGED wsynced
    /\ UNCHANGED <<wtip, wpruned, wconnected, wpool, wqueue, wreq, wtips, wmoves>>

\* Once synced it is driven by the callbacks.
IndexCallback ==
    /\ wqueue # << >> /\ wqueue' = Tail(wqueue)
    /\ wbest' = Head(wqueue) /\ wfiltered' = wfiltered \cup {Head(wqueue)}
    /\ wreq' = [wreq EXCEPT !.wait = IF @ > 0 THEN @ - 1 ELSE 0]
    /\ UNCHANGED <<wtip, wpruned, wconnected, wpool, wsynced, wtips, wmoves>>

RestWorld == \/ \E b \in WBlocks : ChainMoves(b) \/ Prune(b) \/ PoolSpends(b)
             \/ IndexSyncs \/ IndexCallback
RestNext == RestHandler \/ (~Answered /\ RestWorld)

----------------------------------------------------------------------------
\* An answer describes one state of the chain that was active during the
\* request: the headers, filter headers and coins of one tip, although
\* the handlers give up cs_main before they answer; a block that is not found
\* was unknown or pruned, a height out of range above one of the tips.
AnswerOfOneChain ==
    Answered /\ wreq.code \in {200, 404} /\ ParseDataFormat(wreq.q) # "" =>
        CASE wreq.q.end \in {"headers", "filterheaders"} /\ wreq.code = 200 ->
                 wreq.tip \in wtips /\ wreq.items = Segment(wreq.q, wreq.tip)
          [] wreq.q.end = "blockhash" /\ wreq.code = 200 ->
                 wreq.tip \in wtips /\ wreq.items = <<WChain[wreq.tip][wreq.q.count + 1]>>
          [] wreq.q.end = "blockhash" /\ wreq.code = 404 -> wreq.q.count > WHeight[wreq.tip]
          [] wreq.q.end = "getutxos" /\ wreq.code = 200 ->
                 wreq.tip \in wtips /\ \A i \in DOMAIN wreq.items :
                     wreq.items[i] => Outpoints(wreq.q)[i] \in Coins(wreq.tip)
          [] wreq.q.end = "block" /\ wreq.code = 404 -> ~WKnown(wreq.q) \/ wreq.q.hash \in wpruned
          [] OTHER -> TRUE
============================================================================

------------------------------ MODULE Announce ------------------------------
(***************************************************************************)
(* How a node tells one peer of its blocks and serves them                 *)
(* (net_processing.cpp): NewPoWValidBlock and UpdatedBlockTip, called by   *)
(* validation, the choice in SendMessages between headers, a compact block *)
(* and an inv, and the answers to GETHEADERS, GETBLOCKS, GETDATA and       *)
(* GETBLOCKTXN.  The peer runs the same code, or an older protocol that    *)
(* knows no headers.  It is past initial download, and learns of blocks    *)
(* from others too.                                                        *)
(***************************************************************************)
EXTENDS Naturals, SequencesExt, FiniteSetsExt

CONSTANTS
    Genesis, Blocks,          \* the blocks of the tree, without the genesis block
    Parent,                   \* [Blocks -> Blocks \cup {Genesis}]
    Bad,                      \* leaves of the tree whose scripts are not valid
    MAX_BLOCKS_TO_ANNOUNCE, MAX_HEADERS_RESULTS,
    GetBlocksLimit,           \* 500 in the code
    MAX_CMPCTBLOCK_DEPTH, MAX_BLOCKTXN_DEPTH,
    Peers,                    \* kind: "legacy", "inv", "headers" or "hb"; sync: "loading" or
                              \* "done"; other: how much of MaxOther is not to be used
    MaxOther,                 \* bound: blocks the peer learns of or tells by itself
    None

VARIABLES
    chain,    \* validation: data, valid, failed: sets of blocks; tip; events:
              \* UpdatedBlockTip calls on their way
    ann,      \* fast: m_highest_fast_announce; recent: m_most_recent_block_hash
    st,       \* what the node keeps of the peer, below
    toNode, toPeer,
    peer,     \* kind; sync: "loading", "wait" or "done"; have: headers it has; asking: a GETHEADERS is unanswered;
              \* fetched: blocks it has asked for; other: events so far
    told      \* announced: blocks the node announced; dropped: those of
              \* the best chain whose requests it then ignored

vars == <<chain, ann, st, toNode, toPeer, peer, told>>

All == Blocks \cup {Genesis}
Chain[b \in All] == IF b = Genesis THEN <<Genesis>> ELSE Append(Chain[Parent[b]], b)
Ancestors == [b \in All |-> ToSet(Chain[b])]
Height == [b \in All |-> Len(Chain[b]) - 1]
Fork(a, b) == CHOOSE c \in Ancestors[a] \cap Ancestors[b] :
                 \A d \in Ancestors[a] \cap Ancestors[b] : Height[d] <= Height[c]
\* The blocks of the chain of tip above the height of b.
After(tip, b) == SubSeq(Chain[tip], Height[b] + 2, Height[tip] + 1)
Active(b) == b \in Ancestors[chain.tip]

\* known    pindexBestKnownBlock     unknown  hashLastUnknownBlock
\* sent     pindexBestHeaderSent     prefers  m_prefers_headers
\* hb       m_requested_hb_cmpctblocks
\* headers  m_blocks_for_headers_relay   inv  m_blocks_for_inv_relay
\* cont     m_continuation_block         getdata  m_getdata_requests
NewState ==
    [known |-> None, unknown |-> None, sent |-> None, prefers |-> FALSE, hb |-> FALSE,
     headers |-> <<>>, inv |-> <<>>, cont |-> None, getdata |-> <<>>]

Init ==
    /\ chain = [data |-> {Genesis}, valid |-> {Genesis}, failed |-> {}, tip |-> Genesis, events |-> <<>>]
    /\ ann = [fast |-> 0, recent |-> None]
    /\ toNode = <<>> /\ toPeer = <<>>
    /\ \E p \in Peers :
         /\ st = [NewState EXCEPT !.prefers = p.kind \in {"headers", "hb"}, !.hb = p.kind = "hb", !.sent = Genesis]
         /\ peer = [kind |-> p.kind, sync |-> p.sync, have |-> {Genesis}, asking |-> FALSE,
                    fetched |-> {}, other |-> p.other]
    /\ told = [announced |-> {}, dropped |-> {}]

(***************************************************************************)
(* What the node believes of the peer.                                     *)
(***************************************************************************)
ProcessBlockAvailability(s) ==
    IF s.unknown \notin chain.data THEN s
    ELSE [s EXCEPT !.unknown = None,
                   !.known = IF @ = None \/ Height[s.unknown] >= Height[@] THEN s.unknown ELSE @]
UpdateBlockAvailability(s0, b) ==
    LET s == ProcessBlockAvailability(s0) IN
    IF b \notin chain.data THEN [s EXCEPT !.unknown = b]
    ELSE [s EXCEPT !.known = IF @ = None \/ Height[b] >= Height[@] THEN b ELSE @]
PeerHasHeader(s, b) ==
    \/ s.known # None /\ b \in Ancestors[s.known]
    \/ s.sent # None /\ b \in Ancestors[s.sent]

(***************************************************************************)
(* Validation (ChainState) and what it calls.                              *)
(***************************************************************************)
\* Under cs_main: a block on top of the tip is announced before it is validated.
NewPoWValidBlock(b) ==
    LET s == ProcessBlockAvailability(st)
        send == s.hb /\ ~PeerHasHeader(s, b) /\ PeerHasHeader(s, Parent[b])
    IN  IF Height[b] <= ann.fast THEN UNCHANGED <<ann, st, toPeer, told>>
        ELSE /\ ann' = [fast |-> Height[b], recent |-> b]
             /\ st' = IF send THEN [s EXCEPT !.sent = b] ELSE s
             /\ toPeer' = IF send THEN Append(toPeer, [type |-> "cmpctblock", block |-> b]) ELSE toPeer
             /\ told' = IF send THEN [told EXCEPT !.announced = @ \cup {b}] ELSE told

AcceptBlock(b) ==
    /\ b \notin chain.data /\ Parent[b] \in chain.data \ chain.failed
    /\ chain' = [chain EXCEPT !.data = @ \cup {b}]
    /\ IF Parent[b] = chain.tip THEN NewPoWValidBlock(b) ELSE UNCHANGED <<ann, st, toPeer, told>>
    /\ UNCHANGED <<toNode, peer>>

\* The outcome of ActivateBestChain.  Of blocks with the same work the one
\* that came first wins, here any of them but never away from the tip.
Candidates(c) == {b \in c.data \ c.failed : Ancestors[b] \cap c.failed = {} /\ Height[b] > Height[c.tip]}
Activated(c) ==
    LET best == {b \in Candidates(c) : b \notin Bad /\ \A d \in Candidates(c) \ Bad : Height[d] <= Height[b]}
        failed == {b \in Candidates(c) \cap Bad : \A d \in best : Height[b] >= Height[d]}
        d == [c EXCEPT !.failed = @ \cup failed, !.valid = @ \cup UNION {Ancestors[Parent[b]] : b \in failed}]
    IN  IF best = {} THEN {d}
        ELSE {[d EXCEPT !.tip = b, !.valid = @ \cup Ancestors[b],
                        !.events = Append(@, [new |-> b, fork |-> Fork(c.tip, b)])] : b \in best}
ActivateBestChain ==
    /\ Candidates(chain) # {}
    /\ chain' \in Activated(chain)
    /\ UNCHANGED <<ann, st, toNode, toPeer, peer, told>>

\* On the scheduler's thread, in the order of the changes.
UpdatedBlockTip ==
    /\ chain.events # <<>>
    /\ LET e == Head(chain.events)
           new == After(e.new, e.fork)
           first == IF Len(new) > MAX_BLOCKS_TO_ANNOUNCE THEN Len(new) - MAX_BLOCKS_TO_ANNOUNCE + 1 ELSE 1
       IN  st' = [st EXCEPT !.headers = @ \o SubSeq(new, first, Len(new))]
    /\ chain' = [chain EXCEPT !.events = Tail(@)]
    /\ UNCHANGED <<ann, toNode, toPeer, peer, told>>

(***************************************************************************)
(* SendMessages.                                                           *)
(***************************************************************************)
\* The headers to send: from the first one the peer lacks.  None when the
\* blocks are not on the active chain, do not connect to each other or not
\* to what the peer has.
Lacking(s) == SelectSeq(s.headers, LAMBDA b : ~PeerHasHeader(s, b))
Connects(s) ==
    LET q == s.headers
        new == {i \in DOMAIN q : ~PeerHasHeader(s, q[i])}
    IN  /\ \A i \in DOMAIN q : Active(q[i]) /\ (i > 1 => Parent[q[i]] = q[i - 1])
        /\ new # {} => q[Min(new)] = Genesis \/ PeerHasHeader(s, Parent[q[Min(new)]])
RevertToInv(s) ==
    \/ ~s.prefers /\ (~s.hb \/ Len(s.headers) > 1)
    \/ Len(s.headers) > MAX_BLOCKS_TO_ANNOUNCE
    \/ ~Connects(s)
    \/ Lacking(s) # <<>> /\ ~(Len(Lacking(s)) = 1 /\ s.hb) /\ ~s.prefers

SendMessages ==
    /\ st.headers # <<>> \/ st.inv # <<>>
    /\ \E s \in {ProcessBlockAvailability(st)} :
       \E revert \in {RevertToInv(s)}, tell \in {Lacking(s)} :
       LET last == s.headers[Len(s.headers)]
           inv == s.inv \o (IF revert /\ s.headers # <<>> /\ ~PeerHasHeader(s, last) THEN <<last>> ELSE <<>>)
           headers == IF revert \/ tell = <<>> THEN <<>>
                      ELSE IF Len(tell) = 1 /\ s.hb THEN <<[type |-> "cmpctblock", block |-> last]>>
                      ELSE <<[type |-> "headers", blocks |-> tell]>>
       IN  /\ st' = [s EXCEPT !.headers = <<>>, !.inv = <<>>, !.sent = IF headers = <<>> THEN @ ELSE last]
           /\ toPeer' = toPeer \o headers \o (IF inv = <<>> THEN <<>> ELSE <<[type |-> "inv", blocks |-> inv]>>)
           /\ told' = [told EXCEPT !.announced = @ \cup ToSet(inv) \cup (IF headers = <<>> THEN {} ELSE ToSet(tell))]
    /\ UNCHANGED <<chain, ann, toNode, peer>>

(***************************************************************************)
(* ProcessMessage.                                                         *)
(***************************************************************************)
Takes(type) ==
    /\ st.getdata = <<>> /\ toNode # <<>> /\ Head(toNode).type = type
    /\ toNode' = Tail(toNode)
    /\ UNCHANGED peer
Replies(msgs) == toPeer' = toPeer \o msgs

Inv ==
    /\ Takes("inv")
    /\ st' = UpdateBlockAvailability(st, Head(toNode).block)
    /\ UNCHANGED <<chain, ann, toPeer, told>>
SendHeaders ==
    /\ Takes("sendheaders")
    /\ st' = [st EXCEPT !.prefers = TRUE]
    /\ UNCHANGED <<chain, ann, toPeer, told>>
SendCmpct ==
    /\ Takes("sendcmpct")
    /\ st' = [st EXCEPT !.hb = Head(toNode).hb]
    /\ UNCHANGED <<chain, ann, toPeer, told>>

\* FindForkInGlobalIndex: the last block of the active chain below what the
\* locator starts from.
\* Mutant: the best header sent is never lowered.
GetHeaders_KeepSent ==
    /\ Takes("getheaders")
    /\ LET rest == After(chain.tip, Fork(chain.tip, Head(toNode).from))
           n == IF Len(rest) < MAX_HEADERS_RESULTS THEN Len(rest) ELSE MAX_HEADERS_RESULTS
           last == IF n = 0 THEN chain.tip ELSE rest[n]
       IN  /\ Replies(<<[type |-> "headers", blocks |-> SubSeq(rest, 1, n)]>>)
           /\ st' = [st EXCEPT !.sent = IF @ = None \/ Height[last] > Height[@] THEN last ELSE @]
           /\ told' = [told EXCEPT !.announced = @ \cup ToSet(SubSeq(rest, 1, n))]
    /\ UNCHANGED <<chain, ann>>
GetHeaders ==
    /\ Takes("getheaders")
    /\ LET rest == After(chain.tip, Fork(chain.tip, Head(toNode).from))
           n == IF Len(rest) < MAX_HEADERS_RESULTS THEN Len(rest) ELSE MAX_HEADERS_RESULTS
       IN  /\ Replies(<<[type |-> "headers", blocks |-> SubSeq(rest, 1, n)]>>)
           /\ st' = [st EXCEPT !.sent = IF n = 0 THEN chain.tip ELSE rest[n]]
           /\ told' = [told EXCEPT !.announced = @ \cup ToSet(SubSeq(rest, 1, n))]
    /\ UNCHANGED <<chain, ann>>

GetBlocks ==
    /\ Takes("getblocks")
    /\ \E c \in Activated(chain) :
         LET rest == After(c.tip, Fork(c.tip, Head(toNode).from))
             n == IF Len(rest) < GetBlocksLimit THEN Len(rest) ELSE GetBlocksLimit
         IN  /\ chain' = c
             /\ st' = [st EXCEPT !.inv = @ \o SubSeq(rest, 1, n),
                                 !.cont = IF n = GetBlocksLimit THEN rest[n] ELSE @]
    /\ UNCHANGED <<ann, toPeer, told>>

GetBlockTxn ==
    /\ Takes("getblocktxn")
    /\ LET b == Head(toNode).block IN
       IF b = ann.recent \/ (b \in chain.data /\ Height[b] + MAX_BLOCKTXN_DEPTH >= Height[chain.tip])
       THEN Replies(<<[type |-> "blocktxn", block |-> b]>>) /\ UNCHANGED <<st, told>>
       ELSE IF b \notin chain.data
       THEN told' = [told EXCEPT !.dropped = @ \cup (told.announced \cap {b})] /\ UNCHANGED <<st, toPeer>>
       ELSE st' = [st EXCEPT !.getdata = Append(@, [block |-> b, cmpct |-> FALSE])] /\ UNCHANGED <<toPeer, told>>
    /\ UNCHANGED <<chain, ann>>

GetData ==
    /\ Takes("getdata")
    /\ st' = [st EXCEPT !.getdata = @ \o Head(toNode).items]
    /\ UNCHANGED <<chain, ann, toPeer, told>>

\* The blocks on every valid chain with the most work.
Winning ==
    LET good == chain.data \ Bad
        most == {b \in good : \A d \in good : Height[d] <= Height[b]}
    IN  {b \in good : \A d \in most : b \in Ancestors[d]}
\* Mutant: a request for a block that is about to be validated is refused.
NeedsActivation_Never(b) == FALSE
\* A block still to be validated is, before anything is decided.
BlockRequestAllowed(c, b) == b \in Ancestors[c.tip] \/ b \in c.valid \ c.failed
NeedsActivation(b) == b \in chain.data /\ b \notin chain.valid /\ b \notin chain.failed
ProcessGetBlockData ==
    /\ st.getdata # <<>>
    /\ \E c \in IF NeedsActivation(Head(st.getdata).block) THEN Activated(chain) ELSE {chain} :
       LET r == Head(st.getdata)
           serve == r.block \in c.data /\ BlockRequestAllowed(c, r.block)
           form == IF r.cmpct /\ Height[r.block] + MAX_CMPCTBLOCK_DEPTH >= Height[c.tip] THEN "cmpctblock" ELSE "block"
           more == serve /\ r.block = st.cont
       IN  /\ chain' = c
           /\ Replies((IF serve THEN <<[type |-> form, block |-> r.block]>> ELSE <<>>)
                      \o (IF more THEN <<[type |-> "inv", blocks |-> <<c.tip>>]>> ELSE <<>>))
           /\ st' = [st EXCEPT !.getdata = Tail(@), !.cont = IF more THEN None ELSE @]
           /\ told' = [told EXCEPT !.dropped = IF serve THEN @ ELSE @ \cup (told.announced \cap {r.block} \cap Winning),
                                   !.announced = IF more THEN @ \cup {c.tip} ELSE @]
    /\ UNCHANGED <<ann, toNode, peer>>

(***************************************************************************)
(* The peer.                                                               *)
(***************************************************************************)
Best == CHOOSE b \in peer.have : \A d \in peer.have : Height[d] <= Height[b]
Legacy == peer.kind = "legacy"
Sends(msgs) == toNode' = toNode \o msgs
Ask == IF peer.asking THEN <<>> ELSE <<[type |-> "getheaders", from |-> Best]>>
PeerTakes(types) == toPeer # <<>> /\ Head(toPeer).type \in types /\ toPeer' = Tail(toPeer)
Server == <<chain, ann, st, told>>
\* It asks for a block it has learnt of, as a compact block when it is near the tip.
Fetch(b) ==
    IF b \in peer.fetched THEN <<>>
    ELSE <<[type |-> "getdata", items |-> <<[block |-> b, cmpct |-> peer.kind = "hb"]>>]>>

PeerIgnores ==
    /\ peer.sync = "loading" /\ PeerTakes({"headers", "cmpctblock"})
    /\ UNCHANGED <<peer, toNode>> /\ UNCHANGED Server
\* HEADERS, and a compact block taken as a header.
PeerHeaders ==
    /\ PeerTakes({"headers"}) /\ peer.sync # "loading"
    /\ LET bs == Head(toPeer).blocks
           n == Len(bs)
       IN  IF n = 0 THEN peer' = [peer EXCEPT !.asking = FALSE] /\ UNCHANGED toNode
           ELSE IF Parent[bs[1]] \notin peer.have
           THEN /\ peer' = [peer EXCEPT !.asking = TRUE]
                /\ Sends(<<[type |-> "getheaders", from |-> Best]>>)
           ELSE /\ peer' = [peer EXCEPT !.have = @ \cup ToSet(bs), !.asking = (n = MAX_HEADERS_RESULTS),
                                        !.fetched = @ \cup {bs[n]}]
                /\ Sends((IF n = MAX_HEADERS_RESULTS THEN <<[type |-> "getheaders", from |-> bs[n]]>> ELSE <<>>)
                         \o Fetch(bs[n]))
    /\ UNCHANGED Server
PeerCmpctBlock ==
    /\ PeerTakes({"cmpctblock"}) /\ peer.sync # "loading"
    /\ LET b == Head(toPeer).block IN
       IF Parent[b] \notin peer.have
       THEN peer' = [peer EXCEPT !.asking = TRUE] /\ Sends(Ask)
       ELSE /\ peer' = [peer EXCEPT !.have = @ \cup {b}, !.fetched = @ \cup {b}]
            /\ \/ UNCHANGED toNode                           \* reconstructed
               \/ Sends(<<[type |-> "getblocktxn", block |-> b]>>)
               \/ Sends(<<[type |-> "getdata", items |-> <<[block |-> b, cmpct |-> FALSE]>>]>>)
    /\ UNCHANGED Server
\* An old peer fetches what it has not, the blocks of an inv one by one.
PeerInv ==
    /\ PeerTakes({"inv"})
    /\ LET new == SelectSeq(Head(toPeer).blocks, LAMBDA b : b \notin peer.have) IN
       IF new = <<>> THEN UNCHANGED <<peer, toNode>>
       ELSE IF Legacy
       THEN /\ Sends(<<[type |-> "getdata", items |-> [i \in DOMAIN new |-> [block |-> new[i], cmpct |-> FALSE]]]>>)
            /\ UNCHANGED peer
       ELSE peer' = [peer EXCEPT !.asking = TRUE] /\ Sends(Ask)
    /\ UNCHANGED Server
\* An old peer that gets a block it cannot connect asks for those below.
PeerBlock ==
    /\ PeerTakes({"block", "blocktxn"})
    /\ LET b == Head(toPeer).block IN
       IF Parent[b] \in peer.have THEN peer' = [peer EXCEPT !.have = @ \cup {b}] /\ UNCHANGED toNode
       ELSE UNCHANGED peer /\ IF Legacy THEN Sends(<<[type |-> "getblocks", from |-> Best]>>) ELSE UNCHANGED toNode
    /\ UNCHANGED Server

Otherwise == peer.other < MaxOther
\* Others tell the peer of a block, it tells the node of one, and it says how
\* it wants to be told.
PeerLearns(b) ==
    /\ Otherwise /\ b \notin peer.have /\ Parent[b] \in peer.have
    /\ peer' = [peer EXCEPT !.have = @ \cup {b}, !.other = @ + 1]
    /\ UNCHANGED <<chain, ann, st, toNode, toPeer, told>>
PeerTells(b) ==
    /\ Otherwise /\ b \in peer.have \ {Genesis}
    /\ peer' = [peer EXCEPT !.other = @ + 1]
    /\ Sends(<<[type |-> "inv", block |-> b]>>)
    /\ UNCHANGED <<chain, ann, st, toPeer, told>>
\* A request nothing led up to.
PeerAsks(b) ==
    /\ Otherwise /\ ~Legacy /\ b \notin chain.data /\ peer' = [peer EXCEPT !.other = @ + 1]
    /\ Sends(<<[type |-> "getblocktxn", block |-> b]>>)
    /\ UNCHANGED <<chain, ann, st, toPeer, told>>
PeerWants ==
    /\ Otherwise /\ peer' = [peer EXCEPT !.other = @ + 1]
    /\ \/ ~Legacy /\ ~st.prefers /\ Sends(<<[type |-> "sendheaders"]>>)
       \/ ~Legacy /\ \E on \in BOOLEAN : Sends(<<[type |-> "sendcmpct", hb |-> on]>>)
    /\ UNCHANGED <<chain, ann, st, toPeer, told>>
\* HEADERS_RESPONSE_TIME is long: by then everything sent has arrived.
AskExpires ==
    /\ peer.asking /\ toNode = <<>> /\ toPeer = <<>> /\ st.getdata = <<>>
    /\ peer' = [peer EXCEPT !.asking = FALSE]
    /\ UNCHANGED <<chain, ann, st, toNode, toPeer, told>>
\* The peer has imported its blocks; until then it ignores headers and compact
\* blocks.  Afterwards it starts to synchronise headers.
LoadingEnds ==
    /\ peer.sync = "loading"
    /\ peer' = [peer EXCEPT !.sync = "wait"]
    /\ UNCHANGED <<chain, ann, st, toNode, toPeer, told>>
StartSync ==
    /\ peer.sync = "wait" /\ ~peer.asking
    /\ peer' = [peer EXCEPT !.sync = "done", !.asking = TRUE]
    /\ Sends(Ask)
    /\ UNCHANGED <<chain, ann, st, toPeer, told>>

Answers == GetHeaders \/ GetBlocks \/ GetBlockTxn \/ GetData \/ ProcessGetBlockData \/ Inv \/ SendHeaders \/ SendCmpct
Listens == PeerIgnores \/ PeerHeaders \/ PeerCmpctBlock \/ PeerInv \/ PeerBlock
Next ==
    \/ \E b \in Blocks : AcceptBlock(b) \/ PeerLearns(b) \/ PeerTells(b) \/ PeerAsks(b)
    \/ ActivateBestChain \/ UpdatedBlockTip \/ SendMessages
    \/ Answers \/ Listens \/ PeerWants \/ AskExpires \/ LoadingEnds \/ StartSync

\* Both message threads, validation and the scheduler go on.
Fairness ==
    /\ WF_vars(ActivateBestChain) /\ WF_vars(UpdatedBlockTip) /\ WF_vars(SendMessages)
    /\ WF_vars(Answers) /\ WF_vars(Listens)
    /\ WF_vars(AskExpires) /\ WF_vars(LoadingEnds) /\ WF_vars(StartSync)

Spec == Init /\ [][Next]_vars /\ Fairness

(***************************************************************************)
(* Properties.                                                             *)
(***************************************************************************)
\* Whatever the node announced of a chain that is reorganised meanwhile, and
\* whatever it believes of the peer by then, the peer in the end has the tip.
PeerLearnsTip == <>[](chain.tip \in peer.have)

\* A block that was announced is served when it is asked for, even when it was
\* announced before it was validated, unless it is not valid or a branch with
\* as much work came in between.
AnnouncedIsServed == told.dropped = {}
=============================================================================

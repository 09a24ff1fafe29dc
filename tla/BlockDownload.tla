---------------------------- MODULE BlockDownload ----------------------------
(***************************************************************************)
(* How PeerManagerImpl (net_processing.cpp) gets blocks from its peers:    *)
(* which peer is asked for which block, compact blocks and their round     *)
(* trips, whom it blames for an invalid block, and how it gets rid of      *)
(* peers that do not deliver.                                              *)
(*                                                                         *)
(* Messages are handled by one thread; a handler that hands a block to     *)
(* validation releases cs_main, so that it is a job of several steps       *)
(* between which the other threads run (disconnections, FetchBlock).       *)
(* Time is left out: a request may time out whenever its peer is not one   *)
(* of the Honest ones, which answer in time.  The anti-DoS work threshold  *)
(* is 0 here; HeadersSync is about the other case.  Nothing is pruned.     *)
(***************************************************************************)
EXTENDS Naturals, SequencesExt

CONSTANTS
    Peers, Outbound,     \* NodeIds, each used by one connection; those we made
    Honest,              \* they relay the best valid chain and answer in time
    Limited,             \* NODE_NETWORK_LIMITED peers
    CmpctPeers,          \* peers that sent SENDCMPCT
    Blocks, Genesis, Parent,
    Fault,               \* "none", or where a block fails: "check" (CheckBlock), "connect"
    Recent,              \* blocks with a time less than 20 blocks ago
    BLOCK_DOWNLOAD_WINDOW,
    MAX_BLOCKS_IN_TRANSIT_PER_PEER,
    MAX_CMPCTBLOCKS_INFLIGHT_PER_BLOCK,
    MaxAnnouncers,       \* high-bandwidth peers (3)
    CmpctDepth,          \* how far above the tip compact blocks are used (2)
    DISCOURAGEMENT_THRESHOLD, \* in units of 10 points
    MaxUnasked,          \* bound: messages nobody asked for, hang-ups and calls of FetchBlock
    None

VARIABLES
    chain,   \* the block index and the active chain
    dl,      \* node: the CNodeStates, flight: mapBlocksInFlight, from: m_peers_downloading_from
    source,  \* mapBlockSource
    hb,      \* lNodesAnnouncingHeaderAndIDs
    due,     \* what the honest peers have been asked for and will send
    job,     \* what the message handling thread is at
    unasked

vars == <<chain, dl, source, hb, due, job, unasked>>

All == Blocks \cup {Genesis}
Height[b \in All] == IF b = Genesis THEN 0 ELSE Height[Parent[b]] + 1
Path[b \in All] == IF b = Genesis THEN {b} ELSE Path[Parent[b]] \cup {b}
Highest(S) == CHOOSE b \in S : \A c \in S : Height[c] <= Height[b]
Lowest(S) == CHOOSE b \in S : \A c \in S : Height[b] <= Height[c]
LastCommonAncestor(a, b) == Highest(Path[a] \cap Path[b])
Good == {b \in Blocks : \A x \in Path[b] \ {Genesis} : Fault[x] = "none"}
HonestTip == Highest(Good)

\* conn     "new" before InitializeNode, "up", "closing" (fDisconnect), "gone"
\* best     pindexBestKnownBlock, unknown: hashLastUnknownBlock, common: pindexLastCommonBlock
\* queue    vBlocksInFlight; partial is "none", "open", or "spent" once FillBlock nulled its header
NewNode == [conn |-> "new", best |-> None, unknown |-> None, common |-> None, queue |-> <<>>,
            stalling |-> FALSE, hbTo |-> FALSE, score |-> 0]
Idle == [step |-> "idle"]

Init ==
    /\ chain = [known |-> {Genesis}, data |-> {Genesis}, failed |-> {}, valid |-> {Genesis},
              tip |-> Genesis, ibd |-> TRUE]
    /\ dl = [node |-> [p \in Peers |-> NewNode], flight |-> [b \in Blocks |-> <<>>], from |-> 0]
    /\ source = [b \in Blocks |-> None]
    /\ hb = <<>> /\ due = [p \in Honest |-> {}] /\ job = Idle /\ unasked = 0

(***************************************************************************)
(* Requests in flight.                                                     *)
(***************************************************************************)
Asked(d, p, b) == p \in ToSet(d.flight[b])

RemoveBlockRequest_KeepStalling(d, b, who) ==
    LET hit == ToSet(d.flight[b]) \cap who
        Rest(p) == SelectSeq(d.node[p].queue, LAMBDA e : e.block # b)
    IN  [node |-> [p \in Peers |-> IF p \in hit THEN [d.node[p] EXCEPT !.queue = Rest(p)]
                                     ELSE d.node[p]],
         flight |-> [d.flight EXCEPT ![b] = SelectSeq(@, LAMBDA p : p \notin who)],
         from |-> d.from - Cardinality({p \in hit : Rest(p) = <<>>})]

RemoveBlockRequest(d, b, who) ==
    LET hit == ToSet(d.flight[b]) \cap who
        Rest(p) == SelectSeq(d.node[p].queue, LAMBDA e : e.block # b)
    IN  [node |-> [p \in Peers |-> IF p \in hit
                                     THEN [d.node[p] EXCEPT !.queue = Rest(p), !.stalling = FALSE]
                                     ELSE d.node[p]],
         flight |-> [d.flight EXCEPT ![b] = SelectSeq(@, LAMBDA p : p \notin who)],
         from |-> d.from - Cardinality({p \in hit : Rest(p) = <<>>})]

\* A second request to the same peer changes nothing but, with a compact
\* block at hand, the entry's partial block.
BlockRequested(d, p, b, partial) ==
    IF Asked(d, p, b)
    THEN [d EXCEPT !.node[p].queue = [i \in DOMAIN @ |->
             IF @[i].block = b /\ @[i].partial = "none" THEN [@[i] EXCEPT !.partial = partial] ELSE @[i]]]
    ELSE [node |-> [d.node EXCEPT ![p].queue = Append(@, [block |-> b, partial |-> partial])],
          flight |-> [d.flight EXCEPT ![b] = Append(@, p)],
          from |-> IF d.node[p].queue = <<>> THEN d.from + 1 ELSE d.from]

RequestAll(d, p, seq) == FoldLeft(LAMBDA e, b : BlockRequested(e, p, b, "none"), d, seq)

Partial(d, p, b) ==
    LET q == d.node[p].queue IN q[CHOOSE i \in DOMAIN q : q[i].block = b].partial

Up(p) == dl.node[p].conn = "up"
\* A message from p may answer one thing; handling it may ask p for others.
Now(p, answered, asked) ==
    due' = IF p \in Honest THEN [due EXCEPT ![p] = (@ \ answered) \cup asked] ELSE due

\* An honest peer's answers are free; everything else a peer may send counts.
Sends(p, thing) ==
    \/ p \in Honest /\ thing \in due[p] /\ unasked' = unasked
    \/ /\ p \in Honest => thing[1] = "cmpct" /\ thing \notin due[p]
       /\ unasked < MaxUnasked /\ unasked' = unasked + 1

(***************************************************************************)
(* What a peer is known to have.                                           *)
(***************************************************************************)
Better(best, b) == best = None \/ Height[b] >= Height[best]

ProcessBlockAvailability(n, known) ==
    IF n.unknown \in known
    THEN [n EXCEPT !.best = IF Better(@, n.unknown) THEN n.unknown ELSE @, !.unknown = None]
    ELSE n

UpdateBlockAvailability(n, known, b) ==
    LET m == ProcessBlockAvailability(n, known)
    IN  IF b \in known THEN [m EXCEPT !.best = IF Better(@, b) THEN b ELSE @]
        ELSE [m EXCEPT !.unknown = b]

CanDirectFetch == chain.tip \in Recent
Have(b) == b \in chain.data \/ b \in Path[chain.tip]
\* HaveNumChainTxs: the block and all its ancestors have been received.
Linked(b) == Path[b] \subseteq chain.data

\* FindNextBlocksToDownload and FindNextBlocks for a peer in state n: the
\* blocks to ask it for, the peer that holds everything up (p if no other),
\* and the last common block to remember.
FindNextBlocks(p, n, count) ==
    LET guess == IF n.common # None THEN n.common
                 ELSE IF Height[n.best] <= Height[chain.tip]
                      THEN CHOOSE x \in Path[chain.tip] : Height[x] = Height[n.best] ELSE chain.tip
        common == LastCommonAncestor(guess, n.best)
        end    == Height[common] + BLOCK_DOWNLOAD_WINDOW
        ahead  == {b \in Path[n.best] \ Path[common] : Height[b] <= end + 1}
        walk   == {b \in ahead : Path[b] \cap chain.failed = {}}
        free   == {b \in walk : ~Have(b) /\ dl.flight[b] = <<>>}
        busy   == {b \in walk : ~Have(b) /\ dl.flight[b] # <<>>}
        near   == SetToSortSeq({b \in free : Height[b] <= end}, LAMBDA a, b : Height[a] < Height[b])
        before == {b \in busy : \A x \in free : Height[b] < Height[x]}
    IN  [blocks  |-> SubSeq(near, 1, IF Len(near) < count THEN Len(near) ELSE count),
         staller |-> IF near = <<>> /\ free # {} /\ before # {} THEN dl.flight[Lowest(before)][1] ELSE p,
         common  |-> Highest({common} \cup {b \in walk : Have(b) /\ Linked(b)})]

(***************************************************************************)
(* Blame.                                                                  *)
(***************************************************************************)
Misbehaving(d, p, points) ==
    [d EXCEPT !.node[p].score =
        IF @ + points > DISCOURAGEMENT_THRESHOLD THEN DISCOURAGEMENT_THRESHOLD ELSE @ + points]

MaybePunishNodeForBlock(d, p, result, viaCompact) ==
    CASE result = "consensus" /\ ~viaCompact -> Misbehaving(d, p, DISCOURAGEMENT_THRESHOLD)
      [] result = "cached" /\ ~viaCompact /\ p \in Outbound -> Misbehaving(d, p, DISCOURAGEMENT_THRESHOLD)
      [] result = "prev" -> Misbehaving(d, p, DISCOURAGEMENT_THRESHOLD)
      [] result = "missing" -> Misbehaving(d, p, 1)
      [] OTHER -> d

\* AcceptBlockHeader for a header whose parent is in the index or not.
HeaderResult(b) ==
    IF b \in chain.known THEN (IF b \in chain.failed THEN "cached" ELSE "ok")
    ELSE IF Parent[b] \notin chain.known THEN "missing"
    ELSE IF Path[Parent[b]] \cap chain.failed # {} THEN "prev" ELSE "ok"

MaybeDiscourageAndDisconnect(p) ==
    /\ Up(p) /\ dl.node[p].score = DISCOURAGEMENT_THRESHOLD
    /\ dl' = [dl EXCEPT !.node[p].conn = "closing"]
    /\ UNCHANGED <<chain, source, hb, due, job, unasked>>

(***************************************************************************)
(* High-bandwidth peers: MaybeSetPeerAsAnnouncingHeaderAndIDs.             *)
(***************************************************************************)
Live(d, p) == d.node[p].conn \in {"up", "closing"}

KeepOutbound(d, p) ==
    LET outs == {q \in ToSet(hb) \cap Outbound : Live(d, q)}
    IN  IF p \notin Outbound /\ Len(hb) >= MaxAnnouncers /\ Cardinality(outs) = 1 /\ hb[1] \in outs
        THEN <<hb[2], hb[1]>> \o SubSeq(hb, 3, Len(hb))
        ELSE hb

SetAnnouncer(d, p) ==
    LET list == KeepOutbound(d, p)
        full == Len(list) >= MaxAnnouncers
        stop == IF full /\ d.node[list[1]].conn = "up" THEN {list[1]} ELSE {}
    IN  IF ~Live(d, p) \/ p \notin CmpctPeers THEN [node |-> d.node, hb |-> hb]
        ELSE IF p \in ToSet(hb)
             THEN [node |-> d.node, hb |-> Append(SelectSeq(hb, LAMBDA q : q # p), p)]
        ELSE IF d.node[p].conn # "up" THEN [node |-> d.node, hb |-> list]
        ELSE [node |-> [q \in Peers |-> [d.node[q] EXCEPT !.hbTo = q = p \/ (@ /\ q \notin stop)]],
              hb |-> Append(IF full THEN Tail(list) ELSE list, p)]

\* The signal of validation that a block was found valid or not; the source
\* is punished or, when nothing else is being downloaded, made to announce.
BlockChecked(b, result) ==
    \E src \in {source[b]} :
        /\ IF src = None THEN UNCHANGED <<dl, hb>>
           ELSE IF result # "ok"
           THEN /\ dl' = IF Live(dl, src.peer)
                         THEN MaybePunishNodeForBlock(dl, src.peer, result, ~src.full) ELSE dl
                /\ hb' = hb
           ELSE IF ~chain.ibd /\ \A c \in Blocks \ {b} : dl.flight[c] = <<>>
           THEN \E set \in {SetAnnouncer(dl, src.peer)} : dl' = [dl EXCEPT !.node = set.node] /\ hb' = set.hb
           ELSE UNCHANGED <<dl, hb>>
        /\ source' = [source EXCEPT ![b] = None]

(***************************************************************************)
(* Connections.                                                            *)
(***************************************************************************)
InitializeNode(p) ==
    /\ dl.node[p].conn = "new"
    /\ dl' = [dl EXCEPT !.node[p].conn = "up"]
    /\ UNCHANGED <<chain, source, hb, due, job, unasked>>

\* The peer closes the connection.
Closes(p) ==
    /\ Up(p) /\ p \notin Honest /\ unasked < MaxUnasked /\ unasked' = unasked + 1
    /\ dl' = [dl EXCEPT !.node[p].conn = "closing"]
    /\ UNCHANGED <<chain, source, hb, due, job>>

\* The socket thread, once no handler holds a reference to the node.
FinalizeNode(p) ==
    /\ dl.node[p].conn = "closing"
    /\ job # Idle => job.peer # p
    /\ dl' = [node |-> [dl.node EXCEPT ![p] = [NewNode EXCEPT !.conn = "gone"]],
              flight |-> [b \in Blocks |-> SelectSeq(dl.flight[b], LAMBDA q : q # p)],
              from |-> IF dl.node[p].queue = <<>> THEN dl.from ELSE dl.from - 1]
    /\ UNCHANGED <<chain, source, hb, due, job, unasked>>

(***************************************************************************)
(* Headers and inventory.                                                  *)
(***************************************************************************)
\* HeadersDirectFetchBlocks: all missing blocks up to the announced one, if
\* they are few; a single one as a compact block.
DirectFetch(d, p, last) ==
    LET new == Path[last] \ Path[chain.tip]
        want == SetToSortSeq({b \in new : b \notin chain.data /\ d.flight[b] = <<>>},
                             LAMBDA a, b : Height[a] < Height[b])
        room == MAX_BLOCKS_IN_TRANSIT_PER_PEER - Len(d.node[p].queue)
        get == SubSeq(want, 1, IF Len(want) < room THEN Len(want) ELSE room)
        first == \A b \in Blocks : d.flight[b] = <<>>
        cmpct == Len(get) = 1 /\ first /\ p \in CmpctPeers
                 /\ Parent[last] \in chain.valid
        far == Len(SelectSeq(want, LAMBDA b : b # Lowest(new))) > MAX_BLOCKS_IN_TRANSIT_PER_PEER
    IN  IF CanDirectFetch /\ Height[last] >= Height[chain.tip] /\ last \notin chain.failed /\ ~far
        THEN [dl |-> RequestAll(d, p, get),
              ask |-> {<<IF cmpct THEN "cmpct" ELSE "block", b>> : b \in ToSet(get)}]
        ELSE [dl |-> d, ask |-> {}]

\* The part of ProcessHeadersMessage that follows the work checks, for the
\* headers after f up to b: accept them in order until one is refused.
Refused(x) == \/ x \in chain.known /\ x \in chain.failed
              \/ x \notin chain.known /\ Path[Parent[x]] \cap chain.failed # {}
ProcessHeaders(p, f, b, viaCompact) ==
    \E bad \in {{x \in Path[b] \ Path[f] : Refused(x)}} :
    \E known \in {chain.known \cup {x \in Path[b] \ Path[f] : \A y \in bad : Height[x] < Height[y]}} :
        /\ IF f \notin chain.known
           THEN /\ dl' = [dl EXCEPT !.node[p] = UpdateBlockAvailability(@, chain.known, b)]
                /\ UNCHANGED <<chain, due>>
           ELSE /\ chain' = [chain EXCEPT !.known = known]
                /\ IF bad # {}
                   THEN /\ dl' = MaybePunishNodeForBlock(dl, p, HeaderResult(Lowest(bad)), viaCompact)
                        /\ due' = due
                   ELSE \E at \in {[dl EXCEPT !.node[p] = UpdateBlockAvailability(@, known, b)]} :
                        \E get \in {DirectFetch(at, p, b)} : dl' = get.dl /\ Now(p, {}, get.ask)
        /\ UNCHANGED <<source, hb>>

Headers(p, f, b) ==
    /\ job = Idle /\ Up(p)
    /\ f \in Path[b] \ {b}
    /\ p \notin Honest /\ Sends(p, <<"headers", b>>)
    /\ ProcessHeaders(p, f, b, FALSE)
    /\ UNCHANGED job

\* An honest peer announces its chain.
HonestHeaders(p) ==
    /\ job = Idle /\ Up(p) /\ dl.node[p].best # HonestTip
    /\ ProcessHeaders(p, Genesis, HonestTip, FALSE)
    /\ UNCHANGED <<job, unasked>>

\* An inv for a block: it only updates what the peer is known to have.
Inv(p, b) ==
    /\ job = Idle /\ Up(p) /\ p \notin Honest /\ Sends(p, <<"inv", b>>)
    /\ dl' = [dl EXCEPT !.node[p] = UpdateBlockAvailability(@, chain.known, b)]
    /\ UNCHANGED <<chain, source, hb, due, job>>

(***************************************************************************)
(* Compact blocks.                                                         *)
(***************************************************************************)
\* data: what InitData makes of it: "invalid", "failed", some transactions
\* "missing", or all there ("complete").
CmpctData == {"invalid", "failed", "missing", "complete"}
Availability(p, b) ==
    [dl EXCEPT !.node[p] = UpdateBlockAvailability(@, chain.known \cup {b}, b)]
HeldUp(b) == \E q \in ToSet(dl.flight[b]) : q \in Outbound

UseSlot_Blind(p, b, data) ==
    /\ dl' = BlockRequested(Availability(p, b), p, b, "open")
    /\ Now(p, {<<"cmpct", b>>}, IF dl.flight[b] = <<>> THEN {<<"block", b>>} ELSE {})
    /\ job' = Idle

\* With a slot for this block (or one already held): keep the partial block
\* and fetch what is missing, fall back to the full block, or give up.
UseSlot(p, b, data) ==
    \E at \in {BlockRequested(Availability(p, b), p, b, "open")} :
    LET already == Len(dl.flight[b])
        first == already = 0 \/ dl.flight[b][1] = p
        txns == first \/ (dl.node[p].hbTo /\ (p \in Outbound \/ HeldUp(b)
                                 \/ already < MAX_CMPCTBLOCKS_INFLIGHT_PER_BLOCK - 1))
        Ask(thing) == dl' = at /\ Now(p, {<<"cmpct", b>>}, {<<thing, b>>})
        GiveUp(d) == dl' = RemoveBlockRequest(d, b, {p}) /\ Now(p, {<<"cmpct", b>>}, {})
    IN  /\ CASE data = "invalid" -> GiveUp(Misbehaving(at, p, DISCOURAGEMENT_THRESHOLD))
             [] data = "failed" -> IF first THEN Ask("block") ELSE GiveUp(at)
             [] data = "missing" -> IF txns THEN Ask("txn") ELSE GiveUp(at)
             [] data = "complete" -> dl' = at /\ Now(p, {<<"cmpct", b>>}, {})
        /\ job' = IF data = "complete" THEN [step |-> "txns", peer |-> p, block |-> b] ELSE Idle

Processing(p, b, force, optimistic) ==
    [step |-> "accept", peer |-> p, block |-> b, force |-> force, new |-> FALSE,
     optimistic |-> optimistic]

\* The source of a block is the first to have sent it since it was last checked.
Emplace(b, p, full) == source' = [source EXCEPT ![b] = IF @ = None THEN [peer |-> p, full |-> full] ELSE @]

\* What every case of a CMPCTBLOCK starts with.  Without its parent the
\* message is dropped.
Cmpct(p, b) ==
    /\ job = Idle /\ Up(p) /\ Parent[b] \in chain.known
    /\ p \in Honest => Parent[b] \in Good \cup {Genesis}
    /\ Sends(p, <<"cmpct", b>>)
    /\ UNCHANGED hb
CmpctAccepted(p, b) ==
    /\ Cmpct(p, b) /\ HeaderResult(b) = "ok"
    /\ chain' = [chain EXCEPT !.known = @ \cup {b}]
Ahead(b) == b \notin chain.data /\ Height[b] > Height[chain.tip]
Near(b) == Height[b] <= Height[chain.tip] + CmpctDepth
Wanted(b) == dl.flight[b] # <<>> \/ CanDirectFetch
Slot(p, b) ==
    \/ Asked(dl, p, b)
    \/ /\ Len(dl.flight[b]) < MAX_CMPCTBLOCKS_INFLIGHT_PER_BLOCK
       /\ Len(dl.node[p].queue) < MAX_BLOCKS_IN_TRANSIT_PER_PEER

CmpctRefused(p, b) ==
    /\ Cmpct(p, b) /\ HeaderResult(b) # "ok"
    /\ dl' = MaybePunishNodeForBlock(dl, p, HeaderResult(b), TRUE)
    /\ Now(p, {<<"cmpct", b>>}, {})
    /\ UNCHANGED <<chain, source, job>>

\* We have it, do not want it now, or are already at it with this peer.
CmpctUnused(p, b) ==
    /\ CmpctAccepted(p, b)
    /\ \/ b \in chain.data
       \/ Ahead(b) /\ ~Wanted(b)
       \/ ~Ahead(b) /\ ~Asked(dl, p, b)
       \/ Ahead(b) /\ Near(b) /\ Asked(dl, p, b) /\ Partial(dl, p, b) # "none"
    /\ dl' = Availability(p, b)
    /\ Now(p, {<<"cmpct", b>>}, {})
    /\ UNCHANGED <<source, job>>

\* Requested, but no better than the tip or too far ahead: get the full block.
CmpctAskFull(p, b) ==
    /\ CmpctAccepted(p, b)
    /\ b \notin chain.data /\ Asked(dl, p, b) /\ (Ahead(b) => ~Near(b))
    /\ dl' = Availability(p, b)
    /\ Now(p, {<<"cmpct", b>>}, {<<"block", b>>})
    /\ UNCHANGED <<source, job>>

CmpctAsHeader(p, b) ==
    /\ Cmpct(p, b) /\ HeaderResult(b) = "ok"
    /\ Ahead(b) /\ Wanted(b) /\ ~Near(b) /\ ~Asked(dl, p, b)
    /\ ProcessHeaders(p, Parent[b], b, TRUE)
    /\ UNCHANGED job

CmpctUse(p, b, data) ==
    /\ CmpctAccepted(p, b)
    /\ Ahead(b) /\ Wanted(b) /\ Near(b) /\ Slot(p, b)
    /\ Asked(dl, p, b) => Partial(dl, p, b) = "none"
    /\ p \in Honest => data # "invalid"
    /\ UseSlot(p, b, data)
    /\ UNCHANGED source

\* In flight from others: use it only if nothing is missing.
CmpctOptimistic(p, b, data) ==
    /\ CmpctAccepted(p, b)
    /\ Ahead(b) /\ Wanted(b) /\ Near(b) /\ ~Slot(p, b)
    /\ dl' = Availability(p, b)
    /\ IF data = "complete" /\ Fault[b] # "check"
       THEN Emplace(b, p, FALSE) /\ job' = Processing(p, b, TRUE, TRUE)
       ELSE UNCHANGED <<source, job>>
    /\ UNCHANGED due

\* ProcessCompactBlockTxns with what FillBlock makes of the transactions:
\* "invalid" (wrong number), "failed" (they are not the block's), or "ok".
ProcessCompactBlockTxns(p, b, status) ==
    LET first == dl.flight[b][1] = p
        use == IF Partial(dl, p, b) = "spent" THEN "invalid" ELSE status
        Spend(e) == IF e.block = b THEN [e EXCEPT !.partial = "spent"] ELSE e
    IN  IF ~Asked(dl, p, b) \/ Partial(dl, p, b) = "none"
        THEN job' = Idle /\ Now(p, {<<"txn", b>>}, {}) /\ UNCHANGED <<dl, source>>
        ELSE IF use = "failed" /\ first
        THEN /\ dl' = [dl EXCEPT !.node[p].queue = [i \in DOMAIN @ |-> Spend(@[i])]]
             /\ Now(p, {<<"txn", b>>}, {<<"block", b>>}) /\ job' = Idle /\ UNCHANGED source
        ELSE /\ dl' = RemoveBlockRequest(IF use = "invalid" THEN Misbehaving(dl, p, DISCOURAGEMENT_THRESHOLD)
                                         ELSE dl, b, {p})
             /\ Now(p, {<<"txn", b>>}, {})
             /\ IF use = "ok" THEN Emplace(b, p, FALSE) /\ job' = Processing(p, b, TRUE, FALSE)
                ELSE job' = Idle /\ UNCHANGED source

BlockTxn(p, b, status) ==
    /\ job = Idle /\ Up(p)
    /\ p \in Honest => status # "invalid"
    /\ Sends(p, <<"txn", b>>)
    /\ ProcessCompactBlockTxns(p, b, status)
    /\ UNCHANGED <<chain, hb>>

\* A compact block that lacks nothing goes on as if its BLOCKTXN had come.
CmpctComplete(status) ==
    /\ job.step = "txns"
    /\ ProcessCompactBlockTxns(job.peer, job.block, status)
    /\ UNCHANGED <<chain, hb, unasked>>

(***************************************************************************)
(* Full blocks.                                                            *)
(***************************************************************************)
Block(p, b) ==
    /\ job = Idle /\ Up(p)
    /\ p \in Honest => b \in Good
    /\ Sends(p, <<"block", b>>)
    /\ dl' = RemoveBlockRequest(dl, b, {p})
    /\ Emplace(b, p, TRUE)
    /\ Now(p, {<<"block", b>>}, {})
    /\ job' = Processing(p, b, dl.flight[b] # <<>>, FALSE)
    /\ UNCHANGED <<chain, hb>>

\* IsBlockMutated: the transactions are not those of the header.
MutatedBlock(p, b) ==
    /\ job = Idle /\ Up(p) /\ p \notin Honest /\ Parent[b] \in chain.known
    /\ Sends(p, <<"block", b>>)
    /\ dl' = RemoveBlockRequest(Misbehaving(dl, p, DISCOURAGEMENT_THRESHOLD), b, {p})
    /\ UNCHANGED <<chain, source, hb, due, job>>

(***************************************************************************)
(* ProcessBlock: ProcessNewBlock accepts the block, activates the best     *)
(* chain, and the request is forgotten.                                    *)
(***************************************************************************)
BlockResult(b) == IF Fault[b] = "check" THEN "consensus" ELSE HeaderResult(b)
\* An unrequested block is stored only if it has as much work as the tip.
Stores(b) == b \notin chain.data /\ (job.force \/ Height[b] >= Height[chain.tip])

ProcessNewBlock ==
    LET b == job.block IN
    /\ job.step = "accept"
    /\ IF BlockResult(b) # "ok"
       THEN BlockChecked(b, BlockResult(b)) /\ job' = [job EXCEPT !.step = "finish"] /\ UNCHANGED chain
       ELSE /\ chain' = [chain EXCEPT !.known = @ \cup {b}, !.data = IF Stores(b) THEN @ \cup {b} ELSE @]
            /\ job' = [job EXCEPT !.step = "activate", !.new = Stores(b)]
            /\ UNCHANGED <<dl, source, hb>>
    /\ UNCHANGED <<due, unasked>>

Candidates ==
    LET S == {b \in chain.data : Linked(b) /\ Path[b] \cap chain.failed = {}}
    IN  {b \in S : Height[b] > Height[chain.tip] /\ \A c \in S : Height[c] <= Height[b]}

\* One ConnectTip on the way to the best candidate.
ActivateBestChain(c) ==
    LET x == Lowest(Path[c] \ Path[chain.tip]) IN
    /\ job.step = "activate" /\ c \in Candidates
    /\ IF Fault[x] = "none"
       THEN /\ chain' = [chain EXCEPT !.tip = x, !.valid = @ \cup {x}, !.ibd = @ /\ x \notin Recent]
            /\ BlockChecked(x, "ok")
       ELSE /\ chain' = [chain EXCEPT !.tip = Parent[x], !.failed = @ \cup {x}]
            /\ BlockChecked(x, "consensus")
    /\ UNCHANGED <<due, job, unasked>>

Activated ==
    /\ job.step = "activate" /\ Candidates = {}
    /\ job' = [job EXCEPT !.step = "finish"]
    /\ UNCHANGED <<chain, dl, source, hb, due, unasked>>

ProcessBlock ==
    LET b == job.block
        valid == b \in chain.data /\ b \notin chain.failed
    IN  /\ job.step = "finish"
        /\ dl' = IF job.new \/ (job.optimistic /\ valid) THEN RemoveBlockRequest(dl, b, Peers) ELSE dl
        /\ source' = IF job.new THEN source ELSE [source EXCEPT ![b] = None]
        /\ job' = Idle
        /\ UNCHANGED <<chain, hb, due, unasked>>

(***************************************************************************)
(* SendMessages: the part about blocks.                                    *)
(***************************************************************************)
Preferred == {p \in Outbound : dl.node[p].conn \in {"up", "closing"}}
SyncFrom(p) == p \in Outbound \/ Preferred = {} \/ \A b \in Blocks : dl.flight[b] = <<>>

MayAsk(p, n) ==
    /\ Up(p) /\ n.score < DISCOURAGEMENT_THRESHOLD
    /\ (SyncFrom(p) /\ p \notin Limited) \/ ~chain.ibd
    /\ Len(n.queue) < MAX_BLOCKS_IN_TRANSIT_PER_PEER
    /\ n.best # None /\ Height[n.best] >= Height[chain.tip]

SendGetData(p) ==
    /\ job = Idle
    /\ \E n \in {ProcessBlockAvailability(dl.node[p], chain.known)} :
       /\ MayAsk(p, n)
       /\ \E find \in {FindNextBlocks(p, n, MAX_BLOCKS_IN_TRANSIT_PER_PEER - Len(n.queue))} :
          \E d \in {RequestAll([dl EXCEPT !.node[p] = [n EXCEPT !.common = find.common]], p, find.blocks)} :
             /\ dl' = IF d.node[p].queue = <<>> /\ find.staller # p
                      THEN [d EXCEPT !.node[find.staller].stalling = TRUE] ELSE d
             /\ Now(p, {}, {<<"block", b>> : b \in ToSet(find.blocks)})
    /\ UNCHANGED <<chain, source, hb, job, unasked>>

\* The stalling timeout, and the timeout of the first block in the queue.
Stalls(p) ==
    /\ job = Idle /\ Up(p) /\ p \notin Honest
    /\ dl.node[p].stalling
    /\ dl' = [dl EXCEPT !.node[p].conn = "closing"]
    /\ UNCHANGED <<chain, source, hb, due, job, unasked>>

DownloadTimesOut(p) ==
    /\ job = Idle /\ Up(p) /\ p \notin Honest
    /\ dl.node[p].queue # <<>>
    /\ dl' = [dl EXCEPT !.node[p].conn = "closing"]
    /\ UNCHANGED <<chain, source, hb, due, job, unasked>>

\* The RPC getblockfrompeer, for a block the peer has; it runs on a thread of
\* its own.
FetchBlock(p, b) ==
    /\ unasked < MaxUnasked /\ unasked' = unasked + 1
    /\ Live(dl, p) /\ b \in chain.known /\ (p \in Honest => b \in Good)
    /\ dl' = BlockRequested(RemoveBlockRequest(dl, b, Peers), p, b, "none")
    /\ Now(p, {}, IF Up(p) THEN {<<"block", b>>} ELSE {})
    /\ UNCHANGED <<chain, source, hb, job>>

\* What a peer sends about a block.
Sent(p, b) ==
    \/ Block(p, b)
    \/ CmpctRefused(p, b) \/ CmpctUnused(p, b) \/ CmpctAskFull(p, b) \/ CmpctAsHeader(p, b)
    \/ \E data \in CmpctData : CmpctUse(p, b, data) \/ CmpctOptimistic(p, b, data)
    \/ \E status \in {"invalid", "failed", "ok"} : BlockTxn(p, b, status)

\* What the node does by itself, and what honest peers do.
System ==
    \/ ProcessNewBlock \/ (\E c \in Blocks : ActivateBestChain(c)) \/ Activated \/ ProcessBlock
    \/ job.step = "txns" /\ \E status \in {"failed", "ok"} : CmpctComplete(status)
    \/ \E p \in Peers :
          \/ FinalizeNode(p) \/ MaybeDiscourageAndDisconnect(p)
          \/ Stalls(p) \/ DownloadTimesOut(p) \/ SendGetData(p)
    \/ \E p \in Honest : InitializeNode(p) \/ HonestHeaders(p)

Next ==
    \/ System
    \/ \E p \in Peers, b \in Blocks : Sent(p, b) \/ FetchBlock(p, b)
    \/ \E p \in Peers \ Honest :
          \/ InitializeNode(p) \/ Closes(p)
          \/ \E b \in Blocks :
                \/ \E f \in Path[b] : Headers(p, f, b)
                \/ Inv(p, b) \/ MutatedBlock(p, b)

\* The node goes on while there is something to do: its threads visit every
\* peer again and again, timeouts expire, closed connections are cleaned up;
\* and honest peers connect, announce their chain and send what they owe.
Answer ==
    \E p \in Honest : \E thing \in due[p] : job = Idle /\ Sent(p, thing[2]) /\ unasked' = unasked
Fairness == WF_vars(System) /\ WF_vars(Answer)

Spec == Init /\ [][Next]_vars /\ Fairness

(***************************************************************************)
(* Properties.                                                             *)
(***************************************************************************)
\* The three records of what is in flight agree (RemoveBlockRequest,
\* BlockRequested and FinalizeNode assert parts of it): the map holds a peer
\* for a block exactly when the peer's queue holds the block, once; the
\* counter is the number of peers with a non-empty queue; no block is in
\* flight more often than allowed; and only a peer that owes us a block is
\* held to be stalling.
RequestsConsistent ==
    /\ \A p \in Peers, b \in Blocks :
          /\ Cardinality({i \in DOMAIN dl.flight[b] : dl.flight[b][i] = p})
               = Cardinality({i \in DOMAIN dl.node[p].queue : dl.node[p].queue[i].block = b})
          /\ Cardinality({i \in DOMAIN dl.flight[b] : dl.flight[b][i] = p}) <= 1
    /\ dl.from = Cardinality({p \in Peers : dl.node[p].queue # <<>>})
    /\ \A b \in Blocks : Len(dl.flight[b]) <= MAX_CMPCTBLOCKS_INFLIGHT_PER_BLOCK
    /\ \A p \in Peers : dl.node[p].stalling => dl.node[p].queue # <<>>

\* Honest peers are never punished, though they may relay the header of an
\* invalid block in a compact block before having validated it, others send
\* the same block in full, and their answers arrive after the request was
\* given to someone else (mapBlockSource, ProcessCompactBlockTxns).
HonestNotPunished == \A p \in Honest : dl.node[p].score = 0

\* With one honest peer the best valid chain becomes the active chain and
\* stays so, whatever the other peers announce, send, withhold or begin and
\* never finish.
TipCatchesUp == <>[](chain.tip = HonestTip)
=============================================================================

----------------------------- MODULE HeadersSync -----------------------------
(***************************************************************************)
(* How a node that is far behind learns the headers of the best chain      *)
(* without storing headers of chains with little work: HeadersSyncState    *)
(* (headerssync.cpp), which goes through a chain twice, and the part of    *)
(* PeerManagerImpl (net_processing.cpp) that drives it: which peer is      *)
(* asked for headers, what is done with a HEADERS message, and what        *)
(* happens to a peer that does not answer.                                 *)
(*                                                                         *)
(* Every header has one unit of work, so that work is height.  The tip of  *)
(* the active chain is the genesis block all along (initial download), so  *)
(* that the anti-DoS threshold is MinimumChainWork.  Headers are valid.    *)
(***************************************************************************)
EXTENDS Integers, SequencesExt

CONSTANTS
    Peers, Preferred,    \* NodeIds; those with fPreferredDownload (outbound)
    NoBan,               \* peers with NetPermissionFlags::NoBan
    Honest,              \* peers that have the chain to HonestTip and answer in time
    Blocks, Genesis, Parent, HonestTip,
    Recent,              \* headers with a time less than 24 hours ago
    Steep,               \* headers PermittedDifficultyTransition refuses
    Bit,                 \* the salted one-bit hash of a header
    MinimumChainWork,
    MAX_HEADERS_RESULTS,
    MAX_BLOCKS_TO_ANNOUNCE,
    MAX_NUM_UNCONNECTING_HEADERS_MSGS,
    HEADER_COMMITMENT_PERIOD,
    REDOWNLOAD_BUFFER_SIZE,
    MaxCommitments,      \* m_max_commitments
    MaxProtected,        \* MAX_OUTBOUND_PEERS_TO_PROTECT_FROM_DISCONNECT
    DISCOURAGEMENT_THRESHOLD, \* in units of 10 points
    MaxUnasked,          \* bound: messages nobody asked for
    None

VARIABLES
    index,   \* the headers in the block index
    best,    \* m_best_header
    node,    \* Peer and CNodeState of every connection
    syncs,   \* nSyncStarted
    guards,  \* m_outbound_peers_with_protect_from_disconnect
    lastInv, \* m_last_block_inv_triggering_headers_sync
    unasked

vars == <<index, best, node, syncs, guards, lastInv, unasked>>

All == Blocks \cup {Genesis}
Height[b \in All] == IF b = Genesis THEN 0 ELSE Height[Parent[b]] + 1
Path[b \in All] == IF b = Genesis THEN <<>> ELSE Append(Path[Parent[b]], b)
Ancestors == [b \in All |-> ToSet(Path[b]) \cup {Genesis}]
\* The headers after f up to b.
Segment(f, b) == SubSeq(Path[b], Height[f] + 1, Height[b])

\* started  fSyncStarted
\* asked    a GETHEADERS was sent less than HEADERS_RESPONSE_TIME ago
\* request  the locator the peer has yet to answer
\* sync     m_headers_sync
\* known    pindexBestKnownBlock
\* strange  m_num_unconnecting_headers_msgs
\* byInv    m_inv_triggered_getheaders_before_sync
NewNode == [conn |-> "new", started |-> FALSE, asked |-> FALSE, request |-> None, sync |-> None,
            known |-> None, strange |-> 0, byInv |-> FALSE, score |-> 0, protected |-> FALSE]

Init ==
    /\ index = {Genesis} /\ best = Genesis
    /\ node = [p \in Peers |-> NewNode]
    /\ syncs = 0 /\ guards = 0 /\ lastInv = None /\ unasked = 0

(***************************************************************************)
(* HeadersSyncState.                                                       *)
(***************************************************************************)
HeadersSyncState(start, offset) ==
    [phase |-> "presync", start |-> start, offset |-> offset, last |-> start,
     commitments |-> <<>>, buffer |-> <<>>]

Committed(s, b) == Height[b] % HEADER_COMMITMENT_PERIOD = s.offset
Bits(seq) == [i \in DOMAIN seq |-> Bit[seq[i]]]
Failed == [success |-> FALSE, more |-> FALSE, headers |-> <<>>, sync |-> None]
\* The object goes away unless more is wanted from the peer.
Result(headers, more, s) ==
    [success |-> TRUE, more |-> more, headers |-> headers, sync |-> IF more THEN s ELSE None]

\* First phase: store one bit per period, until the work is there; then start
\* again from the beginning.
ValidateAndStoreHeadersCommitments(s, seq, full) ==
    LET new == s.commitments \o Bits(SelectSeq(seq, LAMBDA b : Committed(s, b)))
        end == Last(seq)
        s1  == [s EXCEPT !.commitments = new, !.last = end]
    IN  IF ToSet(seq) \cap Steep # {} \/ Len(new) > MaxCommitments THEN Failed
        ELSE IF Height[end] >= MinimumChainWork
             THEN Result(<<>>, TRUE, [s1 EXCEPT !.phase = "redownload", !.last = s.start])
        ELSE Result(<<>>, full, s1)

PopHeadersReadyForAcceptance_OneLess(buffer, all) ==
    IF all THEN Len(buffer)
    ELSE IF Len(buffer) >= REDOWNLOAD_BUFFER_SIZE THEN Len(buffer) - REDOWNLOAD_BUFFER_SIZE + 1 ELSE 0

\* Headers that may leave the buffer: those with enough others on top of
\* them, or all once the work is there again.
PopHeadersReadyForAcceptance(buffer, all) ==
    IF all THEN Len(buffer)
    ELSE IF Len(buffer) > REDOWNLOAD_BUFFER_SIZE THEN Len(buffer) - REDOWNLOAD_BUFFER_SIZE ELSE 0

\* Second phase: compare with the bits stored in the first.
ValidateAndStoreRedownloadedHeaders(s, seq, full) ==
    LET check  == Bits(SelectSeq(seq, LAMBDA b : Committed(s, b) /\ Height[b] < MinimumChainWork))
        buffer == s.buffer \o seq
        all    == Height[Last(seq)] >= MinimumChainWork
        k      == PopHeadersReadyForAcceptance(buffer, all)
        s1     == [s EXCEPT !.last = Last(seq), !.buffer = SubSeq(buffer, k + 1, Len(buffer)),
                            !.commitments = SubSeq(@, Len(check) + 1, Len(@))]
    IN  IF ToSet(seq) \cap Steep # {} \/ ~IsPrefix(check, s.commitments) THEN Failed
        ELSE Result(SubSeq(buffer, 1, k), full /\ ~(all /\ k = Len(buffer)), s1)

\* s.last is m_last_header_received, and then m_redownload_buffer_last_hash;
\* it is also where the next request starts (NextHeadersRequestLocator).
ProcessNextHeaders(s, seq, full) ==
    IF Parent[seq[1]] # s.last THEN Failed
    ELSE IF s.phase = "presync" THEN ValidateAndStoreHeadersCommitments(s, seq, full)
    ELSE ValidateAndStoreRedownloadedHeaders(s, seq, full)

(***************************************************************************)
(* Headers messages.                                                       *)
(***************************************************************************)
Misbehaving(n, points) ==
    [n EXCEPT !.score = IF @ + points > DISCOURAGEMENT_THRESHOLD THEN DISCOURAGEMENT_THRESHOLD
                        ELSE @ + points]

MaybeSendGetHeaders(n, locator) ==
    IF n.asked THEN n ELSE [n EXCEPT !.asked = TRUE, !.request = locator]

Better(known, b) == known = None \/ Height[b] >= Height[known]

HandleFewUnconnectingHeaders(n) ==
    LET m == MaybeSendGetHeaders([n EXCEPT !.strange = (@ + 1) % MAX_NUM_UNCONNECTING_HEADERS_MSGS], best)
    IN  IF m.strange = 0 THEN Misbehaving(m, 2) ELSE m

\* What a peer is known to have, whether its chain is of any use, and whether
\* it is to be protected from eviction.
UpdatePeerStateForReceivedHeaders(p, n, last, full) ==
    LET m == [n EXCEPT !.strange = 0, !.known = IF Better(@, last) THEN last ELSE @]
        useless == ~full /\ Height[m.known] < MinimumChainWork /\ p \in Preferred
        protect == ~useless /\ p \in Preferred /\ guards < MaxProtected /\ ~m.protected
    IN  /\ node' = [node EXCEPT ![p] = [m EXCEPT !.conn = IF useless THEN "closing" ELSE @,
                                                  !.protected = @ \/ protect]]
        /\ guards' = IF protect THEN guards + 1 ELSE guards

\* The headers may be stored.
ProcessNewBlockHeaders(p, n, seq, full) ==
    LET last == Last(seq)
        m == IF full /\ n.sync = None THEN MaybeSendGetHeaders(n, last) ELSE n
    IN  /\ index' = index \cup ToSet(seq)
        /\ best' = IF Height[last] > Height[best] THEN last ELSE best
        /\ UpdatePeerStateForReceivedHeaders(p, m, last, full)

\* A chain with too little work so far: follow it if there may be more of it.
TryLowWorkHeadersSync(p, n, seq, full) ==
    /\ IF full
       THEN \E offset \in 0 .. HEADER_COMMITMENT_PERIOD - 1 :
              LET r == ProcessNextHeaders(HeadersSyncState(Parent[seq[1]], offset), seq, full)
                  m == [n EXCEPT !.sync = r.sync]
              IN  node' = [node EXCEPT ![p] = IF r.more THEN MaybeSendGetHeaders(m, r.sync.last) ELSE m]
       ELSE node' = [node EXCEPT ![p] = n]
    /\ UNCHANGED <<index, best, guards>>

\* The headers sent, in the order of the checks of ProcessHeadersMessage; seq
\* is what the sync leaves to process.
ProcessHeadersMessage(p, before, sent) ==
    \E n0 \in {[before EXCEPT !.asked = FALSE]}, full \in {Len(sent) = MAX_HEADERS_RESULTS} :
    \E r \in {IF n0.sync = None \/ sent = <<>> THEN Failed ELSE ProcessNextHeaders(n0.sync, sent, full)} :
    \E seq \in {IF r.success THEN r.headers ELSE sent},
       n \in {IF r.more THEN MaybeSendGetHeaders([n0 EXCEPT !.sync = r.sync], r.sync.last)
              ELSE [n0 EXCEPT !.sync = None]} :
    LET Leave(m) == node' = [node EXCEPT ![p] = m] /\ UNCHANGED <<index, best, guards>>
    IN  IF Len(sent) > MAX_HEADERS_RESULTS THEN Leave(Misbehaving(n0, 2))
        ELSE IF seq = <<>> THEN Leave(n)
        ELSE IF Parent[seq[1]] \notin index
             THEN Leave(IF Len(sent) <= MAX_BLOCKS_TO_ANNOUNCE THEN HandleFewUnconnectingHeaders(n)
                        ELSE Misbehaving(n, 1))
        ELSE IF /\ ~r.success /\ Last(seq) \notin Ancestors[best] /\ p \notin NoBan
                /\ Height[Last(seq)] < MinimumChainWork
             THEN TryLowWorkHeadersSync(p, n, seq, full)
        ELSE ProcessNewBlockHeaders(p, n, seq, full)

Up(p) == node[p].conn = "up"
Unasked == unasked < MaxUnasked /\ unasked' = unasked + 1

\* A HEADERS message of a peer that sends what it likes.
Headers(p, f, b) ==
    /\ Up(p) /\ p \notin Honest /\ f \in Ancestors[b] /\ Unasked
    /\ ProcessHeadersMessage(p, node[p], Segment(f, b))
    /\ UNCHANGED <<syncs, lastInv>>

\* What an honest peer answers: the headers after the first block of the
\* locator that is on its chain.
Reply == [x \in All |->
    LET rest == SelectSeq(Path[HonestTip], LAMBDA b : b \notin Ancestors[x])
    IN  SubSeq(rest, 1, IF Len(rest) < MAX_HEADERS_RESULTS THEN Len(rest) ELSE MAX_HEADERS_RESULTS)]

Answer(p) ==
    /\ Up(p) /\ p \in Honest /\ node[p].request # None
    /\ \E sent \in {Reply[node[p].request]} :
          ProcessHeadersMessage(p, [node[p] EXCEPT !.request = None], sent)
    /\ UNCHANGED <<syncs, lastInv, unasked>>

\* The two minutes are over.
GetHeadersExpires(p) ==
    /\ Up(p) /\ p \notin Honest /\ node[p].asked
    /\ node' = [node EXCEPT ![p].asked = FALSE]
    /\ UNCHANGED <<index, best, syncs, guards, lastInv, unasked>>

\* An inv for a block we do not have: ask for headers, if headers are already
\* being synced with this peer or no other peer's inv of that block did so.
Inv(p, b) ==
    LET n == node[p]
        ask == n.started \/ (~n.byInv /\ lastInv # b)
    IN  /\ Up(p) /\ b \notin index /\ Unasked
        /\ p \in Honest => b = HonestTip
        /\ node' = IF ask THEN [node EXCEPT ![p] = [MaybeSendGetHeaders(n, best) EXCEPT
                                                        !.byInv = @ \/ ~n.started]]
                   ELSE node
        /\ lastInv' = IF ask /\ ~n.started THEN b ELSE lastInv
        /\ UNCHANGED <<index, best, syncs, guards>>

(***************************************************************************)
(* SendMessages: the part about headers.                                   *)
(***************************************************************************)
Live(p) == node[p].conn \in {"up", "closing"}

\* A peer that is not preferred is used only when no blocks are in flight,
\* which depends on what is left out here: it may be used or not.
StartSync(p) ==
    LET from == IF best = Genesis THEN Genesis ELSE Parent[best] IN
    /\ Up(p) /\ ~node[p].started /\ ~node[p].asked
    /\ syncs = 0 \/ best \in Recent
    /\ node' = [node EXCEPT ![p] = [MaybeSendGetHeaders(@, from) EXCEPT !.started = TRUE]]
    /\ syncs' = syncs + 1
    /\ UNCHANGED <<index, best, guards, lastInv, unasked>>

HeadersTimeOut_Keep(p) ==
    /\ Up(p) /\ p \notin Honest /\ node[p].started /\ best \notin Recent
    /\ syncs > 1 /\ \E q \in Preferred \ {p} : Live(q)
    /\ node' = [node EXCEPT ![p].conn = "closing"] /\ syncs' = syncs
    /\ UNCHANGED <<index, best, guards, lastInv, unasked>>

\* The only sync peer has not delivered in time, and there is another one.
HeadersTimeOut(p) ==
    /\ Up(p) /\ p \notin Honest /\ node[p].started /\ best \notin Recent
    /\ syncs = 1 /\ \E q \in Preferred \ {p} : Live(q)
    /\ IF p \in NoBan
       THEN node' = [node EXCEPT ![p].started = FALSE] /\ syncs' = syncs - 1
       ELSE node' = [node EXCEPT ![p].conn = "closing"] /\ syncs' = syncs
    /\ UNCHANGED <<index, best, guards, lastInv, unasked>>

MaybeDiscourageAndDisconnect(p) ==
    /\ Up(p) /\ node[p].score = DISCOURAGEMENT_THRESHOLD /\ p \notin NoBan
    /\ node' = [node EXCEPT ![p].conn = "closing"]
    /\ UNCHANGED <<index, best, syncs, guards, lastInv, unasked>>

InitializeNode(p) ==
    /\ node[p].conn = "new"
    /\ node' = [node EXCEPT ![p].conn = "up"]
    /\ UNCHANGED <<index, best, syncs, guards, lastInv, unasked>>

Closes(p) ==
    /\ Up(p) /\ p \notin Honest /\ Unasked
    /\ node' = [node EXCEPT ![p].conn = "closing"]
    /\ UNCHANGED <<index, best, syncs, guards, lastInv>>

FinalizeNode(p) ==
    /\ node[p].conn = "closing"
    /\ node' = [node EXCEPT ![p] = [NewNode EXCEPT !.conn = "gone"]]
    /\ syncs' = IF node[p].started THEN syncs - 1 ELSE syncs
    /\ guards' = IF node[p].protected THEN guards - 1 ELSE guards
    /\ UNCHANGED <<index, best, lastInv, unasked>>

Next ==
    \E p \in Peers :
        \/ InitializeNode(p) \/ Closes(p) \/ FinalizeNode(p) \/ MaybeDiscourageAndDisconnect(p)
        \/ StartSync(p) \/ HeadersTimeOut(p) \/ GetHeadersExpires(p) \/ Answer(p)
        \/ \E b \in All : Inv(p, b) \/ \E f \in All : Headers(p, f, b)

\* The message thread visits every peer again and again, connections are
\* cleaned up, timeouts expire, and honest peers connect and answer.
Fairness ==
    \A p \in Peers :
        /\ WF_vars(FinalizeNode(p)) /\ WF_vars(MaybeDiscourageAndDisconnect(p))
        /\ WF_vars(HeadersTimeOut(p)) /\ (p \in Preferred => SF_vars(StartSync(p)))
        /\ p \in Honest => WF_vars(Answer(p)) /\ WF_vars(InitializeNode(p))

Spec == Init /\ [][Next]_vars /\ Fairness

(***************************************************************************)
(* Properties.                                                             *)
(***************************************************************************)
\* No header is stored unless it is part of a chain with enough work, even
\* if a peer shows one chain in the first phase and another in the second,
\* or stops half way: at least one commitment above every header has been
\* checked when it leaves the buffer (the bits of competing headers differ
\* here, so that every check tells them apart).
OnlyChainsWithWork ==
    \A b \in index \ {Genesis} :
        \E c \in Blocks : b \in Ancestors[c] /\ Height[c] >= MinimumChainWork

\* The counters of peers being synced from and of protected peers are those
\* of the connections (FinalizeNode asserts it when the last one goes).
CountersExact ==
    /\ syncs = Cardinality({p \in Peers : node[p].started})
    /\ guards = Cardinality({p \in Peers : node[p].protected}) /\ guards <= MaxProtected

\* With an honest preferred peer the node learns the headers of its chain,
\* though other peers were asked first and do not answer, answer something
\* else, or come and go, and blocks are announced in between.
HeadersSynced == <>[](HonestTip \in index)
=============================================================================

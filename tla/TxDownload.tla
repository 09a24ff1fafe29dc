----------------------------- MODULE TxDownload -----------------------------
(***************************************************************************)
(* Downloading transactions (net_processing.cpp): the request tracker, the *)
(* orphanage and the filters, driven by announcements, by SendMessages, by *)
(* the messages TX and NOTFOUND, by orphans that are reconsidered, by      *)
(* connected blocks and by peers that come and go.                         *)
(*                                                                         *)
(* The handlers run under cs_main.  The BlockConnected callback runs in    *)
(* another thread some time after the block was connected, and takes       *)
(* cs_main only for its second half.                                       *)
(***************************************************************************)
EXTENDS TxRequest

CONSTANTS
    NoPeer,
    WtxidRelay,      \* the peers with m_wtxid_relay
    RelayPermission, \* the peers with NetPermissionFlags::Relay
    Txs,             \* transactions: [txid, wtxid, parents]
    NonprefDelay, TxidDelay, OverloadedDelay, GetdataInterval,
    MaxAnnouncements, MaxInFlight,   \* limits for each peer
    MaxOrphans,
    MaxInvs,         \* bounds on announcements, and on connected blocks,
    MaxEvents        \*   disconnections, evictions and changes of the clock together

ASSUME TxDownloadAssumption ==
    /\ NoPeer \notin Peers
    /\ WtxidRelay \subseteq Peers /\ RelayPermission \subseteq Peers
    /\ Txs \subseteq [txid : TxHashes, wtxid : TxHashes, parents : SUBSET TxHashes]
    /\ {NonprefDelay, TxidDelay, OverloadedDelay, MaxAnnouncements, MaxInFlight,
        MaxOrphans, MaxInvs, MaxEvents} \subseteq Nat
    /\ GetdataInterval \in Nat \ {0}
    /\ NonprefDelay + TxidDelay + OverloadedDelay <= MaxDelay
    /\ GetdataInterval <= MaxDelay

VARIABLES
    m_txrequest,     \* the announcement of each (txhash, peer)
    connected,       \* the peers of m_node_states
    mempool, mined,  \* transactions of the mempool and of the active chain
    m_orphans,       \* the peer that sent each orphan; NoPeer: no orphan
    workSet,         \* m_peer_work_set
    rejects,         \* m_recent_rejects
    confirmed,       \* m_recent_confirmed_transactions
    callback,        \* connected transactions on their way to BlockConnected,
                     \*   and how far it has come with them
    pc, pto,         \* the step of SendMessages, and its peer
    requestable,     \* what GetRequestable returned and is not handled yet
    bound            \* what is left of the bounds

pool == <<mempool, mined>>
orphanage == <<m_orphans, workSet>>
filters == <<rejects, confirmed>>
sending == <<pc, pto, requestable>>
vars == <<m_txrequest, connected, pool, orphanage, filters, callback, sending, bound>>

Hashes(tx) == {tx.txid, tx.wtxid}
HashesOf(txs) == UNION {Hashes(tx) : tx \in txs}

Orphans == {tx \in Txs : m_orphans[tx] # NoPeer}

(* A GenTxid is a hash and its kind.  A transaction whose wtxid is its     *)
(* txid has one hash; the kind of any other hash follows from the hash.    *)
IsWtxid(h) == h \notin {tx.txid : tx \in Txs}

HaveTx(h, wtxid) ==
    \E tx \in Orphans \cup mempool : h = IF wtxid THEN tx.wtxid ELSE tx.txid

AlreadyHaveTx(h, wtxid) == HaveTx(h, wtxid) \/ h \in rejects \cup confirmed

AlreadyHave(h) == AlreadyHaveTx(h, IsWtxid(h))

(* The same transaction without its witness: its txid is its wtxid. *)
Stripped(tx) == tx.wtxid = tx.txid /\ \E x \in Txs : x.txid = tx.txid /\ x # tx

SameTxid(tx, txs) == \E x \in txs : x.txid = tx.txid

Spend(what) == bound[what] > 0 /\ bound' = [bound EXCEPT ![what] = @ - 1]

idle == pc = "idle"

Init ==
    /\ m_txrequest = [h \in TxHashes |-> NoAnnouncements]
    /\ connected = {} /\ mempool = {} /\ mined = {}
    /\ m_orphans = [tx \in Txs |-> NoPeer] /\ workSet = [p \in Peers |-> {}]
    /\ rejects = {} /\ confirmed = {}
    /\ callback = [txs |-> {}, stage |-> "none"]
    /\ pc = "idle" /\ pto = NoPeer /\ requestable = {}
    /\ bound = [inv |-> MaxInvs, event |-> MaxEvents, back |-> MaxBack]

-----------------------------------------------------------------------------
(* Peers.                                                                  *)
InitializeNode(p) ==
    /\ idle /\ p \notin connected
    /\ connected' = connected \cup {p}
    /\ UNCHANGED <<m_txrequest, pool, orphanage, filters, callback, sending, bound>>

FinalizeNode(p) ==
    /\ idle /\ p \in connected /\ Spend("event")
    /\ connected' = connected \ {p}
    /\ m_orphans' = [tx \in Txs |-> IF m_orphans[tx] = p THEN NoPeer ELSE m_orphans[tx]]
    /\ workSet' = [workSet EXCEPT ![p] = {}]
    /\ m_txrequest' = DisconnectedPeer(m_txrequest, p)
    /\ UNCHANGED <<pool, filters, callback, sending>>

-----------------------------------------------------------------------------
(* AddTxAnnouncement, for the hashes in turn until the limit is reached.   *)

Delay(index, p, byWtxid) ==
    (IF p \in Preferred THEN 0 ELSE NonprefDelay)
    + (IF ~byWtxid /\ connected \cap WtxidRelay # {} THEN TxidDelay ELSE 0)
    + (IF p \notin RelayPermission /\ CountInFlight(index, p) >= MaxInFlight
       THEN OverloadedDelay ELSE 0)

Room(index, p, n) == p \in RelayPermission \/ Count(index, p) + n <= MaxAnnouncements

AddTxAnnouncements(index, p, hashes, byWtxid) ==
    LET new == {h \in hashes : index[h][p].state = "NONE"}
    IN  {ReceivedInv(index, p, asked, Delay(index, p, byWtxid)) :
            asked \in {S \in SUBSET new :
                         /\ S = {} \/ Room(index, p, Cardinality(S))
                         /\ S = new \/ ~Room(index, p, Cardinality(S) + 1)}}

(* INV: by wtxid or by txid, as negotiated.  Nobody announces a stripped   *)
(* transaction by its wtxid.                                               *)
Inv(p, tx) ==
    LET byWtxid == p \in WtxidRelay
        h == IF byWtxid THEN tx.wtxid ELSE tx.txid
    IN  /\ idle /\ p \in connected /\ ~Stripped(tx)
        /\ ~AlreadyHaveTx(h, byWtxid) /\ Spend("inv")
        /\ m_txrequest' \in AddTxAnnouncements(m_txrequest, p, {h}, byWtxid)
        /\ UNCHANGED <<connected, pool, orphanage, filters, callback, sending>>

-----------------------------------------------------------------------------
(* The message TX.  Responded is the tracker after ReceivedResponse.       *)
Responded(p, tx) == ReceivedResponse(m_txrequest, p, Hashes(tx))

TxAlreadyHave(p, tx) ==
    /\ idle /\ p \in connected /\ AlreadyHaveTx(tx.wtxid, TRUE)
    /\ m_txrequest' = Responded(p, tx)
    /\ UNCHANGED <<connected, pool, orphanage, filters, callback, sending, bound>>

(* A handler that is under way while BlockConnected fills its filter has   *)
(* looked there before.                                                    *)
TxArrives(p, tx) ==
    /\ idle /\ p \in connected
    /\ ~HaveTx(tx.wtxid, TRUE) /\ tx.wtxid \notin rejects
    /\ \/ tx.wtxid \notin confirmed
       \/ callback.stage = "forget" /\ tx.wtxid \in HashesOf(callback.txs)

(* ProcessTransaction.  A mined transaction is known as such only while    *)
(* one of its outputs is in the cache; otherwise its inputs are missing.   *)
InputsMissing(tx) == ~(tx.parents \subseteq {x.txid : x \in mempool \cup mined})

MissingInputs(tx) == ~SameTxid(tx, mempool) /\ (InputsMissing(tx) \/ SameTxid(tx, mined))

HasInputs(tx) == SameTxid(tx, mempool) \/ ~InputsMissing(tx)

Acceptable(tx) == HasInputs(tx) /\ ~SameTxid(tx, mempool \cup mined) /\ ~Stripped(tx)

(* AddChildrenToWorkSet *)
AddChildrenToWorkSet(sets, tx) ==
    [p \in Peers |-> sets[p] \cup {c \in Orphans : /\ m_orphans[c] = p
                                                   /\ tx.txid \in c.parents}]

(* Mutant: the children are not reconsidered. *)
TxAccepted_NoChildren(p, tx) ==
    /\ TxArrives(p, tx) /\ Acceptable(tx)
    /\ mempool' = mempool \cup {tx}
    /\ m_txrequest' = ForgetTxHash(Responded(p, tx), Hashes(tx))
    /\ UNCHANGED <<connected, mined, orphanage, filters, callback, sending, bound>>

TxAccepted(p, tx) ==
    /\ TxArrives(p, tx) /\ Acceptable(tx)
    /\ mempool' = mempool \cup {tx}
    /\ m_txrequest' = ForgetTxHash(Responded(p, tx), Hashes(tx))
    /\ workSet' = AddChildrenToWorkSet(workSet, tx)
    /\ UNCHANGED <<connected, mined, m_orphans, filters, callback, sending, bound>>

(* AddTx, which ignores a large transaction, and LimitOrphans: expired     *)
(* orphans go, and others while there are too many.                        *)
Limited(orphans) ==
    {o \in [Txs -> Peers \cup {NoPeer}] :
        /\ \A tx \in Txs : o[tx] \in {orphans[tx], NoPeer}
        /\ Cardinality({tx \in Txs : o[tx] # NoPeer}) <= MaxOrphans}

(* TX_MISSING_INPUTS: ask this peer for the unknown parents, by txid, and  *)
(* keep the transaction.                                                   *)
TxOrphan(p, tx) ==
    LET unknown == {h \in tx.parents : ~AlreadyHaveTx(h, FALSE)} IN
    /\ TxArrives(p, tx) /\ MissingInputs(tx) /\ tx.parents \cap rejects = {}
    /\ \E index \in AddTxAnnouncements(Responded(p, tx), p, unknown, FALSE) :
          m_txrequest' = ForgetTxHash(index, Hashes(tx))
    /\ m_orphans' \in Limited(IF SameTxid(tx, Orphans) THEN m_orphans
                           ELSE [m_orphans EXCEPT ![tx] = p])
    /\ UNCHANGED <<connected, pool, workSet, filters, callback, sending, bound>>

TxOrphanRejected(p, tx) ==
    /\ TxArrives(p, tx) /\ MissingInputs(tx) /\ tx.parents \cap rejects # {}
    /\ m_txrequest' = ForgetTxHash(Responded(p, tx), Hashes(tx))
    /\ rejects' = rejects \cup Hashes(tx)
    /\ UNCHANGED <<connected, pool, orphanage, confirmed, callback, sending, bound>>

(* Refused by policy or consensus, perhaps before its inputs are looked    *)
(* up; byTxid: TX_INPUTS_NOT_STANDARD.                                     *)
TxRefused(p, tx, byTxid) ==
    LET hashes == IF byTxid THEN Hashes(tx) ELSE {tx.wtxid} IN
    /\ TxArrives(p, tx) /\ (byTxid => HasInputs(tx))
    /\ m_txrequest' = ForgetTxHash(Responded(p, tx), hashes)
    /\ rejects' = rejects \cup hashes
    /\ UNCHANGED <<connected, pool, orphanage, confirmed, callback, sending, bound>>

(* TX_WITNESS_STRIPPED: it may yet come with its witness. *)
TxWitnessStripped(p, tx) ==
    /\ TxArrives(p, tx) /\ Stripped(tx)
    /\ HasInputs(tx) /\ ~SameTxid(tx, mempool \cup mined)
    /\ m_txrequest' = Responded(p, tx)
    /\ UNCHANGED <<connected, pool, orphanage, filters, callback, sending, bound>>

NotFound(p, h) ==
    /\ idle /\ p \in connected
    /\ m_txrequest' = ReceivedResponse(m_txrequest, p, {h})
    /\ UNCHANGED <<connected, pool, orphanage, filters, callback, sending, bound>>

-----------------------------------------------------------------------------
(* ProcessOrphanTx takes transactions from the work set of p, skipping the *)
(* ones that are no orphans any more or still miss inputs, until one is    *)
(* accepted or refused.                                                    *)
Skipped(tx) == tx \notin Orphans \/ MissingInputs(tx)

OrphanAccepted(p, tx, skip) ==
    /\ idle /\ p \in connected /\ tx \in workSet[p] /\ tx \in Orphans /\ Acceptable(tx)
    /\ skip \subseteq {x \in workSet[p] : Skipped(x)}
    /\ mempool' = mempool \cup {tx}
    /\ workSet' = AddChildrenToWorkSet([workSet EXCEPT ![p] = @ \ (skip \cup {tx})], tx)
    /\ m_orphans' = [m_orphans EXCEPT ![tx] = NoPeer]
    /\ UNCHANGED <<m_txrequest, connected, mined, filters, callback, sending, bound>>

(* Nothing is added to the filter for a stripped transaction, and what is  *)
(* added is lost if the next call of AlreadyHaveTx finds a new tip.        *)
OrphanRefused(p, tx, skip, hashes) ==
    /\ idle /\ p \in connected /\ tx \in workSet[p] /\ tx \in Orphans
    /\ skip \subseteq {x \in workSet[p] : Skipped(x)}
    /\ hashes \in {{}, {tx.wtxid}, Hashes(tx)}
    /\ HasInputs(tx) \/ hashes \subseteq {tx.wtxid}
    /\ rejects' = rejects \cup hashes
    /\ workSet' = [workSet EXCEPT ![p] = @ \ (skip \cup {tx})]
    /\ m_orphans' = [m_orphans EXCEPT ![tx] = NoPeer]
    /\ UNCHANGED <<m_txrequest, connected, pool, confirmed, callback, sending, bound>>

OrphansSkipped(p) ==
    /\ idle /\ p \in connected /\ workSet[p] # {}
    /\ \A tx \in workSet[p] : Skipped(tx)
    /\ workSet' = [workSet EXCEPT ![p] = {}]
    /\ UNCHANGED <<m_txrequest, connected, pool, m_orphans, filters, callback,
                   sending, bound>>

-----------------------------------------------------------------------------
(* A block with one transaction: ConnectTip takes it and its conflicts     *)
(* from the mempool; the new tip makes AlreadyHaveTx empty the filter of   *)
(* rejected transactions.                                                  *)
ConnectTip(tx) ==
    /\ idle /\ callback.stage = "none" /\ ~SameTxid(tx, mined) /\ ~Stripped(tx)
    /\ tx.parents \subseteq {x.txid : x \in mined} /\ Spend("event")
    /\ mined' = mined \cup {tx} /\ mempool' = mempool \ {tx}
    /\ rejects' = {}
    /\ callback' = [txs |-> {tx}, stage |-> "queued"]
    /\ UNCHANGED <<m_txrequest, connected, orphanage, confirmed, sending>>

(* The first half of BlockConnected: EraseForBlock, and the filter. *)
BlockConnected ==
    /\ callback.stage = "queued"
    /\ m_orphans' = [tx \in Txs |-> IF SameTxid(tx, callback.txs) THEN NoPeer ELSE m_orphans[tx]]
    /\ confirmed' = confirmed \cup HashesOf(callback.txs)
    /\ callback' = [callback EXCEPT !.stage = "forget"]
    /\ UNCHANGED <<m_txrequest, connected, pool, workSet, rejects, sending, bound>>

(* Mutant: the second half does not take cs_main. *)
BlockConnectedForget_NoLock ==
    /\ callback.stage = "forget"
    /\ m_txrequest' = ForgetTxHash(m_txrequest, HashesOf(callback.txs))
    /\ callback' = [txs |-> {}, stage |-> "none"]
    /\ UNCHANGED <<connected, pool, orphanage, filters, sending, bound>>

(* The second half, under cs_main. *)
BlockConnectedForget ==
    /\ idle /\ callback.stage = "forget"
    /\ m_txrequest' = ForgetTxHash(m_txrequest, HashesOf(callback.txs))
    /\ callback' = [txs |-> {}, stage |-> "none"]
    /\ UNCHANGED <<connected, pool, orphanage, filters, sending, bound>>

(* A transaction leaves the mempool, with its descendants: it is too old,  *)
(* or other transactions have taken its place.                             *)
Evict(tx) ==
    /\ idle /\ tx \in mempool /\ Spend("event")
    /\ mempool' = mempool \ {x \in mempool : x = tx \/ tx.txid \in x.parents}
    /\ UNCHANGED <<m_txrequest, connected, mined, orphanage, filters, callback,
                   sending>>

-----------------------------------------------------------------------------
(* SendMessages to p: GetRequestable, which begins with SetTimePoint.      *)
SendMessages(p) ==
    /\ idle /\ p \in connected
    /\ pc' = "past" /\ pto' = p
    /\ UNCHANGED <<m_txrequest, connected, pool, orphanage, filters, callback,
                   requestable, bound>>

SetTimePointPast ==
    /\ pc = "past"
    /\ \E x \in Due(m_txrequest) : m_txrequest' = ConvertDue(m_txrequest, x[1], x[2])
    /\ UNCHANGED <<connected, pool, orphanage, filters, callback, sending, bound>>

SetTimePointPastDone ==
    /\ pc = "past" /\ Due(m_txrequest) = {}
    /\ pc' = "future"
    /\ UNCHANGED <<m_txrequest, connected, pool, orphanage, filters, callback,
                   pto, requestable, bound>>

SetTimePointFuture ==
    /\ pc = "future"
    /\ \E x \in Early(m_txrequest) : m_txrequest' = ConvertEarly(m_txrequest, x[1], x[2])
    /\ UNCHANGED <<connected, pool, orphanage, filters, callback, sending, bound>>

GetRequestable ==
    /\ pc = "future" /\ Early(m_txrequest) = {}
    /\ requestable' = BestFrom(m_txrequest, pto)
    /\ pc' = "getdata"
    /\ UNCHANGED <<m_txrequest, connected, pool, orphanage, filters, callback,
                   pto, bound>>

(* For each txhash returned, the getdata, or nothing if we have it by now. *)
Request(h) ==
    /\ pc = "getdata" /\ h \in requestable /\ ~AlreadyHave(h)
    /\ m_txrequest' = RequestedTx(m_txrequest, h, pto, GetdataInterval)
    /\ requestable' = requestable \ {h}
    /\ UNCHANGED <<connected, pool, orphanage, filters, callback, pc, pto, bound>>

DontRequest(h) ==
    /\ pc = "getdata" /\ h \in requestable /\ AlreadyHave(h)
    /\ m_txrequest' = ForgetTxHash(m_txrequest, {h})
    /\ requestable' = requestable \ {h}
    /\ UNCHANGED <<connected, pool, orphanage, filters, callback, pc, pto, bound>>

SendMessagesEnd ==
    /\ pc = "getdata" /\ requestable = {}
    /\ pc' = "idle" /\ pto' = NoPeer
    /\ UNCHANGED <<m_txrequest, connected, pool, orphanage, filters, callback,
                   requestable, bound>>

(* The clock goes on, or is set back. *)
Tick ==
    /\ idle
    /\ m_txrequest' = ClockMoves(m_txrequest, -1)
    /\ UNCHANGED <<connected, pool, orphanage, filters, callback, sending, bound>>

SetBack ==
    /\ idle /\ bound.event > 0 /\ bound.back > 0
    /\ bound' = [bound EXCEPT !.event = @ - 1, !.back = @ - 1]
    /\ m_txrequest' = ClockMoves(m_txrequest, 1)
    /\ UNCHANGED <<connected, pool, orphanage, filters, callback, sending>>

Sending == \/ SetTimePointPast \/ SetTimePointPastDone \/ SetTimePointFuture
           \/ GetRequestable \/ SendMessagesEnd
           \/ \E h \in TxHashes : Request(h) \/ DontRequest(h)

TxMessage(p, tx) ==
    \/ TxAlreadyHave(p, tx) \/ TxAccepted(p, tx) \/ TxOrphan(p, tx)
    \/ TxOrphanRejected(p, tx) \/ TxWitnessStripped(p, tx)
    \/ \E byTxid \in BOOLEAN : TxRefused(p, tx, byTxid)

ProcessOrphanTx(p) ==
    \/ \E tx \in Txs : \E skip \in SUBSET (workSet[p] \ {tx}) :
          \/ OrphanAccepted(p, tx, skip)
          \/ \E hashes \in SUBSET Hashes(tx) : OrphanRefused(p, tx, skip, hashes)
    \/ OrphansSkipped(p)

Next ==
    \/ \E p \in Peers : \/ InitializeNode(p) \/ FinalizeNode(p)
                        \/ SendMessages(p) \/ ProcessOrphanTx(p)
                        \/ \E tx \in Txs : Inv(p, tx) \/ TxMessage(p, tx)
                        \/ \E h \in TxHashes : NotFound(p, h)
    \/ \E tx \in Txs : ConnectTip(tx) \/ Evict(tx)
    \/ BlockConnected \/ BlockConnectedForget
    \/ Sending \/ Tick \/ SetBack

Spec == Init /\ [][Next]_vars

-----------------------------------------------------------------------------
TypeOK ==
    /\ m_txrequest \in [TxHashes -> [Peers -> Announcement]]
    /\ connected \subseteq Peers /\ mempool \subseteq Txs /\ mined \subseteq Txs
    /\ m_orphans \in [Txs -> Peers \cup {NoPeer}]
    /\ workSet \in [Peers -> SUBSET Txs]
    /\ rejects \subseteq TxHashes /\ confirmed \subseteq TxHashes
    /\ callback \in [txs : SUBSET Txs, stage : {"none", "queued", "forget"}]
    /\ pc \in {"idle", "past", "future", "getdata"}
    /\ pto \in Peers \cup {NoPeer} /\ requestable \subseteq TxHashes
    /\ bound \in [{"inv", "event", "back"} -> Nat]

(* SanityCheck of the tracker holds after every operation, and in between: *)
(* at most one peer is asked for a txhash or next in line, one is whenever *)
(* a candidate is ready, it is the one with the highest priority, and a    *)
(* txhash with nothing but failed announcements is forgotten.              *)
TrackerSound == \A h \in TxHashes : RowSound(h, m_txrequest[h])

(* PostGetRequestableSanityCheck: when GetRequestable returns, nothing is  *)
(* waiting for a time that has passed, and no candidate is ahead of time.  *)
TimesSettled ==
    pc = "getdata" =>
       \A h \in TxHashes, p \in Peers :
          /\ IsWaiting(m_txrequest[h][p]) => m_txrequest[h][p].time > 0
          /\ IsSelectable(m_txrequest[h][p]) => m_txrequest[h][p].time <= 0

(* What GetRequestable returned is still the best candidate of this peer   *)
(* when RequestedTx is called for it: the branch of RequestedTx for other  *)
(* states "will never execute" (txrequest.cpp).                            *)
RequestedTxFindsBest ==
    pc = "getdata" => \A h \in requestable : m_txrequest[h][pto].state = "BEST"

(* The tracker, the orphanage and the work sets know connected peers only: *)
(* the assertions of InitializeNode and FinalizeNode.                      *)
OnlyConnected ==
    \A p \in Peers \ connected :
       /\ Count(m_txrequest, p) = 0
       /\ \A tx \in Txs : m_orphans[tx] # p
       /\ workSet[p] = {}

(* An orphan all of whose parents are in the mempool is in the work set of *)
(* the peer that sent it, so that it is reconsidered.                      *)
OrphanIsReconsidered ==
    \A tx \in Orphans :
       tx.parents # {} /\ tx.parents \subseteq {x.txid : x \in mempool}
          => tx \in workSet[m_orphans[tx]]

(* The life of an announcement (the comment on State in txrequest.cpp): it *)
(* is requested only as the best candidate, a request ends by completing   *)
(* or being forgotten, and a failed one is never revived.                  *)
Follows(s) ==
    CASE s = "NONE" -> {"DELAYED"}
      [] s = "DELAYED" -> {"READY", "BEST", "COMPLETED", "NONE"}
      [] s = "READY" -> {"BEST", "DELAYED", "COMPLETED", "NONE"}
      [] s = "BEST" -> {"READY", "DELAYED", "REQUESTED", "COMPLETED", "NONE"}
      [] s = "REQUESTED" -> {"COMPLETED", "NONE"}
      [] s = "COMPLETED" -> {"NONE"}

Lifecycle ==
    [][\A h \in TxHashes, p \in Peers :
          LET s == m_txrequest[h][p].state  t == m_txrequest[h][p].state'
          IN  t # s => t \in Follows(s)]_vars

=============================================================================

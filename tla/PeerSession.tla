----------------------------- MODULE PeerSession -----------------------------
(***************************************************************************)
(* One connection and the two nodes at its ends, both running              *)
(* PeerManagerImpl (net_processing.cpp): the version handshake with its    *)
(* feature negotiation, then pings, addresses, fee filters, bloom filters  *)
(* and the announcement of transactions.  Either end may instead be a      *)
(* stranger that sends any message in any order.                           *)
(*                                                                         *)
(* SendMessages is one action per part (ping, addresses, sendheaders,      *)
(* transactions, fee filter): each part has its own timer and does nothing *)
(* until it expires, so that which of them act in a pass is arbitrary.     *)
(***************************************************************************)
EXTENDS Naturals, SequencesExt

CONSTANTS
    A, B,                \* A made the connection, B accepted it
    Scenarios,           \* conf: what the nodes are run with (bloom, blocksonly, recon);
                         \* conn: "full", "blockonly", "feeler", "addrfetch", "manual";
                         \* stranger: Nobody, A or B;  ibd: who is in initial block download;
                         \* work: how much of MaxWork is not to be used
    PROTOCOL_VERSION, WTXID_RELAY_VERSION, FEEFILTER_VERSION, BIP0031_VERSION, MIN_PEER_PROTO_VERSION,
    MAX_ADDR_TO_SEND, MisbehaviorLimit,
    Txs, Addrs, V1Addrs, \* transactions, addresses, those an ADDR message can hold
    MAX_MONEY,           \* the fee filter during initial block download; 1 otherwise
    StrangeMessages,     \* what a stranger may send
    MaxWork, MaxStrange, \* bounds: events from elsewhere, messages of a stranger
    Nobody

VARIABLES conf, conn, stranger, end, wire, ibd, pool, work, strange
psVars == <<conf, conn, stranger, end, wire, ibd, pool, work, strange>>
setup == <<conf, conn, stranger, strange>>

Nodes == {A, B}
Other(n) == IF n = A THEN B ELSE A

\* version  nVersion of the peer, 0 before its VERSION; common: GetCommonVersion
\* done     fSuccessfullyConnected
\* closing  fDisconnect: "over" when the connection has served its purpose,
\*          "timeout", or "violation" when the peer broke the protocol
\* tx       m_tx_relay: relay (m_relay_txs), bloom (m_bloom_filter), known
\*          (m_tx_inventory_known_filter), queue (m_tx_inventory_to_send), all
\*          (m_send_mempool), live (m_next_inv_send_time # 0), fee
\* addr     m_addr_known, and with it m_addr_relay_enabled
NewEnd ==
    [version |-> 0, common |-> 0, done |-> FALSE, closing |-> "no", score |-> 0, serves |-> FALSE,
     wtxid |-> FALSE, wantsV2 |-> FALSE, recon |-> "none", tx |-> Nobody, addr |-> Nobody, addrs |-> {},
     getaddrSent |-> FALSE, getaddrRecvd |-> FALSE, tokens |-> 1,
     ping |-> 0, queued |-> FALSE, feeSent |-> 0]
TxRelay(relay) ==
    [relay |-> relay, bloom |-> FALSE, known |-> {}, queue |-> {}, all |-> FALSE, live |-> FALSE, fee |-> 0]

IsInbound(n) == n = B
IsBlockOnly(n) == n = A /\ conn = "blockonly"
IsFeeler(n) == n = A /\ conn = "feeler"
IsAddrFetch(n) == n = A /\ conn = "addrfetch"
ExpectServices(n) == n = A /\ conn \in {"full", "blockonly", "addrfetch"}
RejectIncomingTxs(n) == IsBlockOnly(n) \/ IsFeeler(n) \/ conf[n].blocksonly

PushNodeVersion(n) ==
    [type |-> "version", v |-> PROTOCOL_VERSION, serves |-> TRUE, relay |-> ~RejectIncomingTxs(n), self |-> FALSE]

\* InitializeNode has run at both ends.
PsInit ==
    /\ \E s \in Scenarios :
         /\ conf = s.conf /\ conn = s.conn /\ stranger = s.stranger /\ ibd = [n \in Nodes |-> n \in s.ibd]
         /\ work = s.work
    /\ end = [n \in Nodes |-> NewEnd]
    /\ wire = [n \in Nodes |-> IF n = B /\ stranger = Nobody THEN <<PushNodeVersion(A)>> ELSE <<>>]
    /\ pool = [n \in Nodes |-> {}] /\ strange = 0

(***************************************************************************)
(* Sending and receiving.                                                  *)
(***************************************************************************)
Alive(n) == n # stranger /\ end[n].closing = "no"
\* n handles the message m and sends msgs.  A stranger's input is its own affair.
Handles(n, m, msgs) ==
    /\ Alive(n) /\ wire[n] # <<>> /\ m = Head(wire[n])
    /\ wire' = [wire EXCEPT ![n] = Tail(@), ![Other(n)] = IF Other(n) = stranger THEN @ ELSE @ \o msgs]
    /\ UNCHANGED <<setup, ibd, work>>
Sends(n, msgs) ==
    /\ Alive(n) /\ end[n].done
    /\ wire' = [wire EXCEPT ![Other(n)] = IF Other(n) = stranger THEN @ ELSE @ \o msgs]
    /\ UNCHANGED <<setup, ibd>>
Msg(type) == [type |-> type]
When(cond, msg) == IF cond THEN <<msg>> ELSE <<>>
Close(n, why) == [end EXCEPT ![n].closing = why]
Becomes(n, new) == end' = [end EXCEPT ![n] = new]
PsMisbehaving(n, points) ==
    [end EXCEPT ![n].score = IF @ + points > MisbehaviorLimit THEN MisbehaviorLimit ELSE @ + points]

(***************************************************************************)
(* The handshake.                                                          *)
(***************************************************************************)
SetupAddressRelay(n, s) == IF IsBlockOnly(n) \/ s.addr # Nobody THEN s ELSE [s EXCEPT !.addr = {}]

\* What the end n of the connection is after a VERSION it does not object to.
Versioned(n, m) ==
    LET common == IF m.v < PROTOCOL_VERSION THEN m.v ELSE PROTOCOL_VERSION
        tx == IF ~IsBlockOnly(n) /\ ~IsFeeler(n) /\ (m.relay \/ conf[n].bloom) THEN TxRelay(m.relay) ELSE Nobody
        pre == common >= WTXID_RELAY_VERSION /\ conf[n].recon /\ tx # Nobody /\ m.relay
               /\ ~IsAddrFetch(n) /\ ~conf[n].blocksonly
        s == [end[n] EXCEPT !.version = m.v, !.common = common, !.serves = m.serves, !.tx = tx,
                             !.recon = IF pre THEN "pre" ELSE @,
                             !.closing = IF IsFeeler(n) THEN "over" ELSE @]
        fetch == ~IsInbound(n) /\ ~IsBlockOnly(n)
    IN  IF ~fetch THEN s
        ELSE [SetupAddressRelay(n, s) EXCEPT !.getaddrSent = TRUE, !.tokens = @ + MAX_ADDR_TO_SEND]

\* Mutant: offers to reconcile without asking whether transactions are relayed.
VersionReplies_Offer(n, m) ==
    LET s == Versioned(n, m) IN
    When(IsInbound(n), PushNodeVersion(n))
    \o When(s.common >= WTXID_RELAY_VERSION, Msg("wtxidrelay"))
    \o When(s.common >= WTXID_RELAY_VERSION, Msg("sendaddrv2"))
    \o When(conf[n].recon, Msg("sendtxrcncl"))
    \o <<Msg("verack")>>
    \o When(s.getaddrSent, Msg("getaddr"))
VersionReplies(n, m) ==
    LET s == Versioned(n, m) IN
    When(IsInbound(n), PushNodeVersion(n))
    \o When(s.common >= WTXID_RELAY_VERSION, Msg("wtxidrelay"))
    \o When(s.common >= WTXID_RELAY_VERSION, Msg("sendaddrv2"))
    \o When(s.recon = "pre", Msg("sendtxrcncl"))
    \o <<Msg("verack")>>
    \o When(s.getaddrSent, Msg("getaddr"))

Version(n, m) ==
    /\ m.type = "version"
    /\ UNCHANGED pool
    /\ \/ end[n].version # 0 /\ Handles(n, m, <<>>) /\ UNCHANGED end
       \/ /\ end[n].version = 0
          /\ \/ ExpectServices(n) /\ ~m.serves
             \/ m.v < MIN_PEER_PROTO_VERSION
             \/ IsInbound(n) /\ m.self
          /\ Handles(n, m, <<>>) /\ end' = Close(n, "over")
       \/ /\ end[n].version = 0
          /\ ~(ExpectServices(n) /\ ~m.serves) /\ m.v >= MIN_PEER_PROTO_VERSION /\ ~(IsInbound(n) /\ m.self)
          /\ Handles(n, m, VersionReplies(n, m)) /\ Becomes(n, Versioned(n, m))

Verack(n, m) ==
    LET s == end[n] IN
    /\ m.type = "verack" /\ s.version # 0
    /\ Handles(n, m, <<>>)
    /\ Becomes(n, [s EXCEPT !.done = TRUE,
                            !.recon = IF ~s.done /\ ~(s.wtxid /\ @ = "registered") THEN "none" ELSE @])
    /\ UNCHANGED pool

\* Negotiated before VERACK; afterwards it is a reason to disconnect.
WtxidRelay(n, m) ==
    LET s == end[n] IN
    /\ m.type = "wtxidrelay" /\ s.version # 0
    /\ Handles(n, m, <<>>) /\ UNCHANGED pool
    /\ end' = IF s.done THEN Close(n, "violation")
               ELSE [end EXCEPT ![n].wtxid = @ \/ s.common >= WTXID_RELAY_VERSION]

SendAddrV2(n, m) ==
    /\ m.type = "sendaddrv2" /\ end[n].version # 0
    /\ Handles(n, m, <<>>) /\ UNCHANGED pool
    /\ end' = IF end[n].done THEN Close(n, "violation") ELSE [end EXCEPT ![n].wantsV2 = TRUE]

\* RegisterPeer succeeds once, for a peer that was pre-registered.
SendTxRcncl(n, m) ==
    LET s == end[n]
        refused == s.done \/ RejectIncomingTxs(n) \/ s.tx = Nobody \/ ~s.tx.relay \/ s.recon = "registered"
    IN  /\ m.type = "sendtxrcncl" /\ s.version # 0
        /\ Handles(n, m, <<>>) /\ UNCHANGED pool
        /\ end' = IF ~conf[n].recon THEN end
                   ELSE IF refused THEN Close(n, "violation")
                   ELSE [end EXCEPT ![n].recon = IF @ = "pre" THEN "registered" ELSE @]

\* Anything else before VERSION or before VERACK is ignored.
Early == {"version", "verack", "wtxidrelay", "sendaddrv2", "sendtxrcncl"}
TooEarly(n, m) ==
    /\ \/ end[n].version = 0 /\ m.type # "version"
       \/ end[n].version # 0 /\ ~end[n].done /\ m.type \notin Early
    /\ Handles(n, m, <<>>) /\ UNCHANGED <<end, pool>>

(***************************************************************************)
(* Addresses.                                                              *)
(***************************************************************************)
PushAddress(s, a) ==
    IF a \in s.addr \/ ~(s.wantsV2 \/ a \in V1Addrs) THEN {s}
    ELSE IF Cardinality(s.addrs) < MAX_ADDR_TO_SEND THEN {[s EXCEPT !.addrs = @ \cup {a}]}
    ELSE {[s EXCEPT !.addrs = (@ \ {x}) \cup {a}] : x \in s.addrs}

\* taken: the addresses the token bucket leaves; they are not sent back.
Addr(n, m) ==
    \E s \in {SetupAddressRelay(n, end[n])} :
    /\ m.type = "addr" /\ end[n].done
    /\ UNCHANGED pool
    /\ Handles(n, m, <<>>)
    /\ IF s.addr = Nobody THEN UNCHANGED end
       ELSE IF Cardinality(m.addrs) > MAX_ADDR_TO_SEND
            THEN end' = [PsMisbehaving(n, 1) EXCEPT ![n].addr = s.addr]
       ELSE \E taken \in SUBSET m.addrs, more \in {0, 1} :
            LET full  == s.tokens >= MAX_ADDR_TO_SEND
                tokens == IF full THEN s.tokens ELSE s.tokens + more
                k == Cardinality(taken)
            IN  /\ k = IF Cardinality(m.addrs) <= tokens THEN Cardinality(m.addrs) ELSE tokens
                /\ Becomes(n, [s EXCEPT !.tokens = tokens - k, !.addr = @ \cup taken,
                                        !.getaddrSent = @ /\ Cardinality(m.addrs) >= MAX_ADDR_TO_SEND,
                                        !.closing = IF IsAddrFetch(n) /\ Cardinality(m.addrs) > 1
                                                    THEN "over" ELSE @])

\* GetAddresses returns Addrs, one of which is pushed after the other.
GetAddr(n, m) ==
    LET s == SetupAddressRelay(n, end[n]) IN
    /\ m.type = "getaddr" /\ end[n].done
    /\ Handles(n, m, <<>>) /\ UNCHANGED pool
    /\ end' = IF ~IsInbound(n) THEN end
               ELSE [end EXCEPT ![n] =
                       IF s.getaddrRecvd THEN s
                       ELSE [s EXCEPT !.getaddrRecvd = TRUE,
                                      !.addrs = {a \in Addrs \ s.addr : s.wantsV2 \/ a \in V1Addrs}]]

Works == work < MaxWork /\ work' = work + 1

\* An address comes from another peer, or it is time to tell our own.
RelayAddress(n, a) ==
    /\ Alive(n) /\ end[n].addr # Nobody /\ Works
    /\ \E s \in PushAddress(end[n], a) : Becomes(n, s)
    /\ UNCHANGED <<setup, wire, ibd, pool>>

MaybeSendAddr(n) ==
    LET s == end[n]
        send == s.addrs \ s.addr
    IN  /\ s.addr # Nobody /\ s.addrs # {}
        /\ Sends(n, When(send # {}, [type |-> "addr", v2 |-> s.wantsV2, addrs |-> send]))
        /\ Becomes(n, [s EXCEPT !.addr = @ \cup send, !.addrs = {}])
        /\ UNCHANGED <<pool, work>>

(***************************************************************************)
(* Pings.                                                                  *)
(***************************************************************************)
PingMsg(n, m) ==
    /\ m.type = "ping" /\ end[n].done
    /\ Handles(n, m, When(end[n].common > BIP0031_VERSION, [type |-> "pong", nonce |-> m.nonce]))
    /\ UNCHANGED <<end, pool>>

\* A nonce of 0 stands for a message too short to hold one as well.
PongMsg(n, m) ==
    /\ m.type = "pong" /\ end[n].done
    /\ Handles(n, m, <<>>) /\ UNCHANGED pool
    /\ end' = IF m.nonce \in {0, end[n].ping} THEN [end EXCEPT ![n].ping = 0] ELSE end

\* Nonces are random; here each is used once.
MaybeSendPing(n) ==
    LET s == end[n]
        nonce == work + 1
    IN 
    /\ s.queued \/ s.ping = 0
    /\ Works /\ Sends(n, <<[type |-> "ping", nonce |-> nonce]>>)
    /\ Becomes(n, [s EXCEPT !.queued = FALSE, !.ping = IF s.common > BIP0031_VERSION THEN nonce ELSE 0])
    /\ UNCHANGED pool

\* SendPings, for the ping RPC.
SendPings(n) ==
    /\ Alive(n) /\ ~end[n].queued /\ Works
    /\ end' = [end EXCEPT ![n].queued = TRUE]
    /\ UNCHANGED <<setup, wire, ibd, pool>>

\* No pong in TIMEOUT_INTERVAL, or an addrfetch connection is too old: a
\* stranger may let that happen.
TimesOut(n) ==
    /\ Alive(n) /\ end[n].done /\ Other(n) = stranger
    /\ end[n].ping # 0 \/ IsAddrFetch(n)
    /\ end' = Close(n, "timeout")
    /\ UNCHANGED <<setup, wire, ibd, pool, work>>

\* The other end has closed the socket.
SocketClosed(n) ==
    /\ Alive(n) /\ end[Other(n)].closing # "no" /\ wire[n] = <<>>
    /\ end' = Close(n, "over")
    /\ UNCHANGED <<setup, wire, ibd, pool, work>>

DiscourageAndDisconnect(n) ==
    /\ Alive(n) /\ end[n].score = MisbehaviorLimit
    /\ end' = Close(n, "violation")
    /\ UNCHANGED <<setup, wire, ibd, pool, work>>

(***************************************************************************)
(* Transactions.                                                           *)
(***************************************************************************)
\* RelayTransaction: not before the first trickle after the handshake.
RelayTransaction(s, t) ==
    IF s.tx # Nobody /\ s.tx.live /\ t \notin s.tx.known THEN [s EXCEPT !.tx.queue = @ \cup {t}] ELSE s

\* A transaction comes from elsewhere and is relayed.
TxArrives(n, t) ==
    /\ Alive(n) /\ t \notin pool[n] /\ Works
    /\ pool' = [pool EXCEPT ![n] = @ \cup {t}]
    /\ Becomes(n, RelayTransaction(end[n], t))
    /\ UNCHANGED <<setup, wire, ibd>>

\* The pool is trimmed, or a block comes.
TxLeaves(n, t) ==
    /\ Alive(n) /\ t \in pool[n] /\ Works
    /\ pool' = [pool EXCEPT ![n] = @ \ {t}]
    /\ UNCHANGED <<setup, end, wire, ibd>>

\* Ids in the form that was not agreed on are ignored.  A transaction that is
\* new is fetched (TxDownload) and accepted.
InvMessage(n, m) ==
    LET s == end[n] IN
    /\ m.type = "inv" /\ s.done
    /\ Handles(n, m, <<>>)
    /\ IF m.wtxid # s.wtxid THEN UNCHANGED <<end, pool>>
       ELSE IF RejectIncomingTxs(n) THEN end' = Close(n, "violation") /\ UNCHANGED pool
       ELSE /\ end' = IF s.tx = Nobody THEN end ELSE [end EXCEPT ![n].tx.known = @ \cup m.txs]
            /\ pool' = IF ibd[n] THEN pool ELSE [pool EXCEPT ![n] = @ \cup m.txs]

\* The trickle: the first one only starts the timer, since nothing is queued.
\* match: the bloom filter.
Trickle(n) ==
    LET s == end[n]
        queue == IF s.tx.relay THEN s.tx.queue ELSE {}
        want == (IF s.tx.all THEN pool[n] ELSE {}) \cup ((queue \ s.tx.known) \cap pool[n])
        pass == IF s.tx.fee >= MAX_MONEY THEN {} ELSE want
    IN  /\ s.tx # Nobody
        /\ ~s.tx.live \/ s.tx.queue # {} \/ s.tx.all
        /\ \E match \in IF s.tx.bloom THEN SUBSET pass ELSE {pass} :
             /\ Sends(n, When(match # {}, [type |-> "inv", wtxid |-> s.wtxid, txs |-> match]))
             /\ Becomes(n, [s EXCEPT !.tx = [@ EXCEPT !.live = TRUE, !.queue = {}, !.all = FALSE,
                                                      !.known = @ \cup match]])
        /\ UNCHANGED <<pool, work>>

(***************************************************************************)
(* Filters.                                                                *)
(***************************************************************************)
Mempool(n, m) ==
    /\ m.type = "mempool" /\ end[n].done
    /\ Handles(n, m, <<>>) /\ UNCHANGED pool
    /\ end' = IF ~conf[n].bloom THEN Close(n, "violation")
               ELSE IF end[n].tx = Nobody THEN end ELSE [end EXCEPT ![n].tx.all = TRUE]

FilterMessages == {"filterload", "filteradd", "filterclear"}
Filter(n, m) ==
    LET s == end[n] IN
    /\ m.type \in FilterMessages /\ s.done
    /\ Handles(n, m, <<>>) /\ UNCHANGED pool
    /\ end' =
         CASE ~conf[n].bloom -> Close(n, "violation")
           [] conf[n].bloom /\ m.type # "filterclear" /\ ~m.ok -> PsMisbehaving(n, MisbehaviorLimit)
           [] conf[n].bloom /\ s.tx = Nobody /\ (m.type = "filterclear" \/ m.ok) -> end
           [] conf[n].bloom /\ s.tx # Nobody /\ m.type = "filterload" /\ m.ok ->
                [end EXCEPT ![n].tx.bloom = TRUE, ![n].tx.relay = TRUE]
           [] conf[n].bloom /\ s.tx # Nobody /\ m.type = "filteradd" /\ m.ok ->
                IF s.tx.bloom THEN end ELSE PsMisbehaving(n, MisbehaviorLimit)
           [] conf[n].bloom /\ s.tx # Nobody /\ m.type = "filterclear" ->
                [end EXCEPT ![n].tx.bloom = FALSE, ![n].tx.relay = TRUE]

FeeFilter(n, m) ==
    /\ m.type = "feefilter" /\ end[n].done
    /\ Handles(n, m, <<>>) /\ UNCHANGED pool
    /\ end' = IF end[n].tx = Nobody THEN end ELSE [end EXCEPT ![n].tx.fee = m.fee]

MaybeSendFeefilter(n) ==
    LET fee == IF ibd[n] THEN MAX_MONEY ELSE 1 IN
    /\ ~conf[n].blocksonly /\ end[n].common >= FEEFILTER_VERSION /\ ~IsBlockOnly(n)
    /\ fee # end[n].feeSent
    /\ Sends(n, <<[type |-> "feefilter", fee |-> fee]>>)
    /\ end' = [end EXCEPT ![n].feeSent = fee]
    /\ UNCHANGED <<pool, work>>

CatchesUp(n) ==
    /\ ibd[n]
    /\ ibd' = [ibd EXCEPT ![n] = FALSE]
    /\ UNCHANGED <<setup, end, wire, pool, work>>

\* A stranger sends something.
Stranger(n, m) ==
    /\ n = stranger /\ strange < MaxStrange /\ strange' = strange + 1
    /\ wire[Other(n)] = <<>> \* when it was sent shows nowhere
    /\ wire' = [wire EXCEPT ![Other(n)] = Append(@, m)]
    /\ UNCHANGED <<conf, conn, stranger, end, ibd, pool, work>>

ProcessMessage(n, m) ==
    \/ Version(n, m) \/ Verack(n, m) \/ WtxidRelay(n, m) \/ SendAddrV2(n, m) \/ SendTxRcncl(n, m)
    \/ TooEarly(n, m) \/ Addr(n, m) \/ GetAddr(n, m) \/ PingMsg(n, m) \/ PongMsg(n, m) \/ InvMessage(n, m)
    \/ Mempool(n, m) \/ Filter(n, m) \/ FeeFilter(n, m)
Receives(n) == wire[n] # <<>> /\ ProcessMessage(n, Head(wire[n]))

PsNext ==
    \E n \in Nodes :
        \/ Receives(n)
        \/ MaybeSendAddr(n) \/ MaybeSendPing(n) \/ SendPings(n)
        \/ TimesOut(n) \/ SocketClosed(n)
        \/ MaybeSendFeefilter(n) \/ Trickle(n) \/ CatchesUp(n)
        \/ DiscourageAndDisconnect(n)
        \/ \E t \in Txs : TxArrives(n, t) \/ TxLeaves(n, t)
        \/ \E a \in Addrs : RelayAddress(n, a)
        \/ \E m \in StrangeMessages : Stranger(n, m)

PsSpec == PsInit /\ [][PsNext]_psVars

(***************************************************************************)
(* Properties.                                                             *)
(***************************************************************************)
Ours == stranger = Nobody

\* Two nodes of this code never find each other at fault, whatever each is
\* configured to do and in whatever order their messages cross; and when both
\* have finished the handshake they agree on what was negotiated: the form of
\* transaction ids, of addresses, and whether to reconcile.
HandshakeAgrees ==
    Ours => /\ \A n \in Nodes : end[n].closing \notin {"violation", "timeout"} /\ end[n].score = 0
            /\ end[A].done /\ end[B].done =>
                 \A f \in {"common", "wtxid", "wantsV2", "recon"} : end[A][f] = end[B][f]

\* A block-relay-only connection carries neither addresses nor transactions in
\* either direction, and its maker keeps none for it, whatever the other end sends.
BlockRelayOnlyQuiet ==
    conn = "blockonly" =>
        /\ end[A].tx = Nobody /\ end[A].addr = Nobody /\ end[A].addrs = {}
        /\ Ours => \A n \in Nodes : \A i \in DOMAIN wire[n] : wire[n][i].type \notin {"inv", "addr", "getaddr"}
=============================================================================

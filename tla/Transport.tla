----------------------------- MODULE Transport -----------------------------
(***************************************************************************)
(* The bytes of a connection (net.cpp): V1Transport, V2Transport (BIP324)  *)
(* and, around them, the socket thread and the message thread of each end, *)
(* with the queues between them and the flags that stop one side when the  *)
(* other falls behind.  End "A" opened the connection, end "B" accepted    *)
(* it; the wire of each direction is a bounded FIFO of bytes, of which a   *)
(* read takes any part.                                                    *)
(*                                                                         *)
(* A byte is <<kind, sender, number>>.  The encodings are cut to a few     *)
(* bytes: the prefix by which a version 1 connection is recognised is two  *)
(* bytes, which are also its whole header; a key is three bytes, a garbage *)
(* terminator two, an encrypted packet one of length and one of            *)
(* ciphertext.  Encryption is symbolic: a packet decrypts if it is the     *)
(* next of its sender and was made for the garbage that was received.      *)
(***************************************************************************)
EXTENDS Integers, Sequences, SequencesExt, FiniteSets

CONSTANTS
    Cap,        \* bytes the wire of one direction holds
    MaxGarbage, \* MAX_GARBAGE_LEN
    Ends        \* configurations of the two ends: conf.sendMax is nSendBufferMaxSize and conf.recvMax m_recv_flood_size, in
                \* messages; conf.answers the messages by which a request is answered

VARIABLES
    tend,   \* the state of each end
    tchan,  \* tchan[x]: the bytes x sent that the other end has not read
    tsent   \* tsent[x]: the kinds of the messages x pushed, in order

tpVars == <<tend, tchan, tsent>>

Other(x) == IF x = "A" THEN "B" ELSE "A"
Magic(net) == <<"magic", net, 0>>
VersionType == <<"version", "", 0>>
V1Prefix(x) == <<Magic(tend[x].conf.net), VersionType>>
\* The number of messages whose type was negotiated without payload is one: the second of each end.
V1Message(x, n) ==
    <<Magic(tend[x].conf.net), IF n = 1 THEN VersionType ELSE <<"type", x, n>>>> \o IF n = 2 THEN <<>> ELSE <<<<"data", x, n>>>>
\* A key is random; conf.lucky makes its first byte that of the version 1 prefix.
Key(x, conf) == <<IF conf.lucky THEN Magic(conf.net) ELSE <<"key", x, 1>>, <<"key", x, 2>>, <<"key", x, 3>>>>
Garbage(x, conf) == [i \in 1..conf.garbage |-> <<"garbage", x, i>>]
Term(x) == <<<<"term", x, 1>>, <<"term", x, 2>>>>
Packet(x, p) == <<<<"len", x, p>>, <<"ct", x, p>>>>
Packets(x, n) == FlattenSeq([p \in 1..n |-> Packet(x, p - 1)])

\* V1Transport and V2Transport constructed: the initiator starts its handshake at once; it also pushed its VERSION message.
NewEnd(x, conf) ==
    [conf |-> conf,
     ss   |-> IF ~conf.v2 THEN "V1" ELSE IF x = "A" THEN "AWAITING_KEY" ELSE "MAYBE_V1",
     sbuf |-> IF conf.v2 /\ x = "A" THEN Key(x, conf) \o Garbage(x, conf) ELSE <<>>,
     worth |-> FALSE,
     rs   |-> IF ~conf.v2 THEN "V1" ELSE IF x = "A" THEN "KEY" ELSE "KEY_MAYBE_V1",
     rbuf |-> <<>>, next |-> 0, aad |-> <<>>, in |-> <<>>,
     q |-> IF x = "A" THEN <<1>> ELSE <<>>, vr |-> <<>>, recvq |-> <<>>, pauseSend |-> FALSE, pauseRecv |-> FALSE,
     sock |-> TRUE, net |-> "idle", recvSet |-> FALSE, any |-> FALSE, lock |-> "none", todo |-> 0, script |-> conf.script, got |-> 0]
TpInit ==
    \E c \in Ends :
        /\ tend = [x \in {"A", "B"} |-> NewEnd(x, c[x])]
        /\ tchan = [x \in {"A", "B"} |-> <<>>]
        /\ tsent = [x \in {"A", "B"} |-> IF x = "A" THEN <<"version">> ELSE <<>>]

Upd(x, e) == tend' = [tend EXCEPT ![x] = e]
CanSend(e) == e.ss \in {"READY", "V1"}
Usage(e) == Len(e.q) + IF e.sbuf # <<>> THEN 1 ELSE 0
Room(x) == Cap - Len(tchan[x])

(***************************************************************************)
(* Sending: PushMessage, and SocketSendData by the message thread (an      *)
(* optimistic write) or the socket thread, under cs_vSend.                 *)
(***************************************************************************)
\* A message enters vSendMsg; it is written at once if nothing was waiting and the transport can take it.
PushMessage(x, kind, e) ==
    LET queued == [e EXCEPT !.q = Append(@, Len(tsent[x]) + 1)]
    IN  /\ e.lock = "none"
        /\ Upd(x, [queued EXCEPT !.pauseSend = @ \/ Usage(queued) > e.conf.sendMax,
                                 !.lock = IF e.sbuf = <<>> /\ e.q = <<>> /\ CanSend(e) THEN "msg" ELSE "none"])
        /\ tsent' = [tsent EXCEPT ![x] = Append(@, kind)]
        /\ UNCHANGED tchan
\* SetMessageToSend, when the transport has nothing left to send.
SetMessageToSend(x, e) ==
    IF e.q = <<>> \/ e.sbuf # <<>> \/ ~CanSend(e) THEN e
    ELSE [e EXCEPT !.q = Tail(@), !.sbuf = IF e.ss = "V1" THEN V1Message(x, Head(e.q)) ELSE Packet(x, e.conf.decoys + Head(e.q))]
\* The end of SocketSendData; the socket thread does not read when it wrote something but not everything.
SendEnds(x, e, left) ==
    LET done == [e EXCEPT !.lock = "none", !.any = FALSE, !.pauseSend = Usage(e) > e.conf.sendMax] IN
    Upd(x, IF e.lock = "msg" THEN done ELSE [done EXCEPT !.net = "recv", !.recvSet = @ /\ ~(e.any /\ left)])
\* One round of the loop: as much as the wire has room for; an error if the other end has closed.
SocketSendData(x) ==
    /\ tend[x].lock # "none"
    /\ \E e \in {SetMessageToSend(x, tend[x])} : \E n \in {IF Len(e.sbuf) < Room(x) THEN Len(e.sbuf) ELSE Room(x)} :
        IF ~e.sock \/ n = 0
        THEN SendEnds(x, e, e.sbuf # <<>>) /\ UNCHANGED tchan
        ELSE IF ~tend[Other(x)].sock THEN SendEnds(x, [e EXCEPT !.sock = FALSE], TRUE) /\ UNCHANGED tchan
        ELSE LET sent == [e EXCEPT !.sbuf = SubSeq(@, n + 1, Len(@)), !.any = TRUE, !.worth = @ \/ n >= 2] IN
             /\ tchan' = [tchan EXCEPT ![x] = @ \o SubSeq(e.sbuf, 1, n)]
             /\ IF n < Len(e.sbuf) THEN SendEnds(x, sent, TRUE) ELSE Upd(x, sent)
    /\ UNCHANGED tsent

(***************************************************************************)
(* The socket thread: GenerateWaitSockets and SocketHandlerConnected.      *)
(***************************************************************************)
GenerateWaitSockets(x) ==
    LET e == tend[x]
        r == ~e.pauseRecv /\ (tchan[Other(x)] # <<>> \/ ~tend[Other(x)].sock)
        s == (e.sbuf # <<>> \/ (e.q # <<>> /\ CanSend(e))) /\ Room(x) > 0
    IN  /\ e.net = "idle" /\ e.sock /\ (r \/ s)
        /\ Upd(x, [e EXCEPT !.net = IF s THEN "send" ELSE "recv", !.recvSet = r])
        /\ UNCHANGED <<tchan, tsent>>
StartSend(x) ==
    /\ tend[x].net = "send" /\ tend[x].lock = "none"
    /\ Upd(x, [tend[x] EXCEPT !.lock = "net", !.net = "sending"])
    /\ UNCHANGED <<tchan, tsent>>
\* Recv: some of the bytes that have arrived, or the other end has closed.
Recv(x) ==
    LET e == tend[x]
        c == tchan[Other(x)]
    IN  /\ e.net = "recv"
        /\ IF ~e.recvSet \/ ~e.sock THEN Upd(x, [e EXCEPT !.net = "idle"]) /\ UNCHANGED tchan
           ELSE IF c = <<>> THEN Upd(x, [e EXCEPT !.net = "idle", !.sock = FALSE, !.recvSet = FALSE]) /\ UNCHANGED tchan
           ELSE \E k \in {1, Len(c)} :
                /\ Upd(x, [e EXCEPT !.net = "absorb", !.recvSet = FALSE, !.in = SubSeq(c, 1, k)])
                /\ tchan' = [tchan EXCEPT ![Other(x)] = SubSeq(c, k + 1, Len(c))]
        /\ UNCHANGED tsent

(***************************************************************************)
(* ReceivedBytes, byte by byte, in each state of the receiver.  Each       *)
(* operator gives the end after the byte, or one that drops the peer.      *)
(***************************************************************************)
Drop(e) == [e EXCEPT !.sock = FALSE, !.in = <<>>]
\* ProcessReceivedMaybeV1Bytes: any difference from the version 1 prefix means a key, and starts the own handshake.
MaybeV1Bytes(x, e, buf) ==
    IF ~IsPrefix(buf, V1Prefix(x))
    THEN [e EXCEPT !.rs = "KEY", !.rbuf = buf, !.ss = "AWAITING_KEY", !.sbuf = Key(x, e.conf) \o Garbage(x, e.conf)]
    ELSE IF Len(buf) = 2 THEN [e EXCEPT !.rs = "V1", !.ss = "V1", !.rbuf = buf]
    ELSE [e EXCEPT !.rbuf = buf]
\* ProcessReceivedKeyBytes: with the whole key the ciphers are set up, and terminator and version packet follow the garbage.
KeyBytes(x, e, buf) ==
    IF x = "B" /\ Len(buf) >= 2 /\ buf[2] = VersionType THEN Drop(e)
    ELSE IF Len(buf) = 3
    THEN [e EXCEPT !.rs = "GARB_GARBTERM", !.rbuf = <<>>, !.ss = "READY",
                   !.sbuf = @ \o Term(x) \o Packets(x, e.conf.decoys + 1)]
    ELSE [e EXCEPT !.rbuf = buf]
\* ProcessReceivedGarbageBytes
GarbageBytes(x, e, buf) ==
    IF Len(buf) >= 2 /\ SubSeq(buf, Len(buf) - 1, Len(buf)) = Term(Other(x))
    THEN [e EXCEPT !.rs = "VERSION", !.rbuf = <<>>, !.aad = SubSeq(buf, 1, Len(buf) - 2)]
    ELSE IF Len(buf) = MaxGarbage + 2 THEN Drop(e)
    ELSE [e EXCEPT !.rbuf = buf]
\* ProcessReceivedPacketBytes: decoys only advance the cipher; then the version packet, then messages.
Decrypts(x, e, b) ==
    /\ b = <<"ct", Other(x), e.next>>
    /\ e.aad = IF e.next = 0 THEN Garbage(Other(x), tend[Other(x)].conf) ELSE <<>>
PacketBytes(x, e, buf) ==
    IF Len(buf) = 1 THEN [e EXCEPT !.rbuf = buf]
    ELSE IF ~Decrypts(x, e, buf[2]) THEN Drop(e)
    ELSE LET decoy == e.next < tend[Other(x)].conf.decoys
             read  == [e EXCEPT !.rbuf = <<>>, !.aad = <<>>, !.next = @ + 1]
         IN  IF decoy THEN read
             ELSE IF e.rs = "VERSION" THEN [read EXCEPT !.rs = "APP"]
             ELSE [read EXCEPT !.vr = Append(@, e.next - tend[Other(x)].conf.decoys)]
\* V1Transport: readHeader (what is no header has the wrong magic or an impossible size) and readData; the second message has no payload.
V1Bytes(x, e, buf) ==
    IF Len(buf) < 2 THEN [e EXCEPT !.rbuf = buf]
    ELSE IF buf[1] # V1Prefix(x)[1] \/ buf[2][1] \notin {"version", "type"} THEN Drop(e)
    ELSE LET n == IF buf[2] = VersionType THEN 1 ELSE buf[2][3]
         IN  IF buf = V1Message(Other(x), n) THEN [e EXCEPT !.rbuf = <<>>, !.vr = Append(@, n)]
             ELSE [e EXCEPT !.rbuf = buf]
ReceivedBytes(x) ==
    /\ tend[x].net = "absorb" /\ tend[x].in # <<>>
    /\ \E e \in {[tend[x] EXCEPT !.in = Tail(@)]} : \E buf \in {Append(e.rbuf, Head(tend[x].in))} :
        \/ e.rs = "KEY_MAYBE_V1" /\ Upd(x, MaybeV1Bytes(x, e, buf))
        \/ e.rs = "KEY" /\ Upd(x, KeyBytes(x, e, buf))
        \/ e.rs = "GARB_GARBTERM" /\ Upd(x, GarbageBytes(x, e, buf))
        \/ e.rs \in {"VERSION", "APP"} /\ Upd(x, PacketBytes(x, e, buf))
        \/ e.rs = "V1" /\ Upd(x, V1Bytes(x, e, buf))
    /\ UNCHANGED <<tchan, tsent>>
\* Mutant: the new messages are spliced in at the front.
MarkReceivedMsgsForProcessing_Front(x) ==
    /\ tend[x].net = "absorb" /\ tend[x].in = <<>>
    /\ Upd(x, [tend[x] EXCEPT !.net = "idle", !.vr = <<>>, !.recvq = tend[x].vr \o @,
                              !.pauseRecv = Len(tend[x].recvq \o tend[x].vr) > tend[x].conf.recvMax])
    /\ UNCHANGED <<tchan, tsent>>
\* What was parsed joins the queue of the message thread, and the socket is not read while that is too long.
MarkReceivedMsgsForProcessing(x) ==
    /\ tend[x].net = "absorb" /\ tend[x].in = <<>>
    /\ Upd(x, [tend[x] EXCEPT !.net = "idle", !.vr = <<>>, !.recvq = @ \o tend[x].vr,
                              !.pauseRecv = Len(tend[x].recvq \o tend[x].vr) > tend[x].conf.recvMax])
    /\ UNCHANGED <<tchan, tsent>>

(***************************************************************************)
(* The message thread: PollMessage and what processing pushes.             *)
(***************************************************************************)
\* The VERSION message of the accepting end answers the other's; a request is answered; the thread does not poll when its
\* send queue is full.
Replies(x, n) == CASE n = 1 -> IF x = "B" THEN 1 ELSE 0
                   [] tsent[Other(x)][n] = "ask" -> tend[x].conf.answers
                   [] OTHER -> 0
PollMessage(x) ==
    LET e == tend[x] IN
    /\ e.sock /\ e.todo = 0 /\ e.lock # "msg" /\ ~e.pauseSend /\ e.recvq # <<>>
    /\ Upd(x, [e EXCEPT !.recvq = Tail(@), !.pauseRecv = Len(Tail(e.recvq)) > e.conf.recvMax, !.got = Head(e.recvq),
                        !.todo = Replies(x, Head(e.recvq))])
    /\ UNCHANGED <<tchan, tsent>>
Reply(x) ==
    LET e == tend[x] IN
    /\ e.sock /\ e.todo > 0
    /\ PushMessage(x, IF tsent[x] = <<>> THEN "version" ELSE "answer", [e EXCEPT !.todo = @ - 1])
\* SendMessages pushes whatever is due, whether or not the send queue is full.
SendMessages(x) ==
    LET e == tend[x] IN
    /\ e.sock /\ e.todo = 0 /\ e.script > 0 /\ e.got > 0
    /\ PushMessage(x, "ask", [e EXCEPT !.script = @ - 1])

\* V2Transport::ShouldReconnectV1: nothing was received, and enough was sent for a version 1 peer to hang up.
ShouldReconnectV1(x) == LET e == tend[x] IN x = "A" /\ e.rs = "KEY" /\ e.rbuf = <<>> /\ e.worth
\* InactivityCheck: TIMEOUT_INTERVAL (20 minutes) passes without a byte only when neither end can take another step: both
\* queues of both ends are full and so are both wires.
Stalled ==
    \A x \in {"A", "B"} :
        /\ tend[x].pauseSend /\ tend[x].pauseRecv /\ Room(x) = 0
        /\ tend[x].net = "idle" /\ tend[x].lock = "none"
InactivityCheck(x) ==
    /\ Stalled /\ tend[x].sock
    /\ Upd(x, [tend[x] EXCEPT !.sock = FALSE])
    /\ UNCHANGED <<tchan, tsent>>

SocketThread(x) ==
    \/ GenerateWaitSockets(x) \/ StartSend(x) \/ (tend[x].lock = "net" /\ SocketSendData(x))
    \/ InactivityCheck(x) \/ Recv(x) \/ ReceivedBytes(x) \/ MarkReceivedMsgsForProcessing(x)
MessageThread(x) ==
    PollMessage(x) \/ Reply(x) \/ SendMessages(x) \/ (tend[x].lock = "msg" /\ SocketSendData(x))

Compatible == tend["A"].conf.net = tend["B"].conf.net /\ (tend["A"].conf.v2 => tend["B"].conf.v2)

\* Both threads poll: a round that finds nothing to do changes nothing.
Poll == UNCHANGED tpVars
TpNext ==
    \/ \E x \in {"A", "B"} : SocketThread(x) \/ MessageThread(x)
    \/ Poll
\* Both threads of both ends run.
TpSpec == TpInit /\ [][TpNext]_tpVars /\ \A x \in {"A", "B"} : WF_tpVars(SocketThread(x)) /\ WF_tpVars(MessageThread(x))

(***************************************************************************)
(* Properties                                                              *)
(***************************************************************************)
\* Whatever the transports and however the bytes are cut, what one end takes from the wire is what the other pushed, each
\* message once and in order.
DeliveredInOrder ==
    \A x \in {"A", "B"} :
        LET e == tend[x]
            s == e.recvq \o e.vr
        IN  (\A i \in DOMAIN s : s[i] = e.got + i) /\ e.got + Len(s) <= Len(tsent[Other(x)])

\* Two ends of one network that can agree on a transport never drop each other, unless every queue is full; if the accepting end only speaks version 1,
\* the one that opened the connection knows to try again with it.
TransportsAgree ==
    /\ Compatible => (tend["A"].sock /\ tend["B"].sock) \/ Stalled
    /\ (tend["A"].conf.v2 /\ ~tend["B"].conf.v2 /\ ~tend["A"].sock) => ShouldReconnectV1("A")

\* A full queue at one end stops the other only for a while: every message either end pushed is processed in the end. Only
\* when both ends have more to say than all the queues between them hold can they wait for each other, and then the
\* connection ends.
EverythingDelivered ==
    Compatible ~> \/ \A x \in {"A", "B"} : tend[x].script = 0 /\ tend[x].todo = 0 /\ tend[x].got = Len(tsent[Other(x)])
                  \/ Stalled /\ \A x \in {"A", "B"} : ~tend[x].sock
=============================================================================

----------------------------- MODULE TxRequest ------------------------------
(***************************************************************************)
(* The data structure of TxRequestTracker (txrequest.cpp): which peers     *)
(* have announced which transactions, and which of them is to be asked.    *)
(* Its operations are functions on the index of announcements; module      *)
(* TxDownload is the state machine that calls them.                        *)
(*                                                                         *)
(* Times are relative to the clock: m_time - now, so that a timestamp has  *)
(* passed when it is not positive.  A time that has passed by more than    *)
(* the clock can ever be set back is not told apart from Long.             *)
(***************************************************************************)
EXTENDS Integers, FiniteSets

CONSTANTS
    Peers,
    Preferred,      \* the peers with fPreferredDownload
    TxHashes,
    LowBits,        \* LowBits[h][p]: the hashed part of the priority
    TopBit,         \* the bit of the priority that marks preferred peers
    MaxDelay,       \* the largest delay or expiry time
    MaxBack         \* bound: how far the clock is ever set back

ASSUME TxRequestAssumption ==
    /\ Preferred \subseteq Peers
    /\ {TopBit, MaxDelay, MaxBack} \subseteq Nat
    /\ LowBits \in [TxHashes -> [Peers -> Nat]]
    /\ \A h \in TxHashes : \A p, q \in Peers :
          /\ LowBits[h][p] < TopBit
          /\ p # q => LowBits[h][p] # LowBits[h][q]

(* enum class State, in its order, after the absence of an announcement. *)
States == {"NONE", "DELAYED", "READY", "BEST", "REQUESTED", "COMPLETED"}

Long == -MaxBack
Times == Long .. (MaxBack + MaxDelay)

Announcement == [state : States, time : Times]
NoAnnouncement == [state |-> "NONE", time |-> Long]

Rank(s) == CASE s = "DELAYED" -> 1 [] s = "READY" -> 2 [] s = "BEST" -> 3
             [] s = "REQUESTED" -> 4 [] s = "COMPLETED" -> 5 [] OTHER -> 0

IsSelected(a) == a.state \in {"BEST", "REQUESTED"}
IsWaiting(a) == a.state \in {"REQUESTED", "DELAYED"}
IsSelectable(a) == a.state \in {"READY", "BEST"}

(* PriorityComputer: preferred peers above all others. *)
Priority(h, p) == LowBits[h][p] + IF p \in Preferred THEN TopBit ELSE 0

-----------------------------------------------------------------------------
(* One txhash h, whose announcements are the function r of the peers.      *)

(* The ByTxHash index: by state, and READY ones by priority. *)
Precedes(h, r, p, q) ==
    \/ Rank(r[p].state) < Rank(r[q].state)
    \/ /\ r[p].state = "READY" /\ r[q].state = "READY"
       /\ Priority(h, p) < Priority(h, q)

Present(r) == {p \in Peers : r[p].state # "NONE"}

(* std::next and std::prev in that index, within the same txhash. *)
NextOf(h, r, p) ==
    {q \in Present(r) :
        /\ Precedes(h, r, p, q)
        /\ ~\E x \in Present(r) : Precedes(h, r, p, x) /\ Precedes(h, r, x, q)}
PrevOf(h, r, p) ==
    {q \in Present(r) :
        /\ Precedes(h, r, q, p)
        /\ ~\E x \in Present(r) : Precedes(h, r, q, x) /\ Precedes(h, r, x, p)}

SetState(r, p, s) == [r EXCEPT ![p].state = s]

(* Mutant: a newly ready announcement never displaces the best one. *)
PromoteCandidateReady_NoSwap(h, r, p) ==
    LET ready == SetState(r, p, "READY")
        next  == NextOf(h, ready, p)
    IN  IF \A q \in next : ready[q].state = "COMPLETED"
        THEN SetState(r, p, "BEST") ELSE ready

PromoteCandidateReady(h, r, p) ==
    LET ready == SetState(r, p, "READY")
        next  == NextOf(h, ready, p)
        best  == {q \in next : ready[q].state = "BEST"
                               /\ Priority(h, p) > Priority(h, q)}
    IN  IF best # {}
        THEN [q \in Peers |-> [r[q] EXCEPT !.state =
                 IF q = p THEN "BEST" ELSE IF q \in best THEN "READY" ELSE @]]
        ELSE IF \A q \in next : ready[q].state = "COMPLETED"
        THEN SetState(r, p, "BEST") ELSE ready

ChangeAndReselect(h, r, p, new) ==
    LET prev == {q \in PrevOf(h, r, p) : /\ IsSelected(r[p])
                                         /\ r[q].state = "READY"}
    IN  [q \in Peers |-> [r[q] EXCEPT !.state =
            IF q = p THEN new ELSE IF q \in prev THEN "BEST" ELSE @]]

IsOnlyNonCompleted(r, p) ==
    \A q \in Peers \ {p} : r[q].state \in {"NONE", "COMPLETED"}

NoAnnouncements == [p \in Peers |-> NoAnnouncement]

MakeCompleted(h, r, p) ==
    IF r[p].state \in {"NONE", "COMPLETED"} THEN r
    ELSE IF IsOnlyNonCompleted(r, p) THEN NoAnnouncements
    ELSE ChangeAndReselect(h, r, p, "COMPLETED")

(* DisconnectedPeer, for one of the txhashes the peer has announced. *)
Disconnected(h, r, p) ==
    [MakeCompleted(h, r, p) EXCEPT ![p] = NoAnnouncement]

-----------------------------------------------------------------------------
(* The whole index.                                                        *)
Count(index, p) == Cardinality({h \in TxHashes : index[h][p].state # "NONE"})

CountInFlight(index, p) ==
    Cardinality({h \in TxHashes : index[h][p].state = "REQUESTED"})

ForgetTxHash(index, hashes) ==
    [h \in TxHashes |-> IF h \in hashes THEN NoAnnouncements ELSE index[h]]

DisconnectedPeer(index, p) ==
    [h \in TxHashes |-> Disconnected(h, index[h], p)]

ReceivedResponse(index, p, hashes) ==
    [h \in TxHashes |-> IF h \in hashes THEN MakeCompleted(h, index[h], p)
                        ELSE index[h]]

(* An announcement that exists already is left as it is. *)
ReceivedInv(index, p, hashes, reqtime) ==
    [h \in TxHashes |->
        IF h \in hashes /\ index[h][p].state = "NONE"
        THEN [index[h] EXCEPT ![p] = [state |-> "DELAYED", time |-> reqtime]]
        ELSE index[h]]

(* The first announcements of the ByTime index: those waiting for a time   *)
(* that has passed, earliest first.                                        *)
Due(index) ==
    LET past == {x \in TxHashes \X Peers : /\ IsWaiting(index[x[1]][x[2]])
                                          /\ index[x[1]][x[2]].time <= 0}
    IN  {x \in past : \A y \in past :
            index[x[1]][x[2]].time <= index[y[1]][y[2]].time}

(* Mutant: IsSelected is taken for IsSelectable. *)
Early_Selected(index) ==
    LET future == {x \in TxHashes \X Peers : /\ IsSelected(index[x[1]][x[2]])
                                            /\ index[x[1]][x[2]].time > 0}
    IN  {x \in future : \A y \in future :
            index[x[1]][x[2]].time >= index[y[1]][y[2]].time}

(* Its last ones: candidates whose time is in the future again because the *)
(* clock was set back, latest first.                                       *)
Early(index) ==
    LET future == {x \in TxHashes \X Peers : /\ IsSelectable(index[x[1]][x[2]])
                                            /\ index[x[1]][x[2]].time > 0}
    IN  {x \in future : \A y \in future :
            index[x[1]][x[2]].time >= index[y[1]][y[2]].time}

(* The turns of the two loops of SetTimePoint. *)
ConvertDue(index, h, p) ==
    [index EXCEPT ![h] = IF @[p].state = "DELAYED"
                         THEN PromoteCandidateReady(h, @, p)
                         ELSE MakeCompleted(h, @, p)]

ConvertEarly(index, h, p) ==
    [index EXCEPT ![h] = ChangeAndReselect(h, @, p, "DELAYED")]

(* What GetRequestable returns after SetTimePoint. *)
BestFrom(index, p) == {h \in TxHashes : index[h][p].state = "BEST"}

(* RequestedTx.  If p was not the best candidate, the one that is makes    *)
(* room for it, or a request to another peer is given up.                  *)
MakeRoom(a) ==
    IF a.state = "BEST" THEN [a EXCEPT !.state = "READY"]
    ELSE IF a.state = "REQUESTED" THEN [a EXCEPT !.state = "COMPLETED"]
    ELSE a

RequestedTx(index, h, p, expiry) ==
    IF index[h][p].state \notin {"DELAYED", "READY", "BEST"} THEN index
    ELSE [index EXCEPT ![h] = [q \in Peers |->
             IF q = p THEN [state |-> "REQUESTED", time |-> expiry]
             ELSE MakeRoom(index[h][q])]]

(* The clock moves.  A completed announcement waits for nothing. *)
Shifted(a, d) ==
    IF a.state = "NONE" THEN a
    ELSE [a EXCEPT !.time = IF a.state = "COMPLETED" \/ @ + d < Long
                            THEN Long ELSE @ + d]

ClockMoves(index, d) ==
    [h \in TxHashes |-> [p \in Peers |-> Shifted(index[h][p], d)]]

(* SanityCheck, for one txhash: not only completed announcements; at most  *)
(* one selected; one selected if any is ready; the best one is the best.   *)
RowSound(h, r) ==
    /\ (\E p \in Peers : r[p].state # "NONE") =>
          \E p \in Peers : r[p].state \notin {"NONE", "COMPLETED"}
    /\ \A p, q \in Peers : IsSelected(r[p]) /\ IsSelected(r[q]) => p = q
    /\ \A p \in Peers : r[p].state = "READY" =>
          \E q \in Peers :
             /\ IsSelected(r[q])
             /\ r[q].state = "BEST" => Priority(h, q) >= Priority(h, p)
=============================================================================

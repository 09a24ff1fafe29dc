------------------------- MODULE TxDownload_proofs --------------------------
(***************************************************************************)
(* For any number of peers, transactions and announcements: the request    *)
(* tracker always passes its own SanityCheck.                              *)
(***************************************************************************)
EXTENDS TxDownload, FiniteSetTheorems, WellFoundedInduction, TLAPS

(* The times are of no account here. *)
Row == [Peers -> [state : States, time : Int]]

-----------------------------------------------------------------------------
(* Priorities are numbers that tell the peers apart.                       *)
LEMMA PriorityFacts ==
    ASSUME NEW h \in TxHashes
    PROVE  /\ \A p \in Peers : Priority(h, p) \in Nat /\ Priority(h, p) < 2 * TopBit
           /\ \A p, q \in Peers : Priority(h, p) = Priority(h, q) => p = q
<1>1. TopBit \in Nat  BY TxRequestAssumption
<1>2. \A p \in Peers : LowBits[h][p] \in Nat /\ LowBits[h][p] < TopBit
  BY TxRequestAssumption
<1>3. \A p, q \in Peers : p # q => LowBits[h][p] # LowBits[h][q]
  BY TxRequestAssumption
<1>4. \A p \in Peers : \/ p \in Preferred /\ Priority(h, p) = LowBits[h][p] + TopBit
                       \/ p \notin Preferred /\ Priority(h, p) = LowBits[h][p]
  BY <1>1, <1>2 DEF Priority
<1> QED  BY <1>1, <1>2, <1>3, <1>4

(* Every nonempty set of peers has one of lowest and one of highest        *)
(* priority.                                                               *)
LEMMA LeastNumber ==
    ASSUME NEW T \in SUBSET Nat, T # {}
    PROVE  \E x \in T : \A y \in T : x <= y
<1>1. PICK x \in T : \A y \in T : ~(<<y, x>> \in OpToRel(<, Nat))
  BY NatLessThanWellFounded, WFMin
<1>2. \A y \in T : ~(y < x)
  <2> SUFFICES ASSUME NEW y \in T, y < x PROVE FALSE
    OBVIOUS
  <2>1. <<y, x>> \in Nat \X Nat /\ <<y, x>>[1] < <<y, x>>[2]  OBVIOUS
  <2>2. <<y, x>> \in OpToRel(<, Nat)  BY <2>1, Zenon DEF OpToRel
  <2> QED  BY <1>1, <2>2, Zenon
<1>3. \A y \in T : y \in Nat /\ x \in Nat  OBVIOUS
<1> HIDE <1>1
<1>4. \A y \in T : x <= y  BY <1>2, <1>3
<1> QED  BY <1>4

LEMMA LowestPriority ==
    ASSUME NEW h \in TxHashes, NEW S \in SUBSET Peers, S # {}
    PROVE  \E p \in S : \A q \in S : Priority(h, p) <= Priority(h, q)
<1> DEFINE T == {Priority(h, p) : p \in S}
<1>1. T \in SUBSET Nat /\ T # {}  BY PriorityFacts
<1>2. \E x \in T : \A y \in T : x <= y
  <2> HIDE DEF T
  <2> QED  BY <1>1, LeastNumber
<1> QED  BY <1>2

LEMMA HighestPriority ==
    ASSUME NEW h \in TxHashes, NEW S \in SUBSET Peers, S # {}
    PROVE  \E p \in S : \A q \in S : Priority(h, q) <= Priority(h, p)
<1> DEFINE T == {2 * TopBit - Priority(h, p) : p \in S}
<1>0. TopBit \in Nat  BY TxRequestAssumption
<1>1. T \in SUBSET Nat /\ T # {}  BY <1>0, PriorityFacts
<1>2. PICK x \in T : \A y \in T : x <= y
  <2> HIDE DEF T
  <2> QED  BY <1>1, LeastNumber
<1>4. PICK p \in S : x = 2 * TopBit - Priority(h, p)  OBVIOUS
<1>5. \A q \in S : 2 * TopBit - Priority(h, p) <= 2 * TopBit - Priority(h, q)
  BY <1>2, <1>4
<1>6. \A q \in S : Priority(h, q) \in Nat  BY PriorityFacts
<1> QED  BY <1>0, <1>5, <1>6

-----------------------------------------------------------------------------
(* The order of the ByTxHash index within one txhash.                      *)
LEMMA PrecedesFacts ==
    ASSUME NEW h \in TxHashes, NEW r \in Row, NEW p \in Peers, NEW q \in Peers
    PROVE  /\ r[p].state = "READY" =>
                (Precedes(h, r, p, q) <=>
                    \/ r[q].state \in {"BEST", "REQUESTED", "COMPLETED"}
                    \/ r[q].state = "READY" /\ Priority(h, p) < Priority(h, q))
           /\ IsSelected(r[q]) /\ r[p].state = "READY" => Precedes(h, r, p, q)
           /\ IsSelected(r[p]) => (Precedes(h, r, p, q) =>
                    r[q].state \in {"REQUESTED", "COMPLETED"})
<1>1. r[p].state \in States /\ r[q].state \in States  BY DEF Row
<1> QED  BY <1>1, PriorityFacts DEF Precedes, Rank, States, IsSelected

(* What SetState and the updates of several states do to a row. *)
LEMMA RowUpdate ==
    ASSUME NEW r \in Row, NEW f \in [Peers -> States]
    PROVE  /\ [q \in Peers |-> [r[q] EXCEPT !.state = f[q]]] \in Row
           /\ \A q \in Peers :
                 [x \in Peers |-> [r[x] EXCEPT !.state = f[x]]][q].state = f[q]
BY DEF Row

LEMMA SetStateFacts ==
    ASSUME NEW r \in Row, NEW p \in Peers, NEW s \in States
    PROVE  /\ SetState(r, p, s) \in Row
           /\ \A q \in Peers : SetState(r, p, s)[q].state = IF q = p THEN s ELSE r[q].state
BY DEF Row, SetState

(* What follows a READY announcement: the READY one of next higher         *)
(* priority if there is one, else the selected one if there is one, else   *)
(* completed ones.                                                         *)
LEMMA NextOfReady ==
    ASSUME NEW h \in TxHashes, NEW r \in Row, NEW p \in Peers, r[p].state = "READY",
           \A x, y \in Peers : IsSelected(r[x]) /\ IsSelected(r[y]) => x = y
    PROVE  LET above == {q \in Peers : r[q].state = "READY"
                                       /\ Priority(h, q) > Priority(h, p)}
               next == NextOf(h, r, p)
           IN  /\ above # {} => /\ \E q \in next : r[q].state = "READY"
                                /\ \A q \in next : r[q].state = "READY"
               /\ above = {} => \A q \in Peers : IsSelected(r[q]) => next = {q}
               /\ above = {} /\ (\A q \in Peers : ~IsSelected(r[q]))
                     => \A q \in next : r[q].state = "COMPLETED"
<1> DEFINE above == {q \in Peers : r[q].state = "READY"
                                   /\ Priority(h, q) > Priority(h, p)}
<1> DEFINE next == NextOf(h, r, p)
<1>1. \A q \in Peers : Precedes(h, r, p, q) <=>
          \/ r[q].state \in {"BEST", "REQUESTED", "COMPLETED"}
          \/ q \in above
  BY PrecedesFacts, PriorityFacts
<1>2. \A q \in above : \A x \in Peers : Precedes(h, r, q, x) <=>
          \/ r[x].state \in {"BEST", "REQUESTED", "COMPLETED"}
          \/ r[x].state = "READY" /\ Priority(h, q) < Priority(h, x)
  BY PrecedesFacts
<1>3. \A q \in Peers : q \in next <=>
          /\ q \in Peers /\ r[q].state # "NONE" /\ Precedes(h, r, p, q)
          /\ \A x \in Peers : r[x].state # "NONE" /\ Precedes(h, r, p, x)
                                 => ~Precedes(h, r, x, q)
  BY DEF NextOf, Present
<1>4. next \subseteq Peers  BY DEF NextOf, Present
<1>5. ASSUME above # {}
      PROVE  (\E q \in next : r[q].state = "READY") /\ \A q \in next : r[q].state = "READY"
  <2>1. PICK m \in above : \A q \in above : Priority(h, m) <= Priority(h, q)
    BY <1>5, LowestPriority
  <2>2. \A x \in Peers : Precedes(h, r, p, x) => ~Precedes(h, r, x, m)
    <3> SUFFICES ASSUME NEW x \in Peers, Precedes(h, r, p, x), Precedes(h, r, x, m)
                 PROVE  FALSE
      OBVIOUS
    <3>1. CASE x \in above  BY <3>1, <1>2, <2>1, PriorityFacts
    <3>2. CASE IsSelected(r[x])  BY <3>2, PrecedesFacts
    <3>3. CASE r[x].state = "COMPLETED"
      BY <3>3, <2>1 DEF Precedes, Rank
    <3> QED  BY <3>1, <3>2, <3>3, <1>1 DEF IsSelected
  <2>3. m \in next  BY <1>1, <1>3, <2>1, <2>2
  <2>4. \A q \in next : r[q].state = "READY"
    <3> SUFFICES ASSUME NEW q \in next, r[q].state # "READY" PROVE FALSE
      OBVIOUS
    <3>1. q \in Peers /\ Precedes(h, r, p, q)  BY <1>3, <1>4
    <3>2. r[q].state \in {"BEST", "REQUESTED", "COMPLETED"}  BY <1>1, <3>1
    <3>3. Precedes(h, r, m, q) /\ Precedes(h, r, p, m)  BY <1>1, <1>2, <3>2, <3>1
    <3> QED  BY <1>3, <3>1, <3>3, <2>1
  <2> QED  BY <2>1, <2>3, <2>4
<1>6. ASSUME above = {}, NEW q \in Peers, IsSelected(r[q])
      PROVE  next = {q}
  <2>1. Precedes(h, r, p, q) /\ r[q].state # "NONE"
    BY <1>6, PrecedesFacts DEF IsSelected
  <2>2. \A x \in Peers : Precedes(h, r, p, x) => x = q \/ r[x].state = "COMPLETED"
    BY <1>1, <1>6 DEF IsSelected
  <2>3. \A x \in Peers : r[x].state = "COMPLETED" =>
             Precedes(h, r, q, x) /\ ~Precedes(h, r, x, q)
    BY <1>6 DEF Precedes, Rank, IsSelected
  <2>4. ~Precedes(h, r, q, q)  BY <1>6 DEF Precedes, IsSelected, Rank
  <2>5. q \in next  BY <1>3, <2>1, <2>2, <2>3, <2>4
  <2>6. \A x \in next : x = q  BY <1>3, <1>4, <2>1, <2>2, <2>3
  <2> QED  BY <2>5, <2>6
<1>7. ASSUME above = {}, \A q \in Peers : ~IsSelected(r[q]), NEW q \in next
      PROVE  r[q].state = "COMPLETED"
  BY <1>1, <1>3, <1>4, <1>7 DEF IsSelected
<1> HIDE DEF above, next
<1>8. /\ above # {} => /\ \E q \in next : r[q].state = "READY"
                       /\ \A q \in next : r[q].state = "READY"
      /\ above = {} => \A q \in Peers : IsSelected(r[q]) => next = {q}
      /\ above = {} /\ (\A q \in Peers : ~IsSelected(r[q]))
            => \A q \in next : r[q].state = "COMPLETED"
  BY <1>5, <1>6, <1>7
<1> QED  BY <1>8 DEF above, next

(* PromoteCandidateReady keeps a row sound. *)
LEMMA PromoteSound ==
    ASSUME NEW h \in TxHashes, NEW r \in Row, RowSound(h, r),
           NEW p \in Peers, r[p].state = "DELAYED"
    PROVE  /\ PromoteCandidateReady(h, r, p) \in Row
           /\ RowSound(h, PromoteCandidateReady(h, r, p))
           /\ PromoteCandidateReady(h, r, p)[p].state \in {"READY", "BEST"}
           /\ \A q \in Peers \ {p} :
                 \/ PromoteCandidateReady(h, r, p)[q].state = r[q].state
                 \/ r[q].state = "BEST" /\ PromoteCandidateReady(h, r, p)[q].state = "READY"
<1> DEFINE ready == SetState(r, p, "READY")
           next == NextOf(h, ready, p)
           best == {q \in next : ready[q].state = "BEST" /\ Priority(h, p) > Priority(h, q)}
           above == {q \in Peers : ready[q].state = "READY"
                                   /\ Priority(h, q) > Priority(h, p)}
           new == PromoteCandidateReady(h, r, p)
<1>1. ready \in Row /\ \A q \in Peers : ready[q].state = IF q = p THEN "READY" ELSE r[q].state
  BY SetStateFacts DEF States
<1>2. \A x, y \in Peers : IsSelected(ready[x]) /\ IsSelected(ready[y]) => x = y
  BY <1>1 DEF RowSound, IsSelected
<1>3. /\ above # {} => /\ \E q \in next : ready[q].state = "READY"
                       /\ \A q \in next : ready[q].state = "READY"
      /\ above = {} => \A q \in Peers : IsSelected(ready[q]) => next = {q}
      /\ above = {} /\ (\A q \in Peers : ~IsSelected(ready[q]))
            => \A q \in next : ready[q].state = "COMPLETED"
  BY <1>1, <1>2, NextOfReady
<1>4. new = IF best # {}
            THEN [q \in Peers |-> [r[q] EXCEPT !.state =
                     IF q = p THEN "BEST" ELSE IF q \in best THEN "READY" ELSE r[q].state]]
            ELSE IF \A q \in next : ready[q].state = "COMPLETED"
            THEN SetState(r, p, "BEST") ELSE ready
  BY DEF PromoteCandidateReady, Row
<1>5. next \subseteq Peers  BY DEF NextOf, Present
<1>6. \A q \in Peers : r[q].state \in States  BY DEF Row
<1> HIDE DEF new, best, above, next, ready
<1>7. CASE above # {}
  <2>1. best = {}  BY <1>3, <1>7 DEF best
  <2>2. new = ready  BY <1>3, <1>4, <1>7, <2>1
  <2>3. PICK m \in Peers \ {p} : r[m].state = "READY" /\ Priority(h, m) > Priority(h, p)
    BY <1>1, <1>7, PriorityFacts DEF above
  <2>4. PICK x \in Peers : /\ IsSelected(r[x])
                           /\ r[x].state = "BEST" => Priority(h, x) >= Priority(h, m)
    BY <2>3 DEF RowSound
  <2>5. /\ IsSelected(ready[x]) /\ x # p
        /\ ready[x].state = "BEST" => Priority(h, x) >= Priority(h, p)
    BY <1>1, <2>3, <2>4, PriorityFacts DEF IsSelected
  <2>6. RowSound(h, ready)
    BY <1>1, <1>2, <2>5 DEF RowSound, IsSelected
  <2> QED  BY <1>1, <2>2, <2>6 DEF new
<1>8. CASE above = {} /\ \E q \in Peers : IsSelected(r[q])
  <2>1. PICK q \in Peers : IsSelected(r[q])  BY <1>8
  <2>2. q # p /\ IsSelected(ready[q]) /\ next = {q} /\ ready[q].state = r[q].state
    BY <1>1, <1>3, <1>8, <2>1 DEF IsSelected
  <2>3. CASE r[q].state = "BEST" /\ Priority(h, p) > Priority(h, q)
    <3>1. best = {q}  BY <2>2, <2>3 DEF best
    <3>2. /\ new \in Row
          /\ \A x \in Peers : new[x].state =
                IF x = p THEN "BEST" ELSE IF x = q THEN "READY" ELSE r[x].state
      <4> DEFINE f == [x \in Peers |->
                          IF x = p THEN "BEST" ELSE IF x = q THEN "READY" ELSE r[x].state]
      <4>1. f \in [Peers -> States]  BY <1>6 DEF States
      <4>2. new = [x \in Peers |-> [r[x] EXCEPT !.state = f[x]]]  BY <1>4, <3>1
      <4>3. \A x \in Peers : f[x] = IF x = p THEN "BEST"
                                    ELSE IF x = q THEN "READY" ELSE r[x].state
        OBVIOUS
      <4> HIDE DEF f
      <4>4. new \in Row /\ \A x \in Peers : new[x].state = f[x]
        BY <4>1, <4>2, RowUpdate, Zenon
      <4> QED  BY <4>3, <4>4
    <3>3. \A x, y \in Peers : IsSelected(new[x]) /\ IsSelected(new[y]) => x = y
      BY <2>1, <3>2 DEF RowSound, IsSelected
    <3>4. \A x \in Peers : new[x].state = "READY" => Priority(h, p) >= Priority(h, x)
      BY <2>1, <2>3, <3>2, PriorityFacts DEF RowSound, IsSelected
    <3>5. RowSound(h, new)  BY <3>2, <3>3, <3>4 DEF RowSound, IsSelected
    <3> QED  BY <2>3, <3>2, <3>5 DEF new
  <2>4. CASE ~(r[q].state = "BEST" /\ Priority(h, p) > Priority(h, q))
    <3>1. best = {}  BY <2>2, <2>4 DEF best
    <3>2. new = ready  BY <1>4, <2>2, <3>1 DEF IsSelected
    <3>3. r[q].state = "BEST" => Priority(h, q) >= Priority(h, p)
      BY <2>4, PriorityFacts
    <3>4. RowSound(h, ready)
      BY <1>1, <1>2, <2>1, <2>2, <3>3 DEF RowSound, IsSelected
    <3> QED  BY <1>1, <3>2, <3>4 DEF new
  <2> QED  BY <2>3, <2>4
<1>9. CASE above = {} /\ \A q \in Peers : ~IsSelected(r[q])
  <2>1. \A q \in next : ready[q].state = "COMPLETED"
    BY <1>1, <1>3, <1>9 DEF IsSelected
  <2>2. best = {}  BY <2>1 DEF best
  <2>3. new = SetState(r, p, "BEST")  BY <1>4, <2>1, <2>2
  <2>4. new \in Row /\ \A q \in Peers : new[q].state = IF q = p THEN "BEST" ELSE r[q].state
    <3>1. "BEST" \in States  BY DEF States
    <3>2. /\ SetState(r, p, "BEST") \in Row
          /\ \A q \in Peers : SetState(r, p, "BEST")[q].state =
                                 IF q = p THEN "BEST" ELSE r[q].state
      BY <3>1, SetStateFacts
    <3> QED  BY <2>3, <3>2
  <2>5. \A q \in Peers : r[q].state # "READY"  BY <1>9 DEF RowSound
  <2>6. RowSound(h, new)  BY <1>9, <2>4, <2>5 DEF RowSound, IsSelected
  <2> QED  BY <2>4, <2>6 DEF new
<1> QED  BY <1>7, <1>8, <1>9

(* ChangeAndReselect: the READY announcement before a selected one is the  *)
(* one of highest priority.                                                *)
LEMMA PrevOfSelected ==
    ASSUME NEW h \in TxHashes, NEW r \in Row, NEW p \in Peers, IsSelected(r[p]),
           \A x, y \in Peers : IsSelected(r[x]) /\ IsSelected(r[y]) => x = y
    PROVE  LET ready == {q \in Peers : r[q].state = "READY"}
               prev == {q \in PrevOf(h, r, p) : r[q].state = "READY"}
           IN  /\ ready = {} => prev = {}
               /\ ready # {} => \E m \in ready :
                     prev = {m} /\ \A q \in ready : Priority(h, q) <= Priority(h, m)
<1> DEFINE ready == {q \in Peers : r[q].state = "READY"}
           prev == {q \in PrevOf(h, r, p) : r[q].state = "READY"}
<1>1. \A q \in Peers : q \in prev <=>
          /\ q \in ready /\ Precedes(h, r, q, p)
          /\ \A x \in Peers : r[x].state # "NONE" /\ Precedes(h, r, q, x)
                                 => ~Precedes(h, r, x, p)
  BY DEF PrevOf, Present
<1>2. prev \subseteq ready  BY DEF PrevOf, Present
<1>3. \A q \in ready : Precedes(h, r, q, p)  BY PrecedesFacts
<1>4. ASSUME ready # {}
      PROVE  \E m \in ready :
                prev = {m} /\ \A q \in ready : Priority(h, q) <= Priority(h, m)
  <2>1. PICK m \in ready : \A q \in ready : Priority(h, q) <= Priority(h, m)
    BY <1>4, HighestPriority
  <2>2. \A x \in Peers : Precedes(h, r, m, x) => ~Precedes(h, r, x, p)
    <3> SUFFICES ASSUME NEW x \in Peers, Precedes(h, r, m, x), Precedes(h, r, x, p)
                 PROVE  FALSE
      OBVIOUS
    <3>1. \/ r[x].state \in {"BEST", "REQUESTED", "COMPLETED"}
          \/ x \in ready /\ Priority(h, m) < Priority(h, x)
      BY <2>1, PrecedesFacts
    <3>2. CASE x \in ready  BY <3>1, <3>2, <2>1, PriorityFacts
    <3>3. CASE IsSelected(r[x])
      <4>1. x = p  BY <3>3
      <4> QED  BY <4>1 DEF Precedes, IsSelected, Rank
    <3>4. CASE r[x].state = "COMPLETED"  BY <3>4 DEF Precedes, IsSelected, Rank
    <3> QED  BY <3>1, <3>2, <3>3, <3>4 DEF IsSelected
  <2>3. m \in prev  BY <1>1, <1>3, <2>1, <2>2
  <2>4. \A q \in prev : q = m
    <3> SUFFICES ASSUME NEW q \in prev, q # m PROVE FALSE
      OBVIOUS
    <3>1. q \in ready /\ q \in Peers /\ m \in Peers  BY <1>2
    <3>2. Priority(h, q) < Priority(h, m)  BY <2>1, <3>1, PriorityFacts
    <3>3. Precedes(h, r, q, m)  BY <2>1, <3>1, <3>2, PrecedesFacts
    <3> QED  BY <1>1, <1>3, <2>1, <3>1, <3>3
  <2> QED  BY <2>1, <2>3, <2>4
<1> HIDE DEF ready, prev
<1>5. /\ ready = {} => prev = {}
      /\ ready # {} => \E m \in ready :
            prev = {m} /\ \A q \in ready : Priority(h, q) <= Priority(h, m)
  BY <1>2, <1>4
<1> QED  BY <1>5 DEF ready, prev

(* ChangeAndReselect keeps a row sound, if something is left to wait for. *)
LEMMA ChangeSound ==
    ASSUME NEW h \in TxHashes, NEW r \in Row, RowSound(h, r),
           NEW p \in Peers, NEW new \in {"COMPLETED", "DELAYED"},
           new = "COMPLETED" =>
              \E q \in Peers \ {p} : r[q].state \notin {"NONE", "COMPLETED"}
    PROVE  /\ ChangeAndReselect(h, r, p, new) \in Row
           /\ RowSound(h, ChangeAndReselect(h, r, p, new))
           /\ ChangeAndReselect(h, r, p, new)[p].state = new
           /\ \A q \in Peers \ {p} :
                 \/ ChangeAndReselect(h, r, p, new)[q].state = r[q].state
                 \/ /\ r[q].state = "READY"
                    /\ ChangeAndReselect(h, r, p, new)[q].state = "BEST"
<1> DEFINE prev == {q \in PrevOf(h, r, p) : IsSelected(r[p]) /\ r[q].state = "READY"}
           f == [q \in Peers |-> IF q = p THEN new
                                 ELSE IF q \in prev THEN "BEST" ELSE r[q].state]
           row == ChangeAndReselect(h, r, p, new)
<1>1. f \in [Peers -> States]  BY DEF Row, States
<1>2. row = [q \in Peers |-> [r[q] EXCEPT !.state = f[q]]]
  BY DEF ChangeAndReselect, Row
<1>3. \A q \in Peers : f[q] = IF q = p THEN new
                              ELSE IF q \in prev THEN "BEST" ELSE r[q].state
  OBVIOUS
<1>4. row \in Row /\ \A q \in Peers : row[q].state = f[q]
  <2> HIDE DEF f, row
  <2> QED  BY <1>1, <1>2, RowUpdate, Zenon
<1>5. \A q \in prev : IsSelected(r[p]) /\ r[q].state = "READY"  OBVIOUS
<1>6. prev = {} \/ \E m \in Peers : prev = {m}
  <2>1. CASE IsSelected(r[p])
    <3>1. prev = {q \in PrevOf(h, r, p) : r[q].state = "READY"}  BY <2>1
    <3>2. \A x, y \in Peers : IsSelected(r[x]) /\ IsSelected(r[y]) => x = y
      BY DEF RowSound
    <3> QED  BY <2>1, <3>1, <3>2, PrevOfSelected
  <2>2. CASE ~IsSelected(r[p])  BY <2>2
  <2> QED  BY <2>1, <2>2
<1>7. IsSelected(r[p]) =>
          \A q \in Peers : r[q].state = "READY" =>
             \E m \in prev : r[m].state = "READY" /\ Priority(h, q) <= Priority(h, m)
  <2> SUFFICES ASSUME IsSelected(r[p]), NEW q \in Peers, r[q].state = "READY"
               PROVE  \E m \in prev : /\ r[m].state = "READY"
                                      /\ Priority(h, q) <= Priority(h, m)
    OBVIOUS
  <2>1. prev = {x \in PrevOf(h, r, p) : r[x].state = "READY"}  OBVIOUS
  <2>2. \A x, y \in Peers : IsSelected(r[x]) /\ IsSelected(r[y]) => x = y
    BY DEF RowSound
  <2> QED  BY <2>1, <2>2, PrevOfSelected
<1>8. prev \subseteq Peers  BY DEF PrevOf, Present
<1> HIDE DEF prev, f, row
<1>9. RowSound(h, row)
  <2>1. \E q \in Peers : row[q].state \notin {"NONE", "COMPLETED"}
    <3>1. CASE new = "DELAYED"  BY <1>3, <1>4, <3>1
    <3>2. CASE new = "COMPLETED"  BY <1>3, <1>4, <3>2
    <3> QED  BY <3>1, <3>2
  <2>2. \A x, y \in Peers : IsSelected(row[x]) /\ IsSelected(row[y]) => x = y
    BY <1>3, <1>4, <1>5, <1>6 DEF RowSound, IsSelected
  <2>3. ASSUME NEW x \in Peers, row[x].state = "READY"
        PROVE  \E q \in Peers : /\ IsSelected(row[q])
                                /\ row[q].state = "BEST" => Priority(h, q) >= Priority(h, x)
    <3>0. x # p /\ x \notin prev /\ r[x].state = "READY"  BY <1>3, <1>4, <2>3
    <3>1. CASE IsSelected(r[p])
      <4>1. PICK m \in prev : r[m].state = "READY" /\ Priority(h, x) <= Priority(h, m)
        BY <1>7, <3>0, <3>1
      <4>2. m \in Peers /\ m # p  BY <1>8, <3>1, <4>1 DEF IsSelected
      <4>3. row[m].state = "BEST"  BY <1>3, <1>4, <4>1, <4>2
      <4> QED  BY <4>1, <4>2, <4>3, PriorityFacts DEF IsSelected
    <3>2. CASE ~IsSelected(r[p])
      <4>1. PICK q \in Peers : /\ IsSelected(r[q])
                               /\ r[q].state = "BEST" => Priority(h, q) >= Priority(h, x)
        BY <3>0 DEF RowSound
      <4>2. q # p /\ q \notin prev  BY <1>5, <3>2, <4>1
      <4>3. row[q].state = r[q].state  BY <1>3, <1>4, <4>2
      <4> QED  BY <4>1, <4>3 DEF IsSelected
    <3> QED  BY <3>1, <3>2
  <2> QED  BY <2>1, <2>2, <2>3 DEF RowSound
<1>10. /\ row[p].state = new
       /\ \A q \in Peers \ {p} : \/ row[q].state = r[q].state
                                 \/ r[q].state = "READY" /\ row[q].state = "BEST"
  BY <1>3, <1>4, <1>5
<1> QED  BY <1>4, <1>9, <1>10 DEF row

LEMMA EmptyRow ==
    ASSUME NEW h \in TxHashes
    PROVE  NoAnnouncements \in Row /\ RowSound(h, NoAnnouncements)
<1>1. Long \in Int  BY TxRequestAssumption DEF Long
<1>2. NoAnnouncements \in Row
  BY <1>1 DEF NoAnnouncements, NoAnnouncement, Row, States
<1>3. \A p \in Peers : NoAnnouncements[p].state = "NONE"
  BY DEF NoAnnouncements, NoAnnouncement
<1> QED  BY <1>2, <1>3 DEF RowSound, IsSelected

(* MakeCompleted keeps a row sound. *)
LEMMA CompletedSound ==
    ASSUME NEW h \in TxHashes, NEW r \in Row, RowSound(h, r), NEW p \in Peers
    PROVE  /\ MakeCompleted(h, r, p) \in Row
           /\ RowSound(h, MakeCompleted(h, r, p))
           /\ MakeCompleted(h, r, p)[p].state \in {"NONE", "COMPLETED"}
           /\ \A q \in Peers \ {p} :
                 \/ MakeCompleted(h, r, p)[q].state \in {r[q].state, "NONE"}
                 \/ r[q].state = "READY" /\ MakeCompleted(h, r, p)[q].state = "BEST"
<1>1. CASE r[p].state \in {"NONE", "COMPLETED"}  BY <1>1 DEF MakeCompleted
<1>2. CASE r[p].state \notin {"NONE", "COMPLETED"} /\ IsOnlyNonCompleted(r, p)
  <2>1. MakeCompleted(h, r, p) = NoAnnouncements  BY <1>2 DEF MakeCompleted
  <2>2. \A q \in Peers : NoAnnouncements[q].state = "NONE"
    BY DEF NoAnnouncements, NoAnnouncement
  <2> QED  BY <2>1, <2>2, EmptyRow
<1>3. CASE r[p].state \notin {"NONE", "COMPLETED"} /\ ~IsOnlyNonCompleted(r, p)
  <2>1. MakeCompleted(h, r, p) = ChangeAndReselect(h, r, p, "COMPLETED")
    BY <1>3 DEF MakeCompleted
  <2>2. \E q \in Peers \ {p} : r[q].state \notin {"NONE", "COMPLETED"}
    BY <1>3 DEF IsOnlyNonCompleted
  <2> DEFINE c == ChangeAndReselect(h, r, p, "COMPLETED")
  <2>3. /\ c \in Row /\ RowSound(h, c) /\ c[p].state = "COMPLETED"
        /\ \A q \in Peers \ {p} : \/ c[q].state = r[q].state
                                  \/ r[q].state = "READY" /\ c[q].state = "BEST"
    BY <2>2, ChangeSound
  <2> HIDE DEF c
  <2>4. MakeCompleted(h, r, p) = c  BY <2>1 DEF c
  <2> QED  BY <2>3, <2>4
<1> QED  BY <1>1, <1>2, <1>3

(* Removing a completed announcement keeps a row sound. *)
LEMMA DisconnectedSound ==
    ASSUME NEW h \in TxHashes, NEW r \in Row, RowSound(h, r), NEW p \in Peers
    PROVE  /\ Disconnected(h, r, p) \in Row
           /\ RowSound(h, Disconnected(h, r, p))
           /\ Disconnected(h, r, p)[p].state = "NONE"
           /\ \A q \in Peers \ {p} :
                 Disconnected(h, r, p)[q] = MakeCompleted(h, r, p)[q]
<1> DEFINE c == MakeCompleted(h, r, p)
           d == Disconnected(h, r, p)
<1>1. c \in Row /\ RowSound(h, c) /\ c[p].state \in {"NONE", "COMPLETED"}
  BY CompletedSound
<1>2. Long \in Int  BY TxRequestAssumption DEF Long
<1>3. d = [c EXCEPT ![p] = NoAnnouncement]  BY DEF Disconnected
<1> HIDE DEF c, d
<1>4. d \in Row  BY <1>1, <1>2, <1>3 DEF Row, NoAnnouncement, States
<1>5. d[p].state = "NONE" /\ \A q \in Peers \ {p} : d[q] = c[q]
  BY <1>1, <1>3 DEF Row, NoAnnouncement
<1>6. RowSound(h, d)  BY <1>1, <1>5 DEF RowSound, IsSelected
<1> QED  BY <1>4, <1>5, <1>6 DEF c, d

(* RequestedTx keeps a row sound, whatever the state of the candidate. *)
LEMMA RequestedSound ==
    ASSUME NEW index \in [TxHashes -> Row], NEW h \in TxHashes, RowSound(h, index[h]),
           NEW p \in Peers, NEW expiry \in Int
    PROVE  LET new == RequestedTx(index, h, p, expiry)
           IN  /\ new \in [TxHashes -> Row] /\ RowSound(h, new[h])
               /\ \A x \in TxHashes \ {h} : new[x] = index[x]
               /\ \A q \in Peers : index[h][q].state = "NONE" => new[h][q].state = "NONE"
<1> DEFINE r == index[h]
           row == [q \in Peers |->
                     IF q = p THEN [state |-> "REQUESTED", time |-> expiry]
                     ELSE MakeRoom(r[q])]
           new == RequestedTx(index, h, p, expiry)
<1>1. r \in Row  OBVIOUS
<1>2. CASE r[p].state \notin {"DELAYED", "READY", "BEST"}  BY <1>2 DEF RequestedTx
<1>3. CASE r[p].state \in {"DELAYED", "READY", "BEST"}
  <2>1. new = [index EXCEPT ![h] = row]  BY <1>3 DEF RequestedTx
  <2> HIDE DEF r
  <2>2. \A q \in Peers : /\ MakeRoom(r[q]) \in [state : States, time : Int]
                         /\ MakeRoom(r[q]).state \notin {"BEST", "REQUESTED"}
                         /\ r[q].state = "NONE" => MakeRoom(r[q]).state = "NONE"
    BY <1>1 DEF MakeRoom, Row, States
  <2>3. row \in Row
    <3>1. [state |-> "REQUESTED", time |-> expiry] \in [state : States, time : Int]
      BY DEF States
    <3> QED  BY <2>2, <3>1, Zenon DEF Row
  <2>4. /\ row[p].state = "REQUESTED"
        /\ \A q \in Peers \ {p} : /\ row[q].state \notin {"BEST", "REQUESTED"}
                                  /\ r[q].state = "NONE" => row[q].state = "NONE"
    BY <2>2
  <2> HIDE DEF row, new
  <2>5. RowSound(h, row)  BY <2>4 DEF RowSound, IsSelected
  <2>6. new \in [TxHashes -> Row] /\ new[h] = row /\ \A x \in TxHashes \ {h} : new[x] = index[x]
    BY <2>1, <2>3
  <2>7. \A q \in Peers : r[q].state = "NONE" => row[q].state = "NONE"
    BY <1>3, <2>4
  <2> QED  BY <2>5, <2>6, <2>7 DEF new, r
<1> QED  BY <1>2, <1>3

LEMMA ClockSound ==
    ASSUME NEW index \in [TxHashes -> Row], NEW d \in Int
    PROVE  /\ ClockMoves(index, d) \in [TxHashes -> Row]
           /\ \A h \in TxHashes, p \in Peers :
                 ClockMoves(index, d)[h][p].state = index[h][p].state
<1>1. Long \in Int  BY TxRequestAssumption DEF Long
<1>2. \A a \in [state : States, time : Int] :
         Shifted(a, d) \in [state : States, time : Int] /\ Shifted(a, d).state = a.state
  BY <1>1 DEF Shifted
<1>3. \A h \in TxHashes, p \in Peers : index[h][p] \in [state : States, time : Int]
  BY DEF Row
<1> QED  BY <1>2, <1>3 DEF ClockMoves, Row

(* RowSound is about the states only. *)
LEMMA SameStates ==
    ASSUME NEW h \in TxHashes, NEW r, NEW s,
           \A p \in Peers : s[p].state = r[p].state, RowSound(h, r)
    PROVE  RowSound(h, s)
BY DEF RowSound, IsSelected

-----------------------------------------------------------------------------
(* The operations on the whole index.                                      *)
Sound(index) == index \in [TxHashes -> Row] /\ \A h \in TxHashes : RowSound(h, index[h])

(* No announcement of the peers P appears. *)
NoneNew(index, new, P) ==
    \A h \in TxHashes, q \in P : index[h][q].state = "NONE" => new[h][q].state = "NONE"

LEMMA ForgetKeeps ==
    ASSUME NEW index, Sound(index), NEW hashes
    PROVE  /\ Sound(ForgetTxHash(index, hashes))
           /\ NoneNew(index, ForgetTxHash(index, hashes), Peers)
<1>1. \A p \in Peers : NoAnnouncements[p].state = "NONE"
  BY DEF NoAnnouncements, NoAnnouncement
<1> QED  BY <1>1, EmptyRow DEF Sound, ForgetTxHash, NoneNew

LEMMA ResponseKeeps ==
    ASSUME NEW index, Sound(index), NEW p \in Peers, NEW hashes
    PROVE  /\ Sound(ReceivedResponse(index, p, hashes))
           /\ NoneNew(index, ReceivedResponse(index, p, hashes), Peers \ {p})
<1>1. \A h \in TxHashes : /\ index[h] \in Row /\ RowSound(h, index[h])
                          /\ MakeCompleted(h, index[h], p) \in Row
                          /\ RowSound(h, MakeCompleted(h, index[h], p))
  BY CompletedSound DEF Sound
<1>2. \A h \in TxHashes : \A q \in Peers \ {p} : index[h][q].state = "NONE"
          => MakeCompleted(h, index[h], p)[q].state = "NONE"
  BY CompletedSound DEF Sound
<1> QED  BY <1>1, <1>2 DEF Sound, ReceivedResponse, NoneNew

LEMMA DisconnectKeeps ==
    ASSUME NEW index, Sound(index), NEW p \in Peers
    PROVE  /\ Sound(DisconnectedPeer(index, p))
           /\ NoneNew(index, DisconnectedPeer(index, p), Peers \ {p})
           /\ \A h \in TxHashes : DisconnectedPeer(index, p)[h][p].state = "NONE"
<1>1. \A h \in TxHashes : /\ Disconnected(h, index[h], p) \in Row
                          /\ RowSound(h, Disconnected(h, index[h], p))
                          /\ Disconnected(h, index[h], p)[p].state = "NONE"
  BY DisconnectedSound DEF Sound
<1>2. \A h \in TxHashes : \A q \in Peers \ {p} : index[h][q].state = "NONE"
          => MakeCompleted(h, index[h], p)[q].state = "NONE"
  BY CompletedSound DEF Sound
<1>3. \A h \in TxHashes : \A q \in Peers \ {p} :
          Disconnected(h, index[h], p)[q] = MakeCompleted(h, index[h], p)[q]
  BY DisconnectedSound DEF Sound
<1> QED  BY <1>1, <1>2, <1>3 DEF Sound, DisconnectedPeer, NoneNew

LEMMA InvKeeps ==
    ASSUME NEW index, Sound(index), NEW p \in Peers, NEW hashes, NEW t \in Int
    PROVE  /\ Sound(ReceivedInv(index, p, hashes, t))
           /\ NoneNew(index, ReceivedInv(index, p, hashes, t), Peers \ {p})
<1> DEFINE new == ReceivedInv(index, p, hashes, t)
<1>1. ASSUME NEW h \in TxHashes
      PROVE  /\ new[h] \in Row /\ RowSound(h, new[h])
             /\ \A q \in Peers \ {p} : new[h][q] = index[h][q]
  <2>1. index[h] \in Row /\ RowSound(h, index[h])  BY DEF Sound
  <2>2. CASE h \in hashes /\ index[h][p].state = "NONE"
    <3>1. new[h] = [index[h] EXCEPT ![p] = [state |-> "DELAYED", time |-> t]]
      BY <2>2 DEF ReceivedInv
    <3>2. new[h] \in Row  BY <2>1, <3>1 DEF Row, States
    <3>3. new[h][p].state = "DELAYED" /\ \A q \in Peers \ {p} : new[h][q] = index[h][q]
      BY <2>1, <3>1 DEF Row
    <3> HIDE DEF new
    <3>4. RowSound(h, new[h])  BY <2>1, <2>2, <3>3 DEF RowSound, IsSelected
    <3> QED  BY <3>2, <3>3, <3>4
  <2>3. CASE ~(h \in hashes /\ index[h][p].state = "NONE")
    BY <2>1, <2>3 DEF ReceivedInv
  <2> QED  BY <2>2, <2>3
<1>2. new = [h \in TxHashes |-> new[h]]  BY DEF ReceivedInv
<1> HIDE DEF new
<1>3. new \in [TxHashes -> Row]  BY <1>1, <1>2
<1> QED  BY <1>1, <1>3 DEF Sound, NoneNew, new

LEMMA AnnouncementsKeep ==
    ASSUME NEW index, Sound(index), NEW p \in Peers, NEW hashes, NEW byWtxid,
           NEW new \in AddTxAnnouncements(index, p, hashes, byWtxid),
           Delay(index, p, byWtxid) \in Int
    PROVE  Sound(new) /\ NoneNew(index, new, Peers \ {p})
<1>1. PICK asked : new = ReceivedInv(index, p, asked, Delay(index, p, byWtxid))
  BY DEF AddTxAnnouncements
<1> QED  BY <1>1, InvKeeps

LEMMA DelayType ==
    ASSUME NEW index, NEW p, NEW byWtxid
    PROVE  Delay(index, p, byWtxid) \in Int
<1>1. NonprefDelay \in Nat /\ TxidDelay \in Nat /\ OverloadedDelay \in Nat
  BY TxDownloadAssumption
<1> QED  BY <1>1 DEF Delay

LEMMA RequestKeeps ==
    ASSUME NEW index, Sound(index), NEW h \in TxHashes, NEW p \in Peers, NEW t \in Int
    PROVE  /\ Sound(RequestedTx(index, h, p, t))
           /\ NoneNew(index, RequestedTx(index, h, p, t), Peers)
           /\ \A x \in TxHashes \ {h} : RequestedTx(index, h, p, t)[x] = index[x]
<1> DEFINE new == RequestedTx(index, h, p, t)
<1>1. /\ new \in [TxHashes -> Row] /\ RowSound(h, new[h])
      /\ \A x \in TxHashes \ {h} : new[x] = index[x]
      /\ \A q \in Peers : index[h][q].state = "NONE" => new[h][q].state = "NONE"
  BY RequestedSound DEF Sound
<1> HIDE DEF new
<1> QED  BY <1>1 DEF Sound, NoneNew, new

(* The turns of the loops of SetTimePoint. *)
LEMMA ConvertKeeps ==
    ASSUME NEW index, Sound(index), NEW h \in TxHashes, NEW p \in Peers
    PROVE  /\ index[h][p].state \in {"DELAYED", "REQUESTED"} =>
                 /\ Sound(ConvertDue(index, h, p))
                 /\ NoneNew(index, ConvertDue(index, h, p), Peers)
           /\ index[h][p].state \in {"READY", "BEST"} =>
                 /\ Sound(ConvertEarly(index, h, p))
                 /\ NoneNew(index, ConvertEarly(index, h, p), Peers)
<1>0. index[h] \in Row /\ RowSound(h, index[h])  BY DEF Sound
<1>1. ASSUME NEW row \in Row, RowSound(h, row),
             \A q \in Peers : index[h][q].state = "NONE" => row[q].state = "NONE"
      PROVE  /\ Sound([index EXCEPT ![h] = row])
             /\ NoneNew(index, [index EXCEPT ![h] = row], Peers)
  BY <1>1 DEF Sound, NoneNew
<1>2. ASSUME index[h][p].state = "DELAYED"
      PROVE  /\ Sound(ConvertDue(index, h, p))
             /\ NoneNew(index, ConvertDue(index, h, p), Peers)
  <2> DEFINE row == PromoteCandidateReady(h, index[h], p)
  <2>1. /\ row \in Row /\ RowSound(h, row) /\ row[p].state \in {"READY", "BEST"}
        /\ \A q \in Peers \ {p} : \/ row[q].state = index[h][q].state
                                  \/ index[h][q].state = "BEST" /\ row[q].state = "READY"
    BY <1>0, <1>2, PromoteSound
  <2>2. ConvertDue(index, h, p) = [index EXCEPT ![h] = row]  BY <1>2 DEF ConvertDue
  <2> HIDE DEF row
  <2>3. \A q \in Peers : index[h][q].state = "NONE" => row[q].state = "NONE"
    BY <1>2, <2>1
  <2> QED  BY <1>1, <2>1, <2>2, <2>3
<1>3. ASSUME index[h][p].state = "REQUESTED"
      PROVE  /\ Sound(ConvertDue(index, h, p))
             /\ NoneNew(index, ConvertDue(index, h, p), Peers)
  <2> DEFINE row == MakeCompleted(h, index[h], p)
  <2>1. /\ row \in Row /\ RowSound(h, row)
        /\ \A q \in Peers \ {p} : \/ row[q].state \in {index[h][q].state, "NONE"}
                                  \/ index[h][q].state = "READY" /\ row[q].state = "BEST"
    BY <1>0, CompletedSound
  <2>2. ConvertDue(index, h, p) = [index EXCEPT ![h] = row]  BY <1>3 DEF ConvertDue
  <2> HIDE DEF row
  <2>3. \A q \in Peers : index[h][q].state = "NONE" => row[q].state = "NONE"
    BY <1>3, <2>1
  <2> QED  BY <1>1, <2>1, <2>2, <2>3
<1>4. ASSUME index[h][p].state \in {"READY", "BEST"}
      PROVE  /\ Sound(ConvertEarly(index, h, p))
             /\ NoneNew(index, ConvertEarly(index, h, p), Peers)
  <2> DEFINE row == ChangeAndReselect(h, index[h], p, "DELAYED")
  <2>1. /\ row \in Row /\ RowSound(h, row) /\ row[p].state = "DELAYED"
        /\ \A q \in Peers \ {p} : \/ row[q].state = index[h][q].state
                                  \/ index[h][q].state = "READY" /\ row[q].state = "BEST"
    BY <1>0, ChangeSound
  <2>2. ConvertEarly(index, h, p) = [index EXCEPT ![h] = row]  BY DEF ConvertEarly
  <2> HIDE DEF row
  <2>3. \A q \in Peers : index[h][q].state = "NONE" => row[q].state = "NONE"
    BY <1>4, <2>1
  <2> QED  BY <1>1, <2>1, <2>2, <2>3
<1> QED  BY <1>2, <1>3, <1>4

LEMMA ClockKeeps ==
    ASSUME NEW index, Sound(index), NEW d \in Int
    PROVE  Sound(ClockMoves(index, d)) /\ NoneNew(index, ClockMoves(index, d), Peers)
<1>1. /\ ClockMoves(index, d) \in [TxHashes -> Row]
      /\ \A h \in TxHashes, p \in Peers :
            ClockMoves(index, d)[h][p].state = index[h][p].state
  BY ClockSound DEF Sound
<1>2. \A h \in TxHashes : RowSound(h, ClockMoves(index, d)[h])
  BY <1>1, SameStates DEF Sound
<1> QED  BY <1>1, <1>2 DEF Sound, NoneNew

-----------------------------------------------------------------------------
(* The inductive invariant: the tracker is sound; what GetRequestable has  *)
(* returned is still the best; only connected peers have anything.         *)
SendingInv ==
    /\ pc # "idle" => pto \in Peers
    /\ pc = "getdata" =>
          \A h \in requestable : h \in TxHashes /\ m_txrequest[h][pto].state = "BEST"

Absent(index, p) == \A h \in TxHashes : index[h][p].state = "NONE"

PeersInv ==
    /\ connected \subseteq Peers
    /\ m_orphans \in [Txs -> Peers \cup {NoPeer}] /\ workSet \in [Peers -> SUBSET Txs]
    /\ \A p \in Peers \ connected :
          Absent(m_txrequest, p) /\ (\A tx \in Txs : m_orphans[tx] # p) /\ workSet[p] = {}

IInv == Sound(m_txrequest) /\ SendingInv /\ PeersInv

LEMMA IInvInit == Init => IInv
<1> SUFFICES ASSUME Init PROVE IInv  OBVIOUS
<1>1. Sound(m_txrequest)  BY EmptyRow DEF Init, Sound
<1>2. SendingInv  BY DEF Init, SendingInv
<1>3. \A p \in Peers : Absent(m_txrequest, p)
  BY DEF Init, Absent, NoAnnouncements, NoAnnouncement
<1>4. NoPeer \notin Peers  BY TxDownloadAssumption
<1>5. PeersInv  BY <1>3, <1>4 DEF Init, PeersInv
<1> QED  BY <1>1, <1>2, <1>5 DEF IInv

(* A step that leaves the orphans and the connections alone, and in which  *)
(* announcements of connected peers only appear.                           *)
LEMMA PeersKept ==
    ASSUME PeersInv, UNCHANGED <<connected, orphanage>>,
           NoneNew(m_txrequest, m_txrequest', Peers \ connected)
    PROVE  PeersInv'
<1>1. connected' = connected /\ m_orphans' = m_orphans /\ workSet' = workSet
  BY DEF orphanage
<1>2. \A p \in Peers \ connected : Absent(m_txrequest, p)'
  BY DEF PeersInv, Absent, NoneNew
<1> QED  BY <1>1, <1>2 DEF PeersInv

(* Outside SendMessages nothing is left to be requested. *)
LEMMA IdleKept ==
    ASSUME idle, UNCHANGED sending
    PROVE  SendingInv'
BY DEF idle, sending, SendingInv

LEMMA FewerNew ==
    ASSUME NEW index, NEW new, NEW P, NEW Q, NoneNew(index, new, P), Q \subseteq P
    PROVE  NoneNew(index, new, Q)
BY DEF NoneNew

LEMMA NewTwice ==
    ASSUME NEW index, NEW mid, NEW new, NEW P, NoneNew(index, mid, P), NoneNew(mid, new, P)
    PROVE  NoneNew(index, new, P)
BY DEF NoneNew

LEMMA NothingNew ==
    ASSUME NEW index, NEW P
    PROVE  NoneNew(index, index, P)
BY DEF NoneNew

LEMMA InitializeNodeStep ==
    ASSUME IInv, NEW p \in Peers, InitializeNode(p)
    PROVE  IInv'
<1>1. /\ idle /\ connected' = connected \cup {p}
      /\ UNCHANGED m_txrequest /\ UNCHANGED orphanage /\ UNCHANGED sending
  BY DEF InitializeNode
<1>2. Sound(m_txrequest)'  BY <1>1 DEF IInv, Sound
<1>3. SendingInv'  BY <1>1, IdleKept
<1>4. m_orphans' = m_orphans /\ workSet' = workSet  BY <1>1 DEF orphanage
<1>5. PeersInv'  BY <1>1, <1>4 DEF IInv, PeersInv, Absent
<1> QED  BY <1>2, <1>3, <1>5 DEF IInv

LEMMA FinalizeNodeStep ==
    ASSUME IInv, NEW p \in Peers, FinalizeNode(p)
    PROVE  IInv'
<1>1. /\ idle /\ connected' = connected \ {p} /\ UNCHANGED sending
      /\ m_orphans' = [tx \in Txs |-> IF m_orphans[tx] = p THEN NoPeer ELSE m_orphans[tx]]
      /\ workSet' = [workSet EXCEPT ![p] = {}]
      /\ m_txrequest' = DisconnectedPeer(m_txrequest, p)
  BY DEF FinalizeNode
<1>2. /\ Sound(m_txrequest') /\ NoneNew(m_txrequest, m_txrequest', Peers \ {p})
      /\ \A h \in TxHashes : m_txrequest'[h][p].state = "NONE"
  BY <1>1, DisconnectKeeps DEF IInv
<1>3. SendingInv'  BY <1>1, IdleKept
<1>4. \A q \in Peers \ connected' : Absent(m_txrequest', q)
  BY <1>1, <1>2 DEF IInv, PeersInv, Absent, NoneNew
<1>5. NoPeer \notin Peers  BY TxDownloadAssumption
<1>6. /\ m_orphans' \in [Txs -> Peers \cup {NoPeer}] /\ workSet' \in [Peers -> SUBSET Txs]
      /\ \A q \in Peers \ connected' : /\ \A tx \in Txs : m_orphans'[tx] # q
                                       /\ workSet'[q] = {}
  BY <1>1, <1>5 DEF IInv, PeersInv
<1>7. PeersInv'  BY <1>1, <1>4, <1>6 DEF IInv, PeersInv
<1> QED  BY <1>2, <1>3, <1>7 DEF IInv

(* The handlers that only change the tracker and leave the orphans alone.  *)
LEMMA TrackerStep ==
    ASSUME IInv, idle, UNCHANGED <<connected, orphanage, sending>>,
           Sound(m_txrequest'), NoneNew(m_txrequest, m_txrequest', Peers \ connected)
    PROVE  IInv'
<1>1. UNCHANGED sending /\ UNCHANGED <<connected, orphanage>>  OBVIOUS
<1> QED  BY <1>1, IdleKept, PeersKept DEF IInv

LEMMA OthersOf ==
    ASSUME IInv, NEW p \in connected
    PROVE  p \in Peers /\ Peers \ connected \subseteq Peers \ {p}
BY DEF IInv, PeersInv

LEMMA InvStep ==
    ASSUME IInv, NEW p \in Peers, NEW tx \in Txs, Inv(p, tx)
    PROVE  IInv'
<1> DEFINE byWtxid == p \in WtxidRelay
           h == IF byWtxid THEN tx.wtxid ELSE tx.txid
<1>1. /\ idle /\ p \in connected
      /\ m_txrequest' \in AddTxAnnouncements(m_txrequest, p, {h}, byWtxid)
      /\ UNCHANGED connected /\ UNCHANGED orphanage /\ UNCHANGED sending
  BY DEF Inv
<1>2. Sound(m_txrequest') /\ NoneNew(m_txrequest, m_txrequest', Peers \ {p})
  BY <1>1, AnnouncementsKeep, DelayType DEF IInv
<1>3. NoneNew(m_txrequest, m_txrequest', Peers \ connected)
  BY <1>1, <1>2, OthersOf, FewerNew
<1>4. UNCHANGED <<connected, orphanage, sending>>  BY <1>1
<1> QED  BY <1>1, <1>2, <1>3, <1>4, TrackerStep

LEMMA RespondedKeeps ==
    ASSUME IInv, NEW p \in connected, NEW hashes
    PROVE  /\ Sound(ReceivedResponse(m_txrequest, p, hashes))
           /\ NoneNew(m_txrequest, ReceivedResponse(m_txrequest, p, hashes),
                      Peers \ connected)
<1>1. p \in Peers /\ Peers \ connected \subseteq Peers \ {p}  BY OthersOf
<1>2. Sound(m_txrequest)  BY DEF IInv
<1> QED  BY <1>1, <1>2, ResponseKeeps, FewerNew

LEMMA ForgottenKeeps ==
    ASSUME NEW index, NEW new, NEW hashes, NEW P \in SUBSET Peers,
           Sound(new), NoneNew(index, new, P)
    PROVE  /\ Sound(ForgetTxHash(new, hashes))
           /\ NoneNew(index, ForgetTxHash(new, hashes), P)
<1>1. /\ Sound(ForgetTxHash(new, hashes))
      /\ NoneNew(new, ForgetTxHash(new, hashes), Peers)
  BY ForgetKeeps
<1>2. NoneNew(new, ForgetTxHash(new, hashes), P)  BY <1>1, FewerNew
<1> QED  BY <1>1, <1>2, NewTwice

LEMMA TxTrackerSteps ==
    ASSUME IInv, NEW p \in Peers, NEW tx \in Txs,
           \/ TxAlreadyHave(p, tx) \/ TxOrphanRejected(p, tx)
           \/ TxWitnessStripped(p, tx)
           \/ \E byTxid \in BOOLEAN : TxRefused(p, tx, byTxid)
    PROVE  IInv'
<1>1. /\ idle /\ p \in connected
      /\ UNCHANGED connected /\ UNCHANGED orphanage /\ UNCHANGED sending
  BY DEF TxAlreadyHave, TxOrphanRejected, TxWitnessStripped, TxRefused, TxArrives
<1>2. \/ m_txrequest' = Responded(p, tx)
      \/ \E hashes : m_txrequest' = ForgetTxHash(Responded(p, tx), hashes)
  BY DEF TxAlreadyHave, TxOrphanRejected, TxWitnessStripped, TxRefused
<1>3. /\ Sound(Responded(p, tx))
      /\ NoneNew(m_txrequest, Responded(p, tx), Peers \ connected)
  BY <1>1, RespondedKeeps DEF Responded
<1>4. Sound(m_txrequest') /\ NoneNew(m_txrequest, m_txrequest', Peers \ connected)
  BY <1>2, <1>3, ForgottenKeeps
<1>5. UNCHANGED <<connected, orphanage, sending>>  BY <1>1
<1> QED  BY <1>1, <1>4, <1>5, TrackerStep

LEMMA NotFoundStep ==
    ASSUME IInv, NEW p \in Peers, NEW h \in TxHashes, NotFound(p, h)
    PROVE  IInv'
<1>1. /\ idle /\ p \in connected
      /\ m_txrequest' = ReceivedResponse(m_txrequest, p, {h})
      /\ UNCHANGED connected /\ UNCHANGED orphanage /\ UNCHANGED sending
  BY DEF NotFound
<1>2. Sound(m_txrequest') /\ NoneNew(m_txrequest, m_txrequest', Peers \ connected)
  BY <1>1, RespondedKeeps
<1>3. UNCHANGED <<connected, orphanage, sending>>  BY <1>1
<1> QED  BY <1>1, <1>2, <1>3, TrackerStep

(* The handlers that change the orphanage: only connected peers own        *)
(* orphans, and only owners of orphans get work.                           *)
LEMMA OrphanageStep ==
    ASSUME IInv, idle, UNCHANGED <<connected, sending>>,
           Sound(m_txrequest'), NoneNew(m_txrequest, m_txrequest', Peers \ connected),
           m_orphans' \in [Txs -> Peers \cup {NoPeer}],
           workSet' \in [Peers -> SUBSET Txs],
           \A q \in Peers \ connected : /\ \A tx \in Txs : m_orphans'[tx] # q
                                        /\ workSet'[q] = {}
    PROVE  IInv'
<1>1. SendingInv'  BY IdleKept
<1>2. \A q \in Peers \ connected : Absent(m_txrequest, q)'
  BY DEF IInv, PeersInv, Absent, NoneNew
<1>3. PeersInv'  BY <1>2 DEF IInv, PeersInv
<1> QED  BY <1>1, <1>3 DEF IInv

LEMMA ChildrenOfConnected ==
    ASSUME IInv, NEW sets \in [Peers -> SUBSET Txs], NEW tx,
           \A q \in Peers \ connected : sets[q] = {}
    PROVE  /\ AddChildrenToWorkSet(sets, tx) \in [Peers -> SUBSET Txs]
           /\ \A q \in Peers \ connected : AddChildrenToWorkSet(sets, tx)[q] = {}
<1>1. \A q \in Peers \ connected, c \in Txs : m_orphans[c] # q  BY DEF IInv, PeersInv
<1> QED  BY <1>1 DEF AddChildrenToWorkSet, Orphans

LEMMA TxAcceptedStep ==
    ASSUME IInv, NEW p \in Peers, NEW tx \in Txs, TxAccepted(p, tx)
    PROVE  IInv'
<1>1. /\ idle /\ p \in connected /\ UNCHANGED connected /\ UNCHANGED sending
      /\ m_txrequest' = ForgetTxHash(Responded(p, tx), Hashes(tx))
      /\ m_orphans' = m_orphans /\ workSet' = AddChildrenToWorkSet(workSet, tx)
  BY DEF TxAccepted, TxArrives
<1>2. /\ Sound(Responded(p, tx))
      /\ NoneNew(m_txrequest, Responded(p, tx), Peers \ connected)
  BY <1>1, RespondedKeeps DEF Responded
<1>3. Sound(m_txrequest') /\ NoneNew(m_txrequest, m_txrequest', Peers \ connected)
  BY <1>1, <1>2, ForgottenKeeps
<1>4. /\ workSet' \in [Peers -> SUBSET Txs]
      /\ \A q \in Peers \ connected : workSet'[q] = {}
  BY <1>1, ChildrenOfConnected DEF IInv, PeersInv
<1>5. /\ m_orphans' \in [Txs -> Peers \cup {NoPeer}]
      /\ \A q \in Peers \ connected : \A x \in Txs : m_orphans'[x] # q
  BY <1>1 DEF IInv, PeersInv
<1>6. UNCHANGED <<connected, sending>>  BY <1>1
<1> QED  BY <1>1, <1>3, <1>4, <1>5, <1>6, OrphanageStep

LEMMA TxOrphanStep ==
    ASSUME IInv, NEW p \in Peers, NEW tx \in Txs, TxOrphan(p, tx)
    PROVE  IInv'
<1> DEFINE unknown == {h \in tx.parents : ~AlreadyHaveTx(h, FALSE)}
           kept == IF SameTxid(tx, Orphans) THEN m_orphans
                   ELSE [m_orphans EXCEPT ![tx] = p]
<1>1. /\ idle /\ p \in connected /\ UNCHANGED connected /\ UNCHANGED sending
      /\ \E index \in AddTxAnnouncements(Responded(p, tx), p, unknown, FALSE) :
            m_txrequest' = ForgetTxHash(index, Hashes(tx))
      /\ m_orphans' \in Limited(kept) /\ workSet' = workSet
  BY DEF TxOrphan, TxArrives
<1>2. /\ Sound(Responded(p, tx))
      /\ NoneNew(m_txrequest, Responded(p, tx), Peers \ connected)
  BY <1>1, RespondedKeeps DEF Responded
<1>3. PICK index \in AddTxAnnouncements(Responded(p, tx), p, unknown, FALSE) :
            m_txrequest' = ForgetTxHash(index, Hashes(tx))
  BY <1>1
<1>4. Sound(index) /\ NoneNew(Responded(p, tx), index, Peers \ {p})
  BY <1>2, AnnouncementsKeep, DelayType
<1>5. NoneNew(m_txrequest, index, Peers \ connected)
  BY <1>1, <1>2, <1>4, OthersOf, FewerNew, NewTwice
<1>6. Sound(m_txrequest') /\ NoneNew(m_txrequest, m_txrequest', Peers \ connected)
  BY <1>3, <1>4, <1>5, ForgottenKeeps
<1>7. /\ kept \in [Txs -> Peers \cup {NoPeer}]
      /\ \A q \in Peers \ connected : \A x \in Txs : kept[x] # q
  BY <1>1 DEF IInv, PeersInv
<1> HIDE DEF kept
<1>8. NoPeer \notin Peers  BY TxDownloadAssumption
<1>9. /\ m_orphans' \in [Txs -> Peers \cup {NoPeer}]
      /\ \A x \in Txs : m_orphans'[x] \in {kept[x], NoPeer}
  BY <1>1 DEF Limited
<1>10. \A q \in Peers \ connected : \A x \in Txs : m_orphans'[x] # q
  BY <1>7, <1>8, <1>9
<1>11. /\ workSet' \in [Peers -> SUBSET Txs]
       /\ \A q \in Peers \ connected : workSet'[q] = {}
  BY <1>1 DEF IInv, PeersInv
<1>12. UNCHANGED <<connected, sending>>  BY <1>1
<1> QED  BY <1>1, <1>6, <1>9, <1>10, <1>11, <1>12, OrphanageStep

LEMMA ProcessOrphanTxStep ==
    ASSUME IInv, NEW p \in Peers, ProcessOrphanTx(p)
    PROVE  IInv'
<1>1. /\ idle /\ p \in connected /\ UNCHANGED <<connected, sending>>
      /\ m_txrequest' = m_txrequest
  BY DEF ProcessOrphanTx, OrphanAccepted, OrphanRefused, OrphansSkipped, sending
<1>2. Sound(m_txrequest') /\ NoneNew(m_txrequest, m_txrequest', Peers \ connected)
  BY <1>1, NothingNew DEF IInv
<1>3. NoPeer \notin Peers  BY TxDownloadAssumption
<1>4. \/ m_orphans' = m_orphans
      \/ \E tx \in Txs : m_orphans' = [m_orphans EXCEPT ![tx] = NoPeer]
  BY DEF ProcessOrphanTx, OrphanAccepted, OrphanRefused, OrphansSkipped
<1>5. /\ m_orphans' \in [Txs -> Peers \cup {NoPeer}]
      /\ \A q \in Peers \ connected : \A x \in Txs : m_orphans'[x] # q
  BY <1>3, <1>4 DEF IInv, PeersInv
<1> DEFINE Drops == \/ \E less \in SUBSET Txs : workSet' = [workSet EXCEPT ![p] = less]
                    \/ \E less \in SUBSET Txs, tx \in Txs :
                          workSet' = AddChildrenToWorkSet([workSet EXCEPT ![p] = less], tx)
<1>6. Drops
  <2>1. workSet[p] \in SUBSET Txs  BY DEF IInv, PeersInv
  <2>2. ASSUME NEW tx \in Txs, NEW skip, OrphanAccepted(p, tx, skip)
        PROVE  Drops
    <3>1. workSet' = AddChildrenToWorkSet(
                        [workSet EXCEPT ![p] = workSet[p] \ (skip \cup {tx})], tx)
      BY <2>2 DEF OrphanAccepted
    <3> QED  BY <2>1, <3>1
  <2>3. ASSUME NEW tx \in Txs, NEW skip, NEW hashes, OrphanRefused(p, tx, skip, hashes)
        PROVE  Drops
    <3>1. workSet' = [workSet EXCEPT ![p] = workSet[p] \ (skip \cup {tx})]
      BY <2>3 DEF OrphanRefused
    <3> QED  BY <2>1, <3>1
  <2>4. CASE OrphansSkipped(p)  BY <2>4 DEF OrphansSkipped
  <2> QED  BY <2>2, <2>3, <2>4 DEF ProcessOrphanTx
<1>7. ASSUME NEW less \in SUBSET Txs
      PROVE  /\ [workSet EXCEPT ![p] = less] \in [Peers -> SUBSET Txs]
             /\ \A q \in Peers \ connected : [workSet EXCEPT ![p] = less][q] = {}
  BY <1>1 DEF IInv, PeersInv
<1>8. /\ workSet' \in [Peers -> SUBSET Txs]
      /\ \A q \in Peers \ connected : workSet'[q] = {}
  <2>1. CASE \E less \in SUBSET Txs : workSet' = [workSet EXCEPT ![p] = less]
    BY <1>7, <2>1
  <2>2. ASSUME NEW less \in SUBSET Txs, NEW tx \in Txs,
               workSet' = AddChildrenToWorkSet([workSet EXCEPT ![p] = less], tx)
        PROVE  /\ workSet' \in [Peers -> SUBSET Txs]
               /\ \A q \in Peers \ connected : workSet'[q] = {}
    BY <1>7, <2>2, ChildrenOfConnected
  <2> QED  BY <1>6, <2>1, <2>2
<1> QED  BY <1>1, <1>2, <1>5, <1>8, OrphanageStep

LEMMA BlockSteps ==
    ASSUME IInv, \/ \E tx \in Txs : ConnectTip(tx) \/ Evict(tx)
                 \/ BlockConnectedForget
    PROVE  IInv'
<1>1. idle /\ UNCHANGED connected /\ UNCHANGED orphanage /\ UNCHANGED sending
  BY DEF ConnectTip, Evict, BlockConnectedForget
<1>2. \/ m_txrequest' = m_txrequest
      \/ m_txrequest' = ForgetTxHash(m_txrequest, HashesOf(callback.txs))
  BY DEF ConnectTip, Evict, BlockConnectedForget
<1>3. /\ Sound(m_txrequest)
      /\ NoneNew(m_txrequest, m_txrequest, Peers \ connected)
  BY NothingNew DEF IInv
<1>4. Sound(m_txrequest') /\ NoneNew(m_txrequest, m_txrequest', Peers \ connected)
  BY <1>2, <1>3, ForgottenKeeps
<1>5. UNCHANGED <<connected, orphanage, sending>>  BY <1>1
<1> QED  BY <1>1, <1>4, <1>5, TrackerStep

LEMMA BlockConnectedStep ==
    ASSUME IInv, BlockConnected
    PROVE  IInv'
<1>1. /\ m_txrequest' = m_txrequest /\ connected' = connected /\ workSet' = workSet
      /\ UNCHANGED sending
      /\ m_orphans' = [tx \in Txs |-> IF SameTxid(tx, callback.txs) THEN NoPeer
                                      ELSE m_orphans[tx]]
  BY DEF BlockConnected
<1>2. NoPeer \notin Peers  BY TxDownloadAssumption
<1>3. /\ m_orphans' \in [Txs -> Peers \cup {NoPeer}]
      /\ \A q \in Peers \ connected : \A x \in Txs : m_orphans'[x] # q
  BY <1>1, <1>2 DEF IInv, PeersInv
<1>4. PeersInv'  BY <1>1, <1>3 DEF IInv, PeersInv, Absent
<1>5. SendingInv'  BY <1>1 DEF IInv, SendingInv, sending
<1> QED  BY <1>1, <1>4, <1>5 DEF IInv, Sound

LEMMA ClockSteps ==
    ASSUME IInv, Tick \/ SetBack
    PROVE  IInv'
<1>1. idle /\ UNCHANGED connected /\ UNCHANGED orphanage /\ UNCHANGED sending
  BY DEF Tick, SetBack
<1>2. \E d \in Int : m_txrequest' = ClockMoves(m_txrequest, d)
  BY DEF Tick, SetBack
<1>3. Sound(m_txrequest') /\ NoneNew(m_txrequest, m_txrequest', Peers)
  BY <1>2, ClockKeeps DEF IInv
<1>4. NoneNew(m_txrequest, m_txrequest', Peers \ connected)  BY <1>3, FewerNew
<1>5. UNCHANGED <<connected, orphanage, sending>>  BY <1>1
<1> QED  BY <1>1, <1>3, <1>4, <1>5, TrackerStep

(* SendMessages up to its getdata loop.  Announcements never appear, and   *)
(* nothing is requestable before GetRequestable returns.                   *)
LEMMA SetTimePointSteps ==
    ASSUME IInv, SetTimePointPast \/ SetTimePointFuture
    PROVE  IInv'
<1>1. /\ pc # "idle" /\ pc # "getdata" /\ UNCHANGED sending
      /\ UNCHANGED <<connected, orphanage>>
  BY DEF SetTimePointPast, SetTimePointFuture
<1>2. \/ \E x \in Due(m_txrequest) : m_txrequest' = ConvertDue(m_txrequest, x[1], x[2])
      \/ \E x \in Early(m_txrequest) :
            m_txrequest' = ConvertEarly(m_txrequest, x[1], x[2])
  BY DEF SetTimePointPast, SetTimePointFuture
<1>3. \A x \in Due(m_txrequest) :
         /\ x[1] \in TxHashes /\ x[2] \in Peers
         /\ m_txrequest[x[1]][x[2]].state \in {"DELAYED", "REQUESTED"}
  BY DEF Due, IsWaiting
<1>4. \A x \in Early(m_txrequest) :
         /\ x[1] \in TxHashes /\ x[2] \in Peers
         /\ m_txrequest[x[1]][x[2]].state \in {"READY", "BEST"}
  BY DEF Early, IsSelectable
<1>5. Sound(m_txrequest') /\ NoneNew(m_txrequest, m_txrequest', Peers)
  BY <1>2, <1>3, <1>4, ConvertKeeps DEF IInv
<1>6. NoneNew(m_txrequest, m_txrequest', Peers \ connected)  BY <1>5, FewerNew
<1>7. PeersInv'  BY <1>1, <1>6, PeersKept DEF IInv
<1>8. SendingInv'  BY <1>1 DEF IInv, SendingInv, sending
<1> QED  BY <1>5, <1>7, <1>8 DEF IInv

LEMMA ControlSteps ==
    ASSUME IInv, \/ \E p \in Peers : SendMessages(p)
                 \/ SetTimePointPastDone \/ GetRequestable \/ SendMessagesEnd
    PROVE  IInv'
<1>1. m_txrequest' = m_txrequest /\ UNCHANGED connected /\ UNCHANGED orphanage
  BY DEF SendMessages, SetTimePointPastDone, GetRequestable, SendMessagesEnd
<1>2. NoneNew(m_txrequest, m_txrequest', Peers \ connected)  BY <1>1, NothingNew
<1>3. PeersInv'  BY <1>1, <1>2, PeersKept DEF IInv
<1>4. SendingInv'
  BY <1>1 DEF IInv, SendingInv, SendMessages, SetTimePointPastDone, GetRequestable,
              SendMessagesEnd, BestFrom
<1> QED  BY <1>1, <1>3, <1>4 DEF IInv, Sound

(* One txhash is requested or given up: the others that GetRequestable     *)
(* returned are still the best of this peer.                               *)
LEMMA RequestSteps ==
    ASSUME IInv, NEW h \in TxHashes, Request(h) \/ DontRequest(h)
    PROVE  IInv'
<1>1. /\ pc = "getdata" /\ h \in requestable /\ requestable' = requestable \ {h}
      /\ pc' = pc /\ pto' = pto /\ UNCHANGED <<connected, orphanage>>
  BY DEF Request, DontRequest
<1>2. pto \in Peers  BY <1>1 DEF IInv, SendingInv
<1>3. \/ m_txrequest' = RequestedTx(m_txrequest, h, pto, GetdataInterval)
      \/ m_txrequest' = ForgetTxHash(m_txrequest, {h})
  BY DEF Request, DontRequest
<1>4. GetdataInterval \in Int  BY TxDownloadAssumption
<1>5. \A x \in TxHashes \ {h} : ForgetTxHash(m_txrequest, {h})[x] = m_txrequest[x]
  BY DEF ForgetTxHash
<1>6. /\ Sound(m_txrequest') /\ NoneNew(m_txrequest, m_txrequest', Peers)
      /\ \A x \in TxHashes \ {h} : m_txrequest'[x] = m_txrequest[x]
  <2>1. Sound(m_txrequest)  BY DEF IInv
  <2>2. CASE m_txrequest' = RequestedTx(m_txrequest, h, pto, GetdataInterval)
    BY <1>2, <1>4, <2>1, <2>2, RequestKeeps
  <2>3. CASE m_txrequest' = ForgetTxHash(m_txrequest, {h})
    BY <1>5, <2>1, <2>3, ForgetKeeps
  <2> QED  BY <1>3, <2>2, <2>3
<1>7. NoneNew(m_txrequest, m_txrequest', Peers \ connected)  BY <1>6, FewerNew
<1>8. PeersInv'  BY <1>1, <1>7, PeersKept DEF IInv
<1>9. SendingInv'  BY <1>1, <1>6 DEF IInv, SendingInv
<1> QED  BY <1>6, <1>8, <1>9 DEF IInv

LEMMA IInvNext == IInv /\ [Next]_vars => IInv'
<1> SUFFICES ASSUME IInv, [Next]_vars PROVE IInv'  OBVIOUS
<1>1. ASSUME NEW p \in Peers, NEW tx \in Txs, TxMessage(p, tx) PROVE IInv'
  BY <1>1, TxTrackerSteps, TxAcceptedStep, TxOrphanStep DEF TxMessage
<1>2. CASE Sending
  BY <1>2, SetTimePointSteps, ControlSteps, RequestSteps DEF Sending
<1>3. CASE UNCHANGED vars
  BY <1>3 DEF vars, orphanage, sending, IInv, Sound, SendingInv, PeersInv, Absent
<1> QED
  BY <1>1, <1>2, <1>3, InitializeNodeStep, FinalizeNodeStep, ProcessOrphanTxStep,
     InvStep, NotFoundStep, BlockSteps, BlockConnectedStep, ClockSteps, ControlSteps
     DEF Next

LEMMA IInvAlways == Spec => []IInv
BY IInvInit, IInvNext, PTL DEF Spec

(* SanityCheck of the tracker (txrequest.cpp) holds after every operation  *)
(* of the handlers that use it, for any number of peers and transactions.  *)
THEOREM TrackerAlwaysSound == Spec => []TrackerSound
<1>1. IInv => TrackerSound  BY DEF IInv, Sound, TrackerSound
<1> QED  BY <1>1, IInvAlways, PTL

(* The getdata loop of SendMessages finds what GetRequestable returned     *)
(* still the best candidate when it calls RequestedTx: its other branch    *)
(* never runs.                                                             *)
THEOREM RequestedTxAlwaysFindsBest == Spec => []RequestedTxFindsBest
<1>1. IInv => RequestedTxFindsBest  BY DEF IInv, SendingInv, RequestedTxFindsBest
<1> QED  BY <1>1, IInvAlways, PTL

(* A peer that is not connected has no announcements, no orphans and no    *)
(* work: the assertions of FinalizeNode (net_processing.cpp).              *)
THEOREM AlwaysOnlyConnected == Spec => []OnlyConnected
<1>1. ASSUME NEW p, Absent(m_txrequest, p) PROVE Count(m_txrequest, p) = 0
  <2>1. {h \in TxHashes : m_txrequest[h][p].state # "NONE"} = {}  BY <1>1 DEF Absent
  <2> QED  BY <2>1, FS_EmptySet DEF Count
<1>2. IInv => OnlyConnected  BY <1>1 DEF IInv, PeersInv, OnlyConnected
<1> QED  BY <1>2, IInvAlways, PTL
=============================================================================

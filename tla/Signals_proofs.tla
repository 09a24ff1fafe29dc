--------------------------- MODULE Signals_proofs ---------------------------
(***************************************************************************)
(* The signals implement the serial queue, for any number of scheduler     *)
(* threads, of threads that send and of subscribers.  (That no callback is *)
(* left behind is a matter of fairness and checked by TLC only.)           *)
(***************************************************************************)
EXTENDS Signals, TLAPS

Busy == {"iterate", "inside", "done"}

Labels ==
  {"loop", "waitTask", "waitTime", "leaving", "left", "repeat", "process", "notify",
   "maybe", "schedule", "sync", "idle", "up", "drain", "joinClients", "joinWorkers",
   "over"} \cup Busy

\* m_are_callbacks_running says whether a callback runs, at most one does,
\* and the other threads never get into ProcessQueue.
IInv ==
  /\ pc \in [Threads -> Labels]
  /\ callback \in [Threads -> Events \cup {0}]
  /\ pending \in Seq(Events)
  /\ running \in BOOLEAN
  /\ running <=> Executing # {}
  /\ \A t, u \in Executing : t = u
  /\ \A t \in Executing : callback[t] \in Events
  /\ \A p \in Producers :
       /\ pc[p] \notin {"process", "iterate", "done"}
       /\ pc[p] \in {"inside", "idle"} => callback[p] = 0
       /\ callback[p] \in {0, p}

LEMMA EventNotZero == 0 \notin Events
  BY SignalsAssumption DEF Events, Producers

LEMMA ThreadSets ==
  /\ Workers \subseteq Threads /\ Producers \subseteq Threads /\ Main \in Threads
  /\ Producers \cap (Workers \cup {Main}) = {}
  /\ Executing \subseteq Workers \cup {Main}
  /\ Threads = Producers \cup (Workers \cup {Main})
  BY SignalsAssumption DEF Threads, Producers, Executing

LEMMA IInvInit == Init => IInv
  <1> SUFFICES ASSUME Init PROVE IInv OBVIOUS
  <1>1. /\ pc \in [Threads -> Labels] /\ callback \in [Threads -> Events \cup {0}]
        /\ pending \in Seq(Events) /\ running = FALSE
    BY DEF Init, Labels
  <1>2. \A t \in Threads : pc[t] \in {"loop", "up", "idle"} /\ callback[t] = 0
    BY DEF Init
  <1>3. Executing = {}
    BY <1>2, ThreadSets DEF Executing
  <1>4. \A p \in Producers : pc[p] \in {"loop", "up", "idle"} /\ callback[p] = 0
    BY <1>2, ThreadSets
  <1> QED BY <1>1, <1>3, <1>4 DEF IInv

\* What a step that neither adds, begins nor ends a callback looks like.
Quiet ==
  /\ pc' \in [Threads -> Labels]
  /\ UNCHANGED <<pending, running, callback>>
  /\ \A t \in Workers \cup {Main} : (pc'[t] \in Busy) <=> (pc[t] \in Busy)
  /\ \A p \in Producers : /\ pc'[p] \notin {"process", "iterate", "done"}
                          /\ pc'[p] \in {"inside", "idle"} => callback[p] = 0

LEMMA QuietStep == IInv /\ Quiet => IInv' /\ UNCHANGED Queue!vars
  <1> SUFFICES ASSUME IInv, Quiet PROVE IInv' /\ UNCHANGED Queue!vars OBVIOUS
  <1>1. Executing' = Executing
    BY ThreadSets DEF Quiet, Busy, Executing
  <1>2. UNCHANGED Queue!vars
    BY <1>1 DEF Quiet, Queue!vars
  <1>4. IInv'
    BY <1>1 DEF Quiet, IInv
  <1> QED BY <1>2, <1>4

\* A step that moves one thread, from outside of a callback to outside of one.
LEMMA MoveQuiet ==
  ASSUME IInv, UNCHANGED <<pending, running, callback>>, NEW t \in Threads,
         NEW l \in Labels, pc[t] \notin Busy, l \notin Busy,
         l = "process" => t \notin Producers,
         l = "idle" /\ t \in Producers => callback[t] = 0, Goto(t, l)
  PROVE  Quiet
  BY ThreadSets DEF Goto, Quiet, IInv, Busy

LEMMA WakeQuiet ==
  ASSUME IInv, UNCHANGED <<pending, running, callback>>, NEW t \in Threads,
         NEW l \in Labels, NotifyOne(t, l), pc[t] \notin Busy, l \notin Busy \cup {"process"},
         l = "idle" /\ t \in Producers => callback[t] = 0
  PROVE  Quiet
  <1>1. CASE Goto(t, l)
    BY <1>1, MoveQuiet
  <1>2. CASE \E w \in Waiting : pc' = [pc EXCEPT ![w] = "loop", ![t] = l]
    <2> PICK w \in Waiting : pc' = [pc EXCEPT ![w] = "loop", ![t] = l] BY <1>2
    <2>1. w \in Threads /\ pc[w] \notin Busy
      BY ThreadSets DEF Waiting, Busy, Labels
    <2> QED BY <2>1, ThreadSets DEF IInv, Busy, Labels, Quiet
  <1> QED BY <1>1, <1>2 DEF NotifyOne

LEMMA HomeNotBusy ==
  ASSUME NEW t \in Threads PROVE Home(t) \in {"loop", "drain", "idle"}
  BY DEF Home

LEMMA WorkerQuiet ==
  ASSUME IInv, NEW w \in Workers, WorkerStep(w) \/ SpuriousWakeup(w)
  PROVE  Quiet
  <1> USE DEF Busy, Labels
  <1>0. w \in Threads /\ w \notin Producers BY ThreadSets
  <1>1. CASE ServiceLoop(w)
    <2>1. PICK l \in {"leaving", "waitTask", "waitTime"} : Goto(w, l)
      BY <1>1 DEF ServiceLoop
    <2>2. pc[w] = "loop" /\ UNCHANGED <<pending, running, callback>>
      BY <1>1 DEF ServiceLoop, clientVars
    <2>3. l \in Labels /\ l \notin Busy /\ pc[w] \notin Busy
      BY <2>1, <2>2 DEF Busy, Labels
    <2> QED BY <1>0, <2>1, <2>2, <2>3, MoveQuiet
  <1>2. CASE TimeReached(w)
    <2>1. PICK l \in {"loop", "process", "repeat"} : Goto(w, l)
      BY <1>2 DEF TimeReached
    <2>2. pc[w] = "waitTime" /\ UNCHANGED <<pending, running, callback>>
      BY <1>2 DEF TimeReached, clientVars
    <2>3. l \in Labels /\ l \notin Busy /\ pc[w] \notin Busy
      BY <2>1, <2>2 DEF Busy, Labels
    <2> QED BY <1>0, <2>1, <2>2, <2>3, MoveQuiet
  <1>3. CASE Leave(w)
    <2>1. pc[w] = "leaving" /\ NotifyOne(w, "left") /\ UNCHANGED <<pending, running, callback>>
      BY <1>3 DEF Leave, clientVars
    <2> QED BY <2>1, <1>0, WakeQuiet
  <1>4. CASE Repeat(w)
    <2>1. pc[w] = "repeat" /\ Goto(w, "notify") /\ UNCHANGED <<pending, running, callback>>
      BY <1>4 DEF Repeat, clientVars
    <2> QED BY <1>0, <2>1, MoveQuiet
  <1>5. CASE SpuriousWakeup(w)
    <2>1. pc[w] \in {"waitTask", "waitTime"} /\ Goto(w, "loop") /\ UNCHANGED <<pending, running, callback>>
      BY <1>5 DEF SpuriousWakeup, Waiting, clientVars
    <2> QED BY <1>0, <2>1, MoveQuiet
  <1> QED BY <1>1, <1>2, <1>3, <1>4, <1>5 DEF WorkerStep

\* Iterate of a callback stays inside of it; that of BlockChecked ends at home.
LEMMA EnterQuiet ==
  ASSUME IInv, NEW t \in Threads, NEW q, NEW i, Enter(t, q, i),
         UNCHANGED <<pending, running, callback>>,
         pc[t] \in Busy \/ (t \in Producers /\ callback[t] = 0)
  PROVE  Quiet
  <1>1. CASE t \in Producers
    <2>1. callback[t] = 0
      BY <1>1 DEF IInv, Busy, Labels
    <2>2. \E l \in {"loop", "drain", "idle", "inside"} : pc' = [pc EXCEPT ![t] = l]
      BY <2>1, HomeNotBusy DEF Enter, Goto
    <2> QED BY <1>1, <2>1, <2>2, ThreadSets DEF Quiet, IInv, Busy, Labels
  <1>2. CASE t \in Workers \cup {Main}
    <2>1. pc[t] \in Busy /\ t \in Executing
      BY <1>2, ThreadSets DEF Executing, Busy, Labels
    <2>2. callback[t] # 0
      BY <2>1, EventNotZero DEF IInv
    <2>3. \E l \in {"done", "inside"} : pc' = [pc EXCEPT ![t] = l]
      BY <2>2 DEF Enter, Goto
    <2> QED BY <1>2, <2>1, <2>3, ThreadSets DEF Quiet, IInv, Busy, Labels
  <1> QED BY <1>1, <1>2, ThreadSets

LEMMA CallQuiet ==
  ASSUME IInv, NEW t \in Threads,
         MaybeScheduleProcessQueue(t) \/ ScheduleProcessQueue(t) \/ Notify(t)
           \/ Callback(t) \/ IterateNext(t)
  PROVE  Quiet
  <1>1. CASE MaybeScheduleProcessQueue(t)
    <2>1. PICK l \in {"sync", "loop", "drain", "idle", "schedule"} :
               Goto(t, l) /\ (l = "idle" /\ t \in Producers => callback[t] = 0)
      BY <1>1, HomeNotBusy DEF MaybeScheduleProcessQueue, IInv
    <2>2. pc[t] = "maybe" /\ UNCHANGED <<pending, running, callback>>
      BY <1>1 DEF MaybeScheduleProcessQueue, clientVars
    <2>3. l \in Labels /\ l \notin Busy /\ pc[t] \notin Busy
      BY <2>1, <2>2 DEF Busy, Labels
    <2> QED BY <2>1, <2>2, <2>3, MoveQuiet
  <1>2. CASE ScheduleProcessQueue(t)
    <2>1. pc[t] = "schedule" /\ Goto(t, "notify") /\ UNCHANGED <<pending, running, callback>>
      BY <1>2 DEF ScheduleProcessQueue, clientVars
    <2> QED BY <2>1, MoveQuiet DEF Busy, Labels
  <1>3. CASE Notify(t)
    <2>1. PICK l \in {"sync", "loop", "drain", "idle"} :
               NotifyOne(t, l) /\ (l = "idle" /\ t \in Producers => callback[t] = 0)
      BY <1>3, HomeNotBusy DEF Notify, IInv
    <2>2. pc[t] = "notify" /\ UNCHANGED <<pending, running, callback>>
      BY <1>3 DEF Notify, clientVars
    <2>3. l \in Labels /\ l \notin Busy /\ pc[t] \notin Busy
      BY <2>1, <2>2 DEF Busy, Labels
    <2> QED BY <2>1, <2>2, <2>3, WakeQuiet
  <1>4. CASE Callback(t)
    <2>0. pc[t] = "iterate" /\ UNCHANGED <<pending, running, callback>>
      BY <1>4 DEF Callback
    <2>1. CASE Enter(t, list, 1)
      BY <2>0, <2>1, EnterQuiet DEF Busy, Labels
    <2>2. CASE Goto(t, "done")
      <3>1. t \notin Producers
        BY <2>0 DEF IInv
      <3> QED BY <2>0, <2>2, <3>1, ThreadSets DEF Goto, Quiet, IInv, Busy, Labels
    <2> QED BY <1>4, <2>1, <2>2 DEF Callback
  <1>5. CASE IterateNext(t)
    <2>0. pc[t] = "inside" /\ UNCHANGED <<pending, running, callback>>
      BY <1>5 DEF IterateNext, clientVars
    <2>1. \E q, i : Enter(t, q, i)
      BY <1>5 DEF IterateNext
    <2> QED BY <2>0, <2>1, EnterQuiet DEF Busy, Labels
  <1> QED BY <1>1, <1>2, <1>3, <1>4, <1>5

\* The steps of the other threads, of Shutdown and of time.
LEMMA OthersQuiet ==
  ASSUME IInv,
         \/ \E c \in Producers :
              SignalDirectly(c) \/ scheduleEvery(c) \/ Exit(c)
         \/ \E c \in Callbacks : Register(c) \/ Unregister(c)
         \/ Tick \/ Begin \/ StopScheduler \/ EmptyQueue \/ Clear
  PROVE  Quiet
  <1> USE DEF Busy, Labels
  <1>1. ASSUME NEW c \in Producers, SignalDirectly(c) PROVE Quiet
    <2>1. pc[c] = "idle" /\ Enter(c, list, 1) /\ UNCHANGED <<pending, running, callback>>
      BY <1>1 DEF SignalDirectly, clientVars
    <2>2. callback[c] = 0
      BY <2>1 DEF IInv
    <2> QED BY <2>1, <2>2, EnterQuiet, ThreadSets
  <1>2. ASSUME NEW c \in Producers, scheduleEvery(c) PROVE Quiet
    <2>1. pc[c] = "idle" /\ Goto(c, "notify") /\ UNCHANGED <<pending, running, callback>>
      BY <1>2 DEF scheduleEvery, clientVars
    <2> QED BY <2>1, MoveQuiet, ThreadSets
  <1>3. ASSUME NEW c \in Producers, Exit(c) PROVE Quiet
    <2>1. pc[c] = "idle" /\ Goto(c, "left") /\ UNCHANGED <<pending, running, callback>>
      BY <1>3 DEF Exit, clientVars
    <2> QED BY <2>1, MoveQuiet, ThreadSets
  <1>4. ASSUME UNCHANGED <<pc, pending, running, callback>> PROVE Quiet
    BY <1>4 DEF Quiet, IInv
  <1>5. ASSUME NEW c \in Callbacks, Register(c) \/ Unregister(c) PROVE Quiet
    BY <1>5, <1>4 DEF Register, Unregister, clientVars
  <1>6. CASE Tick
    BY <1>6, <1>4 DEF Tick, clientVars
  <1>7. CASE Begin
    <2>1. pc[Main] = "up" /\ Goto(Main, "joinClients") /\ UNCHANGED <<pending, running, callback>>
      BY <1>7 DEF Begin, clientVars
    <2> QED BY <2>1, MoveQuiet, ThreadSets
  <1>8. CASE StopScheduler
    BY <1>8, ThreadSets DEF StopScheduler, Waiting, clientVars, Quiet, IInv
  <1>9. CASE EmptyQueue
    <2>1. pc[Main] = "drain" /\ Goto(Main, "process") /\ UNCHANGED <<pending, running, callback>>
      BY <1>9 DEF EmptyQueue, clientVars
    <2> QED BY <2>1, MoveQuiet, ThreadSets
  <1>10. CASE Clear
    <2>1. pc[Main] = "drain" /\ Goto(Main, "over") /\ UNCHANGED <<pending, running, callback>>
      BY <1>10 DEF Clear, clientVars
    <2> QED BY <2>1, MoveQuiet, ThreadSets
  <1> QED BY <1>1, <1>2, <1>3, <1>5, <1>6, <1>7, <1>8, <1>9, <1>10

\* AddToProcessQueue is Add.
LEMMA AddStep ==
  ASSUME IInv, NEW t \in Threads, NEW e \in Events, pc[t] \notin Busy,
         pending' = Append(pending, e), Goto(t, "maybe"), UNCHANGED running,
         \/ UNCHANGED callback
         \/ t \in Producers /\ callback' = [callback EXCEPT ![t] = t]
  PROVE  IInv' /\ Queue!Add(e)
  <1>1. /\ pc' \in [Threads -> Labels] /\ pc'[t] = "maybe"
        /\ \A u \in Threads \ {t} : pc'[u] = pc[u]
    BY DEF Goto, IInv, Labels
  <1>2. Executing' = Executing
    BY <1>1, ThreadSets DEF Executing, Busy
  <1>3. \A u \in Executing : callback'[u] = callback[u]
    BY ThreadSets DEF IInv
  <1>4. {callback[u] : u \in Executing}' = {callback[u] : u \in Executing}
    BY <1>2, <1>3
  <1>5. pending' \in Seq(Events)
    BY DEF IInv
  <1>6. /\ callback' \in [Threads -> Events \cup {0}]
        /\ \A p \in Producers : callback'[p] \in {0, p} /\ (p # t => callback'[p] = callback[p])
    BY ThreadSets DEF IInv, Events
  <1>7. IInv'
    BY <1>1, <1>2, <1>3, <1>5, <1>6, ThreadSets DEF IInv
  <1>8. Queue!Add(e)
    BY <1>4 DEF Queue!Add
  <1> QED BY <1>7, <1>8

\* ProcessQueue is Begin, or leaves everything as it is.
LEMMA BeginStep ==
  ASSUME IInv, NEW t \in Threads, ProcessQueue(t)
  PROVE  IInv' /\ (Queue!Begin \/ UNCHANGED Queue!vars)
  <1>0. pc[t] = "process" /\ t \notin Producers /\ t \in Workers \cup {Main}
    BY ThreadSets DEF ProcessQueue, IInv
  <1>1. CASE running \/ pending = << >>
    <2>1. Goto(t, Home(t)) /\ UNCHANGED <<pending, running, callback>>
      BY <1>1 DEF ProcessQueue
    <2>2. Home(t) \in Labels /\ Home(t) \notin Busy \cup {"process"} /\ pc[t] \notin Busy
      BY <1>0, HomeNotBusy DEF Labels, Busy
    <2>3. Quiet
      BY <1>0, <2>1, <2>2, MoveQuiet
    <2> QED BY <2>3, QuietStep
  <1>2. CASE ~running /\ pending # << >>
    <2>1. /\ running' = TRUE /\ callback' = [callback EXCEPT ![t] = Head(pending)]
          /\ pending' = Tail(pending) /\ pc' = [pc EXCEPT ![t] = "iterate"]
      BY <1>2 DEF ProcessQueue, Goto
    <2>2. Head(pending) \in Events /\ Tail(pending) \in Seq(Events)
      BY <1>2 DEF IInv
    <2>3. Executing = {}
      BY <1>2 DEF IInv
    <2>4. pc' \in [Threads -> Labels] /\ pc'[t] = "iterate" /\ \A u \in Threads \ {t} : pc'[u] = pc[u]
      BY <2>1 DEF IInv, Labels, Busy
    <2>5. Executing' = {t}
      BY <2>3, <2>4, <1>0, ThreadSets DEF Executing
    <2>6. /\ callback' \in [Threads -> Events \cup {0}] /\ callback'[t] = Head(pending)
          /\ \A p \in Producers : callback'[p] = callback[p]
      BY <2>1, <2>2, <1>0, ThreadSets DEF IInv
    <2>7. IInv'
      BY <2>1, <2>2, <2>4, <2>5, <2>6, <1>0, ThreadSets DEF IInv
    <2>8. {callback[u] : u \in Executing}' = {Head(pending)} /\ {callback[u] : u \in Executing} = {}
      BY <2>3, <2>5, <2>6
    <2>9. Queue!Begin
      BY <1>2, <2>1, <2>8 DEF Queue!Begin
    <2> QED BY <2>7, <2>9
  <1> QED BY <1>1, <1>2 DEF IInv

\* ~RAIICallbacksRunning is End.
LEMMA EndStep ==
  ASSUME IInv, NEW t \in Threads, CallbackDone(t)
  PROVE  IInv' /\ Queue!End
  <1>0. pc[t] = "done" /\ t \notin Producers /\ t \in Workers \cup {Main} /\ t \in Executing
    BY ThreadSets DEF CallbackDone, IInv, Executing
  <1>1. /\ running' = FALSE /\ callback' = [callback EXCEPT ![t] = 0]
        /\ pending' = pending /\ pc' = [pc EXCEPT ![t] = "maybe"]
    BY DEF CallbackDone, Goto
  <1>2. Executing = {t}
    BY <1>0 DEF IInv
  <1>3. pc' \in [Threads -> Labels] /\ pc'[t] = "maybe" /\ \A u \in Threads \ {t} : pc'[u] = pc[u]
    BY <1>1 DEF IInv, Labels
  <1>4. Executing' = {}
    BY <1>2, <1>3, ThreadSets DEF Executing
  <1>5. IInv'
    BY <1>0, <1>1, <1>3, <1>4, ThreadSets DEF IInv
  <1>6. {callback[u] : u \in Executing}' = {} /\ {callback[u] : u \in Executing} # {}
    BY <1>2, <1>4
  <1>7. Queue!End
    BY <1>1, <1>6 DEF Queue!End
  <1> QED BY <1>5, <1>7

LEMMA EveryStep == IInv /\ sent \in Nat /\ [Next]_vars => IInv' /\ [Queue!Next]_Queue!vars
  <1> SUFFICES ASSUME IInv, sent \in Nat, [Next]_vars PROVE IInv' /\ [Queue!Next]_Queue!vars OBVIOUS
  <1>1. ASSUME Quiet PROVE IInv' /\ [Queue!Next]_Queue!vars
    BY <1>1, QuietStep
  <1>2. ASSUME NEW e \in Events, Queue!Add(e) PROVE [Queue!Next]_Queue!vars
    BY <1>2 DEF Queue!Next
  <1>3. ASSUME NEW w \in Workers, WorkerStep(w) \/ SpuriousWakeup(w)
        PROVE  IInv' /\ [Queue!Next]_Queue!vars
    BY <1>1, <1>3, WorkerQuiet
  <1>4. ASSUME NEW t \in Threads, CallStep(t)
        PROVE  IInv' /\ [Queue!Next]_Queue!vars
    <2>1. CASE ProcessQueue(t)
      BY <2>1, BeginStep DEF Queue!Next
    <2>2. CASE CallbackDone(t)
      BY <2>2, EndStep DEF Queue!Next
    <2> QED BY <1>4, <2>1, <2>2, <1>1, CallQuiet DEF CallStep
  <1>5. ASSUME NEW c \in Producers, Signal(c)
        PROVE  IInv' /\ [Queue!Next]_Queue!vars
    <2>1. /\ pc[c] = "idle" /\ sent < MaxEvents /\ pending' = Append(pending, sent + 1)
          /\ Goto(c, "maybe") /\ UNCHANGED <<running, callback>>
      BY <1>5 DEF Signal, Enqueue
    <2>2. sent + 1 \in Events
      BY <2>1, SignalsAssumption DEF Events
    <2>3. pc[c] \notin Busy /\ c \in Threads
      BY <2>1, ThreadSets DEF Busy
    <2> QED BY <2>1, <2>2, <2>3, <1>2, AddStep
  <1>6. CASE FlushState
    <2>1. /\ pc[Main] = "joinWorkers" /\ pending' = Append(pending, MaxEvents + 1)
          /\ Goto(Main, "maybe") /\ UNCHANGED <<running, callback>>
      BY <1>6 DEF FlushState, Enqueue
    <2>2. MaxEvents + 1 \in Events
      BY SignalsAssumption DEF Events
    <2>3. pc[Main] \notin Busy /\ Main \in Threads
      BY <2>1, ThreadSets DEF Busy
    <2> QED BY <2>1, <2>2, <2>3, <1>2, AddStep
  <1>7. ASSUME NEW c \in Producers, SyncWithValidationInterfaceQueue(c)
        PROVE  IInv' /\ [Queue!Next]_Queue!vars
    <2>1. /\ pc[c] = "idle" /\ pending' = Append(pending, c) /\ Goto(c, "maybe")
          /\ UNCHANGED running /\ callback' = [callback EXCEPT ![c] = c]
      BY <1>7 DEF SyncWithValidationInterfaceQueue
    <2>2. pc[c] \notin Busy /\ c \in Threads /\ c \in Events
      BY <2>1, ThreadSets DEF Busy, Events
    <2> QED BY <2>1, <2>2, <1>2, AddStep
  <1>8. ASSUME NEW c \in Producers, SyncReturns(c)
        PROVE  IInv' /\ [Queue!Next]_Queue!vars
    <2>1. /\ pc[c] = "sync" /\ pc' = [pc EXCEPT ![c] = "idle"]
          /\ UNCHANGED <<pending, running>> /\ callback' = [callback EXCEPT ![c] = 0]
      BY <1>8 DEF SyncReturns, Goto
    <2>2. /\ pc' \in [Threads -> Labels] /\ pc'[c] = "idle" /\ callback'[c] = 0
          /\ \A u \in Threads \ {c} : pc'[u] = pc[u] /\ callback'[u] = callback[u]
          /\ callback' \in [Threads -> Events \cup {0}]
      BY <2>1, ThreadSets DEF IInv, Labels
    <2>3. Executing' = Executing /\ \A u \in Executing : callback'[u] = callback[u]
      BY <2>2, ThreadSets DEF Executing
    <2>4. {callback[u] : u \in Executing}' = {callback[u] : u \in Executing}
      BY <2>3
    <2>5. IInv'
      BY <2>1, <2>2, <2>3, ThreadSets DEF IInv
    <2> QED BY <2>1, <2>4, <2>5 DEF Queue!vars
  <1>9. CASE UNCHANGED vars
    <2>1. UNCHANGED <<pc, pending, running, callback>>
      BY <1>9 DEF vars, clientVars
    <2> QED BY <2>1, <1>1 DEF Quiet, IInv, Busy
  <1> QED BY <1>1, <1>3, <1>4, <1>5, <1>6, <1>7, <1>8, <1>9, OthersQuiet DEF Next, MainStep

LEMMA SentNat == sent \in Nat /\ [Next]_vars => sent' \in Nat
  <1> SUFFICES ASSUME sent \in Nat, [Next]_vars PROVE sent' \in Nat OBVIOUS
  <1>1. ASSUME NEW w \in Workers, WorkerStep(w) \/ SpuriousWakeup(w) PROVE sent' = sent
    BY <1>1 DEF WorkerStep, ServiceLoop, TimeReached, Leave, Repeat, SpuriousWakeup
  <1>2. ASSUME NEW t \in Threads, CallStep(t) PROVE sent' = sent
    BY <1>2 DEF CallStep, MaybeScheduleProcessQueue, ScheduleProcessQueue, Notify,
                ProcessQueue, CallbackDone, Callback, IterateNext
  <1>3. ASSUME NEW c \in Producers,
               Signal(c) \/ SignalDirectly(c) \/ SyncWithValidationInterfaceQueue(c)
        PROVE  sent' = sent + 1
    BY <1>3 DEF Signal, SignalDirectly, SyncWithValidationInterfaceQueue
  <1>4. ASSUME NEW c \in Producers, scheduleEvery(c) \/ SyncReturns(c) \/ Exit(c)
        PROVE  sent' = sent
    BY <1>4 DEF scheduleEvery, SyncReturns, Exit
  <1>5. ASSUME NEW c \in Callbacks, Register(c) \/ Unregister(c) PROVE sent' = sent
    BY <1>5 DEF Register, Unregister
  <1>6. CASE Tick \/ MainStep
    BY <1>6 DEF Tick, MainStep, Begin, StopScheduler, FlushState, EmptyQueue, Clear
  <1>7. CASE UNCHANGED vars
    BY <1>7 DEF vars
  <1> QED BY <1>1, <1>2, <1>3, <1>4, <1>5, <1>6, <1>7 DEF Next

(* Whatever the number of scheduler threads, the callbacks queued by the   *)
(* validation signals begin in the order of AddToProcessQueue, and none    *)
(* begins before the one before it has ended                               *)
(* (SingleThreadedSchedulerClient::ProcessQueue, m_are_callbacks_running). *)
THEOREM SignalsImplementSerialQueue == Spec => Queue!SafeSpec
  <1>1. Init => Queue!Init
    <2> SUFFICES ASSUME Init PROVE Queue!Init OBVIOUS
    <2>1. \A t \in Threads : pc[t] \in {"loop", "up", "idle"}
      BY DEF Init
    <2>2. Executing = {}
      BY <2>1, ThreadSets DEF Executing
    <2> QED BY <2>2 DEF Init, Queue!Init
  <1> DEFINE Inv == IInv /\ sent \in Nat
  <1>2. Init => Inv
    BY IInvInit DEF Init
  <1>3. Inv /\ [Next]_vars => Inv' /\ [Queue!Next]_Queue!vars
    BY EveryStep, SentNat
  <1> HIDE DEF Inv
  <1> QED BY <1>1, <1>2, <1>3, PTL DEF Spec, Queue!SafeSpec

=============================================================================

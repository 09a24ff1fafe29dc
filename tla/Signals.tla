------------------------------ MODULE Signals ------------------------------
(***************************************************************************)
(* The scheduler (scheduler.cpp) and the validation signals                *)
(* (validationinterface.cpp): threads that serve a queue of timed tasks, a *)
(* client that runs its callbacks one after another on them, the list of   *)
(* subscribers that a callback walks through without holding the lock, and *)
(* the part of Shutdown (init.cpp) that ends all this.                     *)
(*                                                                         *)
(* An action is one critical section of newTaskMutex, m_callbacks_mutex or *)
(* MainSignalsImpl::m_mutex, or one notification after it.                 *)
(***************************************************************************)
EXTENDS Naturals, Sequences, FiniteSets

CONSTANTS
  Workers,       \* threads in CScheduler::serviceQueue
  Clients,       \* threads of the node that Shutdown joins before it stops the scheduler
  LoadThread,    \* the threads it joins afterwards: {} or the block import thread
  Main,          \* the thread that runs Shutdown
  QueueLimit,    \* pending callbacks above which a validation thread waits (10 in the code)
  Callbacks,     \* CValidationInterface objects
  MaxEvents,     \* bound: signals sent
  MaxEntries,    \* bound: registrations
  MaxSpurious    \* bound: spurious wakeups

ASSUME SignalsAssumption ==
  /\ MaxEvents \in Nat /\ MaxEntries \in Nat /\ MaxSpurious \in Nat
  /\ Main \notin Workers \cup Clients \cup LoadThread
  /\ Workers \cap (Clients \cup LoadThread) = {}
  /\ 0 \notin Clients \cup LoadThread /\ QueueLimit \in Nat

VARIABLES
  taskQueue,      \* the tasks in the order of their times: [f, due]
  stopRequested,
  nThreadsServicingQueue,
  pc,             \* where each thread is
  f,              \* the task a worker has taken, or the wait it is in: "now" or "later"
  pending,        \* m_callbacks_pending
  running,        \* m_are_callbacks_running
  callback,       \* the event whose callback a thread runs
  list,           \* m_list: entries [id, cb, count] in order
  map,            \* m_map: from registered objects to the ids of their entries
  at,             \* the entry a thread's Iterate is inside of, 0 outside
  fulfilled,      \* the threads whose promise was set
  sent,           \* number of signals sent
  ids,            \* number of entries made
  spurious        \* number of spurious wakeups

queueVars == <<taskQueue, stopRequested, nThreadsServicingQueue, f>>
clientVars == <<pending, running, callback, fulfilled>>
listVars == <<list, map, at, ids>>
vars == <<queueVars, pc, clientVars, listVars, sent, spurious>>

Producers == Clients \cup LoadThread
Threads == Workers \cup Producers \cup {Main}

\* A signal is its number; the callback of SyncWithValidationInterfaceQueue
\* is the thread that waits for it.
Events == (1..MaxEvents + 1) \cup Producers

\* Where a thread goes on after AddToProcessQueue or ProcessQueue.
Home(t) == IF t \in Workers THEN "loop" ELSE IF t = Main THEN "drain" ELSE "idle"

Goto(t, l) == pc' = [pc EXCEPT ![t] = l]

Init ==
  /\ taskQueue = << >> /\ stopRequested = FALSE
  /\ nThreadsServicingQueue = Cardinality(Workers)
  /\ pc = [t \in Threads |-> IF t \in Workers THEN "loop" ELSE IF t = Main THEN "up" ELSE "idle"]
  /\ f = [w \in Workers |-> "none"]
  /\ pending = << >> /\ running = FALSE
  /\ callback = [t \in Threads |-> 0]
  /\ list = << >> /\ map = [c \in Callbacks |-> 0]
  /\ at = [t \in Threads |-> 0]
  /\ fulfilled = {} /\ sent = 0 /\ ids = 0 /\ spurious = 0

-----------------------------------------------------------------------------
(* CScheduler *)

Waiting == {w \in Workers : pc[w] \in {"waitTask", "waitTime"}}

\* schedule() inserts by time: after the tasks that are due, before later ones.
Insert(q, task) ==
  IF task.due
  THEN SelectSeq(q, LAMBDA x : x.due) \o <<task>> \o SelectSeq(q, LAMBDA x : ~x.due)
  ELSE Append(q, task)

\* The loop of serviceQueue up to the next wait, or out of it.
ServiceLoop(w) ==
  /\ pc[w] = "loop"
  /\ IF stopRequested
     THEN /\ nThreadsServicingQueue' = nThreadsServicingQueue - 1
          /\ Goto(w, "leaving") /\ UNCHANGED f
     ELSE /\ Goto(w, IF taskQueue = << >> THEN "waitTask" ELSE "waitTime")
          /\ f' = [f EXCEPT ![w] = IF taskQueue = << >> THEN "none"
                                   ELSE IF Head(taskQueue).due THEN "now" ELSE "later"]
          /\ UNCHANGED nThreadsServicingQueue
  /\ UNCHANGED <<taskQueue, stopRequested, clientVars, listVars, sent, spurious>>

\* wait_until ends because the time of the task that was first has come.  The
\* first task by now may be another one, or none.
TimeReached(w) ==
  /\ pc[w] = "waitTime" /\ f[w] = "now"
  /\ IF stopRequested \/ taskQueue = << >>
     THEN Goto(w, "loop") /\ UNCHANGED <<f, taskQueue>>
     ELSE /\ Goto(w, IF Head(taskQueue).f = "process" THEN "process" ELSE "repeat")
          /\ taskQueue' = Tail(taskQueue)
          /\ f' = [f EXCEPT ![w] = "none"]
  /\ UNCHANGED <<stopRequested, nThreadsServicingQueue, clientVars, listVars, sent, spurious>>

SpuriousWakeup(w) ==
  /\ w \in Waiting /\ spurious < MaxSpurious
  /\ spurious' = spurious + 1
  /\ Goto(w, "loop")
  /\ UNCHANGED <<queueVars, clientVars, listVars, sent>>

\* notify_one after schedule(), or at the end of serviceQueue.
NotifyOne(t, l) ==
  \/ Waiting = {} /\ Goto(t, l)
  \/ \E w \in Waiting : pc' = [pc EXCEPT ![w] = "loop", ![t] = l]

Leave(w) ==
  /\ pc[w] = "leaving" /\ NotifyOne(w, "left")
  /\ UNCHANGED <<queueVars, clientVars, listVars, sent, spurious>>

\* scheduleEvery: the task is put into the queue again when it is done.
Repeat(w) ==
  /\ pc[w] = "repeat"
  /\ taskQueue' = Insert(taskQueue, [f |-> "repeat", due |-> FALSE])
  /\ Goto(w, "notify")
  /\ UNCHANGED <<stopRequested, nThreadsServicingQueue, f, clientVars, listVars, sent, spurious>>

scheduleEvery(c) ==
  /\ pc[c] = "idle" /\ \A i \in 1..Len(taskQueue) : taskQueue[i].f # "repeat"
  /\ \A w \in Workers : pc[w] \notin {"repeat"}
  /\ taskQueue' = Insert(taskQueue, [f |-> "repeat", due |-> FALSE])
  /\ Goto(c, "notify")
  /\ UNCHANGED <<stopRequested, nThreadsServicingQueue, f, clientVars, listVars, sent, spurious>>

\* Time passes.
Tick ==
  /\ \E i \in 1..Len(taskQueue) : ~taskQueue[i].due
  /\ taskQueue' = [i \in 1..Len(taskQueue) |-> [taskQueue[i] EXCEPT !.due = TRUE]]
  /\ f' = [w \in Workers |-> IF f[w] = "later" THEN "now" ELSE f[w]]
  /\ UNCHANGED <<stopRequested, nThreadsServicingQueue, pc, clientVars, listVars, sent, spurious>>

-----------------------------------------------------------------------------
(* SingleThreadedSchedulerClient *)

\* The first critical section of AddToProcessQueue.
Enqueue(t, e) ==
  /\ pending' = Append(pending, e)
  /\ Goto(t, "maybe")
  /\ UNCHANGED <<queueVars, running, callback, listVars, spurious>>

MaybeScheduleProcessQueue(t) ==
  /\ pc[t] = "maybe"
  /\ Goto(t, IF running \/ pending = << >>
             THEN IF t \in Producers /\ callback[t] = t THEN "sync" ELSE Home(t)
             ELSE "schedule")
  /\ UNCHANGED <<queueVars, clientVars, listVars, sent, spurious>>

ScheduleProcessQueue(t) ==
  /\ pc[t] = "schedule"
  /\ taskQueue' = Insert(taskQueue, [f |-> "process", due |-> TRUE])
  /\ Goto(t, "notify")
  /\ UNCHANGED <<stopRequested, nThreadsServicingQueue, f, clientVars, listVars, sent, spurious>>

Notify(t) ==
  /\ pc[t] = "notify"
  /\ NotifyOne(t, IF t \in Producers /\ callback[t] = t THEN "sync" ELSE Home(t))
  /\ UNCHANGED <<queueVars, clientVars, listVars, sent, spurious>>

ProcessQueue_NoFlag(t) ==
  /\ pc[t] = "process"
  /\ IF pending = << >>
     THEN Goto(t, Home(t)) /\ UNCHANGED <<pending, running, callback>>
     ELSE /\ running' = TRUE
          /\ callback' = [callback EXCEPT ![t] = Head(pending)]
          /\ pending' = Tail(pending)
          /\ Goto(t, "iterate")
  /\ UNCHANGED <<queueVars, fulfilled, listVars, sent, spurious>>

ProcessQueue(t) ==
  /\ pc[t] = "process"
  /\ IF running \/ pending = << >>
     THEN Goto(t, Home(t)) /\ UNCHANGED <<pending, running, callback>>
     ELSE /\ running' = TRUE
          /\ callback' = [callback EXCEPT ![t] = Head(pending)]
          /\ pending' = Tail(pending)
          /\ Goto(t, "iterate")
  /\ UNCHANGED <<queueVars, fulfilled, listVars, sent, spurious>>

CallbackDone(t) ==
  /\ pc[t] = "done"
  /\ running' = FALSE
  /\ callback' = [callback EXCEPT ![t] = 0]
  /\ Goto(t, "maybe")
  /\ UNCHANGED <<queueVars, pending, fulfilled, listVars, sent, spurious>>

-----------------------------------------------------------------------------
(* MainSignalsImpl *)

Index(id) == CHOOSE i \in 1..Len(list) : list[i].id = id

Erase(l, i) == SubSeq(l, 1, i - 1) \o SubSeq(l, i + 1, Len(l))

\* --count, and erase the entry when it is 0.
Release(l, i) ==
  IF l[i].count = 1 THEN Erase(l, i) ELSE [l EXCEPT ![i].count = @ - 1]

Register(c) ==
  /\ pc[Main] # "over" /\ map[c] = 0 /\ ids < MaxEntries
  /\ ids' = ids + 1
  /\ list' = Append(list, [id |-> ids', cb |-> c, count |-> 1])
  /\ map' = [map EXCEPT ![c] = ids']
  /\ UNCHANGED <<queueVars, pc, clientVars, at, sent, spurious>>

Unregister_Erases(c) ==
  /\ map[c] # 0
  /\ list' = Erase(list, Index(map[c]))
  /\ map' = [map EXCEPT ![c] = 0]
  /\ UNCHANGED <<queueVars, pc, clientVars, at, ids, sent, spurious>>

Unregister(c) ==
  /\ map[c] # 0
  /\ list' = Release(list, Index(map[c]))
  /\ map' = [map EXCEPT ![c] = 0]
  /\ UNCHANGED <<queueVars, pc, clientVars, at, ids, sent, spurious>>

\* Enter the entry at position i of the list, or end the walk.
Enter(t, l, i) ==
  IF i > Len(l)
  THEN list' = l /\ at' = [at EXCEPT ![t] = 0] /\ Goto(t, IF callback[t] = 0 THEN Home(t) ELSE "done")
  ELSE /\ list' = [l EXCEPT ![i].count = @ + 1]
       /\ at' = [at EXCEPT ![t] = l[i].id] /\ Goto(t, "inside")

\* The callback of SyncWithValidationInterfaceQueue sets a promise, that of a
\* signal walks through the subscribers.
Callback(t) ==
  /\ pc[t] = "iterate"
  /\ \/ /\ callback[t] \in Producers
        /\ fulfilled' = fulfilled \cup {callback[t]}
        /\ Goto(t, "done") /\ UNCHANGED <<list, at>>
     \/ /\ callback[t] \notin Producers
        /\ Enter(t, list, 1) /\ UNCHANGED fulfilled
  /\ UNCHANGED <<queueVars, pending, running, callback, map, ids, sent, spurious>>

\* f(*it->callbacks) has returned: release the entry and go on to the next.
IterateNext(t) ==
  /\ pc[t] = "inside"
  /\ LET i == Index(at[t])
     IN  IF list[i].count = 1 THEN Enter(t, Erase(list, i), i)
         ELSE Enter(t, [list EXCEPT ![i].count = @ - 1], i + 1)
  /\ UNCHANGED <<queueVars, clientVars, map, ids, sent, spurious>>

-----------------------------------------------------------------------------
(* The threads of the node *)

\* One of the signals that are queued (UpdatedBlockTip, BlockConnected, ...).
Signal(t) ==
  /\ pc[t] = "idle" /\ sent < MaxEvents
  /\ sent' = sent + 1
  /\ Enqueue(t, sent + 1) /\ UNCHANGED fulfilled

\* BlockChecked and NewPoWValidBlock call the subscribers at once.
SignalDirectly(t) ==
  /\ pc[t] = "idle" /\ sent < MaxEvents
  /\ sent' = sent + 1
  /\ Enter(t, list, 1)
  /\ UNCHANGED <<queueVars, clientVars, map, ids, spurious>>

\* Called from an RPC, or from ActivateBestChain by LimitValidationInterfaceQueue.
SyncWithValidationInterfaceQueue(t) ==
  /\ pc[t] = "idle" /\ sent < MaxEvents
  /\ t \in LoadThread => Len(pending) > QueueLimit
  /\ sent' = sent + 1
  /\ callback' = [callback EXCEPT ![t] = t]
  /\ fulfilled' = fulfilled \ {t}
  /\ pending' = Append(pending, t)
  /\ Goto(t, "maybe")
  /\ UNCHANGED <<queueVars, running, listVars, spurious>>

SyncReturns(t) ==
  /\ pc[t] = "sync" /\ t \in fulfilled
  /\ callback' = [callback EXCEPT ![t] = 0]
  /\ Goto(t, "idle")
  /\ UNCHANGED <<queueVars, pending, running, fulfilled, listVars, sent, spurious>>

\* A thread of the node ends because the node is shutting down.
Exit(t) ==
  /\ pc[t] = "idle" /\ pc[Main] # "up"
  /\ Goto(t, "left")
  /\ UNCHANGED <<queueVars, clientVars, listVars, sent, spurious>>

-----------------------------------------------------------------------------
(* Shutdown *)

AllLeft(S) == \A t \in S : pc[t] = "left"

Begin ==
  /\ pc[Main] = "up" /\ Goto(Main, "joinClients")
  /\ UNCHANGED <<queueVars, clientVars, listVars, sent, spurious>>

\* StopHTTPServer and connman->Stop have joined their threads; scheduler->stop().
StopScheduler ==
  /\ pc[Main] = "joinClients" /\ AllLeft(Clients)
  /\ stopRequested' = TRUE
  /\ pc' = [t \in Threads |-> IF t = Main THEN "joinWorkers"
                              ELSE IF t \in Waiting THEN "loop" ELSE pc[t]]
  /\ UNCHANGED <<taskQueue, nThreadsServicingQueue, f, clientVars, listVars, sent, spurious>>

\* The workers and then m_thread_load are joined; ForceFlushStateToDisk signals.
FlushState ==
  /\ pc[Main] = "joinWorkers" /\ AllLeft(Workers \cup LoadThread)
  /\ Enqueue(Main, MaxEvents + 1) /\ UNCHANGED <<fulfilled, sent>>

\* EmptyQueue, as long as there is something in it.
EmptyQueue ==
  /\ pc[Main] = "drain" /\ pending # << >>
  /\ Goto(Main, "process")
  /\ UNCHANGED <<queueVars, clientVars, listVars, sent, spurious>>

\* UnregisterAllValidationInterfaces, UnregisterBackgroundSignalScheduler.
Clear ==
  /\ pc[Main] = "drain" /\ pending = << >>
  /\ LET left(e) == IF map[e.cb] = e.id THEN [e EXCEPT !.count = @ - 1] ELSE e
     IN  list' = SelectSeq([i \in 1..Len(list) |-> left(list[i])], LAMBDA e : e.count > 0)
  /\ map' = [c \in Callbacks |-> 0]
  /\ Goto(Main, "over")
  /\ UNCHANGED <<queueVars, clientVars, at, ids, sent, spurious>>

-----------------------------------------------------------------------------
WorkerStep(w) ==
  ServiceLoop(w) \/ TimeReached(w) \/ Leave(w) \/ Repeat(w)

CallStep(t) ==
  \/ MaybeScheduleProcessQueue(t) \/ ScheduleProcessQueue(t) \/ Notify(t)
  \/ ProcessQueue(t) \/ CallbackDone(t) \/ Callback(t) \/ IterateNext(t)

MainStep == Begin \/ StopScheduler \/ FlushState \/ EmptyQueue \/ Clear

Next ==
  \/ \E w \in Workers : WorkerStep(w) \/ SpuriousWakeup(w)
  \/ \E t \in Threads : CallStep(t)
  \/ \E c \in Producers :
       Signal(c) \/ SignalDirectly(c) \/ SyncWithValidationInterfaceQueue(c)
         \/ scheduleEvery(c) \/ SyncReturns(c) \/ Exit(c)
  \/ \E c \in Callbacks : Register(c) \/ Unregister(c)
  \/ Tick \/ MainStep

(* A thread goes on when it can: the mutexes are held for single steps.    *)
(* Shutdown, once begun, is never given up, and a thread told to end ends. *)
(* Nothing makes time pass or threads send signals.                        *)
Fairness ==
  /\ \A w \in Workers : WF_vars(WorkerStep(w))
  /\ \A t \in Threads : WF_vars(CallStep(t))
  /\ \A c \in Producers : WF_vars(SyncReturns(c)) /\ WF_vars(Exit(c))
  /\ WF_vars(StopScheduler \/ FlushState \/ EmptyQueue \/ Clear)

Spec == Init /\ [][Next]_vars /\ Fairness

-----------------------------------------------------------------------------
(* Properties *)

\* The threads inside ProcessQueue with a callback.
Executing == {t \in Workers \cup {Main} : pc[t] \in {"iterate", "inside", "done"}}

Queue == INSTANCE SerialQueue
         WITH Event <- Events, waiting <- pending, active <- {callback[t] : t \in Executing}

(* The threads of the scheduler together behave as one queue: a callback   *)
(* begins only when the one before has ended, in the order of              *)
(* AddToProcessQueue, and none stays in the queue for ever although        *)
(* MaybeScheduleProcessQueue decides and schedules in two steps.           *)
ImplementsSerialQueue == Queue!Spec

(* The count of an entry of m_list is the number of threads inside its     *)
(* callback, plus one while it is registered (validationinterface.cpp:36); *)
(* so no thread is inside an entry that is gone, although Iterate calls    *)
(* without the lock and subscribers unregister meanwhile.                  *)
EntryCountExact ==
  /\ \A t \in Threads : at[t] # 0 => \E i \in 1..Len(list) : list[i].id = at[t]
  /\ \A c \in Callbacks : map[c] # 0 => \E i \in 1..Len(list) : list[i].id = map[c] /\ list[i].cb = c
  /\ \A i \in 1..Len(list) :
       LET e == list[i]
       IN  e.count = Cardinality({t \in Threads : at[t] = e.id}) + IF map[e.cb] = e.id THEN 1 ELSE 0

(* Shutdown ends: no thread it joins waits for a callback that nobody runs *)
(* any more (SyncWithValidationInterfaceQueue, LimitValidationInterface-   *)
(* Queue).                                                                 *)
ShutdownCompletes == (pc[Main] # "up") ~> (pc[Main] = "over")
=============================================================================

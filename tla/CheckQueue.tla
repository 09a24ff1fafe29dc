----------------------------- MODULE CheckQueue -----------------------------
(***************************************************************************)
(* CCheckQueue and CCheckQueueControl (checkqueue.h): ConnectBlock, the    *)
(* master, adds batches of script checks that worker threads execute, then *)
(* joins the workers until all are done and learns whether all succeeded.  *)
(*                                                                         *)
(* A check is its outcome.  Every critical section of m_mutex begins with  *)
(* a step that takes it; waiting on a condition variable gives it up, and  *)
(* a woken thread has to take it again.                                    *)
(***************************************************************************)
EXTENDS Integers, FiniteSets, SequencesExt

CONSTANTS
    CqWorkers,     \* m_worker_threads
    Master,        \* the thread that holds m_control_mutex
    NoThread,      \* nobody holds m_mutex
    nBatchSize,
    Batches,       \* the vectors of checks that are added
    MaxControls,   \* bound on CCheckQueueControl objects
    MaxAdds,       \* bound on the batches each of them adds
    CqMaxSpurious  \* bound on spurious wakeups

CqThreads == CqWorkers \cup {Master}

ASSUME CheckQueueAssumption ==
    /\ Master \notin CqWorkers /\ NoThread \notin CqThreads
    /\ IsFiniteSet(CqWorkers)
    /\ nBatchSize \in Nat \ {0}
    /\ Batches \subseteq Seq(BOOLEAN) /\ << >> \notin Batches
    /\ {MaxControls, MaxAdds, CqMaxSpurious} \subseteq Nat

VARIABLES
    lock,      \* who holds m_mutex
    queue, nIdle, nTotal, fAllOk, nTodo,
    stop,      \* m_request_stop
    cqpc,      \* where each thread is
    vChecks, nNow, fOk,   \* the locals of Loop
    result,    \* what Wait returned
    verdict,   \* whether all checks added since the last Wait succeed
    bound      \* how many controls, batches and spurious wakeups are left

state == <<queue, nIdle, nTotal, fAllOk, nTodo>>
locals == <<vChecks, nNow, fOk>>
ghost == <<result, verdict, bound>>
cqVars == <<lock, state, stop, cqpc, locals, ghost>>

At(t, p) == cqpc[t] = p
CqGoto(t, p) == cqpc' = [cqpc EXCEPT ![t] = p]

(* The constructor starts the workers, which enter Loop. *)
CqInit ==
    /\ lock = NoThread /\ queue = << >> /\ nIdle = 0 /\ nTotal = 0
    /\ fAllOk = TRUE /\ nTodo = 0 /\ stop = FALSE
    /\ cqpc = [t \in CqThreads |-> IF t = Master THEN "free" ELSE "enter"]
    /\ vChecks = [t \in CqThreads |-> << >>]
    /\ nNow = [t \in CqThreads |-> 0]
    /\ fOk = [t \in CqThreads |-> TRUE]
    /\ result = TRUE /\ verdict = TRUE
    /\ bound = [control |-> MaxControls, add |-> 0, spurious |-> CqMaxSpurious]

-----------------------------------------------------------------------------
(* Loop.                                                                   *)


(* Mutant: the outcome of this batch replaces that of the others. *)
EnterLoop_Forgets(t) ==
    /\ At(t, "enter") /\ lock = NoThread
    /\ lock' = t
    /\ IF nNow[t] > 0
       THEN /\ fAllOk' = fOk[t]
            /\ nTodo' = nTodo - nNow[t]
            /\ UNCHANGED nTotal
       ELSE /\ nTotal' = nTotal + 1
            /\ UNCHANGED <<fAllOk, nTodo>>
    /\ cqpc' = [cqpc EXCEPT ![t] = "head",
                        ![Master] = IF t # Master /\ nNow[t] > 0 /\ nTodo' = 0
                                       /\ @ = "wait" THEN "woken" ELSE @]
    /\ UNCHANGED <<queue, nIdle, stop, locals, ghost>>

(* Take m_mutex and account for the batch of the last turn; a worker that  *)
(* did the last check notifies m_master_cv.                                *)
EnterLoop(t) ==
    /\ At(t, "enter") /\ lock = NoThread
    /\ lock' = t
    /\ IF nNow[t] > 0
       THEN /\ fAllOk' = (fAllOk /\ fOk[t])
            /\ nTodo' = nTodo - nNow[t]
            /\ UNCHANGED nTotal
       ELSE /\ nTotal' = nTotal + 1
            /\ UNCHANGED <<fAllOk, nTodo>>
    /\ cqpc' = [cqpc EXCEPT ![t] = "head",
                        ![Master] = IF t # Master /\ nNow[t] > 0 /\ nTodo' = 0
                                       /\ @ = "wait" THEN "woken" ELSE @]
    /\ UNCHANGED <<queue, nIdle, stop, locals, ghost>>

Done(t) == t = Master /\ nTodo = 0

(* The master returns from Wait. *)
Return ==
    /\ At(Master, "head") /\ queue = << >> /\ ~stop /\ Done(Master)
    /\ nTotal' = nTotal - 1
    /\ result' = fAllOk /\ fAllOk' = TRUE
    /\ lock' = NoThread /\ CqGoto(Master, "out")
    /\ UNCHANGED <<queue, nIdle, nTodo, stop, locals, verdict, bound>>

(* cond.wait(lock) *)
Sleep(t) ==
    /\ At(t, "head") /\ queue = << >> /\ ~stop /\ ~Done(t)
    /\ nIdle' = nIdle + 1
    /\ lock' = NoThread /\ CqGoto(t, "wait")
    /\ UNCHANGED <<queue, nTotal, fAllOk, nTodo, stop, locals, ghost>>

Spurious(t) ==
    /\ At(t, "wait") /\ bound.spurious > 0
    /\ bound' = [bound EXCEPT !.spurious = @ - 1]
    /\ CqGoto(t, "woken")
    /\ UNCHANGED <<lock, state, stop, locals, result, verdict>>

Wake(t) ==
    /\ At(t, "woken") /\ lock = NoThread
    /\ lock' = t /\ nIdle' = nIdle - 1
    /\ CqGoto(t, "head")
    /\ UNCHANGED <<queue, nTotal, fAllOk, nTodo, stop, locals, ghost>>

Quit(t) ==
    /\ At(t, "head") /\ stop
    /\ lock' = NoThread /\ CqGoto(t, "quit")
    /\ UNCHANGED <<state, stop, locals, ghost>>

(* How many checks to take: fewer as the queue empties. *)
BatchSize ==
    LET share == Len(queue) \div (nTotal + nIdle + 1)
        most  == IF share < nBatchSize THEN share ELSE nBatchSize
    IN  IF most > 1 THEN most ELSE 1

(* Take the last checks of the queue and give m_mutex up. *)
Take(t) ==
    /\ At(t, "head") /\ queue # << >> /\ ~stop
    /\ LET left == Len(queue) - BatchSize IN
          /\ nNow' = [nNow EXCEPT ![t] = BatchSize]
          /\ vChecks' = [vChecks EXCEPT ![t] = SubSeq(queue, left + 1, Len(queue))]
          /\ queue' = SubSeq(queue, 1, left)
    /\ fOk' = [fOk EXCEPT ![t] = fAllOk]
    /\ lock' = NoThread /\ CqGoto(t, "work")
    /\ UNCHANGED <<nIdle, nTotal, fAllOk, nTodo, stop, ghost>>

(* Execute them, outside m_mutex. *)
Work(t) ==
    /\ At(t, "work")
    /\ fOk' = [fOk EXCEPT ![t] = @ /\ \A i \in DOMAIN vChecks[t] : vChecks[t][i]]
    /\ vChecks' = [vChecks EXCEPT ![t] = << >>]
    /\ CqGoto(t, "enter")
    /\ UNCHANGED <<lock, state, stop, nNow, ghost>>

-----------------------------------------------------------------------------
(* The master: CCheckQueueControl.                                         *)
Control ==
    /\ At(Master, "free") /\ bound.control > 0
    /\ bound' = [bound EXCEPT !.control = @ - 1, !.add = MaxAdds]
    /\ CqGoto(Master, "control")
    /\ UNCHANGED <<lock, state, stop, locals, result, verdict>>

(* Add, up to the end of its critical section. *)
Add(checks) ==
    /\ At(Master, "control") /\ lock = NoThread /\ bound.add > 0
    /\ bound' = [bound EXCEPT !.add = @ - 1]
    /\ queue' = queue \o checks
    /\ nTodo' = nTodo + Len(checks)
    /\ verdict' = (verdict /\ \A i \in DOMAIN checks : checks[i])
    /\ CqGoto(Master, IF Len(checks) = 1 THEN "notify_one" ELSE "notify_all")
    /\ UNCHANGED <<lock, nIdle, nTotal, fAllOk, stop, locals, result>>

Sleepers == {w \in CqWorkers : At(w, "wait")}

Woken(ws) == [t \in CqThreads |-> IF t \in ws THEN "woken" ELSE cqpc[t]]

NotifyWorker ==
    /\ At(Master, "notify_one")
    /\ \E ws \in SUBSET Sleepers :
          /\ Cardinality(ws) = IF Sleepers = {} THEN 0 ELSE 1
          /\ cqpc' = [Woken(ws) EXCEPT ![Master] = "control"]
    /\ UNCHANGED <<lock, state, stop, locals, ghost>>

NotifyAll ==
    /\ At(Master, "notify_all")
    /\ cqpc' = [Woken(Sleepers) EXCEPT ![Master] = "control"]
    /\ UNCHANGED <<lock, state, stop, locals, ghost>>

(* Wait, called by ConnectBlock or by the destructor of the control when   *)
(* ConnectBlock left early: Loop with fresh locals.                        *)
Wait ==
    /\ At(Master, "control")
    /\ nNow' = [nNow EXCEPT ![Master] = 0]
    /\ fOk' = [fOk EXCEPT ![Master] = TRUE]
    /\ CqGoto(Master, "enter")
    /\ UNCHANGED <<lock, state, stop, vChecks, ghost>>

(* The control leaves m_control_mutex. *)
LeaveControl ==
    /\ At(Master, "out")
    /\ verdict' = TRUE
    /\ CqGoto(Master, "free")
    /\ UNCHANGED <<lock, state, stop, locals, result, bound>>

(* The destructor of the queue: m_request_stop, notify_all, join. *)
Destroy ==
    /\ At(Master, "free") /\ lock = NoThread
    /\ stop' = TRUE
    /\ CqGoto(Master, "stopping")
    /\ UNCHANGED <<lock, state, locals, ghost>>

StopAll ==
    /\ At(Master, "stopping")
    /\ cqpc' = [Woken(Sleepers) EXCEPT ![Master] = "joining"]
    /\ UNCHANGED <<lock, state, stop, locals, ghost>>

Join ==
    /\ At(Master, "joining") /\ \A w \in CqWorkers : At(w, "quit")
    /\ CqGoto(Master, "joined")
    /\ UNCHANGED <<lock, state, stop, locals, ghost>>

LoopStep(t) == EnterLoop(t) \/ Sleep(t) \/ Wake(t) \/ Quit(t) \/ Take(t) \/ Work(t)

MasterStep == Return \/ NotifyWorker \/ NotifyAll \/ LeaveControl \/ StopAll \/ Join

CqNext ==
    \/ \E t \in CqThreads : LoopStep(t) \/ Spurious(t)
    \/ \E checks \in Batches : Add(checks)
    \/ MasterStep \/ Control \/ Wait \/ Destroy

CqSpec == CqInit /\ [][CqNext]_cqVars

(* Every thread that can run does, and ConnectBlock finishes what it began *)
(* with a control: the scheduler and the destructor of the control justify *)
(* weak fairness.  No fairness of m_mutex or of wakeups is assumed.        *)
CqFairness ==
    /\ \A t \in CqThreads : WF_cqVars(LoopStep(t))
    /\ WF_cqVars(MasterStep) /\ WF_cqVars(Wait)

-----------------------------------------------------------------------------
(* Wait returns whether every check added since the last Wait succeeded,   *)
(* and leaves nothing behind for the next block: no queued check, and no   *)
(* worker that still holds some.                                           *)
WaitReturnsVerdict ==
    At(Master, "out") => /\ result = verdict
                         /\ queue = << >> /\ nTodo = 0 /\ fAllOk
                         /\ \A w \in CqWorkers : vChecks[w] = << >>

(* Wait always returns, whichever threads sleep when the last check ends,  *)
(* and the destructor of the queue always gets its workers to exit.        *)
QueueProgress ==
    /\ At(Master, "enter") ~> At(Master, "out")
    /\ At(Master, "stopping") ~> At(Master, "joined")
=============================================================================

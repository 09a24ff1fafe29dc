------------------------------- MODULE WorkMC -------------------------------
(***************************************************************************)
(* The node's shared workers, each on a small instance: the script check   *)
(* queue, the RandomX wrapper, and the scheduler with the validation       *)
(* signals.  They do not interact: a behaviour is one of them.             *)
(***************************************************************************)
EXTENDS CheckQueue, RandomXWrapper, Signals

(* A batch of one is announced to one worker only; a check fails, or none. *)
MCBatches == {<<TRUE>>, <<TRUE, TRUE, TRUE, FALSE>>}

VARIABLE part

MCInit == part \in {"checks", "randomx", "signals"} /\ CqInit /\ RxInit /\ Init

MCNext ==
    \/ part = "checks" /\ CqNext /\ UNCHANGED <<part, rxVars, vars>>
    \/ part = "randomx" /\ RxNext /\ UNCHANGED <<part, cqVars, vars>>
    \/ part = "signals" /\ Next /\ UNCHANGED <<part, cqVars, rxVars>>

(* CqFairness and Fairness, each for the behaviours of its own part.       *)
MCFairness ==
    /\ \A t \in CqThreads : WF_cqVars(part = "checks" /\ LoopStep(t))
    /\ WF_cqVars(part = "checks" /\ MasterStep) /\ WF_cqVars(part = "checks" /\ Wait)
    /\ \A w \in Workers : WF_vars(part = "signals" /\ WorkerStep(w))
    /\ \A t \in Threads : WF_vars(part = "signals" /\ CallStep(t))
    /\ \A c \in Producers : /\ WF_vars(part = "signals" /\ SyncReturns(c))
                             /\ WF_vars(part = "signals" /\ Exit(c))
    /\ WF_vars(part = "signals" /\ (StopScheduler \/ FlushState \/ EmptyQueue \/ Clear))

MCSpec == MCInit /\ [][MCNext]_<<part, cqVars, rxVars, vars>> /\ MCFairness

=============================================================================

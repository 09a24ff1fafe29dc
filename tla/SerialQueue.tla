---------------------------- MODULE SerialQueue ----------------------------
(***************************************************************************)
(* What SingleThreadedSchedulerClient promises to the users of the         *)
(* validation signals (scheduler.h:100-116, validationinterface.h:70-84):  *)
(* callbacks run one at a time, in the order in which they were added, and *)
(* none is left behind.                                                    *)
(***************************************************************************)
EXTENDS Sequences

CONSTANT Event

VARIABLES
  waiting,   \* the callbacks added and not yet begun, oldest first
  active     \* the callbacks that have begun and not ended

vars == <<waiting, active>>

Init == waiting = << >> /\ active = {}

Add(e) == waiting' = Append(waiting, e) /\ UNCHANGED active

Begin ==
  /\ active = {} /\ waiting # << >>
  /\ active' = {Head(waiting)} /\ waiting' = Tail(waiting)

End == active # {} /\ active' = {} /\ UNCHANGED waiting

Next == (\E e \in Event : Add(e)) \/ Begin \/ End

SafeSpec == Init /\ [][Next]_vars

Spec == SafeSpec /\ WF_vars(Begin) /\ WF_vars(End)
=============================================================================

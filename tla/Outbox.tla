--------------------------------- MODULE Outbox ---------------------------------
(***************************************************************************)
(* What the outbox of Task notifications promises, without the scheduler,  *)
(* its crashes, its batches and its backoff: TaskDeliveryStore in          *)
(* src/openppx/runtime/task_store.py as _publish_delivery in               *)
(* src/openppx/runtime/task_scheduler.py uses it.  TaskDeliveries          *)
(* implements it.                                                          *)
(***************************************************************************)
EXTENDS Naturals

CONSTANT Notices      \* delivery keys

VARIABLES
    notice,      \* what became of a notification
    told,        \* how often the listener has been told
    listening    \* whether there is one

vars == <<notice, told, listening>>

Init ==
    /\ notice = [d \in Notices |-> "none"]
    /\ told = [d \in Notices |-> 0]
    /\ listening \in BOOLEAN

\* A notification is owed from the moment it is recorded, and is recorded once.
Owe(d) ==
    /\ notice[d] = "none"
    /\ notice' = [notice EXCEPT ![d] = "owed"]
    /\ UNCHANGED <<told, listening>>

\* The listener is told, again if need be, but only of what is still owed.
Tell(d) ==
    /\ listening
    /\ notice[d] = "owed"
    /\ told' = [told EXCEPT ![d] = @ + 1]
    /\ UNCHANGED <<notice, listening>>

\* It is settled when the listener, if there is one, has been told, and then it
\* stays settled.
Settle(d) ==
    /\ notice[d] = "owed"
    /\ listening => told[d] > 0
    /\ notice' = [notice EXCEPT ![d] = "settled"]
    /\ UNCHANGED <<told, listening>>

Next == \E d \in Notices : Owe(d) \/ Tell(d) \/ Settle(d)

\* Whatever is owed is told at least once and is settled.
Fairness ==
    \A d \in Notices : /\ WF_vars(told[d] = 0 /\ Tell(d))
                       /\ WF_vars(Settle(d))

SafeSpec == Init /\ [][Next]_vars
Spec == SafeSpec /\ Fairness
=============================================================================

------------------------------ MODULE Parking -------------------------------
(***************************************************************************)
(* What deschedule and reawaken promise (Runtime, and the documentation of *)
(* deschedule_running_task_and_then): a task that parks hands itself out   *)
(* in a closure and goes on exactly when it was woken once and the closure *)
(* has returned.  SimpleTask and Deschedule implement it.                  *)
(***************************************************************************)

VARIABLES parked,    \* the task is in deschedule
          closure,   \* the closure it gave to deschedule has not returned
          woken      \* it was woken, or the closure refused to take it

vars == <<parked, closure, woken>>

Init == parked = FALSE /\ closure = FALSE /\ woken = FALSE

Park ==
  /\ ~parked
  /\ parked' = TRUE /\ closure' = TRUE /\ woken' = FALSE

ClosureReturns ==
  /\ closure
  /\ closure' = FALSE
  /\ UNCHANGED <<parked, woken>>

\* The closure does not take the task: deschedule returns after it.
Refuse ==
  /\ closure /\ ~woken
  /\ closure' = FALSE /\ woken' = TRUE
  /\ UNCHANGED parked

\* One waker, however many handles there are, wakes it.
Wake ==
  /\ parked /\ ~woken
  /\ woken' = TRUE
  /\ UNCHANGED <<parked, closure>>

Return ==
  /\ parked /\ woken /\ ~closure
  /\ parked' = FALSE /\ woken' = FALSE
  /\ UNCHANGED closure

Next == Park \/ ClosureReturns \/ Refuse \/ Wake \/ Return

\* A task that was woken goes on.
Spec == Init /\ [][Next]_vars /\ WF_vars(ClosureReturns \/ Refuse) /\ WF_vars(Return)
=============================================================================

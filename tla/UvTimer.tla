------------------------------ MODULE UvTimer -------------------------------
(***************************************************************************)
(* Timer (timer.rs): sleep, oneshot and periodic share one libuv timer and *)
(* one Data, which timer_cb takes the action out of while it runs it.  The *)
(* callback it calls may switch to the owner of the timer, who replaces    *)
(* the action or drops the timer under timer_cb's feet.                    *)
(*                                                                         *)
(* One thread, the loop's: the owner is on it while it has `cur', inside a *)
(* callback or not, and calls the timer only there (homing missile).       *)
(* Actions are numbered in the order in which they are installed.          *)
(***************************************************************************)
EXTENDS Integers

CONSTANT MaxActions    \* bound: actions installed

BoundAssumption == MaxActions \in Nat

VARIABLES cur,      \* who has the thread: the loop or the owner
          pc,       \* where the owner is
          armed,    \* the libuv timer: not started, once, repeating
          action,   \* Data.action: its kind, number and, for CallMany, id
          id,       \* Data.id
          stack,    \* the action timer_cb is calling, or Nothing
          last,     \* the number of the newest action
          data,     \* Data: in use, being closed, freed
          failed    \* an unwrap, an assertion or a use after free

vars == <<cur, pc, armed, action, id, stack, last, data, failed>>

Nothing == [kind |-> "none", n |-> 0, id |-> -1]
Kind == {"none", "WakeTask", "CallOnce", "CallMany"}
Action == [kind : Kind, n : 0..MaxActions, id : Int]

\* The state and its types; the owner sleeps exactly while the action is to
\* wake it.
TypeOK ==
  /\ cur \in {"loop", "owner"} /\ pc \in {"idle", "emptied", "sleeping", "gone"}
  /\ armed \in {"no", "once", "repeat"} /\ action \in Action /\ stack \in Action
  /\ id \in Nat /\ last \in 0..MaxActions
  /\ data \in {"used", "closing", "freed"} /\ failed \in BOOLEAN
  /\ pc = "sleeping" <=> action.kind = "WakeTask"
  /\ pc = "sleeping" => armed = "once" /\ cur = "loop"

Init ==
  /\ cur = "loop" /\ pc = "idle" /\ armed = "no" /\ action = Nothing /\ id = 0
  /\ stack = Nothing /\ last = 0 /\ data = "used" /\ failed = FALSE

\* The owner gets to the loop's thread: it is switched to by a callback, or it
\* comes home; and it leaves the thread to the loop.
Enter ==
  /\ cur = "loop" /\ pc \in {"idle", "emptied"}
  /\ cur' = "owner"
  /\ UNCHANGED <<pc, armed, action, id, stack, last, data, failed>>

Leave ==
  /\ cur = "owner" /\ pc \in {"idle", "gone"}
  /\ cur' = "loop"
  /\ UNCHANGED <<pc, armed, action, id, stack, last, data, failed>>

-----------------------------------------------------------------------------
(* The owner calls the timer.                                              *)

HasTimer == cur = "owner" /\ pc = "idle"

\* sleep, first: stop the timer and take the previous action.  Its destructor
\* runs off the missile and may give the thread away.
SleepEmpties ==
  /\ HasTimer /\ last < MaxActions
  /\ armed' = "no" /\ action' = Nothing
  /\ pc' = "emptied"
  /\ \/ UNCHANGED cur
     \/ action # Nothing /\ cur' = "loop"
  /\ UNCHANGED <<id, stack, last, data, failed>>

\* Mutant: the id is not changed.
SleepSameId ==
  /\ cur = "owner" /\ pc = "emptied"
  /\ failed' = (failed \/ action # Nothing)
  /\ last' = last + 1
  /\ action' = [kind |-> "WakeTask", n |-> last', id |-> -1]
  /\ armed' = "once" /\ pc' = "sleeping" /\ cur' = "loop"
  /\ UNCHANGED <<id, stack, data>>

\* sleep, then: bump the id, store the task and start the timer.
Sleep ==
  /\ cur = "owner" /\ pc = "emptied"
  /\ failed' = (failed \/ action # Nothing)
  /\ id' = id + 1 /\ last' = last + 1
  /\ action' = [kind |-> "WakeTask", n |-> last', id |-> -1]
  /\ armed' = "once" /\ pc' = "sleeping" /\ cur' = "loop"
  /\ UNCHANGED <<stack, data>>

Oneshot ==
  /\ HasTimer /\ last < MaxActions
  /\ id' = id + 1 /\ last' = last + 1 /\ armed' = "once"
  /\ action' = [kind |-> "CallOnce", n |-> last', id |-> -1]
  /\ UNCHANGED <<cur, pc, stack, data, failed>>

Periodic ==
  /\ HasTimer /\ last < MaxActions
  /\ id' = id + 1 /\ last' = last + 1 /\ armed' = "repeat"
  /\ action' = [kind |-> "CallMany", n |-> last', id |-> id']
  /\ UNCHANGED <<cur, pc, stack, data, failed>>

\* Mutant: the data is freed with the timer.
DropFrees ==
  /\ HasTimer
  /\ armed' = "no" /\ id' = id + 1 /\ data' = "freed" /\ action' = Nothing
  /\ pc' = "gone"
  /\ UNCHANGED <<cur, stack, last, failed>>

Drop ==
  /\ HasTimer
  /\ armed' = "no" /\ id' = id + 1 /\ data' = "closing" /\ action' = Nothing
  /\ pc' = "gone"
  /\ UNCHANGED <<cur, stack, last, failed>>

-----------------------------------------------------------------------------
(* Callbacks of the loop.                                                  *)

InLoop == cur = "loop" /\ stack = Nothing

\* timer_cb takes the action, which must be there.
TimerCb ==
  /\ InLoop /\ armed # "no"
  /\ armed' = IF armed = "repeat" THEN "repeat" ELSE "no"
  /\ action' = Nothing
  /\ failed' = (failed \/ action = Nothing)
  /\ IF action.kind = "WakeTask"
       THEN pc' = "idle" /\ cur' = "owner" /\ UNCHANGED stack
       ELSE stack' = action /\ UNCHANGED <<pc, cur>>
  /\ UNCHANGED <<id, last, data>>

\* Mutant: a periodic action is put back whatever happened meanwhile.
CbReturnsBlindly ==
  /\ cur = "loop" /\ stack # Nothing
  /\ action' = IF stack.kind = "CallMany" THEN stack ELSE action
  /\ failed' = (failed \/ (stack.kind = "CallMany" /\ data = "freed"))
  /\ stack' = Nothing
  /\ UNCHANGED <<cur, pc, armed, id, last, data>>

\* Mutant: a periodic action is never put back.
CbReturnsForgets ==
  /\ cur = "loop" /\ stack # Nothing
  /\ stack' = Nothing
  /\ UNCHANGED <<cur, pc, armed, action, id, last, data, failed>>

\* The callback returns: a periodic action is put back if the id is still its.
CbReturns ==
  /\ cur = "loop" /\ stack # Nothing
  /\ action' = IF stack.kind = "CallMany" /\ stack.id = id THEN stack ELSE action
  /\ failed' = (failed \/ (stack.kind = "CallMany" /\ data = "freed"))
  /\ stack' = Nothing
  /\ UNCHANGED <<cur, pc, armed, id, last, data>>

CloseCb ==
  /\ InLoop /\ data = "closing"
  /\ data' = "freed"
  /\ failed' = (failed \/ action # Nothing)
  /\ UNCHANGED <<cur, pc, armed, action, id, stack, last>>

-----------------------------------------------------------------------------
\* The loop has nothing to do.
Waits == InLoop /\ armed = "no" /\ data # "closing" /\ UNCHANGED vars

Next ==
  \/ Enter
  \/ Leave
  \/ SleepEmpties
  \/ Sleep
  \/ Oneshot
  \/ Periodic
  \/ Drop
  \/ TimerCb
  \/ CbReturns
  \/ CloseCb
  \/ Waits

\* Timers elapse, callbacks return and the loop runs its close callbacks; an
\* owner that has begun to sleep, or is done, goes on.
Fairness ==
  /\ SF_vars(TimerCb \/ CloseCb) /\ WF_vars(CbReturns)
  /\ WF_vars(Sleep) /\ WF_vars(pc = "emptied" /\ Enter) /\ WF_vars(Leave)

Spec == Init /\ [][Next]_vars /\ Fairness

-----------------------------------------------------------------------------
(* Properties.                                                             *)

\* timer_cb never finds an empty action, sleep and close_cb never find one
\* that is left over, and nothing is used after close_cb freed it - although a
\* repeating timer is started again before its callback runs.
NoStaleAction == ~failed

\* A callback that was replaced is never called again: timer_cb, on its way
\* back from a periodic callback, does not put it over what the owner asked for
\* meanwhile.
NoOldCall == [][stack = Nothing /\ stack' # Nothing => stack'.n = last]_vars

\* A periodic timer keeps its callback until it is replaced or dropped.
PeriodicKept == armed = "repeat" /\ stack = Nothing => action.kind = "CallMany"

\* A task that sleeps is woken.
SleepEnds == (pc = "sleeping") ~> (pc # "sleeping")
=============================================================================

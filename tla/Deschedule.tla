----------------------------- MODULE Deschedule -----------------------------
(***************************************************************************)
(* How a green task parks and is woken: Runtime for GreenTask (task.rs) on *)
(* top of the context switch (sched.rs).  The scheduler switches away from *)
(* the task and then runs the closure that gives its BlockedTasks away;    *)
(* with select there are several of them for one task.  A waker may be at  *)
(* work, and another scheduler may have resumed the task, before the       *)
(* closure has returned: the lock of the task, which its resumption        *)
(* bounces on, keeps the task from going on.                               *)
(*                                                                         *)
(* One task; its scheduler, the wakers and the scheduler that resumes it   *)
(* are different threads.                                                  *)
(***************************************************************************)
EXTENDS Naturals

CONSTANTS MaxParks,    \* bound: calls of deschedule
          MaxTimes     \* bound: BlockedTasks of one call

BoundAssumption == MaxParks \in Nat /\ MaxTimes \in Nat \ {0}

Parks == 1..MaxParks
Handles == 1..MaxTimes

VARIABLES task,    \* where the task is
          parks,   \* calls of deschedule so far
          times,   \* the argument of the last one
          next,    \* the next BlockedTask the closure offers; 0: the closure does not run
          lock,    \* nasty_deschedule_lock
          slot,    \* the parks whose task was not taken out of its BlockedTask(s)
          waker,   \* the holder of each BlockedTask of each park
          wakes    \* how often each park was ended

vars == <<task, parks, times, next, lock, slot, waker, wakes>>

\* blocked: in its BlockedTask; taken: a waker has it; queued: in a queue of a
\* scheduler; bouncing: switched to, and waiting for its own lock.
Place == {"running", "blocked", "taken", "queued", "bouncing", "dead"}

Holder == {"none", "out", "has", "locked", "sent", "done"}

Nobody == <<0, 0>>
Closure == <<0, 1>>

\* The state and its types: the lock is free or held by the closure or by one
\* waker, and a task that is in its BlockedTask is nowhere else.
TypeOK ==
  /\ task \in Place /\ parks \in 0..MaxParks /\ times \in 0..MaxTimes /\ next \in 0..MaxTimes + 1
  /\ lock \in {Nobody, Closure} \cup (Parks \X Handles) /\ slot \subseteq Parks
  /\ waker \in [Parks \X Handles -> Holder] /\ wakes \in [Parks -> Nat]
  /\ \A h \in Parks \X Handles : (lock = h) <=> (waker[h] \in {"locked", "sent"})
  /\ (task = "blocked") <=> (parks \in slot)

Init ==
  /\ task = "running" /\ parks = 0 /\ times = 0 /\ next = 0 /\ lock = Nobody /\ slot = {}
  /\ waker = [h \in Parks \X Handles |-> "none"] /\ wakes = [p \in Parks |-> 0]

-----------------------------------------------------------------------------
(* deschedule.                                                             *)

\* The task is switched away from; the cleanup job is about to run.
Switch(n) ==
  /\ task = "running" /\ parks < MaxParks
  /\ task' = "blocked" /\ parks' = parks + 1 /\ times' = n
  /\ slot' = slot \cup {parks'}
  /\ UNCHANGED <<next, lock, waker, wakes>>

\* Mutant: the closure runs without the lock.
ClosureLockNot ==
  /\ task = "blocked" /\ next = 0 /\ wakes[parks] = 0 /\ waker[<<parks, 1>>] = "none"
  /\ next' = 1
  /\ UNCHANGED <<task, parks, times, lock, slot, waker, wakes>>

\* The cleanup job: the scheduler takes the lock of the task it left.
ClosureLock ==
  /\ task = "blocked" /\ next = 0 /\ wakes[parks] = 0 /\ waker[<<parks, 1>>] = "none"
  /\ lock = Nobody
  /\ lock' = Closure /\ next' = 1
  /\ UNCHANGED <<task, parks, times, slot, waker, wakes>>

\* f keeps the BlockedTask.
Offer ==
  /\ next \in 1..times
  /\ waker' = [waker EXCEPT ![<<parks, next>>] = "out"]
  /\ next' = next + 1
  /\ UNCHANGED <<task, parks, times, lock, slot, wakes>>

\* Mutant: the task is enqueued although another BlockedTask was woken.
RefuseAnyway ==
  /\ next \in 1..times
  /\ slot' = slot \ {parks} /\ task' = "queued"
  /\ wakes' = [wakes EXCEPT ![parks] = @ + 1]
  /\ next' = times + 1
  /\ UNCHANGED <<parks, times, lock, waker>>

\* f gives it back: the task is enqueued, if it can still be taken out of it,
\* and no more are offered.
Refuse ==
  /\ next \in 1..times
  /\ IF parks \in slot
       THEN /\ slot' = slot \ {parks} /\ task' = "queued"
            /\ wakes' = [wakes EXCEPT ![parks] = @ + 1]
       ELSE UNCHANGED <<slot, task, wakes>>
  /\ next' = times + 1
  /\ UNCHANGED <<parks, times, lock, waker>>

\* The closure returns and the scheduler unlocks.
ClosureUnlock ==
  /\ next > times /\ next > 0
  /\ next' = 0
  /\ lock' = IF lock = Closure THEN Nobody ELSE lock
  /\ UNCHANGED <<task, parks, times, slot, waker, wakes>>

-----------------------------------------------------------------------------
(* A waker h.                                                              *)

\* Mutant: the task is read, not taken.
WakeReads(h) ==
  /\ waker[h] = "out"
  /\ IF h[1] \in slot
       THEN task' = "taken" /\ waker' = [waker EXCEPT ![h] = "has"]
       ELSE waker' = [waker EXCEPT ![h] = "done"] /\ UNCHANGED task
  /\ UNCHANGED <<parks, times, next, lock, slot, wakes>>

\* BlockedTask::wake takes the task out, once for all BlockedTasks of a park.
Wake(h) ==
  /\ waker[h] = "out"
  /\ IF h[1] \in slot
       THEN /\ slot' = slot \ {h[1]} /\ task' = "taken"
            /\ waker' = [waker EXCEPT ![h] = "has"]
       ELSE waker' = [waker EXCEPT ![h] = "done"] /\ UNCHANGED <<slot, task>>
  /\ UNCHANGED <<parks, times, next, lock, wakes>>

\* reawaken on a scheduler of the pool: the task is switched to, or queued
\* where it may run.
ReawakenHere(h) ==
  /\ waker[h] = "has"
  /\ waker' = [waker EXCEPT ![h] = "done"]
  /\ task' \in {"bouncing", "queued"}
  /\ wakes' = [wakes EXCEPT ![h[1]] = @ + 1]
  /\ UNCHANGED <<parks, times, next, lock, slot>>

\* reawaken_remotely: lock the task, send it through the handle it contains,
\* unlock it.
RemoteLock(h) ==
  /\ waker[h] = "has" /\ lock = Nobody
  /\ lock' = h /\ waker' = [waker EXCEPT ![h] = "locked"]
  /\ UNCHANGED <<task, parks, times, next, slot, wakes>>

RemoteSend(h) ==
  /\ waker[h] = "locked"
  /\ task' = "queued" /\ waker' = [waker EXCEPT ![h] = "sent"]
  /\ wakes' = [wakes EXCEPT ![h[1]] = @ + 1]
  /\ UNCHANGED <<parks, times, next, lock, slot>>

RemoteUnlock(h) ==
  /\ waker[h] = "sent"
  /\ lock' = Nobody /\ waker' = [waker EXCEPT ![h] = "done"]
  /\ UNCHANGED <<task, parks, times, next, slot, wakes>>

-----------------------------------------------------------------------------
(* A scheduler resumes the task.                                           *)

Resume ==
  /\ task = "queued"
  /\ task' = "bouncing"
  /\ UNCHANGED <<parks, times, next, lock, slot, waker, wakes>>

\* Mutant: the task does not bounce.
BounceNot ==
  /\ task = "bouncing"
  /\ task' = "running"
  /\ UNCHANGED <<parks, times, next, lock, slot, waker, wakes>>

\* Resumption bounces on the lock: it waits until it is free.
Bounce ==
  /\ task = "bouncing" /\ lock = Nobody
  /\ task' = "running"
  /\ UNCHANGED <<parks, times, next, lock, slot, waker, wakes>>

\* The task ends; lock and handle go with it.
Terminate ==
  /\ task = "running"
  /\ task' = "dead"
  /\ UNCHANGED <<parks, times, next, lock, slot, waker, wakes>>

-----------------------------------------------------------------------------
Waker(h) ==
  \/ Wake(h)
  \/ ReawakenHere(h)
  \/ RemoteLock(h)
  \/ RemoteSend(h)
  \/ RemoteUnlock(h)

CleanupJob == ClosureLock \/ Offer \/ Refuse \/ ClosureUnlock
Over == (\A h \in Parks \X Handles : waker[h] \in {"none", "done"}) /\ task = "dead" /\ UNCHANGED vars

Next ==
  \/ \E n \in Handles : Switch(n)
  \/ CleanupJob
  \/ \E h \in Parks \X Handles : Waker(h)
  \/ Resume
  \/ Bounce
  \/ Terminate
  \/ Over

\* Every thread goes on, and a BlockedTask that is given away is woken.
Fairness ==
  /\ WF_vars(CleanupJob) /\ WF_vars(Resume) /\ WF_vars(Bounce)
  /\ \A h \in Parks \X Handles : WF_vars(Waker(h))

Spec == Init /\ [][Next]_vars /\ Fairness

-----------------------------------------------------------------------------
(* Properties.                                                             *)

\* A task that runs, or is freed, is nobody else's: the closure has returned
\* and no waker has it or uses its lock or its handle.
AloneWhenRunning ==
  task \in {"running", "dead"} =>
    next = 0 /\ \A h \in Parks \X Handles : waker[h] \notin {"has", "locked", "sent"}

\* However many BlockedTasks a select gave out, and whenever they are woken,
\* each park ends once, and a BlockedTask of an old park never ends a new one.
WokenOnce ==
  /\ \A p \in Parks : wakes[p] <= 1
  /\ task \in {"running", "dead"} => \A p \in 1..parks : wakes[p] = 1

\* The green task keeps the promise of deschedule and reawaken.
P == INSTANCE Parking WITH
       parked <- task \notin {"running", "dead"},
       closure <- next > 0 \/ (task = "blocked" /\ waker[<<parks, 1>>] = "none"),
       woken <- task \in {"taken", "queued", "bouncing"}
Contract == P!Spec
=============================================================================

----------------------------- MODULE SimpleTask -----------------------------
(***************************************************************************)
(* SimpleTask (simple.rs): the task of a thread that runs a scheduler, and *)
(* of a thread that uses a pool from outside, parks on a mutex and a       *)
(* condition variable.  Each park gives out one BlockedTask, which some    *)
(* other thread wakes.                                                     *)
(***************************************************************************)
EXTENDS Naturals

CONSTANT MaxParks    \* bound: calls of deschedule

BoundAssumption == MaxParks \in Nat

VARIABLES pc,      \* where the task's thread is
          lock,    \* SimpleTask.lock: nobody, the task, or a waker
          awoken,  \* SimpleTask.awoken
          parks,   \* calls of deschedule so far
          waker,   \* the waker of each park
          bad      \* the wrong holder, or a task that was not there to be woken

vars == <<pc, lock, awoken, parks, waker, bad>>

Parks == 1..MaxParks
Free == 0
Task == MaxParks + 1
PC == {"running", "entering", "closure", "waiting", "signalled", "refused"}

\* The state and its types: the thread has the lock from the start of the
\* closure on, but while it waits for the condition variable or for the lock.
TypeOK ==
  /\ pc \in PC /\ lock \in 0..MaxParks + 1
  /\ awoken \in BOOLEAN /\ parks \in 0..MaxParks /\ bad \in BOOLEAN
  /\ waker \in [Parks -> {"none", "has", "locked", "signalling", "done"}]
  /\ (lock = Task) <=> (pc \in {"closure", "refused"})
  /\ \A w \in Parks : (lock = w) <=> (waker[w] \in {"locked", "signalling"})

Init ==
  /\ pc = "running" /\ lock = Free /\ awoken = FALSE /\ parks = 0 /\ bad = FALSE
  /\ waker = [w \in Parks |-> "none"]

-----------------------------------------------------------------------------
(* deschedule.                                                             *)

Deschedule ==
  /\ pc = "running" /\ parks < MaxParks
  /\ pc' = "entering" /\ parks' = parks + 1
  /\ UNCHANGED <<lock, awoken, waker, bad>>

\* Mutant: a wake-up of an earlier park is still in the flag.
LockKeeps ==
  /\ pc = "entering" /\ lock = Free
  /\ lock' = Task /\ pc' = "closure"
  /\ UNCHANGED <<parks, waker, awoken, bad>>

Lock ==
  /\ pc = "entering" /\ lock = Free
  /\ lock' = Task /\ awoken' = FALSE /\ pc' = "closure"
  /\ UNCHANGED <<parks, waker, bad>>

\* The closure keeps the BlockedTask: somebody will wake the task.  The thread
\* waits, which releases the lock, unless the flag is set.
ClosureOk ==
  /\ pc = "closure"
  /\ waker' = [waker EXCEPT ![parks] = "has"]
  /\ lock' = Free
  /\ pc' = IF awoken THEN "running" ELSE "waiting"
  /\ UNCHANGED <<awoken, parks, bad>>

\* The closure gives the BlockedTask back.
ClosureErr ==
  /\ pc = "closure"
  /\ pc' = "refused"
  /\ UNCHANGED <<lock, awoken, parks, waker, bad>>

ReturnRefused ==
  /\ pc = "refused"
  /\ lock' = Free /\ pc' = "running"
  /\ UNCHANGED <<awoken, parks, waker, bad>>

\* wait may return without a signal.
SpuriousWake ==
  /\ pc = "waiting"
  /\ pc' = "signalled"
  /\ UNCHANGED <<lock, awoken, parks, waker, bad>>

\* wait has the lock again: the flag is looked at.
\* Mutant: it is not.
RelockIf ==
  /\ pc = "signalled" /\ lock = Free
  /\ pc' = "running"
  /\ UNCHANGED <<lock, awoken, parks, waker, bad>>

Relock ==
  /\ pc = "signalled" /\ lock = Free
  /\ pc' = IF awoken THEN "running" ELSE "waiting"
  /\ UNCHANGED <<lock, awoken, parks, waker, bad>>

-----------------------------------------------------------------------------
(* reawaken, on the thread of waker w.                                     *)

WakerLock(w) ==
  /\ waker[w] = "has" /\ lock = Free
  /\ lock' = w /\ waker' = [waker EXCEPT ![w] = "locked"]
  /\ bad' = (bad \/ w # parks \/ pc = "running")
  /\ UNCHANGED <<pc, awoken, parks>>

Signal(w) ==
  /\ waker[w] = "locked"
  /\ awoken' = TRUE
  /\ pc' = IF pc = "waiting" THEN "signalled" ELSE pc
  /\ waker' = [waker EXCEPT ![w] = "signalling"]
  /\ UNCHANGED <<lock, parks, bad>>

WakerUnlock(w) ==
  /\ waker[w] = "signalling"
  /\ lock' = Free /\ waker' = [waker EXCEPT ![w] = "done"]
  /\ UNCHANGED <<pc, awoken, parks, bad>>

-----------------------------------------------------------------------------
Proceed == Lock \/ ClosureOk \/ ClosureErr \/ ReturnRefused \/ Relock
Waker(w) == WakerLock(w) \/ Signal(w) \/ WakerUnlock(w)
Over == pc = "running" /\ parks = MaxParks /\ (\A w \in Parks : waker[w] \in {"none", "done"}) /\ UNCHANGED vars

Next ==
  \/ Deschedule
  \/ Lock
  \/ ClosureOk
  \/ ClosureErr
  \/ ReturnRefused
  \/ SpuriousWake
  \/ Relock
  \/ \E w \in Parks : Waker(w)
  \/ Over

\* The thread runs whenever it can, spurious wake-ups do not keep the waker out
\* of the lock, and who has the task wakes it.
Fairness == WF_vars(Proceed) /\ SF_vars(\E w \in Parks : Waker(w))

Spec == Init /\ [][Next]_vars /\ Fairness

-----------------------------------------------------------------------------
(* Properties.                                                             *)

\* Whoever wakes the task finds it parked, in the park it was given out in, and
\* the task does not go on - and free its lock - before the waker is out of it.
WakersOnly ==
  /\ ~bad
  /\ \A w \in Parks : waker[w] \in {"has", "locked", "signalling"} =>
       pc # "running" /\ (w = parks)

\* SimpleTask keeps the promise of deschedule and reawaken.
P == INSTANCE Parking WITH
       parked <- pc # "running",
       closure <- pc \in {"entering", "closure"},
       woken <- pc = "refused" \/ (pc \in {"waiting", "signalled"} /\ awoken)
Contract == P!Spec
=============================================================================

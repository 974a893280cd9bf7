------------------------------ MODULE UvQueue ------------------------------
(***************************************************************************)
(* The queue that brings tasks home to a libuv loop (queue.rs), and the    *)
(* teardown of that loop (EventLoop::drop).  Every I/O object holds a      *)
(* Queue.  The loop counts them, by messages in the very queue they share, *)
(* and may end when the count is 0; the shared State, which owns the libuv *)
(* handle, is kept by an Arc that is counted apart from that.              *)
(*                                                                         *)
(* push and clone and drop run on the thread of the task that has the      *)
(* object, each statement that touches shared state being a step.  A push  *)
(* on the mpsc queue is two steps: the node is reserved, then linked, and  *)
(* pop finds the queue Inconsistent in between.                            *)
(***************************************************************************)
EXTENDS Integers, SequencesExt, FiniteSets

CONSTANTS Queues,        \* the Queue objects
          Nobody,        \* not a Queue
          RemoteClones   \* TRUE when other threads than the loop's clone a Queue

QueuesAssumption == Nobody \notin Queues /\ RemoteClones \in BOOLEAN

VARIABLES qpc,     \* where the task that has each Queue is
          cloned,  \* the new Queue of a clone in progress
          queue,   \* State.queue: reserved nodes in order, linked or not
          pend,    \* a send to the libuv handle is pending
          refcnt,  \* QueuePool.refcnt; the handle keeps the loop alive unless 0
          stage,   \* where the thread of the loop is
          waking,  \* the Queue whose task async_cb is resuming
          handle,  \* the libuv handle: open, closing, closed, freed
          failed   \* EventLoop::drop could not close the loop

loopv == <<refcnt, stage, waking>>
vars == <<qpc, cloned, queue, pend, refcnt, stage, waking, handle, failed>>

\* idle: not in an operation; away: descheduled, on its way to the loop;
\* push, clone, drop: inside that operation; cloning: what a clone is making.
QPC == {"none", "cloning", "idle", "pushReserved", "pushLinked", "away", "cloneReserved",
        "dropLocked", "dropReserved", "dropLinked", "dropSent", "dropUnlocked", "gone"}

\* Those that count, from the Increment to the Decrement.
Live == {"cloning", "idle", "pushReserved", "pushLinked", "away", "cloneReserved", "dropLocked"}

\* cb, resume, lock: in async_cb.  The rest from exited on is EventLoop::drop.
Stage == {"poll", "cb", "resume", "lock", "exited", "dropped", "pumped", "freed"}

Node == [msg : {"Task", "Increment", "Decrement"}, by : Queues, linked : BOOLEAN]

\* Every variable is typed; in particular the unsigned refcnt never wraps.
TypeOK ==
  /\ qpc \in [Queues -> QPC]
  /\ cloned \in [Queues -> Queues]
  /\ queue \in Seq(Node)
  /\ pend \in BOOLEAN
  /\ refcnt \in Nat
  /\ stage \in Stage
  /\ waking \in Queues \cup {Nobody}
  /\ handle \in {"open", "closing", "closed", "freed"}
  /\ failed \in BOOLEAN

(* QueuePool::new *)
Init ==
  /\ qpc = [q \in Queues |-> "none"]
  /\ cloned = [q \in Queues |-> q]
  /\ queue = <<>> /\ pend = FALSE
  /\ refcnt = 0 /\ stage = "poll"
  /\ waking = Nobody
  /\ handle = "open" /\ failed = FALSE

-----------------------------------------------------------------------------
(* The parts of an operation. *)

(* mpsc::Queue::push: the first half, ... *)
Reserve(q, m) == queue' = Append(queue, [msg |-> m, by |-> q, linked |-> FALSE])

(* ... and the second. *)
Link(q) == queue' = [i \in DOMAIN queue |->
                       IF queue[i].by = q THEN [queue[i] EXCEPT !.linked = TRUE] ELSE queue[i]]

(* uv_async_send *)
Send == pend' = TRUE

Step(q, from, to) == qpc[q] = from /\ qpc' = [qpc EXCEPT ![q] = to]

(* The lock of State, which a drop holds from before its push to after its send. *)
LockFree == \A q \in Queues : qpc[q] \notin {"dropLocked", "dropReserved", "dropLinked", "dropSent"}

(* Who has a clone of the Arc<State> besides the pool. *)
ArcHeld == \E q \in Queues : qpc[q] \notin {"none", "gone"}

(* Drop for State, when the last Arc goes. *)
Closing(last) == handle' = IF last /\ handle = "open" THEN "closing" ELSE handle

-----------------------------------------------------------------------------
(* Operations on a Queue. *)

(* QueuePool::queue, by a task on the loop. *)
NewQueue(q) ==
  /\ stage = "poll"
  /\ Step(q, "none", "idle")
  /\ refcnt' = refcnt + 1
  /\ UNCHANGED <<cloned, queue, pend, stage, waking, handle, failed>>

(* Queue::push, in the closure of the deschedule of go_home. *)
PushReserve(q) ==
  /\ Step(q, "idle", "pushReserved") /\ Reserve(q, "Task")
  /\ UNCHANGED <<cloned, pend, loopv, handle, failed>>
PushLink(q) ==
  /\ Step(q, "pushReserved", "pushLinked") /\ Link(q)
  /\ UNCHANGED <<cloned, pend, loopv, handle, failed>>

\* Mutant: only the first task in the queue is announced.
PushSendFirst(q) ==
  /\ Step(q, "pushLinked", "away")
  /\ IF Len(queue) > 1 THEN UNCHANGED pend ELSE Send
  /\ UNCHANGED <<cloned, queue, loopv, handle, failed>>

PushSend(q) ==
  /\ Step(q, "pushLinked", "away") /\ Send
  /\ UNCHANGED <<cloned, queue, loopv, handle, failed>>

(* Clone for Queue, on another thread than the loop's: no signal. *)
CloneReserve(q, c) ==
  /\ RemoteClones /\ qpc[q] = "idle" /\ qpc[c] = "none"
  /\ qpc' = [qpc EXCEPT ![q] = "cloneReserved", ![c] = "cloning"]
  /\ Reserve(q, "Increment")
  /\ cloned' = [cloned EXCEPT ![q] = c]
  /\ UNCHANGED <<pend, loopv, handle, failed>>
CloneLink(q) ==
  /\ qpc[q] = "cloneReserved"
  /\ qpc' = [qpc EXCEPT ![q] = "idle", ![cloned[q]] = "idle"]
  /\ Link(q)
  /\ UNCHANGED <<cloned, pend, loopv, handle, failed>>

\* Mutant: a clone is not counted.
CloneHereUncounted(q, c) ==
  /\ stage = "poll" /\ qpc[q] = "idle" /\ qpc[c] = "none"
  /\ qpc' = [qpc EXCEPT ![c] = "idle"]
  /\ UNCHANGED <<cloned, queue, pend, loopv, handle, failed>>

(* Clone for Queue, in a callback of the loop (listen_cb). *)
CloneHere(q, c) ==
  /\ stage = "poll" /\ qpc[q] = "idle" /\ qpc[c] = "none"
  /\ qpc' = [qpc EXCEPT ![c] = "idle"]
  /\ queue' = Append(queue, [msg |-> "Increment", by |-> q, linked |-> TRUE])
  /\ UNCHANGED <<cloned, pend, loopv, handle, failed>>

(* Drop for Queue. *)
DropLock(q) ==
  /\ LockFree /\ Step(q, "idle", "dropLocked")
  /\ UNCHANGED <<cloned, queue, pend, loopv, handle, failed>>
DropReserve(q) ==
  /\ Step(q, "dropLocked", "dropReserved") /\ Reserve(q, "Decrement")
  /\ UNCHANGED <<cloned, pend, loopv, handle, failed>>
DropLink(q) ==
  /\ Step(q, "dropReserved", "dropLinked") /\ Link(q)
  /\ UNCHANGED <<cloned, pend, loopv, handle, failed>>
DropSend(q) ==
  /\ Step(q, "dropLinked", "dropSent") /\ Send
  /\ UNCHANGED <<cloned, queue, loopv, handle, failed>>
DropUnlock(q) ==
  /\ Step(q, "dropSent", "dropUnlocked")
  /\ UNCHANGED <<cloned, queue, pend, loopv, handle, failed>>

\* Mutant: the clone of the Arc is forgotten.
DropArcLeaks(q) ==
  /\ Step(q, "dropUnlocked", "gone")
  /\ UNCHANGED <<cloned, queue, pend, loopv, handle, failed>>

(* The fields of the Queue go after drop() has returned and unlocked: the   *)
(* Arc<State>.                                                             *)
DropArc(q) ==
  /\ Step(q, "dropUnlocked", "gone")
  /\ Closing(stage \in {"dropped", "pumped", "freed"} /\ \A p \in Queues : qpc'[p] \in {"none", "gone"})
  /\ UNCHANGED <<cloned, queue, pend, loopv, failed>>

-----------------------------------------------------------------------------
(* async_cb, on the loop. *)

Dispatch ==
  /\ stage = "poll" /\ pend
  /\ pend' = FALSE /\ stage' = "cb"
  /\ UNCHANGED <<qpc, cloned, queue, refcnt, waking, handle, failed>>

\* Mutant: an Increment only references the handle.
PopIgnoresIncrement ==
  /\ stage = "cb" /\ queue # <<>> /\ Head(queue).linked
  /\ queue' = Tail(queue)
  /\ CASE Head(queue).msg = "Task" ->
            stage' = "resume" /\ waking' = Head(queue).by /\ UNCHANGED refcnt
       [] Head(queue).msg = "Increment" ->
            refcnt' = (IF refcnt = 0 THEN 1 ELSE refcnt) /\ UNCHANGED <<stage, waking>>
       [] Head(queue).msg = "Decrement" ->
            refcnt' = refcnt - 1 /\ UNCHANGED <<stage, waking>>
  /\ UNCHANGED <<qpc, cloned, pend, handle, failed>>

Pop ==
  /\ stage = "cb" /\ queue # <<>> /\ Head(queue).linked
  /\ queue' = Tail(queue)
  /\ CASE Head(queue).msg = "Task" ->
            stage' = "resume" /\ waking' = Head(queue).by /\ UNCHANGED refcnt
       [] Head(queue).msg = "Increment" ->
            refcnt' = refcnt + 1 /\ UNCHANGED <<stage, waking>>
       [] Head(queue).msg = "Decrement" ->
            refcnt' = refcnt - 1 /\ UNCHANGED <<stage, waking>>
  /\ UNCHANGED <<qpc, cloned, pend, handle, failed>>

(* The task is resumed; its deschedule lock makes that wait for the end of  *)
(* the closure it went away in.                                            *)
Resume ==
  /\ stage = "resume" /\ Step(waking, "away", "idle")
  /\ stage' = "cb"
  /\ waking' = Nobody
  /\ UNCHANGED <<cloned, queue, pend, refcnt, handle, failed>>

\* Mutant: the callback returns without waiting for producers.
PopNothingHasty ==
  /\ stage = "cb" /\ (queue # <<>> => ~Head(queue).linked)
  /\ stage' = "poll"
  /\ UNCHANGED <<qpc, cloned, queue, pend, refcnt, waking, handle, failed>>

(* Empty or Inconsistent ends the loop over the queue. *)
PopNothing ==
  /\ stage = "cb" /\ (queue # <<>> => ~Head(queue).linked)
  /\ stage' = IF refcnt = 0 THEN "lock" ELSE "poll"
  /\ UNCHANGED <<qpc, cloned, queue, pend, refcnt, waking, handle, failed>>

(* With nothing counted, wait until no producer is in the middle of a drop. *)
TakeLock ==
  /\ stage = "lock" /\ LockFree
  /\ stage' = "poll"
  /\ UNCHANGED <<qpc, cloned, queue, pend, refcnt, waking, handle, failed>>

-----------------------------------------------------------------------------
(* The end of the loop. *)

(* uv_run returns: nothing else keeps the loop and the handle is not referenced. *)
Exit ==
  /\ stage = "poll" /\ refcnt = 0
  /\ stage' = "exited"
  /\ UNCHANGED <<qpc, cloned, queue, pend, refcnt, waking, handle, failed>>

(* EventLoop::drop: the pool goes, and with the last Arc the handle; ... *)
DropPool ==
  /\ stage = "exited"
  /\ stage' = "dropped"
  /\ Closing(~ArcHeld)
  /\ UNCHANGED <<qpc, cloned, queue, pend, refcnt, waking, failed>>

(* ... the loop is pumped once, ... *)
Pump ==
  /\ stage = "dropped"
  /\ stage' = "pumped"
  /\ handle' = IF handle = "closing" THEN "closed" ELSE handle
  /\ UNCHANGED <<qpc, cloned, queue, pend, refcnt, waking, failed>>

(* ... and closed, which fails if a handle is not; the handle is freed.     *)
CloseLoop ==
  /\ stage = "pumped"
  /\ IF handle = "closed"
     THEN stage' = "freed" /\ handle' = "freed" /\ UNCHANGED failed
     ELSE failed' = TRUE /\ UNCHANGED <<stage, handle>>
  /\ UNCHANGED <<qpc, cloned, queue, pend, refcnt, waking>>

-----------------------------------------------------------------------------
LoopStep == Dispatch \/ Pop \/ Resume \/ PopNothing \/ TakeLock \/ DropPool \/ Pump \/ CloseLoop

GoOn(q) == \/ PushLink(q) \/ PushSend(q) \/ CloneLink(q) \/ DropReserve(q)
           \/ DropLink(q) \/ DropSend(q) \/ DropUnlock(q) \/ DropArc(q)

Begin(q) == \/ NewQueue(q) \/ PushReserve(q) \/ DropLock(q)
            \/ \E c \in Queues : CloneReserve(q, c) \/ CloneHere(q, c)

\* The loop is gone, or waits for a signal.
Over == (stage = "freed" \/ failed \/ (stage = "poll" /\ ~pend)) /\ UNCHANGED vars

Next == \/ ~failed /\ (LoopStep \/ Exit)
        \/ ~failed /\ \E q \in Queues : GoOn(q) \/ Begin(q)
        \/ Over

Spec == Init /\ [][Next]_vars

\* The loop runs, and an operation that was begun goes on.
Fairness == /\ WF_vars(~failed /\ LoopStep)
            /\ \A q \in Queues : WF_vars(~failed /\ GoOn(q))

FairSpec == Spec /\ Fairness

-----------------------------------------------------------------------------
(* Properties *)

Count(m) == Cardinality({i \in DOMAIN queue : queue[i].msg = m})

\* The count and the messages that will change it always add up to the Queues
\* there are (a clone counts from its Increment on): the loop neither ends too
\* early nor lives for ever.
CountExact ==
  refcnt + Count("Increment") - Count("Decrement") = Cardinality({q \in Queues : qpc[q] \in Live})

Ended == stage \in {"exited", "dropped", "pumped", "freed"}

\* A HomeHandle keeps the loop alive "in order to ensure that a homing operation
\* can always be completed" (homing.rs 42-44): the loop has not ended while there
\* is a Queue that could bring a task to it, even one the loop knows only from
\* an Increment it has not seen.
LoopAlive == Ended => \A q \in Queues : qpc[q] \notin Live

\* When the loop ends, no producer is between its Decrement and its signal
\* (queue.rs 85-98), which would reach a handle without a loop.
SignalledBeforeExit == Ended => \A q \in Queues : qpc[q] \notin {"dropReserved", "dropLinked"}

\* EventLoop::drop finds its handle closed and succeeds, the unwrap of
\* uv_loop.close() does not panic: with the lock acquired "we are guaranteed that
\* there are no longer any senders which are holding on to their handles, so we
\* can safely allow the event loop to exit" (queue.rs 96-98).
TeardownSucceeds == ~failed

\* It fails for one reason only: when the pool went, or later still, a drop that
\* had unlocked held on to its clone of the Arc, and with it to the handle.
TeardownFailsLate ==
  failed => handle = "closing" \/ \E q \in Queues : qpc[q] = "dropUnlocked"

\* A task that was sent home is resumed there.
TasksComeHome == \A q \in Queues : qpc[q] = "away" ~> qpc[q] = "idle"
=============================================================================

------------------------------ MODULE UvAccept ------------------------------
(***************************************************************************)
(* Accepting connections: AcceptTimeout (timeout.rs) as the acceptors of   *)
(* tcp.rs and pipe.rs use it.  listen_cb pushes what libuv accepted; tasks *)
(* take it under the Access they share, poll for it when their timeout has *)
(* elapsed, or block until a push, a timeout or a close wakes them.        *)
(*                                                                         *)
(* All of it runs on the thread of the listener's loop, and a wake-up      *)
(* gives the thread to the woken task at once: `cur' has it.  An accept    *)
(* whose timeout elapses while it waits for access drops a guard that it   *)
(* does not own, and another one gets to be the blocked acceptor.          *)
(***************************************************************************)
EXTENDS Naturals, SequencesExt

CONSTANTS Handles,     \* the AcceptTimeouts that may be clones of one acceptor
          None,        \* no handle: the event loop has the thread, nobody is blocked
          MaxArrivals  \* bound: results that listen_cb pushes

AcceptAssumption == None \notin Handles /\ MaxArrivals \in Nat

VARIABLES patient,   \* no timeout elapses during a wait for access, in this behaviour
          cur,       \* the handle whose task has the thread, or None
          pc,        \* where that task is
          state,     \* State and Client of its AccessTimeout
          timer,     \* its timer, stopped when there is none
          held,      \* Inner.held of the shared Access
          queue,     \* Inner.queue
          closed,    \* Inner.closed
          blocked,   \* AcceptorState.blocked_acceptor
          pending,   \* AcceptorState.pending
          arrived,   \* how many results listen_cb has pushed; they are numbered
          taken,     \* the results that were removed from pending, in order
          result,    \* how the last accept that returned ended
          failed     \* unreachable!() or an assertion was reached

accessv == <<held, queue>>
vars == <<patient, cur, pc, state, timer, held, queue, closed, blocked, pending, arrived, taken, result, failed>>

PC == {"absent", "idle", "queued", "granted", "blocked", "woken"}
State == {"NoTimeout", "NoWaiter", "AccessPending", "RequestPending", "TimedOut"}
Result == {"none", "conn", "EOF", "ECANCELED"}

\* Every variable is typed, and blocked_acceptor names a task that blocked.
TypeOK ==
  /\ patient \in BOOLEAN
  /\ cur \in Handles \cup {None} /\ pc \in [Handles -> PC] /\ state \in [Handles -> State]
  /\ timer \in [Handles -> {"stopped", "started"}] /\ result \in Result
  /\ held \in BOOLEAN /\ queue \in Seq(Handles) /\ closed \in BOOLEAN /\ failed \in BOOLEAN
  /\ blocked \in Handles \cup {None} /\ pending \in Seq(1..MaxArrivals) /\ arrived \in 0..MaxArrivals
  /\ blocked # None => pc[blocked] = "blocked"

\* The object that is there first; the others become its clones.
First == CHOOSE h \in Handles : TRUE

Init ==
  /\ patient \in BOOLEAN
  /\ cur = None /\ blocked = None /\ arrived = 0 /\ pending = <<>> /\ taken = <<>>
  /\ pc = [h \in Handles |-> IF h = First THEN "idle" ELSE "absent"]
  /\ state = [h \in Handles |-> "NoTimeout"] /\ timer = [h \in Handles |-> "stopped"]
  /\ held = FALSE /\ queue = <<>> /\ closed = FALSE /\ failed = FALSE
  /\ result = "none"

-----------------------------------------------------------------------------
Flag(h, client) ==
  IF state[h] \in {"NoTimeout", "TimedOut"} THEN state ELSE [state EXCEPT ![h] = client]

\* Guard::drop: access passes to the first in the queue, who gets the thread.
Release(h) ==
  IF queue = <<>>
  THEN /\ held' = FALSE /\ cur' = None
       /\ pc' = [pc EXCEPT ![h] = "idle"]
       /\ UNCHANGED queue
  ELSE /\ cur' = Head(queue) /\ queue' = Tail(queue)
       /\ pc' = [pc EXCEPT ![h] = "idle", ![Head(queue)] = "granted"]
       /\ UNCHANGED held

\* Access::dequeue: the first entry of this handle leaves the queue.
Dequeue(h) ==
  IF h \in Range(queue)
  THEN \E i \in 1..Len(queue) : /\ queue[i] = h /\ \A j \in 1..i-1 : queue[j] # h
                                /\ queue' = RemoveAt(queue, i)
  ELSE UNCHANGED queue

\* pending.remove(0): the oldest result, or none.
TakeFirst ==
  IF pending = <<>> THEN UNCHANGED <<pending, taken>>
  ELSE /\ taken' = Append(taken, Head(pending))
       /\ pending' = Tail(pending)
Removed == IF pending = <<>> THEN "ECANCELED" ELSE "conn"

\* The accept of h, which has the guard, returns r.
Return(h, r) ==
  /\ result' = r
  /\ state' = Flag(h, "NoWaiter")
  /\ failed' = (failed \/ (pc[h] = "granted" /\ ~held) \/ state[h] = "NoWaiter")
  /\ Release(h)

-----------------------------------------------------------------------------
(* accept.                                                                 *)

\* Mutant: the newest connection is handed out.
PollNewest(h) ==
  /\ cur = None /\ pc[h] = "idle" /\ state[h] = "TimedOut" /\ ~closed
  /\ result' = Removed
  /\ IF pending = <<>> THEN UNCHANGED <<pending, taken>>
     ELSE taken' = Append(taken, Last(pending)) /\ pending' = Front(pending)
  /\ UNCHANGED <<cur, pc, state, timer, accessv, closed, blocked, arrived, failed>>

\* After the timeout, and while the acceptor is open, accept only polls.
Poll(h) ==
  /\ cur = None /\ pc[h] = "idle" /\ state[h] = "TimedOut" /\ ~closed
  /\ result' = Removed
  /\ TakeFirst
  /\ UNCHANGED <<cur, pc, state, timer, accessv, closed, blocked, arrived, failed>>

\* ... and when it is closed, AccessTimeout::grant refuses.
GrantRefused(h) ==
  /\ cur = None /\ pc[h] = "idle" /\ state[h] = "TimedOut" /\ closed
  /\ result' = "ECANCELED"
  /\ UNCHANGED <<cur, pc, state, timer, accessv, closed, blocked, pending, arrived, taken, failed>>

Grant(h) ==
  /\ cur = None /\ pc[h] = "idle" /\ state[h] # "TimedOut"
  /\ state' = Flag(h, "AccessPending")
  /\ IF held
     THEN /\ queue' = Append(queue, h)
          /\ pc' = [pc EXCEPT ![h] = "queued"]
          /\ UNCHANGED <<cur, held>>
     ELSE /\ held' = TRUE /\ cur' = h
          /\ pc' = [pc EXCEPT ![h] = "granted"]
          /\ UNCHANGED queue
  /\ UNCHANGED <<timer, closed, blocked, pending, arrived, taken, result, failed>>

\* The timeout elapsed during the wait for access: AccessTimeout::grant drops the
\* guard that Access::grant gave it.
GrantTimedOut(h) ==
  /\ cur = h /\ pc[h] = "granted" /\ state[h] = "TimedOut"
  /\ result' = "ECANCELED"
  /\ failed' = (failed \/ ~held)
  /\ Release(h)
  /\ UNCHANGED <<state, timer, closed, blocked, pending, arrived, taken>>

Granted(h) == cur = h /\ pc[h] = "granted" /\ state[h] # "TimedOut"

\* Access is granted and the acceptor is closed.
AcceptClosed(h) ==
  /\ Granted(h) /\ closed
  /\ Return(h, "EOF")
  /\ UNCHANGED <<timer, closed, blocked, pending, arrived, taken>>

\* Access is granted and a connection is there.
AcceptNow(h) ==
  /\ Granted(h) /\ ~closed /\ pending # <<>>
  /\ TakeFirst
  /\ Return(h, "conn")
  /\ UNCHANGED <<timer, closed, blocked, arrived>>

\* Access is granted and no connection is there: block, in the place of whoever
\* is blocked, whose BlockedTask is dropped.
AcceptBlock(h) ==
  /\ Granted(h) /\ ~closed /\ pending = <<>>
  /\ state' = Flag(h, "RequestPending")
  /\ blocked' = h /\ cur' = None
  /\ pc' = [pc EXCEPT ![h] = "blocked"]
  /\ failed' = (failed \/ ~held)
  /\ UNCHANGED <<timer, accessv, closed, pending, arrived, taken, result>>

\* The task is woken: it takes the oldest result, and throws it away when the
\* acceptor is closed.
Woken(h) ==
  /\ cur = h /\ pc[h] = "woken"
  /\ TakeFirst
  /\ Return(h, IF closed THEN "EOF" ELSE Removed)
  /\ UNCHANGED <<timer, closed, blocked, arrived>>

-----------------------------------------------------------------------------
(* Who wakes the acceptor.                                                 *)

\* blocked_acceptor.take().map(reawaken).
Wake ==
  IF blocked = None THEN UNCHANGED <<cur, pc, blocked>>
  ELSE /\ pc' = [pc EXCEPT ![blocked] = "woken"]
       /\ cur' = blocked /\ blocked' = None

\* Mutant: a push wakes nobody.
ListenCbSilent ==
  /\ cur = None /\ arrived < MaxArrivals
  /\ arrived' = arrived + 1
  /\ pending' = Append(pending, arrived')
  /\ UNCHANGED <<cur, pc, blocked, state, timer, accessv, closed, taken, result, failed>>

\* listen_cb: a connection, or an error, is pushed.
ListenCb ==
  /\ cur = None /\ arrived < MaxArrivals
  /\ arrived' = arrived + 1
  /\ pending' = Append(pending, arrived')
  /\ Wake
  /\ UNCHANGED <<state, timer, accessv, closed, taken, result, failed>>

\* Mutant: the elapsed timeout is only remembered.
TimerCbSilent(h) ==
  /\ cur = None /\ timer[h] = "started" /\ state[h] # "AccessPending"
  /\ timer' = [timer EXCEPT ![h] = "stopped"]
  /\ state' = [state EXCEPT ![h] = "TimedOut"]
  /\ UNCHANGED <<accessv, closed, pending, arrived, taken, result, failed, cur, pc, blocked>>

\* timer_cb: cancel_accept takes the blocked acceptor, who must be there.
TimerCb(h) ==
  /\ cur = None /\ timer[h] = "started" /\ state[h] # "AccessPending"
  /\ timer' = [timer EXCEPT ![h] = "stopped"]
  /\ state' = [state EXCEPT ![h] = "TimedOut"]
  /\ failed' = (failed \/ state[h] \in {"TimedOut", "NoTimeout"}
                       \/ (state[h] = "RequestPending" /\ blocked = None))
  /\ IF state[h] = "RequestPending" THEN Wake ELSE UNCHANGED <<cur, pc, blocked>>
  /\ UNCHANGED <<accessv, closed, pending, arrived, taken, result>>

\* timer_cb when h waits for access: Access::dequeue, and the task is woken.
TimerQueued(h) ==
  /\ ~patient
  /\ cur = None /\ timer[h] = "started" /\ state[h] = "AccessPending"
  /\ timer' = [timer EXCEPT ![h] = "stopped"]
  /\ state' = [state EXCEPT ![h] = "TimedOut"]
  /\ failed' = (failed \/ h \notin Range(queue))
  /\ Dequeue(h)
  /\ pc' = [pc EXCEPT ![h] = "granted"] /\ cur' = h
  /\ UNCHANGED <<held, closed, blocked, pending, arrived, taken, result>>

\* Mutant: closing only marks the acceptor.
CloseLazy(h) ==
  /\ cur = None /\ pc[h] = "idle"
  /\ closed' = TRUE
  /\ UNCHANGED <<state, timer, accessv, pending, arrived, taken, result, failed, cur, pc, blocked>>

Close(h) ==
  /\ cur = None /\ pc[h] = "idle"
  /\ closed' = TRUE
  /\ Wake
  /\ UNCHANGED <<state, timer, accessv, pending, arrived, taken, result, failed>>

-----------------------------------------------------------------------------
(* Other operations on a handle.                                           *)

SetTimeout(h) ==
  /\ cur = None /\ pc[h] = "idle"
  /\ \/ /\ state' = [state EXCEPT ![h] = "NoWaiter"]
        /\ timer' = [timer EXCEPT ![h] = "started"]
     \/ /\ state' = [state EXCEPT ![h] = "NoTimeout"]
        /\ timer' = [timer EXCEPT ![h] = "stopped"]
  /\ UNCHANGED <<cur, pc, accessv, closed, blocked, pending, arrived, taken, result, failed>>

\* The clone shares the Access and has no timeout.
Clone(h, g) ==
  /\ pc[h] = "idle" /\ pc[g] = "absent"
  /\ pc' = [pc EXCEPT ![g] = "idle"]
  /\ state' = [state EXCEPT ![g] = "NoTimeout"]
  /\ UNCHANGED <<cur, timer, accessv, closed, blocked, pending, arrived, taken, result, failed>>

\* The timer goes with its handle; the last handle closes the listener, and
\* the Access asserts that nobody holds it.
DropHandle(h) ==
  /\ pc[h] = "idle"
  /\ pc' = [pc EXCEPT ![h] = "absent"]
  /\ timer' = [timer EXCEPT ![h] = "stopped"] /\ state' = [state EXCEPT ![h] = "NoTimeout"]
  /\ failed' = (failed \/ ((\A g \in Handles \ {h} : pc[g] = "absent") /\ (held \/ queue # <<>>)))
  /\ UNCHANGED <<cur, accessv, closed, blocked, pending, arrived, taken, result>>

-----------------------------------------------------------------------------
Resume(h) == GrantTimedOut(h) \/ AcceptClosed(h) \/ AcceptNow(h) \/ AcceptBlock(h) \/ Woken(h)

Call(h) == \/ Poll(h) \/ GrantRefused(h) \/ Grant(h) \/ Close(h) \/ SetTimeout(h)
           \/ DropHandle(h) \/ \E g \in Handles : Clone(h, g)

Gone == \A h \in Handles : pc[h] = "absent"

\* The acceptor is gone, or waits for a connection that does not come.
Stopped == (failed \/ Gone \/ arrived = MaxArrivals) /\ UNCHANGED vars

Next ==
  /\ UNCHANGED patient
  /\ \/ ~failed /\ ~Gone /\ ListenCb
     \/ ~failed /\ \E h \in Handles : TimerCb(h) \/ TimerQueued(h) \/ Resume(h) \/ Call(h)
     \/ Stopped

\* Started timers elapse and a task that has the thread goes on.
Fairness ==
  \A h \in Handles : /\ SF_vars(UNCHANGED patient /\ TimerCb(h))
                     /\ WF_vars(UNCHANGED patient /\ Resume(h))

Spec == Init /\ [][Next]_vars /\ Fairness

-----------------------------------------------------------------------------
(* Properties.                                                             *)

\* Whatever way they leave - an accept that waited, one that did not, the poll
\* of a handle that timed out - connections leave pending in the order they
\* arrived, each of them once.
InOrder == taken \o pending = [i \in 1..arrived |-> i]

\* Nobody sleeps in accept while a connection is there for him: whoever blocked is
\* the one that blocked_acceptor names, and a push, a timeout or the release of
\* access that leaves a connection behind does not leave him blocked.
NoIdleConnection ==
  \A h \in Handles : pc[h] = "blocked" => blocked = h /\ pending = <<>> /\ ~closed

\* The callbacks find what they expect: a timeout that elapses with a request
\* pending finds the acceptor blocked, one that waits for access is in the queue,
\* and the last handle leaves the Access free.
NoUnreachable == ~failed

\* A blocked accept with a timeout returns, when no timeout elapses during a wait
\* for access.
TimeoutReturns ==
  \A h \in Handles :
    (patient /\ pc[h] = "blocked" /\ state[h] = "RequestPending") ~> (pc[h] # "blocked")

\* Closing the acceptor wakes the blocked acceptor and, one after the other,
\* everybody who waits for access, when no timeout elapses during such a wait.
CloseReleases ==
  \A h \in Handles : (patient /\ closed /\ pc[h] \in {"queued", "blocked"}) ~> (pc[h] = "idle")
=============================================================================

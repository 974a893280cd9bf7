------------------------------- MODULE UvRead -------------------------------
(***************************************************************************)
(* The reading half of a duplex stream of librustuv: Tcp and Pipe objects  *)
(* that are clones of each other share one libuv stream, which supports    *)
(* one read at a time.  Access (access.rs) serialises the readers,         *)
(* AccessTimeout (timeout.rs) bounds how long one of them waits, and       *)
(* Stream (stream.rs) issues the read and cancels it.                      *)
(*                                                                         *)
(* Everything runs on the thread of the stream's event loop and nothing    *)
(* preempts it.  `cur' names the handle whose task has the thread, or Loop *)
(* when the event loop has it: waking a task gives it the thread at once   *)
(* (Scheduler::run_task), so a wake-up is a change of `cur' and the waker  *)
(* goes on later.  One action is what runs until the thread changes hands. *)
(* Each handle is used by one task at a time (&mut self), and is named     *)
(* where the code uses its address as a token.                             *)
(***************************************************************************)
EXTENDS Naturals, SequencesExt

CONSTANTS Handles,        \* the Tcp or Pipe objects that may be clones of one stream
          Loop            \* not a handle: the event loop, or no ReadContext

ASSUME HandlesAssumption == Loop \notin Handles

VARIABLES patient, \* no timeout elapses during a wait for access, in this behaviour
          cur,     \* who has the thread
          pc,      \* where the task that uses a handle is
          state,   \* State and Client of each AccessTimeout
          timer,   \* the lazily created timer of each AccessTimeout
          held,    \* Inner.held of the shared Access
          queue,   \* Inner.queue: the handles whose tasks wait for access
          closed,  \* Inner.closed
          data,    \* the libuv handle's data: whose ReadContext it points to
          active,  \* the libuv stream is reading
          result,  \* how the last read that returned ended
          failed   \* an assertion or unreachable!() was reached

accessv == <<held, queue>>
streamv == <<data, active>>
vars == <<patient, cur, pc, state, timer, held, queue, closed, data, active, result, failed>>

\* idle: not in a read; queued: descheduled in Access::grant; granted: past it;
\* reading: descheduled in Stream::read.
PC == {"absent", "idle", "queued", "granted", "reading"}

\* NoTimeout, TimedOut and the three clients of TimeoutPending.
State == {"NoTimeout", "NoWaiter", "AccessPending", "RequestPending", "TimedOut"}

Result == {"none", "data", "error", "EOF", "ECANCELED"}

\* Every variable is typed; an object that is gone has closed its timer.
TypeOK ==
  /\ patient \in BOOLEAN
  /\ cur \in Handles \cup {Loop}
  /\ pc \in [Handles -> PC]
  /\ state \in [Handles -> State]
  /\ timer \in [Handles -> {"none", "stopped", "started"}]
  /\ held \in BOOLEAN
  /\ queue \in Seq(Handles)
  /\ closed \in BOOLEAN
  /\ data \in Handles \cup {Loop}
  /\ active \in BOOLEAN
  /\ result \in Result
  /\ failed \in BOOLEAN
  /\ \A h \in Handles : pc[h] = "absent" => timer[h] = "none"

(* One object exists, from Tcp::new. *)
Init ==
  /\ patient \in BOOLEAN
  /\ cur = Loop
  /\ \E h \in Handles : pc = [g \in Handles |-> IF g = h THEN "idle" ELSE "absent"]
  /\ state = [h \in Handles |-> "NoTimeout"]
  /\ timer = [h \in Handles |-> "none"]
  /\ held = FALSE /\ queue = <<>> /\ closed = FALSE
  /\ data = Loop /\ active = FALSE
  /\ result = "none"
  /\ failed = FALSE

-----------------------------------------------------------------------------
(* What several handlers do. *)

(* A pending timeout is told what its handle waits for. *)
Flag(st, h, client) ==
  IF st[h] \in {"NoTimeout", "TimedOut"} THEN st ELSE [st EXCEPT ![h] = client]

(* access::Guard::drop by h: access goes to the first waiter, who gets the  *)
(* thread, or nobody holds it.                                             *)
Release(h) ==
  IF queue = <<>>
  THEN /\ held' = FALSE /\ cur' = Loop
       /\ pc' = [pc EXCEPT ![h] = "idle"]
       /\ UNCHANGED queue
  ELSE /\ cur' = Head(queue) /\ queue' = Tail(queue)
       /\ pc' = [pc EXCEPT ![h] = "idle", ![Head(queue)] = "granted"]
       /\ UNCHANGED held

(* Access::dequeue: the first entry with this token leaves the queue. *)
Dequeue(h) ==
  IF h \in Range(queue)
  THEN \E i \in 1..Len(queue) : /\ queue[i] = h /\ \A j \in 1..i-1 : queue[j] # h
                                /\ queue' = RemoveAt(queue, i)
  ELSE UNCHANGED queue

(* The task blocked in Stream::read of h is woken with result r: read       *)
(* clears the data, timeout::Guard::drop clears the request (st is the     *)
(* timeout state the callback leaves) and the access guard is dropped.     *)
Finish(h, r, st) ==
  /\ data' = Loop
  /\ result' = r
  /\ state' = Flag(st, h, "NoWaiter")
  /\ failed' = (pc[h] # "reading" \/ st[h] \in {"NoWaiter", "AccessPending"})
  /\ Release(h)

-----------------------------------------------------------------------------
(* A task calls uv_read. *)

\* Mutant: an empty queue is taken for a free stream.
GrantBarges(h) ==
  /\ cur = Loop /\ pc[h] = "idle" /\ state[h] # "TimedOut"
  /\ state' = Flag(state, h, "AccessPending")
  /\ IF queue # <<>>
     THEN /\ queue' = Append(queue, h)
          /\ pc' = [pc EXCEPT ![h] = "queued"]
          /\ UNCHANGED <<cur, held>>
     ELSE /\ held' = TRUE
          /\ pc' = [pc EXCEPT ![h] = "granted"]
          /\ cur' = h
          /\ UNCHANGED queue
  /\ UNCHANGED <<timer, closed, streamv, result, failed>>

(* AccessTimeout::grant up to where Access::grant returns or deschedules.  *)
Grant(h) ==
  /\ cur = Loop /\ pc[h] = "idle" /\ state[h] # "TimedOut"
  /\ state' = Flag(state, h, "AccessPending")
  /\ IF held
     THEN /\ queue' = Append(queue, h)
          /\ pc' = [pc EXCEPT ![h] = "queued"]
          /\ UNCHANGED <<cur, held>>
     ELSE /\ held' = TRUE
          /\ pc' = [pc EXCEPT ![h] = "granted"]
          /\ cur' = h
          /\ UNCHANGED queue
  /\ UNCHANGED <<timer, closed, streamv, result, failed>>

(* The timeout elapsed before the read. *)
GrantRefused(h) ==
  /\ cur = Loop /\ pc[h] = "idle" /\ state[h] = "TimedOut"
  /\ result' = "ECANCELED"
  /\ UNCHANGED <<cur, pc, state, timer, accessv, closed, streamv, failed>>

(* The rest of AccessTimeout::grant finds that the timeout elapsed while    *)
(* the task waited: it drops the guard Access::grant gave it.              *)
GrantTimedOut(h) ==
  /\ cur = h /\ pc[h] = "granted" /\ state[h] = "TimedOut"
  /\ result' = "ECANCELED"
  /\ failed' = ~held
  /\ Release(h)
  /\ UNCHANGED <<state, timer, closed, streamv>>

\* Mutant: the early return leaks the guard.
ReadRefusedHolds(h) ==
  /\ cur = h /\ pc[h] = "granted" /\ state[h] # "TimedOut"
  /\ result' = IF closed THEN "EOF" ELSE "error"
  /\ state' = Flag(state, h, "NoWaiter")
  /\ pc' = [pc EXCEPT ![h] = "idle"] /\ cur' = Loop
  /\ UNCHANGED <<timer, accessv, closed, streamv, failed>>

(* Access is granted but close_read was called, or libuv refuses to start   *)
(* reading: both guards are dropped at once.                               *)
ReadRefused(h) ==
  /\ cur = h /\ pc[h] = "granted" /\ state[h] # "TimedOut"
  /\ result' = IF closed THEN "EOF" ELSE "error"
  /\ data' = IF closed THEN data ELSE Loop
  /\ state' = Flag(state, h, "NoWaiter")
  /\ failed' = ~held
  /\ Release(h)
  /\ UNCHANGED <<timer, closed, active>>

(* Access is granted; Stream::read starts to read and blocks. *)
ReadStart(h) ==
  /\ cur = h /\ pc[h] = "granted" /\ state[h] # "TimedOut" /\ ~closed
  /\ state' = Flag(state, h, "RequestPending")
  /\ failed' = ~held
  /\ data' = h /\ active' = TRUE
  /\ pc' = [pc EXCEPT ![h] = "reading"]
  /\ cur' = Loop
  /\ UNCHANGED <<timer, accessv, closed, result>>

-----------------------------------------------------------------------------
(* Callbacks of the event loop. *)

(* alloc_cb and read_cb: data, or an error, for the ReadContext the stream  *)
(* points to; a null pointer is dereferenced.                              *)
ReadCb ==
  /\ cur = Loop /\ active
  /\ active' = FALSE
  /\ \/ data # Loop /\ \E r \in {"data", "error"} : Finish(data, r, state)
     \/ /\ data = Loop /\ failed' = TRUE
        /\ UNCHANGED <<cur, pc, state, accessv, data, result>>
  /\ UNCHANGED <<timer, closed>>

(* Stream::cancel_read: stop reading and wake the reader, if there is one. *)
CancelRead(reason, st) ==
  /\ data # Loop
  /\ active' = FALSE
  /\ Finish(data, reason, st)

(* timer_cb fires for h and marks the timeout. *)
Fires(h) ==
  /\ cur = Loop /\ timer[h] = "started"
  /\ timer' = [timer EXCEPT ![h] = "stopped"]
TimedOut(h) == [state EXCEPT ![h] = "TimedOut"]

(* Nobody uses the handle. *)
TimerIdle(h) ==
  /\ Fires(h) /\ state[h] \notin {"AccessPending", "RequestPending"}
  /\ state' = TimedOut(h)
  /\ failed' = (state[h] # "NoWaiter")
  /\ UNCHANGED <<cur, pc, accessv, closed, streamv, result>>

\* Mutant: the waiter is woken and stays in the queue.
TimerQueuedKeeps(h) ==
  /\ ~patient
  /\ Fires(h) /\ state[h] = "AccessPending"
  /\ state' = TimedOut(h)
  /\ pc' = [pc EXCEPT ![h] = "granted"] /\ cur' = h
  /\ failed' = (h \notin Range(queue))
  /\ UNCHANGED <<accessv, closed, streamv, result>>

(* Its task waits for access: Access::dequeue, and the task is woken. *)
TimerQueued(h) ==
  /\ ~patient
  /\ Fires(h) /\ state[h] = "AccessPending"
  /\ state' = TimedOut(h)
  /\ Dequeue(h)
  /\ pc' = [pc EXCEPT ![h] = "granted"]
  /\ cur' = h
  /\ failed' = (h \notin Range(queue))
  /\ UNCHANGED <<held, closed, streamv, result>>

\* Mutant: the read is cancelled and the timeout is not marked.
TimerRequestUnmarked(h) ==
  /\ Fires(h) /\ state[h] = "RequestPending"
  /\ CancelRead("ECANCELED", state)
  /\ UNCHANGED closed

\* Mutant: the timeout is marked and the read is not cancelled.
TimerRequestSilent(h) ==
  /\ Fires(h) /\ state[h] = "RequestPending"
  /\ state' = TimedOut(h)
  /\ UNCHANGED <<cur, pc, accessv, closed, streamv, result, failed>>

(* Its task waits for data: cancel_read. *)
TimerRequest(h) ==
  /\ Fires(h) /\ state[h] = "RequestPending"
  /\ \/ CancelRead("ECANCELED", TimedOut(h))
     \/ /\ data = Loop /\ active' = FALSE /\ state' = TimedOut(h) /\ failed' = TRUE
        /\ UNCHANGED <<cur, pc, accessv, data, result>>
  /\ UNCHANGED closed

-----------------------------------------------------------------------------
(* Other calls of a task on a handle. *)

\* Mutant: None leaves the timer running.
SetTimeoutRunning(h) ==
  /\ cur = Loop /\ pc[h] = "idle"
  /\ \/ /\ state' = [state EXCEPT ![h] = "NoWaiter"]
        /\ timer' = [timer EXCEPT ![h] = "started"]
     \/ /\ state' = [state EXCEPT ![h] = "NoTimeout"]
        /\ UNCHANGED timer
  /\ UNCHANGED <<cur, pc, accessv, closed, streamv, result, failed>>

(* set_timeout with a duration, or with None. *)
SetTimeout(h) ==
  /\ cur = Loop /\ pc[h] = "idle"
  /\ \/ /\ state' = [state EXCEPT ![h] = "NoWaiter"]
        /\ timer' = [timer EXCEPT ![h] = "started"]
     \/ /\ state' = [state EXCEPT ![h] = "NoTimeout"]
        /\ timer' = [timer EXCEPT ![h] = IF @ = "none" THEN @ ELSE "stopped"]
  /\ UNCHANGED <<cur, pc, accessv, closed, streamv, result, failed>>

\* Mutant: the read that is under way is not cancelled.
CloseReadLazy(h) ==
  /\ cur = Loop /\ pc[h] = "idle"
  /\ closed' = TRUE
  /\ UNCHANGED <<cur, pc, state, timer, accessv, streamv, result, failed>>

(* close_read. *)
CloseRead(h) ==
  /\ cur = Loop /\ pc[h] = "idle"
  /\ closed' = TRUE
  /\ \/ CancelRead("EOF", state)
     \/ /\ data = Loop /\ active' = FALSE
        /\ UNCHANGED <<cur, pc, state, accessv, data, result, failed>>
  /\ UNCHANGED timer

(* clone: shares the Access, not the timeout. *)
Clone(h, g) ==
  /\ pc[h] = "idle" /\ pc[g] = "absent"
  /\ pc' = [pc EXCEPT ![g] = "idle"]
  /\ state' = [state EXCEPT ![g] = "NoTimeout"]
  /\ UNCHANGED <<cur, timer, accessv, closed, streamv, result, failed>>

\* Mutant: the timer outlives its object.
DropHandleKeepsTimer(h) ==
  /\ pc[h] = "idle"
  /\ pc' = [pc EXCEPT ![h] = "absent"]
  /\ failed' = ((\A g \in Handles \ {h} : pc[g] = "absent") /\ (held \/ queue # <<>>))
  /\ UNCHANGED <<cur, state, timer, accessv, closed, streamv, result>>

(* The object is dropped: its timer is closed, and with the last clone the  *)
(* shared Access, which asserts that it is free.                           *)
DropHandle(h) ==
  /\ pc[h] = "idle"
  /\ pc' = [pc EXCEPT ![h] = "absent"]
  /\ timer' = [timer EXCEPT ![h] = "none"]
  /\ failed' = ((\A g \in Handles \ {h} : pc[g] = "absent") /\ (held \/ queue # <<>>))
  /\ UNCHANGED <<cur, state, accessv, closed, streamv, result>>

-----------------------------------------------------------------------------
\* The task that has the thread goes on.
Resume(h) == GrantTimedOut(h) \/ ReadRefused(h) \/ ReadStart(h)

TimerCb(h) == TimerIdle(h) \/ TimerQueued(h) \/ TimerRequest(h)

UserCall(h) == \/ Grant(h) \/ GrantRefused(h) \/ SetTimeout(h) \/ CloseRead(h)
               \/ DropHandle(h) \/ \E g \in Handles : Clone(h, g)

\* A reader whose ReadContext was replaced waits for ever.
Lost(h) == ~patient /\ pc[h] = "reading" /\ data # h

\* The stream is gone, or a failed assertion has ended the program.
Stopped == /\ failed \/ \A h \in Handles : pc[h] = "absent" \/ Lost(h)
           /\ UNCHANGED vars

Next == \/ ~failed /\ (\E h \in Handles : Resume(h)) /\ UNCHANGED patient
        \/ ~failed /\ (\E h \in Handles : TimerCb(h)) /\ UNCHANGED patient
        \/ ~failed /\ ReadCb /\ UNCHANGED patient
        \/ ~failed /\ (\E h \in Handles : UserCall(h)) /\ UNCHANGED patient
        \/ Stopped

Spec == Init /\ [][Next]_vars

\* The thread runs what has it, and libuv calls back when a timer is due; the
\* peer may never send anything and a task need not call.
Fairness == \A h \in Handles : /\ WF_vars(~failed /\ Resume(h) /\ UNCHANGED patient)
                               /\ WF_vars(~failed /\ TimerCb(h) /\ UNCHANGED patient)

FairSpec == Spec /\ Fairness

-----------------------------------------------------------------------------
(* Properties *)

\* libuv reads a stream once at a time (tcp.rs 30-33): two tasks are never both
\* blocked in Stream::read on clones of one stream, where the second would
\* replace the ReadContext of the first.
ExclusiveReaders ==
  \A g, h \in Handles : pc[g] = "reading" /\ pc[h] = "reading" => g = h

\* That is so when no timeout elapses during a wait for access (timeout.rs:92).
PatientReadersExclude == patient => ExclusiveReaders

\* No assertion of access.rs and no unreachable!() of timeout.rs is reached: a
\* timer fires only with a timeout pending, a waiting task is found in the
\* queue, a pending request is found in the stream, a guard is dropped only
\* with its request flagged, and the Access is free when its last clone goes.
NoPanic == ~failed

\* That is so when no timeout elapses during a wait for access.
PatientNoPanic == patient => NoPanic

\* The queue of Access holds exactly the tasks descheduled in grant, each once,
\* and while one waits somebody is to wake it: access is held.  So dequeue,
\* which takes a task from the middle, never loses or doubles another one.
QueueExact ==
  /\ \A h \in Handles : pc[h] = "queued" <=> h \in Range(queue)
  /\ IsInjective(queue)
  /\ queue # <<>> => held

\* When no timeout elapses during a wait for access, a read ends with ECANCELED
\* only when the timeout of its own handle elapsed (AccessTimeout::grant,
\* timer_cb): the timer of one clone never cancels the read of another.
CancelMeansTimeout ==
  [][patient => \A h \in Handles :
       pc[h] \in {"granted", "reading"} /\ pc'[h] = "idle" /\ result' = "ECANCELED"
         => state'[h] = "TimedOut"]_vars

\* close_read wakes the reader, and each woken reader the next waiter: every
\* task that waits for access or data on a closed stream returns, when no timeout
\* elapses during a wait for access.
ClosedReadsReturn ==
  \A h \in Handles :
    patient /\ closed /\ pc[h] \in {"queued", "granted", "reading"} ~> pc[h] \in {"idle", "absent"}

\* The same of the tasks that wait for access, which also holds when timeouts
\* elapse while they wait.
ClosedQueueDrains ==
  \A h \in Handles : closed /\ pc[h] = "queued" ~> pc[h] # "queued" \/ failed

\* A read with a timeout returns, whether or not data arrives, when no timeout
\* elapses during a wait for access.
TimeoutsReturn ==
  \A h \in Handles : patient /\ pc[h] = "reading" /\ state[h] = "RequestPending" ~> pc[h] # "reading"

-----------------------------------------------------------------------------
(* The inductive invariant of UvReadProofs, when no timeout elapses during a *)
(* wait for access.                                                          *)

\* One task is past grant; access is held exactly then.
HeldExact ==
  /\ \A g, h \in Handles : pc[g] \in {"granted", "reading"} /\ pc[h] \in {"granted", "reading"} => g = h
  /\ held <=> \E h \in Handles : pc[h] \in {"granted", "reading"}
  /\ \A h \in Handles : pc[h] = "granted" <=> cur = h

\* The stream points to the ReadContext of the task blocked in Stream::read.
StreamExact ==
  /\ \A h \in Handles : pc[h] = "reading" <=> data = h
  /\ active => data # Loop

\* The timeout knows what the task waits for, and its timer runs while it does.
TimeoutExact ==
  \A h \in Handles :
    /\ pc[h] = "idle" => state[h] \in {"NoTimeout", "NoWaiter", "TimedOut"}
    /\ pc[h] \in {"queued", "granted"} => state[h] \in {"NoTimeout", "AccessPending"}
    /\ pc[h] = "reading" => state[h] \in {"NoTimeout", "RequestPending"}
    /\ timer[h] = "started" => state[h] \in {"NoWaiter", "AccessPending", "RequestPending"}

ReadInv == NoPanic /\ QueueExact /\ HeldExact /\ StreamExact /\ TimeoutExact
=============================================================================

----------------------------- MODULE UvConnect ------------------------------
(***************************************************************************)
(* ConnectCtx::connect (timeout.rs), by which Tcp and Pipe connect: a      *)
(* connect request and, for a timeout, a timer race to wake the task.  The *)
(* context both point to is on the stack of the call; the request is freed *)
(* by its callback, which may come long after the call has returned.       *)
(*                                                                         *)
(* Everything runs on the thread of one event loop.  A wake-up switches to *)
(* the task at once, inside the callback.                                  *)
(***************************************************************************)
EXTENDS Naturals

CONSTANTS Conns,          \* calls of connect
          None,
          CloseStatus     \* what connect_cb may be told when the handle is closed

ConnectAssumption == CloseStatus \subseteq {"ECANCELED", "other"} /\ None \notin Conns

VARIABLES pc,       \* where each call is
          req,      \* its request: not made, with libuv, its callback running, freed
          data,     \* the request's data: the context, or null
          task,     \* cx.task holds the blocked task
          timer,    \* cx.timer
          status,   \* cx.status, in the end the result
          obj,      \* the Tcp or Pipe: idle, connected, closing
          cur,      \* the call that was switched to inside a callback
          cb,       \* the call whose connect_cb is running
          bad       \* freed memory was touched, or an assertion failed

vars == <<pc, req, data, task, timer, status, obj, cur, cb, bad>>

PC == {"start", "blocked", "woken", "returned"}
Status == {"-1", "0", "error", "ECANCELED"}

\* The state and its types: when the call has returned its timer is closed, and
\* the object is connected, closed or never was in use.
TypeOK ==
  /\ pc \in [Conns -> PC] /\ req \in [Conns -> {"none", "queued", "called", "freed"}]
  /\ data \in [Conns -> {"ctx", "null"}] /\ task \in [Conns -> BOOLEAN]
  /\ timer \in [Conns -> {"none", "armed", "stopped", "closed"}]
  /\ status \in [Conns -> Status] /\ obj \in [Conns -> {"idle", "connected", "closing"}]
  /\ cur \in Conns \cup {None} /\ cb \in Conns \cup {None} /\ bad \in BOOLEAN
  /\ \A c \in Conns : pc[c] = "returned" =>
       timer[c] \in {"none", "closed"} /\ ~task[c] /\ obj[c] # "idle"

Init ==
  /\ pc = [c \in Conns |-> "start"] /\ req = [c \in Conns |-> "none"]
  /\ data = [c \in Conns |-> "null"] /\ task = [c \in Conns |-> FALSE]
  /\ timer = [c \in Conns |-> "none"] /\ status = [c \in Conns |-> "-1"]
  /\ obj = [c \in Conns |-> "idle"] /\ cur = None /\ cb = None /\ bad = FALSE

\* The frame of the call, with the context, is on the stack.
Alive(c) == pc[c] \in {"blocked", "woken"}

-----------------------------------------------------------------------------
(* The task calls connect.                                                 *)

Refused(c) ==
  /\ pc[c] = "start"
  /\ req' = [req EXCEPT ![c] = "freed"]
  /\ pc' = [pc EXCEPT ![c] = "returned"]
  /\ status' = [status EXCEPT ![c] = "error"] /\ obj' = [obj EXCEPT ![c] = "closing"]
  /\ UNCHANGED <<data, task, timer, cur, cb, bad>>

\* A timeout of zero returns with the request outstanding; the object is dropped.
Expired(c) ==
  /\ pc[c] = "start"
  /\ req' = [req EXCEPT ![c] = "queued"] /\ data' = [data EXCEPT ![c] = "ctx"]
  /\ pc' = [pc EXCEPT ![c] = "returned"]
  /\ status' = [status EXCEPT ![c] = "ECANCELED"] /\ obj' = [obj EXCEPT ![c] = "closing"]
  /\ UNCHANGED <<task, timer, cur, cb, bad>>

\* Mutant: the timer is only made, never started.
ConnectNoStart(c, t) ==
  /\ pc[c] = "start"
  /\ req' = [req EXCEPT ![c] = "queued"] /\ data' = [data EXCEPT ![c] = "ctx"]
  /\ timer' = [timer EXCEPT ![c] = IF t = "some" THEN "stopped" ELSE "none"]
  /\ task' = [task EXCEPT ![c] = TRUE]
  /\ pc' = [pc EXCEPT ![c] = "blocked"]
  /\ UNCHANGED <<status, obj, cur, cb, bad>>

Connect(c, t) ==
  /\ pc[c] = "start"
  /\ req' = [req EXCEPT ![c] = "queued"] /\ data' = [data EXCEPT ![c] = "ctx"]
  /\ timer' = [timer EXCEPT ![c] = IF t = "some" THEN "armed" ELSE "none"]
  /\ task' = [task EXCEPT ![c] = TRUE]
  /\ pc' = [pc EXCEPT ![c] = "blocked"]
  /\ UNCHANGED <<status, obj, cur, cb, bad>>

\* The task runs again: it writes to the request, closes the timer, and drops
\* the object unless it is connected.
Resume(c) ==
  /\ pc[c] = "woken" /\ cur = c
  /\ bad' = (bad \/ req[c] = "freed")
  /\ data' = [data EXCEPT ![c] = "null"]
  /\ timer' = [timer EXCEPT ![c] = IF @ = "none" THEN @ ELSE "closed"]
  /\ obj' = [obj EXCEPT ![c] = IF status[c] = "0" THEN "connected" ELSE "closing"]
  /\ pc' = [pc EXCEPT ![c] = "returned"]
  /\ cur' = None
  /\ UNCHANGED <<req, task, status, cb>>

-----------------------------------------------------------------------------
(* Callbacks.                                                              *)

\* wakeup: the blocked task runs, at once.
Wakeup(c) ==
  /\ task' = [task EXCEPT ![c] = FALSE]
  /\ pc' = [pc EXCEPT ![c] = "woken"]
  /\ cur' = c

\* The loop is ready to call back.
InLoop == cur = None /\ cb = None

TimerCb(c) ==
  /\ InLoop /\ timer[c] = "armed"
  /\ timer' = [timer EXCEPT ![c] = "stopped"]
  /\ IF Alive(c) /\ task[c]
       THEN /\ status' = [status EXCEPT ![c] = "ECANCELED"]
            /\ Wakeup(c)
            /\ UNCHANGED bad
       ELSE bad' = TRUE /\ UNCHANGED <<status, task, pc, cur>>
  /\ UNCHANGED <<req, data, obj, cb>>

\* libuv completes the request, or the handle was closed.
Reports(c) == IF obj[c] = "closing" THEN CloseStatus ELSE {"0", "error"}

\* Mutant: the early returns forget to free the request.
ConnectCbLateForgets(c, s) ==
  /\ InLoop /\ req[c] = "queued"
  /\ s = "ECANCELED" \/ data[c] = "null"
  /\ UNCHANGED <<pc, req, data, task, timer, status, obj, cur, cb, bad>>

\* The call is over: only the request is freed.
ConnectCbLate(c, s) ==
  /\ InLoop /\ req[c] = "queued"
  /\ s = "ECANCELED" \/ data[c] = "null"
  /\ req' = [req EXCEPT ![c] = "freed"]
  /\ UNCHANGED <<pc, data, task, timer, status, obj, cur, cb, bad>>

\* Mutant: the request is freed before the task is woken.
ConnectCbFreesFirst(c, s) ==
  /\ InLoop /\ req[c] = "queued" /\ s # "ECANCELED" /\ data[c] # "null"
  /\ req' = [req EXCEPT ![c] = "freed"]
  /\ bad' = (bad \/ ~Alive(c))
  /\ status' = IF Alive(c) THEN [status EXCEPT ![c] = IF s = "0" THEN "0" ELSE "error"] ELSE status
  /\ timer' = [timer EXCEPT ![c] = IF @ = "none" THEN @ ELSE "stopped"]
  /\ IF task[c] THEN Wakeup(c) ELSE UNCHANGED <<task, pc, cur>>
  /\ UNCHANGED <<data, obj, cb>>

\* Mutant: the status stays what the context was made with.
ConnectCbNoStatus(c, s) ==
  /\ InLoop /\ req[c] = "queued" /\ s # "ECANCELED" /\ data[c] # "null"
  /\ req' = [req EXCEPT ![c] = "called"] /\ cb' = c
  /\ bad' = (bad \/ ~Alive(c))
  /\ timer' = [timer EXCEPT ![c] = IF @ = "none" THEN @ ELSE "stopped"]
  /\ IF task[c] THEN Wakeup(c) ELSE UNCHANGED <<task, pc, cur>>
  /\ UNCHANGED <<data, obj, status>>

\* The callback writes the status, stops the timer and wakes the task; or all of
\* that goes to a context that is no more.
ConnectCb(c, s) ==
  /\ InLoop /\ req[c] = "queued" /\ s # "ECANCELED" /\ data[c] # "null"
  /\ req' = [req EXCEPT ![c] = "called"] /\ cb' = c
  /\ bad' = (bad \/ ~Alive(c))
  /\ status' = IF Alive(c) THEN [status EXCEPT ![c] = IF s = "0" THEN "0" ELSE "error"] ELSE status
  /\ timer' = [timer EXCEPT ![c] = IF @ = "none" THEN @ ELSE "stopped"]
  /\ IF task[c] THEN Wakeup(c) ELSE UNCHANGED <<task, pc, cur>>
  /\ UNCHANGED <<data, obj>>

\* ... and when it goes on, it frees the request.
ConnectCbEnd(c) ==
  /\ cb = c /\ cur = None
  /\ req' = [req EXCEPT ![c] = "freed"] /\ cb' = None
  /\ UNCHANGED <<pc, data, task, timer, status, obj, cur, bad>>

-----------------------------------------------------------------------------
Callback(c) ==
  \/ TimerCb(c)
  \/ \E s \in Reports(c) : ConnectCbLate(c, s)
  \/ \E s \in Reports(c) : ConnectCb(c, s)

Proceed(c) == Resume(c) \/ ConnectCbEnd(c)

Call(c) ==
  \/ Refused(c)
  \/ Expired(c)
  \/ \E t \in {"none", "some"} : Connect(c, t)

Over == (\A c \in Conns : pc[c] = "returned" /\ req[c] = "freed") /\ UNCHANGED vars

Next ==
  \/ \E c \in Conns : Call(c)
  \/ \E c \in Conns : Callback(c)
  \/ \E c \in Conns : Proceed(c)
  \/ Over

\* Timers elapse, libuv calls back for a handle that is closed, and tasks go on.
\* Nothing makes a peer answer.
Fairness ==
  \A c \in Conns :
    /\ WF_vars(TimerCb(c)) /\ WF_vars(Proceed(c))
    /\ WF_vars(obj[c] = "closing" /\ Callback(c))

Spec == Init /\ [][Next]_vars /\ Fairness

-----------------------------------------------------------------------------
(* Properties.                                                             *)

\* The callbacks reach the context only while the call is on the stack, a
\* timer fires only for a task that waits, and the task writes to its request
\* only before the callback frees it, whichever of timer_cb and connect_cb
\* comes first.
NoUseAfterFree == ~bad

\* A timeout of zero: the call has returned, and its request points to the context
\* that was on its stack.
Abandoned(c) == pc[c] = "returned" /\ data[c] = "ctx"

\* Where closing a handle may report another status than ECANCELED, so that "if the
\* data is null, then our timeout has expired" has to tell (timeout.rs 301-304),
\* a context is touched after its call only if the timeout of a call was zero.
OnlyZeroDangles == bad => \E c \in Conns : Abandoned(c)

\* A call that reports success was told so by libuv, and its object is open; a
\* call that was told of success before it woke does not report a timeout.
ResultTrue ==
  \A c \in Conns :
    /\ pc[c] = "returned" /\ status[c] = "0" => obj[c] = "connected" /\ req[c] \in {"called", "freed"}
    /\ pc[c] = "returned" /\ status[c] # "0" => obj[c] = "closing"
    /\ req[c] = "called" => status[c] \in {"0", "error"} \/ Abandoned(c)

\* The request of a call that has returned is freed in the end, by a callback
\* that finds null data or ECANCELED.
RequestFreed == \A c \in Conns : (pc[c] = "returned") ~> (req[c] = "freed")

\* A connect with a timeout returns, whatever the peer does.
TimeoutReturns == \A c \in Conns : (pc[c] = "blocked" /\ timer[c] # "none") ~> (pc[c] = "returned")
=============================================================================

------------------------------- MODULE UvUdp -------------------------------
(***************************************************************************)
(* UDP sockets of librustuv (udp.rs).  Clones of a Udp object share one    *)
(* libuv handle.  AccessTimeout serialises and bounds recv_from, Access    *)
(* serialises send_to.  Unlike a stream, libuv calls recv_cb also with     *)
(* nothing, and the receive goes on with the buffer it has handed out; and *)
(* cancel_read leaves the handle's data in place for the task to clear.    *)
(*                                                                         *)
(* As in UvRead, everything runs on the thread of the loop, `cur' names    *)
(* the object whose task has the thread, and one action is what runs until *)
(* the thread changes hands.  A receive whose timeout elapses while it     *)
(* waits for access drops a guard that it does not own, and another one    *)
(* gets to recv_start while libuv receives: libuv may refuse that or not.  *)
(***************************************************************************)
EXTENDS Naturals, FiniteSets, SequencesExt

CONSTANTS Handles,       \* the Udp objects that may be clones of one socket
          Loop,          \* not a handle: the event loop, or nobody
          MaxDatagrams   \* bound: how many datagrams arrive

UdpAssumption == Loop \notin Handles /\ MaxDatagrams \in Nat

VARIABLES patient,   \* no timeout elapses during a wait for access, in this behaviour
          cur,       \* who has the thread
          op,        \* what the task that uses an object does
          stage,     \* how far it is
          held,      \* Inner.held of read_access and of write_access
          queue,     \* Inner.queue of both
          state,     \* State and Client of each object's AccessTimeout
          timer,     \* the timer of each object's AccessTimeout, stopped when there is none
          data,      \* the libuv handle's data: whose UdpRecvCtx it points to
          buf,       \* cx.buf of each receive: whether the buffer is there
          active,    \* the libuv handle is receiving
          socket,    \* datagrams in the socket, by number, 0 when empty
          arrived,   \* how many datagrams have arrived
          got,       \* history: the datagrams recv_from has returned
          sends,     \* libuv's send requests: whose
          failed     \* an assertion, expect or unreachable!() was reached

recvv == <<state, timer, data, buf, active, got>>
vars == <<patient, cur, op, stage, held, queue, recvv, socket, arrived, sends, failed>>

Op == {"recv", "send"}
State == {"NoTimeout", "NoWaiter", "AccessPending", "RequestPending", "TimedOut"}

\* Every variable is typed, and the buffer of a receive that waits is there for
\* the next alloc_cb.
TypeOK ==
  /\ patient \in BOOLEAN
  /\ cur \in Handles \cup {Loop}
  /\ op \in [Handles -> Op \cup {"none"}]
  /\ stage \in [Handles -> {"absent", "idle", "queued", "granted", "blocked"}]
  /\ held \in [Op -> BOOLEAN] /\ queue \in [Op -> Seq(Handles)]
  /\ state \in [Handles -> State]
  /\ timer \in [Handles -> {"stopped", "started"}]
  /\ data \in Handles \cup {Loop}
  /\ buf \in [Handles -> BOOLEAN]
  /\ active \in BOOLEAN
  /\ socket \in Seq(0..MaxDatagrams) /\ arrived \in 0..MaxDatagrams
  /\ got \in Seq(1..MaxDatagrams)
  /\ sends \in Seq(Handles)
  /\ failed \in BOOLEAN
  /\ \A h \in Handles : op[h] = "recv" /\ stage[h] = "blocked" => buf[h]

(* One object exists, from bind_on. *)
\* The object that is there first; the others become its clones.
First == CHOOSE h \in Handles : TRUE

Init ==
  /\ patient \in BOOLEAN
  /\ cur = Loop
  /\ op = [h \in Handles |-> "none"]
  /\ stage = [h \in Handles |-> IF h = First THEN "idle" ELSE "absent"]
  /\ held = [o \in Op |-> FALSE] /\ queue = [o \in Op |-> <<>>]
  /\ state = [h \in Handles |-> "NoTimeout"] /\ timer = [h \in Handles |-> "stopped"]
  /\ data = Loop /\ buf = [h \in Handles |-> FALSE] /\ active = FALSE
  /\ socket = <<>> /\ arrived = 0 /\ got = <<>> /\ sends = <<>>
  /\ failed = FALSE

-----------------------------------------------------------------------------
(* Access and AccessTimeout *)

(* A pending timeout is told what its object waits for. *)
Flag(st, h, client) ==
  IF st[h] \in {"NoTimeout", "TimedOut"} THEN st ELSE [st EXCEPT ![h] = client]

\* Mutant: one lock for both directions.
AcquireEither(h, o) ==
  /\ op' = [op EXCEPT ![h] = o]
  /\ IF held["recv"] \/ held["send"]
     THEN /\ queue' = [queue EXCEPT ![o] = Append(@, h)]
          /\ stage' = [stage EXCEPT ![h] = "queued"]
          /\ UNCHANGED <<cur, held>>
     ELSE /\ held' = [held EXCEPT ![o] = TRUE] /\ cur' = h
          /\ stage' = [stage EXCEPT ![h] = "granted"]
          /\ UNCHANGED queue

(* Access::grant. *)
Acquire(h, o) ==
  /\ op' = [op EXCEPT ![h] = o]
  /\ IF held[o]
     THEN /\ queue' = [queue EXCEPT ![o] = Append(@, h)]
          /\ stage' = [stage EXCEPT ![h] = "queued"]
          /\ UNCHANGED <<cur, held>>
     ELSE /\ held' = [held EXCEPT ![o] = TRUE] /\ cur' = h
          /\ stage' = [stage EXCEPT ![h] = "granted"]
          /\ UNCHANGED queue

(* Guard::drop by h: the first task that waits gets access and the thread. *)
Release(h, o) ==
  /\ op' = [op EXCEPT ![h] = "none"]
  /\ IF queue[o] = <<>>
     THEN /\ held' = [held EXCEPT ![o] = FALSE] /\ cur' = Loop
          /\ stage' = [stage EXCEPT ![h] = "idle"]
          /\ UNCHANGED queue
     ELSE /\ cur' = Head(queue[o]) /\ queue' = [queue EXCEPT ![o] = Tail(@)]
          /\ stage' = [stage EXCEPT ![h] = "idle", ![Head(queue[o])] = "granted"]
          /\ UNCHANGED held

(* Access::dequeue: the first entry of this object leaves the queue. *)
Dequeue(h, o) ==
  IF h \in Range(queue[o])
  THEN \E i \in 1..Len(queue[o]) : /\ queue[o][i] = h /\ \A j \in 1..i-1 : queue[o][j] # h
                                   /\ queue' = [queue EXCEPT ![o] = RemoveAt(@, i)]
  ELSE UNCHANGED queue

-----------------------------------------------------------------------------
(* recv_from *)

(* AccessTimeout::grant up to where access is granted; a timeout that has   *)
(* elapsed is an error at once.                                            *)
RecvGrant(h) ==
  /\ cur = Loop /\ stage[h] = "idle" /\ state[h] # "TimedOut"
  /\ state' = Flag(state, h, "AccessPending")
  /\ Acquire(h, "recv")
  /\ UNCHANGED <<timer, data, buf, active, got, socket, arrived, sends, failed>>

(* AccessTimeout::grant finds that the timeout elapsed while the task       *)
(* waited: it drops the guard Access::grant gave it.                       *)
GrantTimedOut(h) ==
  /\ cur = h /\ stage[h] = "granted" /\ op[h] = "recv" /\ state[h] = "TimedOut"
  /\ failed' = ~held["recv"]
  /\ Release(h, "recv")
  /\ UNCHANGED <<recvv, socket, arrived, sends>>

(* The rest of recv_from: libuv receives, the handle points to the context, *)
(* and the task blocks.                                                    *)
RecvStart(h) ==
  /\ cur = h /\ stage[h] = "granted" /\ op[h] = "recv" /\ state[h] # "TimedOut"
  /\ state' = Flag(state, h, "RequestPending")
  /\ buf' = [buf EXCEPT ![h] = TRUE]
  /\ active' = TRUE /\ data' = h
  /\ stage' = [stage EXCEPT ![h] = "blocked"] /\ cur' = Loop
  /\ failed' = ~held["recv"]
  /\ UNCHANGED <<op, held, queue, timer, got, socket, arrived, sends>>

(* recv_start fails: both guards are dropped. *)
RecvFails(h) ==
  /\ cur = h /\ stage[h] = "granted" /\ op[h] = "recv" /\ state[h] # "TimedOut"
  /\ state' = Flag(state, h, "NoWaiter")
  /\ Release(h, "recv")
  /\ failed' = ~held["recv"]
  /\ UNCHANGED <<timer, data, buf, active, got, socket, arrived, sends>>

\* Mutant: the data still points to the context that is gone.
FinishKeepsData(h, st) ==
  /\ state' = Flag(st, h, "NoWaiter")
  /\ failed' = (stage[h] # "blocked" \/ op[h] # "recv" \/ st[h] \in {"NoWaiter", "AccessPending"})
  /\ active' = FALSE
  /\ Release(h, "recv")
  /\ UNCHANGED data

(* The receive is stopped and its task woken with a result: recv_from       *)
(* clears the data and drops both guards; st is the timeout state the      *)
(* callback leaves.                                                        *)
Finish(h, st) ==
  /\ data' = Loop
  /\ state' = Flag(st, h, "NoWaiter")
  /\ failed' = (stage[h] # "blocked" \/ op[h] # "recv" \/ st[h] \in {"NoWaiter", "AccessPending"})
  /\ active' = FALSE
  /\ Release(h, "recv")

\* Mutant: the buffer stays with libuv.
RecvNothingKeeps ==
  /\ cur = Loop /\ active /\ data # Loop
  /\ \/ socket # <<>> /\ Head(socket) = 0 /\ socket' = Tail(socket)
     \/ socket = <<>> /\ UNCHANGED socket
  /\ buf' = [buf EXCEPT ![data] = FALSE]
  /\ UNCHANGED <<cur, op, stage, held, queue, state, timer, data, active, got, arrived, sends, failed>>

\* Mutant: the first callback is always ignored.
RecvNothingAny ==
  /\ cur = Loop /\ active /\ data # Loop
  /\ \/ socket # <<>> /\ socket' = Tail(socket)
     \/ socket = <<>> /\ UNCHANGED socket
  /\ failed' = ~buf[data]
  /\ UNCHANGED <<cur, op, stage, held, queue, recvv, arrived, sends>>

(* alloc_cb takes the buffer and recv_cb finds nread = 0, because there was *)
(* nothing to read or because the datagram was empty: the buffer is put    *)
(* back and the receive goes on.                                           *)
RecvNothing ==
  /\ cur = Loop /\ active /\ data # Loop
  /\ \/ socket # <<>> /\ Head(socket) = 0 /\ socket' = Tail(socket)
     \/ socket = <<>> /\ UNCHANGED socket
  /\ failed' = ~buf[data]
  /\ UNCHANGED <<cur, op, stage, held, queue, recvv, arrived, sends>>

\* Mutant: the datagram is looked at and stays in the socket.
RecvCbPeeks ==
  /\ cur = Loop /\ active /\ data # Loop
  /\ socket # <<>> /\ Head(socket) > 0
  /\ got' = Append(got, Head(socket))
  /\ buf' = [buf EXCEPT ![data] = FALSE]
  /\ Finish(data, state)
  /\ UNCHANGED <<timer, socket, arrived, sends>>

(* A datagram, or an error, for the context the handle points to; a null    *)
(* pointer is dereferenced.                                                *)
RecvCb ==
  /\ cur = Loop /\ active
  /\ \/ /\ socket # <<>> /\ Head(socket) > 0 /\ data # Loop
        /\ socket' = Tail(socket) /\ got' = Append(got, Head(socket))
        /\ buf' = [buf EXCEPT ![data] = FALSE]
        /\ Finish(data, state)
     \/ /\ data # Loop
        /\ buf' = [buf EXCEPT ![data] = FALSE]
        /\ Finish(data, state)
        /\ UNCHANGED <<socket, got>>
     \/ /\ data = Loop /\ failed' = TRUE
        /\ UNCHANGED <<cur, op, stage, held, queue, state, data, buf, active, got, socket>>
  /\ UNCHANGED <<timer, arrived, sends>>

(* set_read_timeout with a duration, or with None. *)
SetReadTimeout(h) ==
  /\ cur = Loop /\ stage[h] = "idle"
  /\ \/ /\ state' = [state EXCEPT ![h] = "NoWaiter"]
        /\ timer' = [timer EXCEPT ![h] = "started"]
     \/ /\ state' = [state EXCEPT ![h] = "NoTimeout"]
        /\ timer' = [timer EXCEPT ![h] = "stopped"]
  /\ UNCHANGED <<cur, op, stage, held, queue, data, buf, active, got, socket, arrived, sends, failed>>

\* Mutant: libuv goes on receiving.
TimerCbNoStop(h) ==
  /\ cur = Loop /\ timer[h] = "started" /\ state[h] # "AccessPending"
  /\ timer' = [timer EXCEPT ![h] = "stopped"]
  /\ LET st == [state EXCEPT ![h] = "TimedOut"] IN
     \/ /\ state[h] = "RequestPending" /\ data # Loop
        /\ data' = Loop /\ state' = Flag(st, data, "NoWaiter")
        /\ failed' = (stage[data] # "blocked" \/ st[data] \in {"NoWaiter", "AccessPending"})
        /\ Release(data, "recv")
        /\ UNCHANGED active
     \/ /\ state[h] # "RequestPending"
        /\ state' = st /\ failed' = (state[h] # "NoWaiter")
        /\ UNCHANGED <<cur, op, stage, held, queue, data, active>>
  /\ UNCHANGED <<buf, got, socket, arrived, sends>>

\* Mutant: the timeout is marked and the receive goes on.
TimerCbSilent(h) ==
  /\ cur = Loop /\ timer[h] = "started" /\ state[h] # "AccessPending"
  /\ timer' = [timer EXCEPT ![h] = "stopped"]
  /\ state' = [state EXCEPT ![h] = "TimedOut"]
  /\ UNCHANGED <<cur, op, stage, held, queue, data, buf, active, got, socket, arrived, sends, failed>>

(* timer_cb of h's timeout, with cancel_read for a receive under way. *)
TimerCb(h) ==
  /\ cur = Loop /\ timer[h] = "started" /\ state[h] # "AccessPending"
  /\ timer' = [timer EXCEPT ![h] = "stopped"]
  /\ LET st == [state EXCEPT ![h] = "TimedOut"] IN
     \/ /\ state[h] = "RequestPending" /\ data # Loop
        /\ Finish(data, st)
     \/ /\ state[h] # "RequestPending" \/ data = Loop
        /\ state' = st
        /\ active' = (active /\ state[h] # "RequestPending")
        /\ failed' = (state[h] # "NoWaiter")
        /\ UNCHANGED <<cur, op, stage, held, queue, data>>
  /\ UNCHANGED <<buf, got, socket, arrived, sends>>

(* timer_cb when h waits for access: Access::dequeue, and the task is woken. *)
TimerQueued(h) ==
  /\ ~patient
  /\ cur = Loop /\ timer[h] = "started" /\ state[h] = "AccessPending"
  /\ timer' = [timer EXCEPT ![h] = "stopped"]
  /\ state' = [state EXCEPT ![h] = "TimedOut"]
  /\ Dequeue(h, "recv")
  /\ stage' = [stage EXCEPT ![h] = "granted"] /\ cur' = h
  /\ failed' = (h \notin Range(queue["recv"]))
  /\ UNCHANGED <<op, held, data, buf, active, got, socket, arrived, sends>>

-----------------------------------------------------------------------------
(* send_to *)

(* Access for a send. *)
SendGrant(h) ==
  /\ cur = Loop /\ stage[h] = "idle"
  /\ Acquire(h, "send")
  /\ UNCHANGED <<recvv, socket, arrived, sends, failed>>

(* libuv takes the request and the task blocks, or it refuses and the       *)
(* request is freed and the guard dropped.                                 *)
SendTo(h) ==
  /\ cur = h /\ stage[h] = "granted" /\ op[h] = "send"
  /\ failed' = ~held["send"]
  /\ \/ /\ sends' = Append(sends, h)
        /\ stage' = [stage EXCEPT ![h] = "blocked"] /\ cur' = Loop
        /\ UNCHANGED <<op, held, queue>>
     \/ /\ Release(h, "send")
        /\ UNCHANGED sends
  /\ UNCHANGED <<recvv, socket, arrived>>

(* send_cb wakes the task, which drops the guard, and frees the request. *)
SendCb ==
  /\ cur = Loop /\ sends # <<>>
  /\ sends' = Tail(sends)
  /\ failed' = (stage[Head(sends)] # "blocked" \/ op[Head(sends)] # "send")
  /\ Release(Head(sends), "send")
  /\ UNCHANGED <<recvv, socket, arrived>>

-----------------------------------------------------------------------------
(* Objects, and the network *)

(* clone: shares the handle and both Accesses, not the timeout. *)
Clone(h, g) ==
  /\ cur = Loop /\ stage[h] = "idle" /\ stage[g] = "absent"
  /\ stage' = [stage EXCEPT ![g] = "idle"]
  /\ state' = [state EXCEPT ![g] = "NoTimeout"]
  /\ UNCHANGED <<cur, op, held, queue, timer, data, buf, active, got, socket, arrived, sends, failed>>

(* An object is dropped and its timer closed; the last one takes the        *)
(* Accesses, which assert that they are free.                              *)
DropHandle(h) ==
  /\ cur = Loop /\ stage[h] = "idle"
  /\ stage' = [stage EXCEPT ![h] = "absent"]
  /\ timer' = [timer EXCEPT ![h] = "stopped"] /\ state' = [state EXCEPT ![h] = "NoTimeout"]
  /\ failed' = ((\A g \in Handles \ {h} : stage[g] = "absent")
                  /\ \E o \in Op : held[o] \/ queue[o] # <<>>)
  /\ UNCHANGED <<cur, op, held, queue, data, buf, active, got, socket, arrived, sends>>

(* A datagram arrives; it may be empty. *)
Datagram ==
  /\ arrived < MaxDatagrams
  /\ arrived' = arrived + 1
  /\ socket' \in {Append(socket, arrived + 1), Append(socket, 0)}
  /\ UNCHANGED <<cur, op, stage, held, queue, recvv, sends, failed>>

\* An assertion has ended the program, or the loop waits for events.
Waits == /\ failed \/ (cur = Loop /\ sends = <<>>)
         /\ UNCHANGED vars

RecvResume(h) == GrantTimedOut(h) \/ RecvStart(h) \/ RecvFails(h)

Next ==
  /\ UNCHANGED patient
  /\ \/ ~failed /\ \E h \in Handles : RecvResume(h)
     \/ ~failed /\ \E h \in Handles : SendTo(h)
     \/ ~failed /\ (RecvNothing \/ RecvCb \/ SendCb)
     \/ ~failed /\ \E h \in Handles : TimerCb(h) \/ TimerQueued(h)
     \/ ~failed /\ \E h \in Handles : RecvGrant(h) \/ SendGrant(h) \/ SetReadTimeout(h)
     \/ ~failed /\ \E h, g \in Handles : Clone(h, g)
     \/ ~failed /\ \E h \in Handles : DropHandle(h)
     \/ ~failed /\ Datagram
     \/ Waits

Spec == Init /\ [][Next]_vars

Go(step) == UNCHANGED patient /\ ~failed /\ step

\* The thread runs what has it.  When the loop gets it again and again, its
\* iterations call back for due timers and for sends; the network need not
\* deliver anything.
Fairness ==
  /\ \A h \in Handles : /\ WF_vars(Go(RecvResume(h) \/ SendTo(h)))
                        /\ SF_vars(Go(TimerCb(h)))
  /\ SF_vars(Go(SendCb))

FairSpec == Spec /\ Fairness

-----------------------------------------------------------------------------
(* Properties *)

\* No assertion of access.rs or wakeup, no expect of alloc_cb and no
\* unreachable!() of timeout.rs is reached, and recv_cb finds a context.
NoPanic == ~failed

\* The handle points to a context exactly while a task is blocked in recv_from,
\* to that task's, and libuv receives only then: recv_cb, alloc_cb and
\* cancel_read never use a context on the stack of a task that has gone on.
ContextLive ==
  /\ \A h \in Handles : data = h <=> op[h] = "recv" /\ stage[h] = "blocked"
  /\ active <=> data # Loop

\* A receive that times out or fails takes no datagram, and an empty callback
\* loses none: the datagrams that carry data are returned or still in the
\* socket, each once and in the order of their arrival.
NoneLost ==
  LET seen == got \o socket
  IN \A i, j \in 1..Len(seen) : i < j /\ seen[i] > 0 /\ seen[j] > 0 => seen[i] < seen[j]

\* No datagram with data leaves the socket without being returned.
NoneDropped ==
  [][LET kept(s, g) == {g[i] : i \in 1..Len(g)} \cup {s[i] : i \in 1..Len(s)}
     IN kept(socket, got) \ {0} \subseteq kept(socket', got')]_vars

\* A receive with a timeout returns, whether or not a datagram arrives, when no
\* timeout elapses during a wait for access.
TimeoutReturns ==
  \A h \in Handles :
    patient /\ op[h] = "recv" /\ stage[h] = "blocked" /\ state[h] = "RequestPending"
      ~> stage[h] # "blocked"

\* Every send returns, whatever a receive on a clone waits for: libuv can do
\* both at once.
SendsReturn ==
  \A h \in Handles : op[h] = "send" ~> op[h] # "send" \/ failed
=============================================================================

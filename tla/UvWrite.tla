------------------------------ MODULE UvWrite ------------------------------
(***************************************************************************)
(* The writing half of a duplex stream of librustuv: Tcp and Pipe objects  *)
(* that are clones of each other share one libuv stream and one Access,    *)
(* and each keeps the write request of its last write for the next one     *)
(* (stream.rs).  close_write (tcp.rs) shuts the stream down without asking *)
(* for access.                                                             *)
(*                                                                         *)
(* As in UvRead, everything runs on the thread of the loop, `cur' names    *)
(* the object whose task has the thread, and one action is what runs until *)
(* the thread changes hands.                                               *)
(***************************************************************************)
EXTENDS Naturals, FiniteSets, SequencesExt

CONSTANTS Handles,   \* the Tcp or Pipe objects that may be clones of one stream
          Loop       \* not a handle: the event loop, or nobody

HandlesAssumption == Loop \notin Handles /\ IsFiniteSet(Handles)

VARIABLES cur,       \* who has the thread
          pc,        \* where the task that uses an object is
          held,      \* Inner.held of the shared Access
          queue,     \* Inner.queue of the shared Access
          req,       \* last_write_req, or the request of the write under way
          allocs,    \* write and shutdown requests allocated and not freed
          sending,   \* libuv's write queue: whose requests it holds
          shut,      \* libuv: whether the writing half is shut down
          shutter,   \* whose shutdown request libuv holds
          order,     \* history: the writes called and not yet sent, in order
          failed     \* an assertion was violated

accessv == <<held, queue>>
uvv == <<sending, shut, shutter>>
vars == <<cur, pc, held, queue, req, allocs, sending, shut, shutter, order, failed>>

PC == {"absent", "idle", "queued", "granted", "writing", "closing"}

\* Every variable is typed, and a request is in libuv's hands exactly while its
\* object waits for write_cb.
TypeOK ==
  /\ cur \in Handles \cup {Loop}
  /\ pc \in [Handles -> PC]
  /\ held \in BOOLEAN
  /\ queue \in Seq(Handles)
  /\ req \in [Handles -> {"none", "cached", "sent"}]
  /\ allocs \in Nat
  /\ sending \in Seq(Handles)
  /\ shut \in BOOLEAN
  /\ shutter \in Handles \cup {Loop}
  /\ order \in Seq(Handles)
  /\ failed \in BOOLEAN
  /\ \A h \in Handles : (req[h] = "sent") <=> (pc[h] = "writing")

(* One object exists, from Tcp::new or Pipe::new. *)
\* The object that is there first; the others become its clones.
First == CHOOSE h \in Handles : TRUE

Init ==
  /\ cur = Loop
  /\ pc = [h \in Handles |-> IF h = First THEN "idle" ELSE "absent"]
  /\ held = FALSE /\ queue = <<>>
  /\ req = [h \in Handles |-> "none"] /\ allocs = 0
  /\ sending = <<>> /\ shut = FALSE /\ shutter = Loop
  /\ order = <<>> /\ failed = FALSE

-----------------------------------------------------------------------------
(* Access *)

\* Mutant: the access goes to the task that came last.
ReleaseLast(h) ==
  IF queue = <<>>
  THEN /\ held' = FALSE /\ cur' = Loop
       /\ pc' = [pc EXCEPT ![h] = "idle"]
       /\ UNCHANGED queue
  ELSE /\ cur' = Last(queue) /\ queue' = Front(queue)
       /\ pc' = [pc EXCEPT ![h] = "idle", ![Last(queue)] = "granted"]
       /\ UNCHANGED held

\* Mutant: the next task stays where it is.
ReleaseForgets(h) ==
  /\ held' = FALSE /\ cur' = Loop
  /\ pc' = [pc EXCEPT ![h] = "idle"]
  /\ UNCHANGED queue

(* Guard::drop by h: the first task that waits gets access and the thread. *)
Release(h) ==
  IF queue = <<>>
  THEN /\ held' = FALSE /\ cur' = Loop
       /\ pc' = [pc EXCEPT ![h] = "idle"]
       /\ UNCHANGED queue
  ELSE /\ cur' = Head(queue) /\ queue' = Tail(queue)
       /\ pc' = [pc EXCEPT ![h] = "idle", ![Head(queue)] = "granted"]
       /\ UNCHANGED held

\* Mutant: a task that finds the queue empty does not look at `held'.
GrantBarges(h) ==
  /\ cur = Loop /\ pc[h] = "idle"
  /\ order' = Append(order, h)
  /\ IF queue # <<>>
     THEN /\ queue' = Append(queue, h)
          /\ pc' = [pc EXCEPT ![h] = "queued"]
          /\ UNCHANGED <<cur, held>>
     ELSE /\ held' = TRUE /\ cur' = h
          /\ pc' = [pc EXCEPT ![h] = "granted"]
          /\ UNCHANGED queue
  /\ UNCHANGED <<req, allocs, uvv, failed>>

(* uv_write asks for access. *)
Grant(h) ==
  /\ cur = Loop /\ pc[h] = "idle"
  /\ order' = Append(order, h)
  /\ IF held
     THEN /\ queue' = Append(queue, h)
          /\ pc' = [pc EXCEPT ![h] = "queued"]
          /\ UNCHANGED <<cur, held>>
     ELSE /\ held' = TRUE /\ cur' = h
          /\ pc' = [pc EXCEPT ![h] = "granted"]
          /\ UNCHANGED queue
  /\ UNCHANGED <<req, allocs, uvv, failed>>

-----------------------------------------------------------------------------
(* Stream::write *)

(* The request of h's last write, or a new one. *)
Request(h) == allocs + (IF req[h] = "none" THEN 1 ELSE 0)

(* uv_write takes the request, and the task blocks. *)
Send(h) ==
  /\ cur = h /\ pc[h] = "granted"
  /\ allocs' = Request(h)
  /\ req' = [req EXCEPT ![h] = "sent"]
  /\ sending' = Append(sending, h)
  /\ order' = RemoveFirst(order, h)
  /\ pc' = [pc EXCEPT ![h] = "writing"] /\ cur' = Loop
  /\ failed' = ~held
  /\ UNCHANGED <<accessv, shut, shutter>>

\* Mutant: the request is forgotten, not dropped.
SendFailsLeaks(h) ==
  /\ cur = h /\ pc[h] = "granted"
  /\ allocs' = Request(h)
  /\ req' = [req EXCEPT ![h] = "none"]
  /\ order' = RemoveFirst(order, h)
  /\ failed' = ~held
  /\ Release(h)
  /\ UNCHANGED uvv

(* uv_write refuses: the request is dropped, a cached one too, and the      *)
(* guard.                                                                  *)
SendFails(h) ==
  /\ cur = h /\ pc[h] = "granted"
  /\ allocs' = Request(h) - 1
  /\ req' = [req EXCEPT ![h] = "none"]
  /\ order' = RemoveFirst(order, h)
  /\ failed' = ~held
  /\ Release(h)
  /\ UNCHANGED uvv

(* libuv is done with the first request, with any status: write_cb wakes    *)
(* the task, which keeps the request for its next write and drops the      *)
(* guard.                                                                  *)
WriteCb ==
  /\ cur = Loop /\ sending # <<>>
  /\ sending' = Tail(sending)
  /\ LET h == Head(sending) IN
       /\ failed' = (pc[h] # "writing")
       /\ req' = [req EXCEPT ![h] = "cached"]
       /\ Release(h)
  /\ UNCHANGED <<allocs, shut, shutter, order>>

-----------------------------------------------------------------------------
(* shutdown *)

(* close_write: libuv takes the request and the task blocks. *)
CloseWrite(h) ==
  /\ cur = Loop /\ pc[h] = "idle" /\ ~shut /\ shutter = Loop
  /\ allocs' = allocs + 1
  /\ shutter' = h
  /\ pc' = [pc EXCEPT ![h] = "closing"]
  /\ UNCHANGED <<cur, accessv, req, sending, shut, order, failed>>

(* close_write: libuv refuses, always when the stream is shut down or about *)
(* to be; the request is freed.                                            *)
CloseWriteFails(h) ==
  /\ cur = Loop /\ pc[h] = "idle"
  /\ UNCHANGED vars

\* Mutant: the callback leaves the task blocked.
ShutdownCbSilent ==
  /\ cur = Loop /\ shutter # Loop /\ sending = <<>>
  /\ shut' \in BOOLEAN
  /\ shutter' = Loop
  /\ UNCHANGED <<cur, pc, accessv, req, allocs, sending, order, failed>>

(* The writes before it are done: shutdown_cb wakes the task, which frees   *)
(* the request.                                                            *)
ShutdownCb ==
  /\ cur = Loop /\ shutter # Loop /\ sending = <<>>
  /\ shut' \in BOOLEAN
  /\ shutter' = Loop
  /\ allocs' = allocs - 1
  /\ pc' = [pc EXCEPT ![shutter] = "idle"]
  /\ UNCHANGED <<cur, accessv, req, sending, order, failed>>

-----------------------------------------------------------------------------
(* Objects *)

(* clone: the Access is shared, the request is not. *)
Clone(h, g) ==
  /\ cur = Loop /\ pc[h] = "idle" /\ pc[g] = "absent"
  /\ pc' = [pc EXCEPT ![g] = "idle"]
  /\ UNCHANGED <<cur, accessv, req, allocs, uvv, order, failed>>

(* The object is dropped, its request with it; the last one takes the       *)
(* Access, which asserts that it is free, and closes the stream.           *)
DropHandle(h) ==
  /\ cur = Loop /\ pc[h] = "idle"
  /\ pc' = [pc EXCEPT ![h] = "absent"]
  /\ allocs' = allocs - (IF req[h] = "none" THEN 0 ELSE 1)
  /\ req' = [req EXCEPT ![h] = "none"]
  /\ failed' = ((\A g \in Handles \ {h} : pc[g] = "absent") /\ (held \/ queue # <<>>))
  /\ UNCHANGED <<cur, accessv, uvv, order>>

\* An assertion has ended the program, or libuv has nothing of this stream and
\* the loop waits.
Stopped == /\ failed \/ (cur = Loop /\ sending = <<>> /\ shutter = Loop)
           /\ UNCHANGED vars

Resume(h) == Send(h) \/ SendFails(h)

Next == \/ ~failed /\ \E h \in Handles : Resume(h)
        \/ ~failed /\ WriteCb
        \/ ~failed /\ ShutdownCb
        \/ ~failed /\ \E h \in Handles : Grant(h) \/ CloseWrite(h) \/ CloseWriteFails(h)
        \/ ~failed /\ \E h, g \in Handles : Clone(h, g)
        \/ ~failed /\ \E h \in Handles : DropHandle(h)
        \/ Stopped

Spec == Init /\ [][Next]_vars

\* The thread runs what has it, and libuv finishes or fails every request it
\* takes; a task need not call.
Fairness == /\ \A h \in Handles : WF_vars(~failed /\ Resume(h))
            /\ WF_vars(~failed /\ WriteCb)
            /\ WF_vars(~failed /\ ShutdownCb)

FairSpec == Spec /\ Fairness

-----------------------------------------------------------------------------
(* Properties *)

\* tcp.rs 30-33: libuv has one write of a stream at a time, however many clones
\* write.
ExclusiveWriters == Len(sending) <= 1

\* The writes of several clones reach libuv in the order in which the tasks
\* called uv_write: a task that finds access held is never overtaken, also when
\* the write in front of it fails.
InOrder == order = (IF cur = Loop THEN <<>> ELSE <<cur>>) \o queue

\* Every request is owned: by the object that keeps it for its next write, by
\* the write or by the shutdown under way.  None is freed twice, and none leaks
\* when a write fails or an object goes (Stream::write, Write::drop, shutdown).
RequestsOwned ==
  allocs = Cardinality({h \in Handles : req[h] # "none"})
           + Cardinality({h \in Handles : pc[h] = "closing"})

\* No assertion of access.rs or of wakeup is violated: access is held when its
\* waiter runs, write_cb finds a blocked task, and the Access is free when its
\* last clone goes.
NoPanic == ~failed

\* Every write returns, however long its task waits for access and whatever the
\* writes before it and a concurrent close_write do.
WritesReturn ==
  \A h \in Handles : pc[h] \in {"queued", "granted", "writing"} ~> pc[h] \in {"idle", "absent"}

\* close_write returns when the writes of the other clones pause; while they go
\* on one after the other, libuv may never find its queue empty.
CloseReturns ==
  \A h \in Handles : <>[]~held => []<>(pc[h] # "closing")
=============================================================================

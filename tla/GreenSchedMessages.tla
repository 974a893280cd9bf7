-------------------------- MODULE GreenSchedMessages --------------------------
(***************************************************************************)
(* Proofs about the messages of GreenSched: in a pool that does not grow   *)
(* no message is left behind in a sleeping scheduler's queue, every loop   *)
(* ends clean and shutdown returns only when every task has ended.  The    *)
(* argument follows a message from the send that has reserved its node, to *)
(* the callback that is pending for it, to the handle that it came through *)
(* and that keeps the receiver's loop alive.                               *)
(***************************************************************************)
EXTENDS GreenSchedHandles

-------------------------------------------------------------------------------
(* Sends in progress *)

By(th)   == {n \in Node : n.by = th}
Neighbors == {n \in Node : n.msg.kind = "NewNeighbor"}

\* A node that is not linked yet is one of a send that is still under way.
SendNode ==
    \A s \in Scheds, th \in Threads :
        Has(inbox[s], By(th)) => out[th].stage = "link" /\ out[th].to = s

\* Whose handle a send goes through, when it does not drop it at the end.
Borrows(th, to, h) ==
    \/ th = Owner /\ h = <<"pool", None>> /\ opc \in {"open", "nn"} /\ to \in Range(pool)
    \/ th = Owner /\ h = <<"user", None>> /\ to \in userh
    \/ th \in Scheds /\ h = <<"friend", th>> /\ Friend[th] = to /\ pc[th] # "stopped"
    \/ th = Ext /\ \E u \in Tasks : /\ out[th].msg.arg = u /\ h = <<"task", u>>
                                    /\ thandle[u] = to /\ tstate[u] = "ready"
SendOf(th) ==
    out[th].stage = "link" =>
        /\ out[th].to \in Scheds
        /\ out[th].last = TRUE => out[th].h = IF th = Owner THEN <<"pool", None>> ELSE <<"temp", th>>
        /\ out[th].last = FALSE => Borrows(th, out[th].to, out[th].h)
SendInv == \A th \in Threads : SendOf(th)

\* A scheduler that waits for a callback, or has decided to.
Waits(s) == ~idle[s] \/ pc[s] \in {"sleep", "fill"}

\* The message queues as they are, or with one message popped.  A scheduler
\* goes to sleep with a message popped only if that is NewNeighbor.
Mails(inb) ==
    \/ inb = inbox
    \/ \E s \in Scheds : /\ inbox[s] # <<>> /\ inb = Popped(s)
                         /\ Waits(s)' => Head(inbox[s]).msg.kind = "NewNeighbor"

\* What a step may do to the queues and the sends: one thread begins a send,
\* or it goes quiet or looks for a sleeper, or no send changes.
Posts(th) ==
    /\ out[th].stage # "link" /\ SendOf(th)'
    /\ \E inb, to, m, h, last :
         /\ Mails(inb) /\ Send(inb, th, to, m, h, last)
         /\ to \in Scheds /\ m \in SchedMessage /\ (m.kind = "NewNeighbor" => opc = "nn")
Hushes ==
    /\ Mails(inbox')
    /\ \/ UNCHANGED out
       \/ \E th \in Threads, st \in {"none", "pick"} :
            out[th].stage # "link" /\ out' = [out EXCEPT ![th] = NotSending(st)]

\* A send as it begins.
LEMMA SendGives ==
  ASSUME TypeOK, NEW th \in Threads, NEW inb, NEW to, NEW m, NEW h, NEW last,
         Send(inb, th, to, m, h, last)
  PROVE  /\ out'[th].stage = "link" /\ out'[th].to = to /\ out'[th].msg = m
         /\ out'[th].h = h /\ out'[th].last = last
         /\ \A r \in Threads \ {th} : out'[r] = out[r]
  BY DEF Send, TypeOK, MsgOK

\* A send that drops its handle.
LEMMA PostsLast ==
  ASSUME TypeOK, NEW th \in Threads, out[th].stage # "link",
         NEW inb, Mails(inb), NEW to \in Scheds, NEW m \in SchedMessage, m.kind # "NewNeighbor",
         NEW h, h = IF th = Owner THEN <<"pool", None>> ELSE <<"temp", th>>,
         Send(inb, th, to, m, h, TRUE)
  PROVE  Posts(th)
<1>1. /\ out'[th].stage = "link" /\ out'[th].to = to /\ out'[th].h = h /\ out'[th].last = TRUE
  BY SendGives
<1>2. SendOf(th)'
  BY <1>1 DEF SendOf
<1> QED
  BY <1>2 DEF Posts

\* A send through a handle that somebody keeps.
LEMMA PostsKept ==
  ASSUME TypeOK, NEW th \in Threads, out[th].stage # "link",
         NEW inb, Mails(inb), NEW to \in Scheds, NEW m \in SchedMessage,
         m.kind = "NewNeighbor" => opc = "nn",
         NEW h, Send(inb, th, to, m, h, FALSE), Borrows(th, to, h)'
  PROVE  Posts(th)
<1>1. /\ out'[th].stage = "link" /\ out'[th].to = to /\ out'[th].h = h /\ out'[th].last = FALSE
  BY SendGives
<1>2. Borrows(th, out[th].to, out[th].h)'
  BY <1>1 DEF Borrows
<1>3. SendOf(th)'
  BY <1>1, <1>2 DEF SendOf
<1> QED
  BY <1>3 DEF Posts

\* send_task_home and send_to_friend: a task that does not run here has a
\* home, or the scheduler has a friend.
LEMMA AwayPosts ==
  ASSUME TypeOK, NEW inb, Mails(inb), NEW s \in Scheds, Quiet(s), NEW t \in Tasks,
         home[t] # None, ~RunsHere(s, t), SendAway(inb, s, t), pc'[s] # "stopped"
  PROVE  Posts(s)
<1>1. s \in Threads /\ out[s].stage # "link" /\ s # Owner /\ s # Ext
  BY SchedsAssumption DEF Threads, Quiet
<1>2. /\ Msg("PinnedTask", t) \in SchedMessage /\ Msg("TaskFromFriend", t) \in SchedMessage
      /\ Msg("PinnedTask", t).kind # "NewNeighbor" /\ Msg("TaskFromFriend", t).kind # "NewNeighbor"
  BY MsgTypes DEF Msg, TaskKinds
<1>3. CASE home[t] \in Scheds
  <2>1. Send(inb, s, home[t], Msg("PinnedTask", t), <<"temp", s>>, TRUE)
    BY <1>3 DEF SendAway
  <2> QED
    BY <1>1, <1>2, <1>3, <2>1, PostsLast
<1>4. CASE home[t] \notin Scheds
  <2>1. home[t] = AnySched /\ Friend[s] # None /\ Friend[s] \in Scheds
    BY <1>4, FriendAssumption DEF RunsHere, TypeOK, TaskOK
  <2>2. Send(inb, s, Friend[s], Msg("TaskFromFriend", t), <<"friend", s>>, FALSE)
    BY <1>4 DEF SendAway
  <2>3. Borrows(s, Friend[s], <<"friend", s>>)'
    BY DEF Borrows
  <2> QED
    BY <1>1, <1>2, <2>1, <2>2, <2>3, PostsKept
<1> QED
  BY <1>3, <1>4

\* A Wake taken to the first of the sleepers.
LEMMA WakePosts ==
  ASSUME TypeOK, NEW s \in Scheds, out[s].stage # "link", sleepers # <<>>,
         Send(inbox, s, Head(sleepers), Msg("Wake", None), <<"temp", s>>, TRUE)
  PROVE  Posts(s)
<1>1. s \in Threads /\ s # Owner /\ Mails(inbox)
  BY SchedsAssumption DEF Threads, Mails
<1>2. Msg("Wake", None) \in SchedMessage /\ Msg("Wake", None).kind # "NewNeighbor"
  BY MsgTypes DEF Msg
<1>3. Head(sleepers) \in Scheds
  BY HeadTailProperties DEF TypeOK, SleepOK
<1> QED
  BY <1>1, <1>2, <1>3, PostsLast

\* process_task as a step of the messages.
LEMMA ProcessPosts ==
  ASSUME TypeOK, NEW inb, Mails(inb), NEW s \in Scheds, Quiet(s), NEW t \in Tasks, home[t] # None,
         NEW next, ProcessTask(inb, s, t, next), pc'[s] # "stopped"
  PROVE  Posts(s) \/ Hushes
<1>1. CASE inbox' = inb /\ UNCHANGED out
  BY <1>1 DEF Hushes, Mails
<1>2. CASE ~RunsHere(s, t) /\ SendAway(inb, s, t)
  BY <1>2, AwayPosts
<1> QED
  BY <1>1, <1>2 DEF ProcessTask

\* A step of a scheduler's thread.
LEMMA MailSched ==
  ASSUME TypeOK, TaskInv, IdleInv, NEW s \in Scheds, SchedStep(s)
  PROVE  LinkAndFire(s) \/ Posts(s) \/ Hushes
<1>1. s \in Threads /\ inbox \in [Scheds -> Seq(Node)] /\ Mails(inbox)
  BY DEF Threads, TypeOK, MsgOK, Mails
<1>2. CASE \/ LoopEvent(s) \/ LoopIdle(s) \/ LoopExit(s) \/ NoMessage(s) \/ WorkNone(s)
           \/ GoToSleep(s) \/ FillSleeper(s) \/ NotifyDone(s) \/ \E t \in Tasks : Reap(s, t)
  <2>1. UNCHANGED <<inbox, out>>
    BY <1>2 DEF LoopEvent, LoopIdle, LoopExit, NoMessage, WorkNone, GoToSleep, FillSleeper,
       NotifyDone, Reap, msgv
  <2> QED
    BY <2>1 DEF Hushes, Mails
<1>3. CASE PickSleeper(s)
  <2>1. out[s].stage # "link"
    BY <1>3 DEF PickSleeper
  <2>2. CASE NoneAsleep
    BY <1>1, <1>3, <2>1, <2>2 DEF PickSleeper, Hushes
  <2>3. CASE ~NoneAsleep
    BY <1>3, <2>1, <2>3, WakePosts DEF PickSleeper, NoneAsleep
  <2> QED
    BY <2>2, <2>3
<1>4. CASE DrainSleepers(s)
  <2>1. out[s].stage # "link"
    BY <1>4 DEF DrainSleepers, Quiet
  <2>2. CASE NoneAsleep
    BY <1>1, <1>4, <2>2 DEF DrainSleepers, Hushes, msgv
  <2>3. CASE ~NoneAsleep
    BY <1>4, <2>1, <2>3, WakePosts DEF DrainSleepers, NoneAsleep
  <2> QED
    BY <2>2, <2>3
<1>5. CASE PinnedTask(s) \/ RunOnce(s) \/ Wake(s) \/ Shutdown(s) \/ NewNeighbor(s)
  <2>1. /\ inbox[s] # <<>> /\ pc[s] \in {"msg1", "msg2", "msg2did"} /\ inbox' = Popped(s)
        /\ UNCHANGED <<idle, out>>
        /\ NewNeighbor(s) => Head(inbox[s]).msg.kind = "NewNeighbor"
    BY <1>5 DEF PinnedTask, RunOnce, Wake, Shutdown, NewNeighbor, Message, loopv
  <2>2. idle[s]
    BY <2>1 DEF IdleInv, InRound
  <2>3. pc'[s] \in {"sleep", "fill"} => NewNeighbor(s)
    <3>1. CASE PinnedTask(s) \/ RunOnce(s)
      BY <3>1 DEF PinnedTask, RunOnce, ResumeTask, TypeOK, CtlOK
    <3>2. CASE Wake(s) \/ Shutdown(s)
      <4>1. GoOn(s, "keep_going") \/ pc' = [pc EXCEPT ![s] = "drain"]
        BY <3>2 DEF Wake, Shutdown, StopSleeping
      <4> QED
        BY <4>1, GoOnPlaces DEF TypeOK, CtlOK
    <3> QED
      BY <1>5, <3>1, <3>2
  <2>4. Mails(inbox')
    BY <2>1, <2>2, <2>3 DEF Mails, Waits
  <2> QED
    BY <2>1, <2>4 DEF Hushes
<1>6. CASE TaskFromFriend(s)
  <2>1. /\ inbox[s] # <<>> /\ pc[s] \in {"msg1", "msg2", "msg2did"} /\ Quiet(s)
        /\ Head(inbox[s]).msg.kind \in TaskKinds
        /\ Head(inbox[s]).msg.kind = "TaskFromFriend"
        /\ ProcessTask(Popped(s), s, Arg(s), "keep_going") /\ UNCHANGED idle
    BY <1>6 DEF TaskFromFriend, Message, TaskKinds, loopv
  <2>2. PICK u \in Tasks : u = Arg(s)
    BY <2>1, PopTypes DEF TypeOK
  <2>3. s \in MailIn(inbox, u)
    BY <2>1, <2>2, PopTakes
  <2>4. tstate[u] \in Live /\ MailIn(inbox, u) = {s} /\ OnceIn(inbox, u)
    BY <2>3, TaskFound
  <2>5. PinnedIn(inbox, u) = {}
    BY <2>1, <2>2, <2>4, PopTakes
  <2>6. home[u] # None
    BY <2>4, <2>5 DEF TaskInv, LifeOf, Live
  <2>7. idle[s]
    BY <2>1 DEF IdleInv, InRound
  <2>8. pc'[s] \in {"task", "loop", "work"}
    BY <2>1, ProcessPlaces
  <2>9. Mails(Popped(s))
    BY <2>1, <2>7, <2>8 DEF Mails, Waits
  <2>10. ProcessTask(Popped(s), s, u, "keep_going") /\ pc'[s] # "stopped"
    BY <2>1, <2>2, <2>8
  <2> QED
    BY <2>1, <2>6, <2>9, <2>10, ProcessPosts
<1>7. ASSUME NEW v \in Scheds, wq[v] # <<>>, NEW u \in Tasks,
             \/ u = Last(wq[v]) /\ wq' = [wq EXCEPT ![v] = Front(@)]
             \/ u = Head(wq[v]) /\ wq' = [wq EXCEPT ![v] = Tail(@)],
             ProcessTask(inbox, s, u, "msg2did"), Quiet(s)
      PROVE  Posts(s) \/ Hushes
  <2>1. v \in QueuedAt(u)
    BY <1>7, DequeueEffect
  <2>2. home[u] # None
    BY <2>1, TaskFound DEF Live
  <2>3. pc'[s] \in {"task", "msg2did"}
    BY <1>7, ProcessPlaces
  <2> QED
    BY <1>1, <1>7, <2>2, <2>3, ProcessPosts
<1>8. CASE WorkOwn(s)
  <2>1. /\ wq[s] # <<>> /\ wq' = [wq EXCEPT ![s] = Front(@)] /\ Quiet(s)
        /\ ProcessTask(inbox, s, Last(wq[s]), "msg2did")
    BY <1>8 DEF WorkOwn, Working
  <2>2. PICK u \in Tasks : u = Last(wq[s])
    BY <2>1, FrontLastTypes DEF TypeOK, WorkOK
  <2> QED
    BY <1>7, <2>1, <2>2
<1>9. CASE WorkSteal(s)
  <2>1. PICK v \in known[s] : /\ wq[v] # <<>> /\ wq' = [wq EXCEPT ![v] = Tail(@)] /\ Quiet(s)
                              /\ ProcessTask(inbox, s, Head(wq[v]), "msg2did")
    BY <1>9 DEF WorkSteal, Working
  <2>2. v \in Scheds
    BY DEF TypeOK, WorkOK
  <2>3. PICK u \in Tasks : u = Head(wq[v])
    BY <2>1, <2>2, HeadTailProperties DEF TypeOK, WorkOK
  <2> QED
    BY <1>7, <2>1, <2>2, <2>3
<1> QED
  BY <1>2, <1>3, <1>4, <1>5, <1>6, <1>8, <1>9 DEF SchedStep

\* A step of the running task, and a wakeup from an I/O callback.
LEMMA MailTask ==
  ASSUME TypeOK, TaskInv, NEW s \in Scheds,
         TaskStep(s) \/ \E u \in Tasks : ReawakenFromLoop(s, u)
  PROVE  Posts(s) \/ Hushes
<1>1. s \in Threads /\ Mails(inbox)
  BY DEF Threads, Mails
<1>2. ASSUME NEW u \in Tasks, tstate[u] \in {"unborn", "blocked"} PROVE home[u] # None
  <2>1. MailIn(inbox, u) = {} /\ tstate[u] # "dead"
    BY <1>2, TaskFound DEF Live, Nowhere
  <2> QED
    BY <2>1, TaskFound
<1>3. CASE TaskStep(s)
  <2>1. PICK t \in Tasks :
          \/ Bootstrap(s, t) \/ YieldNow(s, t) \/ Deschedule(s, t) \/ Terminate(s, t)
          \/ \E u \in Tasks : SpawnSibling(s, t, u) \/ Reawaken(s, t, u)
    BY <1>3 DEF TaskStep
  <2>2. Quiet(s) /\ out[s].stage # "link" /\ pc'[s] # "stopped"
    BY <1>3, <2>1, TurnPlaces
       DEF Bootstrap, YieldNow, Deschedule, Terminate, SpawnSibling, Reawaken, TaskTurn, Quiet
  <2>3. CASE UNCHANGED inbox /\ (UNCHANGED out \/ out' = [out EXCEPT ![s] = NotSending("pick")])
    BY <1>1, <2>2, <2>3 DEF Hushes
  <2>4. CASE Bootstrap(s, t) \/ Terminate(s, t) \/ YieldNow(s, t) \/ Deschedule(s, t)
    BY <2>3, <2>4 DEF Bootstrap, Terminate, YieldNow, Deschedule, EnqueueTask, msgv
  <2>5. ASSUME NEW u \in Tasks, SpawnSibling(s, t, u) \/ Reawaken(s, t, u) PROVE Posts(s) \/ Hushes
    <3>1. RunTask(s, t, u) /\ tstate[u] \in {"unborn", "blocked"}
      BY <2>5 DEF SpawnSibling, Reawaken
    <3>2. CASE EnqueueTask(s, t) /\ UNCHANGED inbox
      BY <2>3, <3>2 DEF EnqueueTask
    <3>3. CASE ~RunsHere(s, u) /\ SendAway(inbox, s, u)
      BY <1>1, <1>2, <2>2, <3>1, <3>3, AwayPosts
    <3> QED
      BY <3>1, <3>2, <3>3 DEF RunTask
  <2> QED
    BY <2>1, <2>4, <2>5
<1>4. CASE \E u \in Tasks : ReawakenFromLoop(s, u)
  <2>1. PICK u \in Tasks : /\ tstate[u] = "blocked" /\ Quiet(s)
                           /\ ProcessTask(inbox, s, u, "loop")
    BY <1>4 DEF ReawakenFromLoop, InLoop
  <2>2. pc'[s] # "stopped"
    BY <2>1, ProcessPlaces
  <2> QED
    BY <1>1, <1>2, <2>1, <2>2, ProcessPosts
<1> QED
  BY <1>3, <1>4

\* The steps of the other threads.
LEMMA MailOthers ==
  ASSUME TypeOK, TaskInv, OwnerStep \/ UserStep \/ ExtStep
  PROVE  \/ \E th \in {Owner, Ext} : LinkAndFire(th) \/ Posts(th)
         \/ Hushes
<1>1. Owner \in Threads /\ Ext \in Threads /\ Mails(inbox) /\ Owner # Ext
  BY SchedsAssumption DEF Threads, Mails
<1>2. pool \in Seq(Scheds) /\ DOMAIN pool = 1 .. Len(pool) /\ Len(pool) \in Nat
      /\ \A i \in 1 .. Len(pool) : pool[i] \in Scheds /\ pool[i] \in Range(pool)
  BY LenProperties, ElementOfSeq DEF TypeOK, PoolOK, Range
<1>3. CASE \/ StartSched \/ WaitForTasks \/ RecvDone \/ JoinThreads \/ StartShutdown
           \/ \E s \in Scheds : SpawnSched(s) \/ DropUser(s)
  <2>1. UNCHANGED msgv
    BY <1>3 DEF StartSched, WaitForTasks, RecvDone, JoinThreads, StartShutdown, SpawnSched, DropUser
  <2> QED
    BY <1>1, <2>1 DEF Hushes, msgv
<1>4. CASE SendNewNeighbor
  <2>1. /\ newS \in Scheds /\ Msg("NewNeighbor", newS) \in SchedMessage /\ opc = "nn"
        /\ out[Owner].stage # "link" /\ oi \in 1 .. Len(pool)
    BY <1>2, <1>4, MsgTypes DEF SendNewNeighbor, OwnerAt, Quiet, TypeOK, PoolOK
  <2>2. Send(inbox, Owner, pool[oi], Msg("NewNeighbor", newS), <<"pool", None>>, FALSE)
    BY <1>4 DEF SendNewNeighbor
  <2>3. PICK to \in Scheds : to = pool[oi] /\ to \in Range(pool)
    BY <1>2, <2>1
  <2>4. Borrows(Owner, to, <<"pool", None>>)'
    BY <1>4, <2>1, <2>3 DEF Borrows, SendNewNeighbor
  <2> QED
    BY <1>1, <2>1, <2>2, <2>3, <2>4, PostsKept
<1>5. CASE SendShutdown
  <2>1. Msg("Shutdown", None) \in SchedMessage /\ Msg("Shutdown", None).kind # "NewNeighbor"
    BY MsgTypes DEF Msg
  <2>2. CASE oi <= Len(pool)
    <3>1. out[Owner].stage # "link" /\ oi \in 1 .. Len(pool)
      BY <1>2, <1>5, <2>2 DEF SendShutdown, OwnerAt, Quiet, TypeOK, PoolOK
    <3>2. Send(inbox, Owner, pool[oi], Msg("Shutdown", None), <<"pool", None>>, TRUE)
      BY <1>5, <2>2 DEF SendShutdown
    <3> QED
      BY <1>1, <1>2, <2>1, <3>1, <3>2, PostsLast
  <2>3. CASE ~(oi <= Len(pool))
    BY <1>1, <1>5, <2>3 DEF SendShutdown, Hushes, msgv
  <2> QED
    BY <2>2, <2>3
<1>6. ASSUME NEW t \in Tasks, Spawn(t) PROVE Posts(Owner)
  <2>1. /\ Msg("TaskFromFriend", t) \in SchedMessage /\ Msg("TaskFromFriend", t).kind # "NewNeighbor"
        /\ out[Owner].stage # "link" /\ next_friend \in 1 .. Len(pool)
    BY <1>6, MsgTypes DEF Spawn, OwnerAt, Quiet, Msg, TaskKinds, TypeOK, PoolOK
  <2>2. Send(inbox, Owner, pool[next_friend], Msg("TaskFromFriend", t), <<"pool", None>>, FALSE)
    BY <1>6 DEF Spawn
  <2>3. PICK to \in Scheds : to = pool[next_friend] /\ to \in Range(pool)
    BY <1>2, <2>1
  <2>4. Borrows(Owner, to, <<"pool", None>>)'
    BY <1>6, <2>3 DEF Borrows, Spawn, OwnerAt
  <2> QED
    BY <1>1, <2>1, <2>2, <2>3, <2>4, PostsKept
<1>7. ASSUME NEW t \in Tasks, NEW s \in Scheds, SpawnPinned(t, s) PROVE Posts(Owner)
  <2>1. /\ Msg("PinnedTask", t) \in SchedMessage /\ Msg("PinnedTask", t).kind # "NewNeighbor"
        /\ out[Owner].stage # "link"
    BY <1>7, MsgTypes DEF SpawnPinned, OwnerAt, Quiet, Msg, TaskKinds
  <2>2. Send(inbox, Owner, s, Msg("PinnedTask", t), <<"user", None>>, FALSE)
    BY <1>7 DEF SpawnPinned
  <2>3. Borrows(Owner, s, <<"user", None>>)'
    BY <1>7 DEF Borrows, SpawnPinned, poolv
  <2> QED
    BY <1>1, <2>1, <2>2, <2>3, PostsKept
<1>8. ASSUME NEW u \in Tasks, ReawakenRemotely(u) PROVE Posts(Ext)
  <2>1. /\ Msg("RunOnce", u) \in SchedMessage /\ Msg("RunOnce", u).kind # "NewNeighbor"
        /\ Msg("RunOnce", u).arg = u /\ out[Ext].stage # "link"
    BY <1>8, MsgTypes DEF ReawakenRemotely, Quiet, Msg, TaskKinds
  <2>2. /\ Send(inbox, Ext, thandle[u], Msg("RunOnce", u), <<"task", u>>, FALSE)
        /\ tstate[u] = "blocked" /\ tstate'[u] = "ready" /\ thandle' = thandle
    BY <1>8 DEF ReawakenRemotely, TypeOK, TaskOK
  <2>3. PICK to \in Scheds : to = thandle[u]
    BY <2>2 DEF TaskInv, LifeOf, TypeOK, TaskOK
  <2>4. out'[Ext].msg = Msg("RunOnce", u)
    BY <1>1, <2>2 DEF Send, TypeOK, MsgOK
  <2>5. Borrows(Ext, to, <<"task", u>>)'
    BY <2>1, <2>2, <2>3, <2>4 DEF Borrows
  <2> QED
    BY <1>1, <2>1, <2>2, <2>3, <2>5, PostsKept
<1> QED
  BY <1>1, <1>3, <1>4, <1>5, <1>6, <1>7, <1>8 DEF OwnerStep, UserStep, ExtStep

\* Every step, as far as messages are concerned.
LEMMA MailSteps ==
  ASSUME TypeOK, TaskInv, IdleInv, [Next]_vars
  PROVE  \/ \E th \in Threads : LinkAndFire(th) \/ Posts(th)
         \/ Hushes
<1>1. CASE UNCHANGED vars
  BY <1>1 DEF Hushes, Mails, vars, msgv
<1> QED
  BY <1>1, MailSched, MailTask, MailOthers DEF Next, Finished, Threads

-------------------------------------------------------------------------------
(* A node that is not linked belongs to a send in progress *)

\* Popping leaves a part of the nodes.
LEMMA MailsHas ==
  ASSUME TypeOK, NEW inb, Mails(inb)
  PROVE  /\ inb \in [Scheds -> Seq(Node)]
         /\ \A s \in Scheds : \A S : Has(inb[s], S) => Has(inbox[s], S)
<1>1. inbox \in [Scheds -> Seq(Node)]
  BY DEF TypeOK, MsgOK
<1>2. ASSUME NEW s \in Scheds, inbox[s] # <<>>
      PROVE  /\ Popped(s) \in [Scheds -> Seq(Node)]
             /\ \A q \in Scheds : \A S : Has(Popped(s)[q], S) => Has(inbox[q], S)
  <2>1. \A q \in Scheds : Popped(s)[q] = IF q = s THEN Tail(inbox[s]) ELSE inbox[q]
    BY <1>1 DEF Popped
  <2>2. \A S : Has(Tail(inbox[s]), S) => Has(inbox[s], S)
    BY <1>1, <1>2, PopHas
  <2> QED
    BY <1>2, <2>1, <2>2, PopTypes DEF TypeOK
<1>3. inb = inbox \/ \E s \in Scheds : inbox[s] # <<>> /\ inb = Popped(s)
  BY DEF Mails, Waits
<1>4. CASE inb = inbox
  BY <1>1, <1>4
<1>5. CASE \E s \in Scheds : inbox[s] # <<>> /\ inb = Popped(s)
  <2>1. PICK s \in Scheds : inbox[s] # <<>> /\ inb = Popped(s)
    BY <1>5
  <2> QED
    BY <1>2, <2>1
<1> QED
  BY <1>3, <1>4, <1>5

\* A send's node is the one it adds.
LEMMA PostsHas ==
  ASSUME TypeOK, NEW th \in Threads, NEW inb, Mails(inb), NEW to \in Scheds,
         NEW m \in SchedMessage, NEW h, NEW last, Send(inb, th, to, m, h, last)
  PROVE  \A s \in Scheds : \A S : Has(inbox'[s], S) =>
           Has(inbox[s], S) \/ (s = to /\ [msg |-> m, by |-> th] \in S)
<1> DEFINE n == [msg |-> m, by |-> th]
<1>1. n \in Node
  BY DEF Node
<1>2. inb \in [Scheds -> Seq(Node)] /\ \A s \in Scheds : \A S : Has(inb[s], S) => Has(inbox[s], S)
  BY MailsHas
<1>3. \A s \in Scheds : inbox'[s] = IF s = to THEN Append(inb[s], n) ELSE inb[s]
  BY <1>2 DEF Send
<1> HIDE DEF n
<1>4. \A S : Has(Append(inb[to], n), S) <=> Has(inb[to], S) \/ n \in S
  BY <1>1, <1>2, PushHas
<1>5. ASSUME NEW s \in Scheds, NEW S, Has(inbox'[s], S)
      PROVE  Has(inbox[s], S) \/ (s = to /\ n \in S)
  BY <1>2, <1>3, <1>4, <1>5
<1> QED
  BY <1>5 DEF n

\* Linking takes a thread's own nodes away and no others.
LEMMA LinkHas ==
  ASSUME TypeOK, NEW th \in Threads, LinkAndFire(th)
  PROVE  \A s \in Scheds, r \in Threads : Has(inbox'[s], By(r)) =>
            Has(inbox[s], By(r)) /\ (s = out[th].to => r # th)
<1> SUFFICES ASSUME NEW s \in Scheds, NEW r \in Threads, Has(inbox'[s], By(r))
             PROVE  Has(inbox[s], By(r)) /\ (s = out[th].to => r # th)
  OBVIOUS
<1>1. inbox \in [Scheds -> Seq(Node)] /\ None \notin Threads
  BY SchedsAssumption DEF TypeOK, MsgOK
<1>2. inbox'[s] = IF s = out[th].to THEN Linked(inbox[s], th) ELSE inbox[s]
  BY <1>1 DEF LinkAndFire
<1>3. CASE s = out[th].to
  <2>1. PICK i \in DOMAIN inbox[s] : Linked(inbox[s], th)[i] \in By(r)
    BY <1>1, <1>2, <1>3, LinkedTypes DEF Has
  <2>2. inbox[s][i] \in Node
    BY <1>1, <2>1, LenProperties, ElementOfSeq
  <2>3. Linked(inbox[s], th)[i] = IF inbox[s][i].by = th THEN [inbox[s][i] EXCEPT !.by = None]
                                  ELSE inbox[s][i]
    BY <2>1 DEF Linked
  <2>4. inbox[s][i].by # th /\ inbox[s][i].by = r
    BY <1>1, <2>1, <2>2, <2>3 DEF By, Node
  <2> QED
    BY <2>1, <2>2, <2>4 DEF Has, By
<1>4. CASE s # out[th].to
  BY <1>2, <1>4
<1> QED
  BY <1>3, <1>4

\* Every step keeps this.
LEMMA SendNodeNext ==
  TypeOK /\ TaskInv /\ IdleInv /\ SendNode /\ [Next]_vars => SendNode'
<1> SUFFICES ASSUME TypeOK, TaskInv, IdleInv, SendNode, [Next]_vars,
                    NEW s \in Scheds, NEW r \in Threads, Has(inbox'[s], By(r))
             PROVE  out'[r].stage = "link" /\ out'[r].to = s
  BY DEF SendNode
<1>1. Has(inbox[s], By(r)) => out[r].stage = "link" /\ out[r].to = s
  BY DEF SendNode
<1>2. ASSUME NEW th \in Threads, LinkAndFire(th) PROVE out'[r].stage = "link" /\ out'[r].to = s
  <2>1. Has(inbox[s], By(r)) /\ (s = out[th].to => r # th)
    BY <1>2, LinkHas
  <2>2. \A x \in Threads : x # th => out'[x] = out[x]
    BY <1>2 DEF LinkAndFire, TypeOK, MsgOK
  <2> QED
    BY <1>1, <2>1, <2>2
<1>3. ASSUME NEW th \in Threads, Posts(th) PROVE out'[r].stage = "link" /\ out'[r].to = s
  <2>1. PICK inb, to, m, h, last :
          /\ Mails(inb) /\ Send(inb, th, to, m, h, last) /\ to \in Scheds /\ m \in SchedMessage
    BY <1>3 DEF Posts
  <2>2. Has(inbox[s], By(r)) \/ (s = to /\ [msg |-> m, by |-> th] \in By(r))
    BY <2>1, PostsHas
  <2>3. /\ out'[th].stage = "link" /\ out'[th].to = to
        /\ \A x \in Threads \ {th} : out'[x] = out[x]
    BY <2>1, SendGives
  <2>4. out[th].stage # "link"
    BY <1>3 DEF Posts
  <2> QED
    BY <1>1, <2>2, <2>3, <2>4 DEF By
<1>4. CASE Hushes
  <2>1. Has(inbox[s], By(r))
    BY <1>4, MailsHas DEF Hushes
  <2>2. out'[r] = out[r]
    BY <1>1, <1>4, <2>1 DEF Hushes, TypeOK, MsgOK
  <2> QED
    BY <1>1, <2>1, <2>2
<1> QED
  BY <1>2, <1>3, <1>4, MailSteps

\* It holds throughout.
LEMMA SendNodeInvariant == Spec => []SendNode
<1>1. Init => SendNode
  BY EmptyHas DEF Init, SendNode
<1> QED
  BY <1>1, SendNodeNext, TypeCorrect, TaskInvariant, IdleInvariant, PTL DEF Spec

-------------------------------------------------------------------------------
(* A handle that a send goes through is not dropped under it *)

\* The owner of the pool does nothing else while it sends.
LEMMA OwnerWaits ==
  ASSUME [Next]_vars, ~Quiet(Owner)
  PROVE  UNCHANGED <<opc, oi, pool, userh>>
<1>1. ASSUME NEW s \in Scheds, SchedStep(s) PROVE UNCHANGED <<opc, oi, pool, userh>>
  BY <1>1 DEF SchedStep, LinkAndFire, PickSleeper, LoopEvent, LoopIdle, LoopExit, PinnedTask,
     TaskFromFriend, RunOnce, Wake, Shutdown, DrainSleepers, NewNeighbor, NoMessage, WorkOwn,
     WorkSteal, WorkNone, GoToSleep, FillSleeper, NotifyDone, Reap, poolv
<1>2. ASSUME NEW s \in Scheds, TaskStep(s) PROVE UNCHANGED <<opc, oi, pool, userh>>
  BY <1>2 DEF TaskStep, Bootstrap, YieldNow, Deschedule, Terminate, SpawnSibling, Reawaken, poolv
<1>3. ASSUME NEW s \in Scheds, NEW u \in Tasks, ReawakenFromLoop(s, u)
      PROVE  UNCHANGED <<opc, oi, pool, userh>>
  BY <1>3 DEF ReawakenFromLoop, poolv
<1>4. ASSUME OwnerStep \/ UserStep \/ ExtStep PROVE UNCHANGED <<opc, oi, pool, userh>>
  <2>1. LinkAndFire(Owner) \/ LinkAndFire(Ext) \/ \E u \in Tasks : ReawakenRemotely(u)
    BY <1>4 DEF OwnerStep, UserStep, ExtStep, SendNewNeighbor, StartSched, WaitForTasks, RecvDone,
       SendShutdown, JoinThreads, StartShutdown, Spawn, SpawnPinned, SpawnSched, DropUser, OwnerAt
  <2> QED
    BY <2>1 DEF LinkAndFire, ReawakenRemotely, poolv
<1>5. CASE UNCHANGED vars
  BY <1>5 DEF vars, poolv
<1> QED
  BY <1>1, <1>2, <1>3, <1>4, <1>5 DEF Next, Finished

\* Only the end of its loop stops a scheduler.
LEMMA StopsByExit ==
  ASSUME TypeOK, [Next]_vars, NEW s \in Scheds, pc[s] # "stopped", pc'[s] = "stopped"
  PROVE  LoopExit(s)
<1>1. CASE \E q \in Scheds : SchedStep(q)
  BY <1>1, SchedPlaces
<1>2. CASE \E q \in Scheds : TaskStep(q)
  BY <1>2, TurnPlaces
<1>3. CASE \E q \in Scheds, u \in Tasks : ReawakenFromLoop(q, u)
  <2>1. PICK q \in Scheds, u \in Tasks : ProcessTask(inbox, q, u, "loop")
    BY <1>3 DEF ReawakenFromLoop
  <2> QED
    BY <2>1, ProcessPlaces
<1>4. CASE StartSched
  BY <1>4 DEF StartSched, TypeOK, CtlOK
<1>5. CASE (OwnerStep \/ UserStep \/ ExtStep) /\ ~StartSched
  BY <1>5 DEF OwnerStep, UserStep, ExtStep, LinkAndFire, SendNewNeighbor, WaitForTasks, RecvDone,
     SendShutdown, JoinThreads, StartShutdown, Spawn, SpawnPinned, SpawnSched, DropUser,
     ReawakenRemotely, ctlv
<1>6. CASE UNCHANGED vars
  BY <1>6 DEF vars, ctlv
<1> QED
  BY <1>1, <1>2, <1>3, <1>4, <1>5, <1>6 DEF Next, Finished

\* A task does not run on while a native thread is inside the send that wakes
\* it (Locked), so that it neither blocks again nor ends.
LEMMA WokenWaits ==
  ASSUME TypeOK, TaskInv, [Next]_vars, NEW u \in Tasks, Locked(u), tstate[u] = "ready",
         thandle[u] # None
  PROVE  tstate'[u] = "ready" /\ thandle'[u] = thandle[u]
<1>1. tstate \in [Tasks -> TState] /\ thandle \in [Tasks -> Scheds \cup {None}]
  BY DEF TypeOK, TaskOK
<1>2. ASSUME NEW s \in Scheds, SchedStep(s) PROVE tstate'[u] = "ready" /\ thandle'[u] = thandle[u]
  <2>1. CASE \E t \in Tasks : Reap(s, t)
    <3>1. PICK t \in Tasks : Reap(s, t)
      BY <2>1
    <3>2. tstate[t] = "dying"
      BY <3>1, TaskOnThread DEF Reap
    <3> QED
      BY <1>1, <3>1, <3>2 DEF Reap
  <2>2. CASE ~\E t \in Tasks : Reap(s, t)
    BY <1>2, <2>2 DEF SchedStep, LinkAndFire, PickSleeper, LoopEvent, LoopIdle, LoopExit, PinnedTask,
       TaskFromFriend, RunOnce, Wake, Shutdown, DrainSleepers, NewNeighbor, NoMessage, WorkOwn,
       WorkSteal, WorkNone, GoToSleep, FillSleeper, NotifyDone, taskv
  <2> QED
    BY <2>1, <2>2
<1>3. ASSUME NEW s \in Scheds, TaskStep(s) PROVE tstate'[u] = "ready" /\ thandle'[u] = thandle[u]
  <2>1. PICK t \in Tasks :
          \/ Bootstrap(s, t) \/ YieldNow(s, t) \/ Deschedule(s, t) \/ Terminate(s, t)
          \/ \E v \in Tasks : SpawnSibling(s, t, v) \/ Reawaken(s, t, v)
    BY <1>3 DEF TaskStep
  <2>2. t # u
    BY <2>1 DEF Bootstrap, YieldNow, Deschedule, Terminate, SpawnSibling, Reawaken, TaskTurn
  <2>3. CASE Bootstrap(s, t) \/ YieldNow(s, t) \/ Deschedule(s, t) \/ Terminate(s, t)
    BY <1>1, <2>2, <2>3 DEF Bootstrap, YieldNow, Deschedule, Terminate, MakeTaskHandle
  <2>4. CASE \E v \in Tasks : SpawnSibling(s, t, v) \/ Reawaken(s, t, v)
    BY <1>1, <2>4 DEF SpawnSibling, Reawaken
  <2> QED
    BY <2>1, <2>3, <2>4
<1>4. ASSUME NEW s \in Scheds, NEW v \in Tasks, ReawakenFromLoop(s, v)
      PROVE  tstate'[u] = "ready" /\ thandle'[u] = thandle[u]
  BY <1>1, <1>4 DEF ReawakenFromLoop
<1>5. ASSUME OwnerStep \/ UserStep \/ ExtStep
      PROVE  tstate'[u] = "ready" /\ thandle'[u] = thandle[u]
  <2>1. /\ UNCHANGED thandle
        /\ \/ UNCHANGED tstate
           \/ \E v \in Tasks : tstate[v] = "unborn" /\ tstate' = [tstate EXCEPT ![v] = "fresh"]
           \/ \E v \in Tasks : tstate[v] = "blocked" /\ tstate' = [tstate EXCEPT ![v] = "ready"]
    BY <1>5 DEF OwnerStep, UserStep, ExtStep, LinkAndFire, SendNewNeighbor, StartSched, WaitForTasks,
       RecvDone, SendShutdown, JoinThreads, StartShutdown, Spawn, SpawnPinned, SpawnSched, DropUser,
       ReawakenRemotely, taskv
  <2> QED
    BY <1>1, <2>1
<1>6. CASE UNCHANGED vars
  BY <1>6 DEF vars, taskv
<1> QED
  BY <1>2, <1>3, <1>4, <1>5, <1>6 DEF Next, Finished

\* Whoever lends the handle keeps it until the send is over.
LEMMA BorrowsKept ==
  ASSUME TypeOK, TaskInv, [Next]_vars, NEW th \in Threads, out[th].stage = "link", out'[th] = out[th],
         NEW to \in Scheds, NEW h, Borrows(th, to, h)
  PROVE  Borrows(th, to, h)'
<1>1. CASE th = Owner
  <2>1. UNCHANGED <<opc, oi, pool, userh>>
    BY <1>1, OwnerWaits DEF Quiet
  <2> QED
    BY <1>1, <2>1, SchedsAssumption DEF Borrows
<1>2. CASE th \in Scheds
  <2>1. h = <<"friend", th>> /\ Friend[th] = to /\ pc[th] # "stopped"
    BY <1>2, SchedsAssumption DEF Borrows
  <2>2. pc'[th] # "stopped"
    BY <1>2, <2>1, StopsByExit DEF LoopExit, InLoop, Quiet
  <2> QED
    BY <1>2, <2>1, <2>2 DEF Borrows
<1>3. CASE th = Ext
  <2>1. PICK u \in Tasks : /\ out[th].msg.arg = u /\ h = <<"task", u>>
                           /\ thandle[u] = to /\ tstate[u] = "ready"
    BY <1>3, SchedsAssumption DEF Borrows
  <2>2. Locked(u) /\ thandle[u] # None
    BY <1>3, <2>1, SchedsAssumption DEF Locked, Quiet, Threads
  <2>3. tstate'[u] = "ready" /\ thandle'[u] = thandle[u]
    BY <2>1, <2>2, WokenWaits
  <2> QED
    BY <1>3, <2>1, <2>3 DEF Borrows
<1> QED
  BY <1>1, <1>2, <1>3 DEF Threads

\* Every step keeps this.
LEMMA SendNext == TypeOK /\ TaskInv /\ IdleInv /\ SendInv /\ [Next]_vars => SendInv'
<1> SUFFICES ASSUME TypeOK, TaskInv, IdleInv, SendInv, [Next]_vars, NEW th \in Threads
             PROVE  SendOf(th)'
  BY DEF SendInv
<1>1. SendOf(th)
  BY DEF SendInv
<1>2. CASE out'[th].stage # "link"
  BY <1>2 DEF SendOf
<1>3. CASE out'[th] = out[th] /\ out[th].stage = "link"
  <2>1. out[th].to \in Scheds
    BY <1>1, <1>3 DEF SendOf
  <2>2. PICK to, h : to \in Scheds /\ to = out[th].to /\ h = out[th].h
    BY <2>1
  <2>3. Borrows(th, to, h) => Borrows(th, to, h)'
    BY <1>3, <2>2, BorrowsKept
  <2>4. Borrows(th, to, h)' => Borrows(th, out[th].to, out[th].h)'
    BY <1>3, <2>2 DEF Borrows
  <2> QED
    BY <1>1, <1>3, <2>2, <2>3, <2>4 DEF SendOf
<1>4. CASE Posts(th)
  BY <1>4 DEF Posts
<1>5. ASSUME NEW r \in Threads, r # th, Posts(r) PROVE out'[th] = out[th]
  <2>1. PICK inb, to, m, h, last : Send(inb, r, to, m, h, last)
    BY <1>5 DEF Posts
  <2> QED
    BY <1>5, <2>1, SendGives
<1>6. ASSUME NEW r \in Threads, LinkAndFire(r) PROVE out'[th] = out[th] \/ out'[th].stage # "link"
  BY <1>6 DEF LinkAndFire, NotSending, TypeOK, MsgOK
<1>7. Hushes => out'[th] = out[th] \/ out'[th].stage # "link"
  BY DEF Hushes, NotSending, TypeOK, MsgOK
<1> QED
  BY <1>2, <1>3, <1>4, <1>5, <1>6, <1>7, MailSteps

\* It holds throughout.
LEMMA SendInvariant == Spec => []SendInv
<1>1. Init => SendInv
  BY DEF Init, SendInv, SendOf, NotSending
<1> QED
  BY <1>1, SendNext, TypeCorrect, TaskInvariant, IdleInvariant, PTL DEF Spec

-------------------------------------------------------------------------------
(* A pool that does not grow.  NewNeighbor is the only message after which a *)
(* scheduler may go to sleep without another look at its queue.              *)

FixedInv ==
    /\ opc # "nn" /\ pool = InitPool
    /\ \A s \in Scheds : ~Has(inbox[s], Neighbors)

\* Only spawn_sched announces a scheduler, and only it adds one to the pool.
LEMMA GrowsBySpawn ==
  ASSUME [Next]_vars, opc # "nn"
  PROVE  UNCHANGED pool /\ (opc' # "nn" \/ \E s \in Scheds : SpawnSched(s))
<1>1. ASSUME NEW s \in Scheds, SchedStep(s) PROVE UNCHANGED <<pool, opc>>
  BY <1>1 DEF SchedStep, LinkAndFire, PickSleeper, LoopEvent, LoopIdle, LoopExit, PinnedTask,
     TaskFromFriend, RunOnce, Wake, Shutdown, DrainSleepers, NewNeighbor, NoMessage, WorkOwn,
     WorkSteal, WorkNone, GoToSleep, FillSleeper, NotifyDone, Reap, poolv
<1>2. ASSUME NEW s \in Scheds, TaskStep(s) PROVE UNCHANGED <<pool, opc>>
  BY <1>2 DEF TaskStep, Bootstrap, YieldNow, Deschedule, Terminate, SpawnSibling, Reawaken, poolv
<1>3. ASSUME NEW s \in Scheds, NEW u \in Tasks, ReawakenFromLoop(s, u) PROVE UNCHANGED <<pool, opc>>
  BY <1>3 DEF ReawakenFromLoop, poolv
<1>4. ASSUME OwnerStep \/ UserStep \/ ExtStep
      PROVE  UNCHANGED pool /\ (opc' # "nn" \/ \E s \in Scheds : SpawnSched(s))
  BY <1>4 DEF OwnerStep, UserStep, ExtStep, LinkAndFire, SendNewNeighbor, StartSched, WaitForTasks,
     RecvDone, SendShutdown, JoinThreads, StartShutdown, Spawn, SpawnPinned, DropUser,
     ReawakenRemotely, SpawnSched, OwnerAt, poolv
<1>5. CASE UNCHANGED vars
  BY <1>5 DEF vars, poolv
<1> QED
  BY <1>1, <1>2, <1>3, <1>4, <1>5 DEF Next, Finished

\* A pool with every scheduler in it does not grow.
LEMMA FixedNext ==
  ASSUME Scheds = Range(InitPool), TypeOK, TaskInv, IdleInv, PoolInv, FixedInv, [Next]_vars
  PROVE  FixedInv'
<1>1. \A s \in Scheds : pc[s] # "off"
  BY DEF FixedInv, PoolInv
<1>2. opc' # "nn" /\ pool' = InitPool
  BY <1>1, GrowsBySpawn DEF FixedInv, SpawnSched
<1>3. ASSUME NEW s \in Scheds PROVE ~Has(inbox'[s], Neighbors)
  <2>1. ~Has(inbox[s], Neighbors)
    BY DEF FixedInv
  <2>2. ASSUME NEW th \in Threads, LinkAndFire(th) PROVE ~Has(inbox'[s], Neighbors)
    <3>1. inbox'[s] = inbox[s] \/ inbox'[s] = Linked(inbox[s], th)
      BY <2>2 DEF LinkAndFire, TypeOK, MsgOK
    <3>2. inbox[s] \in Seq(Node)
      BY DEF TypeOK, MsgOK
    <3>3. \A i \in DOMAIN inbox[s] : inbox[s][i] \in Node
      BY <3>2, LenProperties, ElementOfSeq
    <3>4. ~Has(Linked(inbox[s], th), Neighbors)
      BY <2>1, <3>2, <3>3, LinkedTypes DEF Has, Neighbors
    <3> QED
      BY <2>1, <3>1, <3>4
  <2>3. ASSUME NEW th \in Threads, Posts(th) PROVE ~Has(inbox'[s], Neighbors)
    <3>1. PICK inb, to, m, h, last :
            /\ Mails(inb) /\ Send(inb, th, to, m, h, last)
            /\ to \in Scheds /\ m \in SchedMessage /\ (m.kind = "NewNeighbor" => opc = "nn")
      BY <2>3 DEF Posts
    <3>2. [msg |-> m, by |-> th] \notin Neighbors
      BY <3>1 DEF Neighbors, FixedInv
    <3> QED
      BY <2>1, <3>1, <3>2, PostsHas
  <2>4. CASE Hushes
    BY <2>1, <2>4, MailsHas DEF Hushes
  <2> QED
    BY <2>2, <2>3, <2>4, MailSteps
<1> QED
  BY <1>2, <1>3 DEF FixedInv

\* It holds throughout.
LEMMA FixedInvariant ==
  ASSUME Scheds = Range(InitPool)
  PROVE  Spec => []FixedInv
<1>1. Init => FixedInv
  BY EmptyHas DEF Init, FixedInv
<1>2. TypeOK /\ TaskInv /\ IdleInv /\ PoolInv /\ FixedInv /\ [Next]_vars => FixedInv'
  BY FixedNext
<1> QED
  BY <1>1, <1>2, TypeCorrect, TaskInvariant, IdleInvariant, PoolInvariant, PTL DEF Spec

-------------------------------------------------------------------------------
(* A message that can be seen has a callback pending *)

Runs == {e \in Event : e.ev = "RunRemote"}
EvPending(q)  == (Uv /\ q # <<>>) \/ Has(q, Runs)
HeadLinked(q) == q # <<>> /\ Head(q).by = None

MessageInv == \A s \in Scheds : Waits(s) /\ HeadLinked(inbox[s]) => EvPending(evq[s])

\* The steps that touch an event queue.
LEMMA EventSteps ==
  ASSUME [Next]_vars
  PROVE  \/ \E th \in Threads : LinkAndFire(th)
         \/ \E s \in Scheds : LoopEvent(s) \/ LoopExit(s) \/ DropUser(s) \/ \E t \in Tasks : Reap(s, t)
         \/ UNCHANGED evq
<1>1. ASSUME NEW s \in Scheds, SchedStep(s)
      PROVE  \/ LinkAndFire(s) \/ LoopEvent(s) \/ LoopExit(s) \/ \E t \in Tasks : Reap(s, t)
             \/ UNCHANGED evq
  BY <1>1 DEF SchedStep, PickSleeper, LoopIdle, PinnedTask, TaskFromFriend, RunOnce, Wake, Shutdown,
     DrainSleepers, NewNeighbor, NoMessage, WorkOwn, WorkSteal, WorkNone, GoToSleep, FillSleeper,
     NotifyDone, loopv
<1>2. ASSUME NEW s \in Scheds, TaskStep(s) \/ \E u \in Tasks : ReawakenFromLoop(s, u)
      PROVE  UNCHANGED evq
  BY <1>2 DEF TaskStep, Bootstrap, YieldNow, Deschedule, Terminate, SpawnSibling, Reawaken,
     ReawakenFromLoop, loopv
<1>3. ASSUME OwnerStep \/ UserStep \/ ExtStep
      PROVE  \/ LinkAndFire(Owner) \/ LinkAndFire(Ext) \/ \E s \in Scheds : DropUser(s)
             \/ UNCHANGED evq
  BY <1>3 DEF OwnerStep, UserStep, ExtStep, SendNewNeighbor, StartSched, WaitForTasks, RecvDone,
     SendShutdown, JoinThreads, StartShutdown, Spawn, SpawnPinned, SpawnSched, ReawakenRemotely, loopv
<1>4. CASE UNCHANGED vars
  BY <1>4 DEF vars, loopv
<1> QED
  BY <1>1, <1>2, <1>3, <1>4 DEF Next, Finished, Threads

\* A callback stays pending whatever is fired and dropped.
LEMMA PendingKept ==
  ASSUME NEW q \in Seq(Event), NEW h \in Handles
  PROVE  /\ EvPending(Fired(q, h))
         /\ EventsOnce(q) /\ EvPending(q) => EvPending(Dropped(q, h))
<1>1. RunRemote(h) \in Runs /\ RemoveRemote(h) \in Event
  BY HandleTypes, EventKinds DEF Runs
<1>2. EvPending(Fired(q, h))
  BY <1>1, FireEffect DEF EvPending
<1>3. ASSUME EventsOnce(q), EvPending(q) PROVE EvPending(Dropped(q, h))
  <2>1. CASE Uv
    BY <1>3, <2>1, DropEffect DEF EvPending
  <2>2. CASE ~Uv
    <3>1. Dropped(q, h) = Append(q, RemoveRemote(h)) /\ Has(q, Runs)
      BY <1>3, <2>2, DropEffect DEF EvPending
    <3>2. Has(Append(q, RemoveRemote(h)), Runs)
      BY <1>1, <3>1, PushHas
    <3> QED
      BY <3>1, <3>2 DEF EvPending
  <2> QED
    BY <2>1, <2>2
<1> QED
  BY <1>2, <1>3

\* One pending callback runs, or a removal that runs nothing is taken.
LEMMA PendingNext ==
  ASSUME TypeOK, EventInv, [Next]_vars, NEW q \in Scheds, EvPending(evq[q]), Waits(q)'
  PROVE  EvPending(evq'[q])
<1>1. evq \in [Scheds -> Seq(Event)] /\ \A r \in Scheds : evq[r] \in Seq(Event) /\ EventsOnce(evq[r])
  BY DEF TypeOK, LoopOK, EventInv
<1>2. ASSUME NEW h \in Handles
      PROVE  /\ EvPending(Dropped(evq[q], h)) /\ Dropped(evq[q], h) \in Seq(Event)
             /\ EventsOnce(Dropped(evq[q], h))
  BY <1>1, PendingKept, DropEffect
<1>3. ASSUME NEW th \in Threads, LinkAndFire(th) PROVE EvPending(evq'[q])
  <2>1. PICK h \in Handles : h = out[th].h
    BY <1>3 DEF LinkAndFire, TypeOK, MsgOK, Sending, NotSending
  <2>2. /\ Fired(evq[q], h) \in Seq(Event) /\ EventsOnce(Fired(evq[q], h))
        /\ EvPending(Fired(evq[q], h))
    BY <1>1, FireEffect, PendingKept
  <2>3. EvPending(Dropped(Fired(evq[q], h), h))
    BY <2>2, PendingKept
  <2>4. \/ evq'[q] = evq[q] \/ evq'[q] = Fired(evq[q], h)
        \/ evq'[q] = Dropped(Fired(evq[q], h), h)
    BY <1>1, <1>3, <2>1 DEF LinkAndFire
  <2> QED
    BY <2>2, <2>3, <2>4
<1>4. ASSUME NEW s \in Scheds, LoopEvent(s) PROVE EvPending(evq'[q])
  <2>1. PICK i \in DOMAIN evq[s] :
          /\ evq' = [evq EXCEPT ![s] = RemoveAt(@, i)]
          /\ ~(evq[s][i].ev = "RemoveRemote" /\ ~Uv) => EnterSched(s)
    BY <1>4 DEF LoopEvent
  <2>2. CASE q # s
    BY <1>1, <2>1, <2>2
  <2>3. CASE q = s
    <3>1. ~EnterSched(s)
      BY <2>3 DEF EnterSched, Waits, TypeOK, CtlOK, LoopOK
    <3>2. evq[s][i].ev = "RemoveRemote" /\ ~Uv
      BY <2>1, <3>1
    <3>3. evq[s][i] \notin Runs /\ Has(evq[s], Runs)
      BY <2>3, <3>2 DEF Runs, EvPending
    <3>4. Has(RemoveAt(evq[s], i), Runs)
      BY <1>1, <3>3, TakeEffect
    <3> QED
      BY <1>1, <2>1, <2>3, <3>4 DEF EvPending
  <2> QED
    BY <2>2, <2>3
<1>5. ASSUME NEW s \in Scheds, LoopExit(s) PROVE EvPending(evq'[q])
  <2>1. PICK h \in Handles : h = <<"friend", s>>
    BY HandleTypes
  <2>2. evq'[q] = evq[q] \/ evq'[q] = Dropped(evq[q], h)
    BY <1>1, <1>5, <2>1 DEF LoopExit
  <2> QED
    BY <1>2, <2>2
<1>6. ASSUME NEW s \in Scheds, DropUser(s) PROVE EvPending(evq'[q])
  <2>1. PICK h \in Handles : h = <<"user", None>>
    BY HandleTypes
  <2>2. evq'[q] = evq[q] \/ evq'[q] = Dropped(evq[q], h)
    BY <1>1, <1>6, <2>1 DEF DropUser
  <2> QED
    BY <1>2, <2>2
<1>7. ASSUME NEW s \in Scheds, NEW t \in Tasks, Reap(s, t) PROVE EvPending(evq'[q])
  <2>1. PICK g \in Handles, h \in Handles : g = <<"temp", s>> /\ h = <<"task", t>>
    BY HandleTypes
  <2> DEFINE q1 == IF home[t] = q THEN Dropped(evq[q], g) ELSE evq[q]
  <2>2. evq'[q] = IF thandle[t] = q THEN Dropped(q1, h) ELSE q1
    BY <1>7, <2>1 DEF Reap, DropAll
  <2>3. q1 \in Seq(Event) /\ EventsOnce(q1) /\ EvPending(q1)
    BY <1>1, <1>2
  <2> HIDE DEF q1
  <2>4. EvPending(Dropped(q1, h))
    BY <2>3, PendingKept
  <2> QED
    BY <2>2, <2>3, <2>4
<1> QED
  BY <1>3, <1>4, <1>5, <1>6, <1>7, EventSteps

\* A scheduler decides to wait only where it has seen no message.
LEMMA WaitsNext ==
  ASSUME TypeOK, FixedInv, [Next]_vars, NEW q \in Scheds, Waits(q)'
  PROVE  Waits(q) \/ ~HeadLinked(inbox[q])
<1>1. /\ pc \in [Scheds -> PC] /\ idle \in [Scheds -> BOOLEAN]
      /\ \A r \in Scheds : after[r] \in {"keep_going", "msg2did", "loop"}
  BY DEF TypeOK, CtlOK, LoopOK
<1>2. ASSUME NEW s \in Scheds, NothingDone(s), pc[s] \in {"msg1", "msg2", "msg2did"}, UNCHANGED idle,
             NoMessage(s) \/ NewNeighbor(s)
      PROVE  Waits(q) \/ ~HeadLinked(inbox[q])
  <2>1. CASE q # s
    BY <1>2, <2>1, NothingDonePlaces DEF Waits, TypeOK
  <2>2. CASE q = s /\ NoMessage(s)
    BY <2>2 DEF NoMessage, HeadLinked
  <2>3. CASE q = s /\ NewNeighbor(s)
    <3>1. inbox[s] # <<>> /\ Head(inbox[s]).msg.kind = "NewNeighbor"
      BY <2>3 DEF NewNeighbor, Message
    <3>2. Head(inbox[s]) \in Neighbors /\ inbox[s] \in Seq(Node)
      BY <3>1, PopTypes DEF Neighbors, TypeOK, MsgOK
    <3> QED
      BY <3>1, <3>2, PopHas DEF FixedInv
  <2> QED
    BY <1>2, <2>1, <2>2, <2>3
<1>3. ASSUME NEW s \in Scheds, SchedStep(s) PROVE Waits(q) \/ ~HeadLinked(inbox[q])
  <2>1. CASE NoMessage(s) \/ NewNeighbor(s)
    BY <1>2, <2>1 DEF NoMessage, NewNeighbor, Message, loopv
  <2>2. CASE \/ LinkAndFire(s) \/ PickSleeper(s) \/ LoopEvent(s) \/ LoopIdle(s) \/ LoopExit(s)
             \/ WorkNone(s) \/ GoToSleep(s) \/ FillSleeper(s) \/ NotifyDone(s)
             \/ PinnedTask(s) \/ RunOnce(s)
    BY <1>1, <2>2 DEF LinkAndFire, PickSleeper, LoopEvent, LoopIdle, LoopExit, EnterSched, WorkNone,
       GoToSleep, FillSleeper, StopIdling, NotifyDone, PinnedTask, RunOnce, ResumeTask, Waits, ctlv, loopv
  <2>3. CASE Wake(s) \/ Shutdown(s) \/ DrainSleepers(s)
    <3>1. GoOn(s, "keep_going") \/ pc' = [pc EXCEPT ![s] = "drain"] \/ UNCHANGED pc
      BY <2>3 DEF Wake, Shutdown, DrainSleepers, StopSleeping
    <3>2. UNCHANGED idle
      BY <2>3 DEF Wake, Shutdown, DrainSleepers, loopv
    <3> QED
      BY <1>1, <3>1, <3>2, GoOnPlaces DEF Waits, TypeOK
  <2>4. CASE TaskFromFriend(s) \/ WorkOwn(s) \/ WorkSteal(s)
    <3>1. UNCHANGED idle /\ \E inb, t, n : n \in {"keep_going", "msg2did"} /\ ProcessTask(inb, s, t, n)
      BY <2>4 DEF TaskFromFriend, WorkOwn, WorkSteal, loopv
    <3>2. PICK inb, t, n : n \in {"keep_going", "msg2did"} /\ ProcessTask(inb, s, t, n)
      BY <3>1
    <3>3. pc'[s] \notin {"sleep", "fill"} /\ \A r \in Scheds \ {s} : pc'[r] = pc[r]
      BY <3>2, ProcessPlaces
    <3> QED
      BY <3>1, <3>3 DEF Waits
  <2>5. CASE \E t \in Tasks : Reap(s, t)
    <3>1. UNCHANGED idle /\ GoOn(s, after[s])
      BY <2>5 DEF Reap, GiveUp
    <3> QED
      BY <1>1, <3>1, GoOnPlaces DEF Waits, TypeOK
  <2> QED
    BY <1>3, <2>1, <2>2, <2>3, <2>4, <2>5 DEF SchedStep
<1>4. ASSUME NEW s \in Scheds, TaskStep(s) PROVE Waits(q)
  <2>1. PICK t \in Tasks :
          \/ Bootstrap(s, t) \/ YieldNow(s, t) \/ Deschedule(s, t) \/ Terminate(s, t)
          \/ \E u \in Tasks : SpawnSibling(s, t, u) \/ Reawaken(s, t, u)
    BY <1>4 DEF TaskStep
  <2>2. idle' = idle \/ idle' = [idle EXCEPT ![s] = TRUE]
    BY <2>1 DEF Bootstrap, YieldNow, Deschedule, Terminate, SpawnSibling, Reawaken, RunTask,
       EnqueueTask, loopv
  <2>3. GoOn(s, after[s]) \/ UNCHANGED pc \/ pc' = [pc EXCEPT ![s] = "reap"]
    BY <2>1 DEF Bootstrap, YieldNow, Deschedule, Terminate, SpawnSibling, Reawaken, GiveUp, ctlv
  <2> QED
    BY <1>1, <2>2, <2>3, GoOnPlaces DEF Waits, TypeOK
<1>5. ASSUME NEW s \in Scheds, NEW u \in Tasks, ReawakenFromLoop(s, u) PROVE Waits(q)
  <2>1. UNCHANGED idle /\ ProcessTask(inbox, s, u, "loop")
    BY <1>5 DEF ReawakenFromLoop, loopv
  <2>2. pc'[s] \notin {"sleep", "fill"} /\ \A r \in Scheds \ {s} : pc'[r] = pc[r]
    BY <2>1, ProcessPlaces
  <2> QED
    BY <2>1, <2>2 DEF Waits
<1>6. ASSUME OwnerStep \/ UserStep \/ ExtStep PROVE Waits(q)
  <2>1. UNCHANGED <<pc, idle>> \/ StartSched
    BY <1>6 DEF OwnerStep, UserStep, ExtStep, LinkAndFire, SendNewNeighbor, WaitForTasks, RecvDone,
       SendShutdown, JoinThreads, StartShutdown, Spawn, SpawnPinned, SpawnSched, DropUser,
       ReawakenRemotely, ctlv, loopv
  <2> QED
    BY <1>1, <2>1 DEF StartSched, Waits
<1>7. CASE UNCHANGED vars
  BY <1>7 DEF vars, ctlv, loopv, Waits
<1> QED
  BY <1>3, <1>4, <1>5, <1>6, <1>7 DEF Next, Finished

\* Pushing a node that is not linked shows no message.
LEMMA PushHead ==
  ASSUME NEW q \in Seq(Node), NEW n \in Node, n.by # None, HeadLinked(Append(q, n))
  PROVE  HeadLinked(q)
<1>1. CASE q = <<>>
  <2>1. Append(q, n)[1] = n
    BY <1>1, AppendProperties
  <2> QED
    BY <2>1 DEF HeadLinked
<1>2. CASE q # <<>>
  <2>1. Len(q) \in Nat /\ Len(q) # 0
    BY <1>2, LenProperties, EmptySeq
  <2>2. Append(q, n)[1] = q[1]
    BY <2>1, AppendProperties
  <2> QED
    BY <1>2, <2>2 DEF HeadLinked
<1> QED
  BY <1>1, <1>2

\* A message comes in sight with the callback that will read it.
LEMMA HeadNext ==
  ASSUME TypeOK, TaskInv, IdleInv, EventInv, FixedInv, [Next]_vars,
         NEW q \in Scheds, Waits(q)', HeadLinked(inbox'[q])
  PROVE  HeadLinked(inbox[q]) \/ EvPending(evq'[q])
<1>1. inbox \in [Scheds -> Seq(Node)] /\ evq \in [Scheds -> Seq(Event)]
  BY DEF TypeOK, MsgOK, LoopOK
<1>2. ASSUME NEW inb, Mails(inb), HeadLinked(inb[q]) PROVE HeadLinked(inbox[q])
  <2>1. CASE inb = inbox
    BY <1>2, <2>1
  <2>2. ASSUME NEW s \in Scheds, inbox[s] # <<>>, inb = Popped(s),
               Waits(s)' => Head(inbox[s]).msg.kind = "NewNeighbor"
        PROVE  HeadLinked(inbox[q])
    <3>1. CASE s # q
      BY <1>1, <1>2, <2>2, <3>1 DEF Popped
    <3>2. CASE s = q
      <4>1. Head(inbox[s]) \in Neighbors
        BY <2>2, <3>2, PopTypes DEF Neighbors, TypeOK
      <4> QED
        BY <1>1, <2>2, <4>1, PopHas DEF FixedInv
    <3> QED
      BY <3>1, <3>2
  <2> QED
    BY <1>2, <2>1, <2>2 DEF Mails
<1>3. ASSUME NEW th \in Threads, LinkAndFire(th) PROVE HeadLinked(inbox[q]) \/ EvPending(evq'[q])
  <2>1. CASE q # out[th].to
    BY <1>1, <1>3, <2>1 DEF LinkAndFire
  <2>2. CASE q = out[th].to
    <3>1. PICK h \in Handles : h = out[th].h
      BY <1>3 DEF LinkAndFire, TypeOK, MsgOK, Sending, NotSending
    <3>2. evq[q] \in Seq(Event) /\ EventsOnce(evq[q])
      BY <1>1 DEF EventInv
    <3>3. /\ Fired(evq[q], h) \in Seq(Event) /\ EventsOnce(Fired(evq[q], h))
          /\ EvPending(Fired(evq[q], h))
      BY <3>2, FireEffect, PendingKept
    <3>4. EvPending(Dropped(Fired(evq[q], h), h))
      BY <3>3, PendingKept
    <3>5. evq'[q] = Fired(evq[q], h) \/ evq'[q] = Dropped(Fired(evq[q], h), h)
      BY <1>1, <1>3, <2>2, <3>1 DEF LinkAndFire
    <3> QED
      BY <3>3, <3>4, <3>5
  <2> QED
    BY <2>1, <2>2
<1>4. ASSUME NEW th \in Threads, Posts(th) PROVE HeadLinked(inbox[q])
  <2>1. PICK inb, to, m, h, last :
          /\ Mails(inb) /\ Send(inb, th, to, m, h, last) /\ to \in Scheds /\ m \in SchedMessage
    BY <1>4 DEF Posts
  <2>2. inb \in [Scheds -> Seq(Node)]
    BY <2>1, MailsHas
  <2>3. PICK n \in Node : n = [msg |-> m, by |-> th] /\ n.by # None
    <3>1. [msg |-> m, by |-> th] \in Node /\ th # None
      BY <2>1, SchedsAssumption DEF Node
    <3> QED
      BY <3>1
  <2>4. inbox'[q] = inb[q] \/ inbox'[q] = Append(inb[q], n)
    BY <2>1, <2>2, <2>3 DEF Send
  <2>5. HeadLinked(inb[q])
    BY <2>2, <2>3, <2>4, PushHead
  <2> QED
    BY <1>2, <2>1, <2>5
<1>5. CASE Hushes
  BY <1>2, <1>5 DEF Hushes
<1> QED
  BY <1>3, <1>4, <1>5, MailSteps

\* In a pool that does not grow every step keeps the callbacks of messages.
LEMMA MessageNext ==
  TypeOK /\ TaskInv /\ IdleInv /\ EventInv /\ FixedInv /\ MessageInv /\ [Next]_vars => MessageInv'
<1> SUFFICES ASSUME TypeOK, TaskInv, IdleInv, EventInv, FixedInv, MessageInv, [Next]_vars,
                    NEW s \in Scheds, Waits(s)', HeadLinked(inbox'[s])
             PROVE  EvPending(evq'[s])
  BY DEF MessageInv
<1>1. HeadLinked(inbox[s]) \/ EvPending(evq'[s])
  BY HeadNext
<1>2. Waits(s) \/ ~HeadLinked(inbox[s])
  BY WaitsNext
<1>3. EvPending(evq[s]) => EvPending(evq'[s])
  BY PendingNext
<1> QED
  BY <1>1, <1>2, <1>3 DEF MessageInv

\* They are there throughout.
LEMMA MessageInvariant ==
  ASSUME Scheds = Range(InitPool)
  PROVE  Spec => []MessageInv
<1>1. Init => MessageInv
  BY DEF Init, MessageInv, HeadLinked
<1>2. Spec => []FixedInv
  BY FixedInvariant
<1> QED
  BY <1>1, <1>2, MessageNext, TypeCorrect, TaskInvariant, IdleInvariant, EventInvariant, PTL DEF Spec

\* In a pool that does not grow no message is lost: a scheduler whose loop
\* waits, with no callback pending and no send to it under way, has an empty
\* message queue, whatever the order in which its senders reserve nodes, link
\* them and fire, and however libuv merges what they fire.
THEOREM MessagesAreSeen ==
  ASSUME Scheds = Range(InitPool)
  PROVE  Spec => []NoLostMessage
<1>1. TypeOK /\ SendNode /\ MessageInv => NoLostMessage
  <2> SUFFICES ASSUME TypeOK, SendNode, MessageInv, NEW s \in Scheds, ~idle[s], evq[s] = <<>>,
                      \A th \in Threads : out[th].to # s, inbox[s] # <<>>
               PROVE  FALSE
    BY DEF NoLostMessage
  <2>1. Head(inbox[s]) \in Node /\ inbox[s] \in Seq(Node)
    BY PopTypes DEF TypeOK, MsgOK
  <2>2. CASE Head(inbox[s]).by = None
    <3>1. EvPending(evq[s])
      BY <2>2 DEF MessageInv, Waits, HeadLinked
    <3> QED
      BY <3>1, EmptyHas DEF EvPending
  <2>3. CASE Head(inbox[s]).by # None
    <3>1. PICK th \in Threads : Head(inbox[s]) \in By(th)
      BY <2>1, <2>3 DEF Node, By
    <3>2. Has(inbox[s], By(th))
      BY <2>1, <3>1, PopHas
    <3> QED
      BY <3>2 DEF SendNode
  <2> QED
    BY <2>2, <2>3
<1>2. Spec => []MessageInv
  BY MessageInvariant
<1> QED
  BY <1>1, <1>2, TypeCorrect, SendNodeInvariant, PTL

-------------------------------------------------------------------------------
(* A pending callback belongs to a handle that is still held, so that the    *)
(* loop which must run it cannot end                                         *)

\* Whose handle h of scheduler s is.
Holder(h, s) ==
    \/ h = <<"pool", None>> /\ (PoolHeld(s) \/ (out[Owner].to = s /\ out[Owner].last))
    \/ h = <<"user", None>> /\ s \in userh
    \/ \E q \in Scheds : h = <<"friend", q>> /\ Friend[q] = s /\ pc[q] # "stopped"
    \/ \E t \in Tasks : h = <<"task", t>> /\ thandle[t] = s

\* libuv: no callback of a handle that is gone.
HolderInv == Uv => \A s \in Scheds, h \in Handles : Has(evq[s], {RunRemote(h)}) => Holder(h, s)

\* BasicLoop: behind the last message there is a removal, or a handle.
BasicInv ==
    ~Uv => \A s \in Scheds : evq[s] # <<>> =>
             evq[s][Len(evq[s])].ev = "RemoveRemote" \/ remotes[s] > RemovedN(s)

\* The step that drops handle h of scheduler s.
Drops(h, s) ==
    \/ h = <<"pool", None>> /\ LinkAndFire(Owner) /\ out[Owner].to = s /\ out[Owner].last
    \/ h = <<"user", None>> /\ DropUser(s)
    \/ \E q \in Scheds : h = <<"friend", q>> /\ Friend[q] = s /\ LoopExit(q)
    \/ \E t \in Tasks, r \in Scheds : h = <<"task", t>> /\ thandle[t] = s /\ Reap(r, t)

\* A send that has begun goes on until it is linked.
LEMMA LinkEnds ==
  ASSUME TypeOK, TaskInv, IdleInv, [Next]_vars, NEW th \in Threads, out[th].stage = "link"
  PROVE  out'[th] = out[th] \/ LinkAndFire(th)
<1>1. ASSUME NEW r \in Threads, Posts(r) PROVE out'[th] = out[th]
  <2>1. PICK inb, to, m, h, last : Send(inb, r, to, m, h, last)
    BY <1>1 DEF Posts
  <2>2. r # th
    BY <1>1 DEF Posts
  <2> QED
    BY <1>1, <2>1, <2>2, SendGives
<1>2. ASSUME NEW r \in Threads, LinkAndFire(r), r # th PROVE out'[th] = out[th]
  BY <1>2 DEF LinkAndFire, TypeOK, MsgOK
<1>3. Hushes => out'[th] = out[th]
  BY DEF Hushes, TypeOK, MsgOK
<1> QED
  BY <1>1, <1>2, <1>3, MailSteps

\* The pool lets go of a handle only with a Shutdown.
LEMMA PoolHeldKept ==
  ASSUME TypeOK, [Next]_vars, NEW s \in Scheds, PoolHeld(s)
  PROVE  PoolHeld(s)' \/ (out'[Owner].to = s /\ out'[Owner].last)
<1>1. PICK j \in DOMAIN pool : pool[j] = s /\ ~(opc \in {"join", "done"} \/ (opc = "send" /\ j < oi))
  BY DEF PoolHeld
<1>2. /\ pool \in Seq(Scheds) /\ DOMAIN pool = 1 .. Len(pool) /\ Len(pool) \in Nat /\ oi \in Nat
      /\ j \in 1 .. Len(pool)
  BY <1>1, LenProperties DEF TypeOK, PoolOK
<1>3. CASE UNCHANGED <<opc, oi, pool>>
  BY <1>1, <1>3 DEF PoolHeld
<1>4. CASE \/ SendNewNeighbor \/ StartShutdown \/ WaitForTasks \/ RecvDone
           \/ \E q \in Scheds : SpawnSched(q)
  <2>1. UNCHANGED pool /\ opc' \notin {"join", "done"} /\ (opc' = "send" => oi' = 1)
    BY <1>4 DEF SendNewNeighbor, StartShutdown, WaitForTasks, RecvDone, SpawnSched, OwnerAt
  <2> QED
    BY <1>1, <1>2, <2>1 DEF PoolHeld
<1>5. CASE StartSched
  <2>1. pool' = Append(pool, newS) /\ newS \in Scheds /\ opc' = "open"
    BY <1>5 DEF StartSched, OwnerAt, TypeOK, PoolOK
  <2>2. j \in DOMAIN pool' /\ pool'[j] = s
    BY <1>1, <1>2, <2>1, AppendProperties, LenProperties
  <2> QED
    BY <2>1, <2>2 DEF PoolHeld
<1>6. CASE SendShutdown
  <2>1. opc = "send" /\ UNCHANGED pool /\ j >= oi
    BY <1>1, <1>2, <1>6 DEF SendShutdown, OwnerAt
  <2>2. oi <= Len(pool)
    BY <1>2, <2>1
  <2>3. /\ Send(inbox, Owner, pool[oi], Msg("Shutdown", None), <<"pool", None>>, TRUE)
        /\ oi' = oi + 1 /\ UNCHANGED opc
    BY <1>6, <2>2 DEF SendShutdown
  <2>4. CASE j = oi
    <3>1. Owner \in Threads
      BY DEF Threads
    <3>2. out'[Owner].to = pool[oi] /\ out'[Owner].last
      BY <2>3, <3>1 DEF Send, TypeOK, MsgOK
    <3> QED
      BY <1>1, <2>4, <3>2
  <2>5. CASE j # oi
    <3>1. ~(j < oi + 1)
      BY <1>2, <2>1, <2>5
    <3> QED
      BY <1>1, <2>1, <2>3, <3>1 DEF PoolHeld
  <2> QED
    BY <2>4, <2>5
<1>7. CASE JoinThreads
  BY <1>1, <1>7 DEF JoinThreads, OwnerAt
<1>8. ASSUME OwnerStep \/ UserStep \/ ExtStep
      PROVE  \/ UNCHANGED <<opc, oi, pool>> \/ StartSched \/ SendShutdown \/ JoinThreads
             \/ SendNewNeighbor \/ StartShutdown \/ WaitForTasks \/ RecvDone
             \/ \E q \in Scheds : SpawnSched(q)
  BY <1>8 DEF OwnerStep, UserStep, ExtStep, LinkAndFire, Spawn, SpawnPinned, DropUser,
     ReawakenRemotely, poolv
<1>9. ASSUME NEW q \in Scheds, SchedStep(q) \/ TaskStep(q) \/ \E u \in Tasks : ReawakenFromLoop(q, u)
      PROVE  UNCHANGED <<opc, oi, pool>>
  BY <1>9 DEF SchedStep, LinkAndFire, PickSleeper, LoopEvent, LoopIdle, LoopExit, PinnedTask,
     TaskFromFriend, RunOnce, Wake, Shutdown, DrainSleepers, NewNeighbor, NoMessage, WorkOwn,
     WorkSteal, WorkNone, GoToSleep, FillSleeper, NotifyDone, Reap, TaskStep, Bootstrap, YieldNow, Deschedule,
     Terminate, SpawnSibling, Reawaken, ReawakenFromLoop, poolv
<1>10. CASE UNCHANGED vars
  BY <1>3, <1>10 DEF vars, poolv
<1> QED
  BY <1>3, <1>4, <1>5, <1>6, <1>7, <1>8, <1>9, <1>10 DEF Next, Finished

\* A task's way back goes only with the task.
LEMMA BackKept ==
  ASSUME TypeOK, [Next]_vars, NEW t \in Tasks, thandle[t] # None
  PROVE  thandle'[t] = thandle[t] \/ \E r \in Scheds : Reap(r, t)
<1>1. thandle \in [Tasks -> Scheds \cup {None}]
  BY DEF TypeOK, TaskOK
<1>2. ASSUME NEW s \in Scheds, SchedStep(s), ~Reap(s, t) PROVE thandle'[t] = thandle[t]
  <2>1. CASE \E u \in Tasks : Reap(s, u)
    BY <1>1, <1>2, <2>1 DEF Reap
  <2>2. CASE ~\E u \in Tasks : Reap(s, u)
    BY <1>2, <2>2 DEF SchedStep, LinkAndFire, PickSleeper, LoopEvent, LoopIdle, LoopExit, PinnedTask,
       TaskFromFriend, RunOnce, Wake, Shutdown, DrainSleepers, NewNeighbor, NoMessage, WorkOwn,
       WorkSteal, WorkNone, GoToSleep, FillSleeper, NotifyDone, taskv
  <2> QED
    BY <2>1, <2>2
<1>3. ASSUME NEW s \in Scheds, TaskStep(s) PROVE thandle'[t] = thandle[t]
  BY <1>1, <1>3 DEF TaskStep, Bootstrap, YieldNow, Deschedule, Terminate, SpawnSibling, Reawaken,
     MakeTaskHandle
<1>4. CASE OwnerStep \/ UserStep \/ ExtStep \/ \E s \in Scheds, u \in Tasks : ReawakenFromLoop(s, u)
  BY <1>4 DEF OwnerStep, UserStep, ExtStep, LinkAndFire, SendNewNeighbor, StartSched, WaitForTasks,
     RecvDone, SendShutdown, JoinThreads, StartShutdown, Spawn, SpawnPinned, SpawnSched, DropUser,
     ReawakenRemotely, ReawakenFromLoop, taskv
<1>5. CASE UNCHANGED vars
  BY <1>5 DEF vars, taskv
<1> QED
  BY <1>2, <1>3, <1>4, <1>5 DEF Next, Finished

\* The caller of spawn_sched keeps its handle until it drops it.
LEMMA UserKept ==
  ASSUME [Next]_vars, NEW s \in Scheds, s \in userh
  PROVE  s \in userh' \/ DropUser(s)
<1>1. CASE OwnerStep \/ UserStep \/ ExtStep
  BY <1>1 DEF OwnerStep, UserStep, ExtStep, LinkAndFire, SendNewNeighbor, StartSched, WaitForTasks,
     RecvDone, SendShutdown, JoinThreads, StartShutdown, Spawn, SpawnPinned, SpawnSched, DropUser,
     ReawakenRemotely, poolv
<1>2. ASSUME NEW q \in Scheds, SchedStep(q) \/ TaskStep(q) \/ \E u \in Tasks : ReawakenFromLoop(q, u)
      PROVE  UNCHANGED userh
  BY <1>2 DEF SchedStep, LinkAndFire, PickSleeper, LoopEvent, LoopIdle, LoopExit, PinnedTask,
     TaskFromFriend, RunOnce, Wake, Shutdown, DrainSleepers, NewNeighbor, NoMessage, WorkOwn,
     WorkSteal, WorkNone, GoToSleep, FillSleeper, NotifyDone, Reap, TaskStep, Bootstrap, YieldNow, Deschedule,
     Terminate, SpawnSibling, Reawaken, ReawakenFromLoop, poolv
<1>3. CASE UNCHANGED vars
  BY <1>3 DEF vars, poolv
<1> QED
  BY <1>1, <1>2, <1>3 DEF Next, Finished

\* A handle is held until the step that drops it.
LEMMA HolderKept ==
  ASSUME TypeOK, TaskInv, IdleInv, [Next]_vars, NEW s \in Scheds, NEW h, Holder(h, s), ~Drops(h, s)
  PROVE  Holder(h, s)'
<1>1. CASE h = <<"pool", None>> /\ PoolHeld(s)
  BY <1>1, PoolHeldKept DEF Holder
<1>2. CASE h = <<"pool", None>> /\ out[Owner].to = s /\ out[Owner].last
  <2>1. Owner \in Threads /\ out[Owner].stage = "link"
    BY <1>2, QuietSends DEF Threads
  <2>2. out'[Owner] = out[Owner]
    BY <1>2, <2>1, LinkEnds DEF Drops
  <2> QED
    BY <1>2, <2>2 DEF Holder
<1>3. CASE h = <<"user", None>> /\ s \in userh
  BY <1>3, UserKept DEF Holder, Drops
<1>4. ASSUME NEW q \in Scheds, h = <<"friend", q>>, Friend[q] = s, pc[q] # "stopped"
      PROVE  Holder(h, s)'
  <2>1. pc'[q] # "stopped"
    BY <1>4, StopsByExit DEF Drops
  <2> QED
    BY <1>4, <2>1 DEF Holder
<1>5. ASSUME NEW t \in Tasks, h = <<"task", t>>, thandle[t] = s PROVE Holder(h, s)'
  <2>1. thandle[t] # None /\ ~\E r \in Scheds : Reap(r, t)
    BY <1>5, SchedsAssumption DEF Drops, Threads
  <2>2. thandle'[t] = thandle[t]
    BY <2>1, BackKept
  <2> QED
    BY <1>5, <2>2 DEF Holder
<1> QED
  BY <1>1, <1>2, <1>3, <1>4, <1>5 DEF Holder

\* A send that borrows a handle borrows it from its holder.
LEMMA BorrowsHolder ==
  ASSUME TypeOK, NEW th \in Threads, NEW to \in Scheds, NEW h, Borrows(th, to, h)
  PROVE  Holder(h, to)
<1>1. CASE h = <<"pool", None>> /\ opc \in {"open", "nn"} /\ to \in Range(pool)
  <2>1. PoolHeld(to)
    BY <1>1 DEF PoolHeld, Range
  <2> QED
    BY <1>1, <2>1 DEF Holder
<1> QED
  BY <1>1 DEF Borrows, Holder

\* A handle that is held counts.
LEMMA HolderHeld ==
  ASSUME TypeOK, NEW s \in Scheds, NEW h, Holder(h, s)
  PROVE  HeldN(s) # 0
<1> SUFFICES ASSUME HeldN(s) = 0 PROVE FALSE
  OBVIOUS
<1>1. PoolN(s) = 0 /\ UserN(s) = 0 /\ FriendN(s) = 0 /\ BackN(s) = 0 /\ SentN(s) = 0
  BY HeldZero
<1>2. /\ IsFiniteSet(Friends(s)) /\ IsFiniteSet(Backs(s)) /\ IsFiniteSet(Sends(s))
  BY Numbers
<1>3. Friends(s) = {} /\ Backs(s) = {} /\ Sends(s) = {}
  BY <1>1, <1>2, FS_EmptySet DEF FriendN, BackN, SentN
<1>4. ~PoolHeld(s) /\ s \notin userh
  BY <1>1 DEF PoolN, UserN, Flag
<1>5. Owner \in Threads
  BY DEF Threads
<1> QED
  BY <1>3, <1>4, <1>5 DEF Holder, Friends, Backs, Sends

\* A handle that is dropped leaves no callback behind.
LEMMA DropsGone ==
  ASSUME Uv, TypeOK, EventInv, SendInv, NEW s \in Scheds, NEW h \in Handles, Drops(h, s)
  PROVE  ~Has(evq'[s], {RunRemote(h)})
<1>1. evq \in [Scheds -> Seq(Event)] /\ evq[s] \in Seq(Event) /\ EventsOnce(evq[s])
  BY DEF TypeOK, LoopOK, EventInv
<1>2. CASE h = <<"pool", None>> /\ LinkAndFire(Owner) /\ out[Owner].to = s /\ out[Owner].last
  <2>1. out[Owner].h = h
    BY <1>2 DEF SendInv, SendOf, LinkAndFire, Threads
  <2>2. evq'[s] = Dropped(Fired(evq[s], h), h)
    BY <1>1, <1>2, <2>1 DEF LinkAndFire
  <2>3. Fired(evq[s], h) \in Seq(Event) /\ EventsOnce(Fired(evq[s], h))
    BY <1>1, FireEffect
  <2> QED
    BY <2>2, <2>3, DropEffect
<1>3. CASE h = <<"user", None>> /\ DropUser(s)
  <2>1. evq'[s] = Dropped(evq[s], h)
    BY <1>1, <1>3 DEF DropUser
  <2> QED
    BY <1>1, <2>1, DropEffect
<1>4. ASSUME NEW q \in Scheds, h = <<"friend", q>>, Friend[q] = s, LoopExit(q)
      PROVE  ~Has(evq'[s], {RunRemote(h)})
  <2>1. Friend[q] # None
    BY <1>4, SchedsAssumption DEF Threads
  <2>2. evq'[s] = Dropped(evq[s], h)
    BY <1>1, <1>4, <2>1 DEF LoopExit
  <2> QED
    BY <1>1, <2>2, DropEffect
<1>5. ASSUME NEW t \in Tasks, NEW r \in Scheds, h = <<"task", t>>, thandle[t] = s, Reap(r, t)
      PROVE  ~Has(evq'[s], {RunRemote(h)})
  <2> DEFINE q1 == IF home[t] = s THEN Dropped(evq[s], <<"temp", r>>) ELSE evq[s]
  <2>1. evq'[s] = Dropped(q1, h)
    BY <1>1, <1>5 DEF Reap, DropAll
  <2>2. q1 \in Seq(Event) /\ EventsOnce(q1)
    BY <1>1, DropEffect, HandleTypes
  <2> HIDE DEF q1
  <2> QED
    BY <2>1, <2>2, DropEffect
<1> QED
  BY <1>2, <1>3, <1>4, <1>5 DEF Drops

\* What a step may do to an event queue: take an event, fire a handle that is
\* kept, or, last of all, drop one.
LEMMA EventChange ==
  ASSUME TypeOK, EventInv, [Next]_vars, NEW q \in Scheds
  PROVE  \/ evq'[q] = evq[q] \/ LoopEvent(q)
         \/ \E th \in Threads : LinkAndFire(th) /\ out[th].to = q /\ ~out[th].last
         \/ \E x \in Seq(Event), h \in Handles :
              /\ evq'[q] = Dropped(x, h) /\ EventsOnce(x)
              /\ Uv => \A g \in Handles : g # h /\ Has(x, {RunRemote(g)}) => Has(evq[q], {RunRemote(g)})
<1> DEFINE Good(x, h) ==
             /\ evq'[q] = Dropped(x, h) /\ EventsOnce(x)
             /\ Uv => \A g \in Handles : g # h /\ Has(x, {RunRemote(g)}) => Has(evq[q], {RunRemote(g)})
           Drop == \E x \in Seq(Event), h \in Handles : Good(x, h)
<1>1. evq \in [Scheds -> Seq(Event)] /\ evq[q] \in Seq(Event) /\ EventsOnce(evq[q])
  BY DEF TypeOK, LoopOK, EventInv
<1>2. ASSUME NEW h \in Handles, evq'[q] = Dropped(evq[q], h) PROVE Drop
  BY <1>1, <1>2
<1>3. ASSUME NEW th \in Threads, LinkAndFire(th), out[th].to = q, out[th].last PROVE Drop
  <2>1. PICK h \in Handles : h = out[th].h
    BY <1>3 DEF LinkAndFire, TypeOK, MsgOK, Sending, NotSending
  <2>2. evq'[q] = Dropped(Fired(evq[q], h), h)
    BY <1>1, <1>3, <2>1 DEF LinkAndFire
  <2>3. Fired(evq[q], h) \in Seq(Event) /\ EventsOnce(Fired(evq[q], h))
    BY <1>1, FireEffect
  <2>4. ASSUME Uv, NEW g \in Handles, g # h, Has(Fired(evq[q], h), {RunRemote(g)})
        PROVE  Has(evq[q], {RunRemote(g)})
    <3>1. RunRemote(h) # RunRemote(g)
      BY <2>4, EventKinds
    <3> QED
      BY <1>1, <2>4, <3>1, FireEffect
  <2>5. Good(Fired(evq[q], h), h)
    BY <2>2, <2>3, <2>4
  <2> QED
    BY <2>3, <2>5
<1>4. ASSUME NEW th \in Threads, LinkAndFire(th), out[th].to # q PROVE evq'[q] = evq[q]
  BY <1>1, <1>4 DEF LinkAndFire
<1>5. ASSUME NEW s \in Scheds, LoopEvent(s), s # q PROVE evq'[q] = evq[q]
  BY <1>1, <1>5 DEF LoopEvent
<1>6. ASSUME NEW s \in Scheds, LoopExit(s) PROVE evq'[q] = evq[q] \/ Drop
  <2>1. PICK h \in Handles : h = <<"friend", s>>
    BY HandleTypes
  <2>2. evq'[q] = evq[q] \/ evq'[q] = Dropped(evq[q], h)
    BY <1>1, <1>6, <2>1 DEF LoopExit
  <2> QED
    BY <1>2, <2>2
<1>7. ASSUME NEW s \in Scheds, DropUser(s) PROVE evq'[q] = evq[q] \/ Drop
  <2>1. PICK h \in Handles : h = <<"user", None>>
    BY HandleTypes
  <2>2. evq'[q] = evq[q] \/ evq'[q] = Dropped(evq[q], h)
    BY <1>1, <1>7, <2>1 DEF DropUser
  <2> QED
    BY <1>2, <2>2
<1>8. ASSUME NEW s \in Scheds, NEW t \in Tasks, Reap(s, t) PROVE evq'[q] = evq[q] \/ Drop
  <2>1. PICK f \in Handles, h \in Handles : f = <<"temp", s>> /\ h = <<"task", t>>
    BY HandleTypes
  <2> DEFINE q1 == IF home[t] = q THEN Dropped(evq[q], f) ELSE evq[q]
  <2>2. evq'[q] = IF thandle[t] = q THEN Dropped(q1, h) ELSE q1
    BY <1>8, <2>1 DEF Reap, DropAll
  <2>3. q1 = evq[q] \/ q1 = Dropped(evq[q], f)
    OBVIOUS
  <2>4. /\ q1 \in Seq(Event) /\ EventsOnce(q1)
        /\ Uv => \A g \in Handles : Has(q1, {RunRemote(g)}) => Has(evq[q], {RunRemote(g)})
    BY <1>1, DropEffect
  <2> HIDE DEF q1
  <2>5. CASE thandle[t] = q
    <3>1. Good(q1, h)
      BY <2>2, <2>4, <2>5
    <3> QED
      BY <2>4, <3>1
  <2>6. CASE thandle[t] # q
    BY <1>2, <2>2, <2>3, <2>6
  <2> QED
    BY <2>5, <2>6
<1> QED
  BY <1>3, <1>4, <1>5, <1>6, <1>7, <1>8, EventSteps

\* Every step keeps what is said of libuv's callbacks.
LEMMA HolderNext ==
  TypeOK /\ TaskInv /\ IdleInv /\ EventInv /\ SendInv /\ HolderInv /\ [Next]_vars => HolderInv'
<1> SUFFICES ASSUME TypeOK, TaskInv, IdleInv, EventInv, SendInv, HolderInv, [Next]_vars, Uv,
                    NEW s \in Scheds, NEW h \in Handles, Has(evq'[s], {RunRemote(h)})
             PROVE  Holder(h, s)'
  BY DEF HolderInv
<1>1. ~Drops(h, s)
  BY DropsGone
<1> SUFFICES Holder(h, s)
  BY <1>1, HolderKept
<1>2. evq \in [Scheds -> Seq(Event)] /\ evq[s] \in Seq(Event)
  BY DEF TypeOK, LoopOK
<1>3. Has(evq[s], {RunRemote(h)}) => Holder(h, s)
  BY DEF HolderInv
<1>4. CASE evq'[s] = evq[s]
  BY <1>3, <1>4
<1>5. CASE LoopEvent(s)
  <2>1. PICK i \in DOMAIN evq[s] : evq' = [evq EXCEPT ![s] = RemoveAt(@, i)]
    BY <1>5 DEF LoopEvent
  <2>2. evq'[s] = RemoveAt(evq[s], i)
    BY <1>2, <2>1
  <2> QED
    BY <1>2, <1>3, <2>2, TakeEffect
<1>6. ASSUME NEW th \in Threads, LinkAndFire(th), out[th].to = s, ~out[th].last PROVE Holder(h, s)
  <2>1. PICK g \in Handles : g = out[th].h
    BY <1>6 DEF LinkAndFire, TypeOK, MsgOK, Sending, NotSending
  <2>2. evq'[s] = Fired(evq[s], g)
    BY <1>2, <1>6, <2>1 DEF LinkAndFire
  <2>3. Has(evq[s], {RunRemote(h)}) \/ RunRemote(g) = RunRemote(h)
    BY <1>2, <2>2, FireEffect
  <2>4. Has(evq[s], {RunRemote(h)}) \/ g = h
    BY <2>3, EventKinds
  <2>5. out[th].last = FALSE
    BY <1>6 DEF LinkAndFire, TypeOK, MsgOK, Sending, NotSending
  <2>6. Borrows(th, s, g)
    BY <1>6, <2>1, <2>5 DEF SendInv, SendOf, LinkAndFire
  <2>7. Holder(g, s)
    BY <2>6, BorrowsHolder
  <2> QED
    BY <1>3, <2>4, <2>7
<1>7. ASSUME NEW x \in Seq(Event), NEW g \in Handles, evq'[s] = Dropped(x, g), EventsOnce(x),
             \A f \in Handles : f # g /\ Has(x, {RunRemote(f)}) => Has(evq[s], {RunRemote(f)})
      PROVE  Holder(h, s)
  <2>1. Has(Dropped(x, g), {RunRemote(h)}) => h # g /\ Has(x, {RunRemote(h)})
    BY <1>7, DropEffect
  <2> QED
    BY <1>3, <1>7, <2>1
<1> QED
  BY <1>4, <1>5, <1>6, <1>7, EventChange

\* It holds throughout.
LEMMA HolderInvariant == Spec => []HolderInv
<1>1. Init => HolderInv
  BY EmptyHas DEF Init, HolderInv
<1> QED
  BY <1>1, HolderNext, TypeCorrect, TaskInvariant, IdleInvariant, EventInvariant, SendInvariant, PTL
     DEF Spec

\* Only the loop itself lowers the count of its remotes.
LEMMA RemotesGrow ==
  ASSUME TypeOK, PoolInv, [Next]_vars, NEW q \in Scheds, ~LoopEvent(q)
  PROVE  remotes'[q] >= remotes[q]
<1>1. remotes \in [Scheds -> Int]
  BY DEF TypeOK, LoopOK
<1>2. UNCHANGED remotes => remotes'[q] >= remotes[q]
  BY <1>1
<1>3. ASSUME NEW s \in Scheds, remotes' = [remotes EXCEPT ![s] = @ + 1]
      PROVE  remotes'[q] >= remotes[q]
  BY <1>1, <1>3
<1>4. ASSUME NEW s \in Scheds, LoopEvent(s) PROVE remotes'[q] >= remotes[q]
  <2>1. s # q
    BY <1>4
  <2>2. remotes'[q] = remotes[q]
    BY <1>1, <1>4, <2>1 DEF LoopEvent
  <2> QED
    BY <1>1, <2>2
<1>5. ASSUME NEW s \in Scheds, SchedStep(s), ~LoopEvent(s) PROVE remotes'[q] >= remotes[q]
  <2>1. UNCHANGED remotes \/ remotes' = [remotes EXCEPT ![s] = @ + 1]
    BY <1>5 DEF SchedStep, LinkAndFire, PickSleeper, LoopIdle, LoopExit, PinnedTask, TaskFromFriend,
       RunOnce, Wake, Shutdown, DrainSleepers, NewNeighbor, NoMessage, WorkOwn, WorkSteal, WorkNone,
       GoToSleep, FillSleeper, NotifyDone, Reap, loopv
  <2> QED
    BY <1>2, <1>3, <2>1
<1>6. ASSUME NEW s \in Scheds, TaskStep(s) \/ \E u \in Tasks : ReawakenFromLoop(s, u)
      PROVE  remotes'[q] >= remotes[q]
  <2>1. UNCHANGED remotes \/ remotes' = [remotes EXCEPT ![s] = @ + 1]
    BY <1>6 DEF TaskStep, Bootstrap, YieldNow, Deschedule, MakeTaskHandle, Terminate, SpawnSibling,
       Reawaken, ReawakenFromLoop, loopv
  <2> QED
    BY <1>2, <1>3, <2>1
<1>7. CASE StartSched
  <2>1. newS \in Scheds /\ pc[newS] = "off" /\ remotes' = [remotes EXCEPT ![newS] = 2]
    BY <1>7 DEF StartSched, OwnerAt, TypeOK, PoolOK
  <2>2. remotes[newS] = 0
    BY <2>1 DEF PoolInv
  <2> QED
    BY <1>1, <2>1, <2>2
<1>8. CASE (OwnerStep \/ UserStep \/ ExtStep) /\ ~StartSched
  <2>1. UNCHANGED remotes
    BY <1>8 DEF OwnerStep, UserStep, ExtStep, LinkAndFire, SendNewNeighbor, WaitForTasks, RecvDone,
       SendShutdown, JoinThreads, StartShutdown, Spawn, SpawnPinned, SpawnSched, DropUser,
       ReawakenRemotely, loopv
  <2> QED
    BY <1>2, <2>1
<1>9. CASE UNCHANGED vars
  BY <1>2, <1>9 DEF vars, loopv
<1> QED
  BY <1>4, <1>5, <1>6, <1>7, <1>8, <1>9 DEF Next, Finished

\* Every step keeps what is said of BasicLoop's messages.
LEMMA BasicNext ==
  /\ TypeOK /\ PoolInv /\ EventInv /\ Ledger /\ SendInv /\ BasicInv
  /\ [Next]_vars
  => BasicInv'
<1> SUFFICES ASSUME TypeOK, PoolInv, EventInv, Ledger, SendInv, BasicInv, [Next]_vars, ~Uv,
                    NEW s \in Scheds, evq'[s] # <<>>, evq'[s][Len(evq'[s])].ev # "RemoveRemote"
             PROVE  remotes'[s] > RemovedN(s)'
  BY DEF BasicInv
<1>1. /\ evq \in [Scheds -> Seq(Event)] /\ evq[s] \in Seq(Event) /\ EventsOnce(evq[s])
      /\ remotes \in [Scheds -> Int] /\ RemovedN(s) \in Nat /\ remotes'[s] \in Int
  <2>1. TypeOK'
    BY NextTypes
  <2> QED
    BY <2>1, Numbers DEF TypeOK, LoopOK, EventInv
<1>2. evq[s] # <<>> => evq[s][Len(evq[s])].ev = "RemoveRemote" \/ remotes[s] > RemovedN(s)
  BY DEF BasicInv
<1>3. CASE LoopEvent(s)
  <2>1. 1 \in DOMAIN evq[s] /\ evq' = [evq EXCEPT ![s] = RemoveAt(@, 1)]
        /\ remotes' = [remotes EXCEPT ![s] = IF evq[s][1].ev = "RemoveRemote" THEN @ - 1 ELSE @]
    BY <1>3 DEF LoopEvent
  <2>2. evq'[s] = RemoveAt(evq[s], 1)
    BY <1>1, <2>1
  <2>3. Len(evq[s]) \in Nat /\ 1 <= Len(evq[s]) /\ evq'[s] \in Seq(Event) /\ Len(evq'[s]) = Len(evq[s]) - 1
    BY <1>1, <2>1, <2>2, TakeEffect, LenProperties
  <2>4. 1 < Len(evq[s])
    BY <2>3, EmptySeq
  <2>5. evq'[s][Len(evq'[s])] = evq[s][Len(evq[s])] /\ evq[s] # <<>>
    BY <1>1, <2>1, <2>2, <2>3, <2>4, TakeEffect
  <2>6. remotes[s] > RemovedN(s)
    BY <1>2, <2>5
  <2>7. RemovedN(s)' = RemovedN(s) - (IF evq[s][1].ev = "RemoveRemote" THEN 1 ELSE 0)
    BY <1>1, <2>1, <2>2, TakeEffect DEF RemovedN
  <2>8. remotes'[s] = remotes[s] - (IF evq[s][1].ev = "RemoveRemote" THEN 1 ELSE 0)
    BY <1>1, <2>1
  <2> QED
    BY <1>1, <2>6, <2>7, <2>8
<1>4. CASE evq'[s] = evq[s] /\ ~LoopEvent(s)
  <2>1. remotes'[s] >= remotes[s] /\ RemovedN(s)' = RemovedN(s)
    BY <1>4, RemotesGrow DEF RemovedN
  <2> QED
    BY <1>1, <1>2, <1>4, <2>1
<1>5. ASSUME NEW th \in Threads, LinkAndFire(th), out[th].to = s, ~out[th].last
      PROVE  remotes'[s] > RemovedN(s)'
  <2>1. PICK g \in Handles : g = out[th].h
    BY <1>5 DEF LinkAndFire, TypeOK, MsgOK, Sending, NotSending
  <2>2. evq'[s] = Fired(evq[s], g) /\ UNCHANGED remotes
    BY <1>1, <1>5, <2>1 DEF LinkAndFire
  <2>3. RemovedN(s)' = RemovedN(s)
    BY <1>1, <2>2, FireEffect DEF RemovedN
  <2>4. out[th].last = FALSE
    BY <1>5 DEF LinkAndFire, TypeOK, MsgOK, Sending, NotSending
  <2>5. Borrows(th, s, g)
    BY <1>5, <2>1, <2>4 DEF SendInv, SendOf, LinkAndFire
  <2>6. HeldN(s) # 0 /\ HeldN(s) \in Nat
    BY <2>5, BorrowsHolder, HolderHeld, HeldZero
  <2>7. remotes[s] = HeldN(s) + RemovedN(s)
    BY DEF Ledger
  <2> QED
    BY <1>1, <2>2, <2>3, <2>6, <2>7
<1>6. ASSUME NEW x \in Seq(Event), NEW h \in Handles, evq'[s] = Dropped(x, h), EventsOnce(x)
      PROVE  FALSE
  <2>1. evq'[s] = Append(x, RemoveRemote(h)) /\ RemoveRemote(h) \in Event
    BY <1>6, DropEffect, HandleTypes
  <2>2. evq'[s][Len(evq'[s])] = RemoveRemote(h)
    BY <2>1, AppendProperties
  <2> QED
    BY <2>2, EventKinds
<1> QED
  BY <1>3, <1>4, <1>5, <1>6, EventChange

\* It holds throughout.
LEMMA BasicInvariant == Spec => []BasicInv
<1>1. Init => BasicInv
  BY DEF Init, BasicInv
<1> QED
  BY <1>1, BasicNext, TypeCorrect, PoolInvariant, EventInvariant, LedgerInvariant, SendInvariant, PTL
     DEF Spec

-------------------------------------------------------------------------------
(* The end of a loop, and of the pool *)

\* A loop with no handle and its idle callback paused has nothing left to do.
LEMMA NothingLeft ==
  ASSUME TypeOK, IdleInv, Ledger, SendNode, SendInv, MessageInv, HolderInv, BasicInv,
         NEW s \in Scheds, remotes[s] = 0, ~idle[s]
  PROVE  inbox[s] = <<>> /\ wq[s] = <<>> /\ evq[s] = <<>> /\ s \notin Range(sleepers)
<1>1. wq[s] = <<>>
  BY DEF IdleInv
<1>2. SleepN(s) = 0 /\ SentN(s) = 0 /\ RemovedN(s) = 0
  BY NoHandle
<1>3. HeldN(s) = 0
  BY <1>2, HeldZero DEF Ledger
<1>4. s \notin Range(sleepers)
  BY <1>2 DEF SleepN, Flag
<1>5. evq[s] \in Seq(Event) /\ inbox[s] \in Seq(Node)
  BY DEF TypeOK, LoopOK, MsgOK
<1>6. evq[s] = <<>>
  <2> SUFFICES ASSUME evq[s] # <<>> PROVE FALSE
    OBVIOUS
  <2>1. Len(evq[s]) \in DOMAIN evq[s]
    <3>1. Len(evq[s]) \in Nat /\ Len(evq[s]) # 0 /\ DOMAIN evq[s] = 1 .. Len(evq[s])
      BY <1>5, LenProperties, EmptySeq
    <3> QED
      BY <3>1
  <2>2. PICK e \in Event : e = evq[s][Len(evq[s])]
    BY <1>5, <2>1, LenProperties, ElementOfSeq
  <2>3. Removed(evq[s]) = {}
    BY <1>2, <1>5, RemovedFinite DEF RemovedN
  <2>4. e.ev # "RemoveRemote"
    BY <2>1, <2>2, <2>3 DEF Removed
  <2>5. CASE Uv
    <3>1. PICK h \in Handles : e = RunRemote(h)
      BY <2>4, <2>5 DEF Event, RunRemote, Id
    <3>2. Has(evq[s], {RunRemote(h)})
      BY <2>1, <2>2, <3>1 DEF Has
    <3>3. Holder(h, s)
      BY <2>5, <3>2 DEF HolderInv
    <3> QED
      BY <1>3, <3>3, HolderHeld
  <2>6. CASE ~Uv
    BY <1>2, <2>2, <2>4, <2>6 DEF BasicInv
  <2> QED
    BY <2>5, <2>6
<1>7. inbox[s] = <<>>
  <2> SUFFICES ASSUME inbox[s] # <<>> PROVE FALSE
    OBVIOUS
  <2>1. Head(inbox[s]) \in Node
    BY <1>5, PopTypes
  <2>2. CASE Head(inbox[s]).by = None
    <3>1. EvPending(evq[s])
      BY <2>2 DEF MessageInv, Waits, HeadLinked
    <3> QED
      BY <1>6, <3>1, EmptyHas DEF EvPending
  <2>3. CASE Head(inbox[s]).by # None
    <3>1. PICK th \in Threads : Head(inbox[s]) \in By(th)
      BY <2>1, <2>3 DEF Node, By
    <3>2. Has(inbox[s], By(th))
      BY <1>5, <3>1, PopHas
    <3>3. out[th].stage = "link" /\ out[th].to = s /\ SendOf(th)
      BY <3>2 DEF SendNode, SendInv
    <3>4. PICK h : h = out[th].h
      OBVIOUS
    <3>5. Sends(s) = {}
      BY <1>2, Numbers, FS_EmptySet DEF SentN
    <3>6. ~out[th].last /\ out[th].last \in BOOLEAN
      BY <3>3, <3>5 DEF Sends, TypeOK, MsgOK, Sending, NotSending
    <3>7. Borrows(th, s, h)
      BY <3>3, <3>4, <3>6 DEF SendOf
    <3> QED
      BY <1>3, <3>7, BorrowsHolder, HolderHeld
  <2> QED
    BY <2>2, <2>3
<1> QED
  BY <1>1, <1>4, <1>6, <1>7

\* In a pool that does not grow a loop ends with nothing left: no message (the
\* assertion in bootstrap), no task, no callback, no place on the sleeper list.
THEOREM LoopsExitClean ==
  ASSUME Scheds = Range(InitPool)
  PROVE  Spec => []CleanExit
<1>1. /\ TypeOK /\ IdleInv /\ PoolInv /\ Ledger /\ SendNode /\ SendInv /\ MessageInv
      /\ HolderInv /\ BasicInv
      => CleanExit
  BY NothingLeft DEF CleanExit, PoolInv
<1>2. Spec => []MessageInv
  BY MessageInvariant
<1> QED
  BY <1>1, <1>2, TypeCorrect, IdleInvariant, PoolInvariant, LedgerInvariant, SendNodeInvariant,
     SendInvariant, HolderInvariant, BasicInvariant, PTL

\* When shutdown has returned no scheduler runs.
DoneInv == opc = "done" => \A s \in Scheds : pc[s] \in {"off", "stopped"}

\* shutdown joins every thread, and a thread that has ended does not come back.
LEMMA DoneNext == TypeOK /\ PoolInv /\ DoneInv /\ [Next]_vars => DoneInv'
<1> SUFFICES ASSUME TypeOK, PoolInv, DoneInv, [Next]_vars, opc' = "done", NEW s \in Scheds
             PROVE  pc'[s] \in {"off", "stopped"}
  BY DEF DoneInv
<1>1. CASE JoinThreads
  BY <1>1 DEF JoinThreads, PoolInv, ctlv
<1>2. CASE opc = "done"
  <2>1. \A q \in Scheds : pc[q] \in {"off", "stopped"}
    BY <1>2 DEF DoneInv
  <2>2. ASSUME NEW q \in Scheds, SchedStep(q) PROVE pc'[s] = pc[s]
    BY <2>1, <2>2, SchedPlaces
  <2>3. ASSUME NEW q \in Scheds, TaskStep(q) PROVE FALSE
    BY <2>1, <2>3, TurnPlaces
  <2>4. ASSUME NEW q \in Scheds, NEW u \in Tasks, ReawakenFromLoop(q, u) PROVE FALSE
    BY <2>1, <2>4 DEF ReawakenFromLoop, InLoop
  <2>5. CASE OwnerStep \/ UserStep \/ ExtStep
    BY <1>2, <2>1, <2>5 DEF OwnerStep, UserStep, ExtStep, LinkAndFire, SendNewNeighbor, StartSched,
       WaitForTasks, RecvDone, SendShutdown, JoinThreads, StartShutdown, Spawn, SpawnPinned,
       SpawnSched, DropUser, ReawakenRemotely, OwnerAt, ctlv
  <2>6. CASE UNCHANGED vars
    BY <2>1, <2>6 DEF vars, ctlv
  <2> QED
    BY <2>1, <2>2, <2>3, <2>4, <2>5, <2>6 DEF Next, Finished
<1>3. opc = "done" \/ JoinThreads
  <2>1. ASSUME NEW q \in Scheds, SchedStep(q) \/ TaskStep(q) \/ \E u \in Tasks : ReawakenFromLoop(q, u)
        PROVE  opc' = opc
    BY <2>1 DEF SchedStep, LinkAndFire, PickSleeper, LoopEvent, LoopIdle, LoopExit, PinnedTask,
       TaskFromFriend, RunOnce, Wake, Shutdown, DrainSleepers, NewNeighbor, NoMessage, WorkOwn,
       WorkSteal, WorkNone, GoToSleep, FillSleeper, NotifyDone, Reap, TaskStep, Bootstrap, YieldNow, Deschedule,
       Terminate, SpawnSibling, Reawaken, ReawakenFromLoop, poolv
  <2>2. CASE OwnerStep \/ UserStep \/ ExtStep
    BY <2>2 DEF OwnerStep, UserStep, ExtStep, LinkAndFire, SendNewNeighbor, StartSched,
       WaitForTasks, RecvDone, SendShutdown, StartShutdown, Spawn, SpawnPinned, SpawnSched, DropUser,
       ReawakenRemotely, poolv, OwnerAt
  <2>3. CASE UNCHANGED vars
    BY <2>3 DEF vars, poolv
  <2> QED
    BY <2>1, <2>2, <2>3 DEF Next, Finished
<1> QED
  BY <1>1, <1>2, <1>3

\* It holds throughout.
LEMMA DoneInvariant == Spec => []DoneInv
<1>1. Init => DoneInv
  BY DEF Init, DoneInv
<1> QED
  BY <1>1, DoneNext, TypeCorrect, PoolInvariant, PTL DEF Spec

\* In a pool that does not grow shutdown returns only when every task has ended
\* and every thread is gone, although it tells the schedulers to stop as soon
\* as no task counts, and a task counts only once it has run.
THEOREM ShutdownIsComplete ==
  ASSUME Scheds = Range(InitPool)
  PROVE  Spec => []ShutdownWaits
<1>1. ASSUME TypeOK, TaskInv, IdleInv, PoolInv, Ledger, FixedInv, CleanExit, DoneInv, opc = "done"
      PROVE  /\ \A t \in Tasks : tstate[t] \in {"unborn", "dead"}
             /\ \A s \in Scheds : pc[s] \in {"off", "stopped"}
  <2>1. \A s \in Scheds : pc[s] = "stopped"
    BY <1>1 DEF DoneInv, FixedInv, PoolInv
  <2>2. \A s \in Scheds : inbox[s] = <<>> /\ wq[s] = <<>> /\ remotes[s] = 0 /\ running[s] = None
    BY <1>1, <2>1 DEF CleanExit, PoolInv, TypeOK, CtlOK
  <2>3. ASSUME NEW t \in Tasks PROVE tstate[t] \in {"unborn", "dead"}
    <3>1. PlaceOf(t) /\ LifeOf(t) /\ tstate[t] \in TState /\ thandle[t] \in Scheds \cup {None}
      BY <1>1 DEF TaskInv, TypeOK, TaskOK
    <3>2. ~Somewhere(t)
      BY <2>2, EmptyHas, SchedsAssumption DEF Somewhere, RunningAt, QueuedAt, MailIn
    <3>3. CASE tstate[t] = "blocked"
      <4>1. PICK s \in Scheds : thandle[t] = s
        BY <3>1, <3>3 DEF LifeOf
      <4>2. BackN(s) = 0 /\ IsFiniteSet(Backs(s))
        BY <1>1, <2>2, NoHandle, Numbers
      <4>3. Backs(s) = {}
        BY <4>2, FS_EmptySet DEF BackN
      <4> QED
        BY <4>1, <4>3 DEF Backs
    <3> QED
      BY <3>1, <3>2, <3>3 DEF PlaceOf, Live, TState
  <2> QED
    BY <2>1, <2>3
<1>2. TypeOK /\ TaskInv /\ IdleInv /\ PoolInv /\ Ledger /\ FixedInv /\ CleanExit /\ DoneInv
      => ShutdownWaits
  BY <1>1 DEF ShutdownWaits
<1>3. Spec => []FixedInv
  BY FixedInvariant
<1>4. Spec => []CleanExit
  BY LoopsExitClean
<1> QED
  BY <1>2, <1>3, <1>4, TypeCorrect, TaskInvariant, IdleInvariant, PoolInvariant, LedgerInvariant,
     DoneInvariant, PTL

\* What the model checks together: in a pool that does not grow nothing is
\* lost, no task, no sleeper, no handle, no message, and nothing is left over
\* when a loop ends.
THEOREM NothingIsLost ==
  ASSUME Scheds = Range(InitPool)
  PROVE  Spec => []NothingLost
<1>1. Spec => []NoLostMessage
  BY MessagesAreSeen
<1>2. Spec => []CleanExit
  BY LoopsExitClean
<1>3. OneOwner /\ SleeperOnce /\ RemotesExact /\ NoLostMessage /\ CleanExit => NothingLost
  BY DEF NothingLost
<1> QED
  BY <1>1, <1>2, <1>3, TasksHaveOneOwner, SleepersDistinct, RemotesAreExact, PTL

\* What spawn_sched and its NewNeighbor do not disturb, for every pool, growing or
\* not: tasks have one owner, sleepers and wake-ups stay matched, the handles of
\* each loop are counted exactly, no loop waits over its own work queue, and the
\* owner that waits for the tasks is told (sched.rs, lib.rs).
THEOREM GrowthIsSafe == Spec => []GrowthSafe
<1>1. OneOwner /\ SleeperOnce /\ WakeOnce /\ RemotesExact /\ IdleCovers /\ NoLostDone
        => GrowthSafe
  BY DEF GrowthSafe
<1> QED
  BY <1>1, TasksHaveOneOwner, SleepersDistinct, WakesMatchSleeps, RemotesAreExact,
     WaitingHasNoWork, DoneIsAnnounced, PTL

===============================================================================

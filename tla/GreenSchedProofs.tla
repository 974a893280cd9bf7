--------------------------- MODULE GreenSchedProofs ---------------------------
(***************************************************************************)
(* Proofs about GreenSched for any number of schedulers and tasks, any     *)
(* friend structure and either event loop.                                 *)
(***************************************************************************)
EXTENDS GreenSched, TLAPS, SequenceTheorems, FiniteSetTheorems

-------------------------------------------------------------------------------
(* Values *)

\* A function on 1 .. n is a sequence.
LEMMA FunctionIsSeq ==
  ASSUME NEW S, NEW n \in Nat, NEW f \in [1 .. n -> S]
  PROVE  f \in Seq(S)
  BY SeqDef, Zenon

\* The messages and the handle ids that the actions build are well formed.
LEMMA MsgTypes ==
  /\ \A k \in TaskKinds, t \in Tasks : Msg(k, t) \in SchedMessage
  /\ \A s \in Scheds : Msg("NewNeighbor", s) \in SchedMessage
  /\ Msg("Wake", None) \in SchedMessage /\ Msg("Shutdown", None) \in SchedMessage
  BY DEF Msg, SchedMessage

\* The same for handle ids and for the events that carry them.
LEMMA HandleTypes ==
  /\ \A k \in {"pool", "user", "friend", "task", "temp"},
        x \in Scheds \cup Tasks \cup {None} : <<k, x>> \in Handles
  /\ \A h \in Handles : RunRemote(h) \in Event /\ RemoveRemote(h) \in Event
  BY DEF Handles, Event, RunRemote, RemoveRemote, Id

\* Firing or dropping a handle keeps an event queue an event queue.
LEMMA EventQueueTypes ==
  ASSUME NEW q \in Seq(Event), NEW h \in Handles
  PROVE  Fired(q, h) \in Seq(Event) /\ Dropped(q, h) \in Seq(Event)
<1>1. RunRemote(h) \in Event /\ RemoveRemote(h) \in Event
  BY HandleTypes
<1>2. Append(q, RunRemote(h)) \in Seq(Event) /\ Append(q, RemoveRemote(h)) \in Seq(Event)
  BY <1>1
<1>3. [i \in DOMAIN q |-> IF q[i] = RunRemote(h) THEN RemoveRemote(h) ELSE q[i]]
        \in Seq(Event)
  <2> DEFINE f == [i \in 1 .. Len(q) |->
                     IF q[i] = RunRemote(h) THEN RemoveRemote(h) ELSE q[i]]
  <2>1. Len(q) \in Nat /\ DOMAIN q = 1 .. Len(q) /\ \A i \in 1 .. Len(q) : q[i] \in Event
    BY LenProperties, ElementOfSeq
  <2>2. f \in [1 .. Len(q) -> Event]
    BY <2>1, <1>1
  <2>3. f \in Seq(Event)
    BY <2>1, <2>2, FunctionIsSeq
  <2> QED
    BY <2>1, <2>3
<1> QED
  BY <1>2, <1>3 DEF Fired, Dropped

\* Linking a node keeps a message queue a message queue and its payloads.
LEMMA LinkedTypes ==
  ASSUME NEW q \in Seq(Node), NEW th \in Threads
  PROVE  /\ Linked(q, th) \in Seq(Node)
         /\ DOMAIN Linked(q, th) = DOMAIN q
         /\ \A i \in DOMAIN q : Linked(q, th)[i].msg = q[i].msg
<1> DEFINE f == [i \in 1 .. Len(q) |->
                   IF q[i].by = th THEN [q[i] EXCEPT !.by = None] ELSE q[i]]
<1>1. Len(q) \in Nat /\ DOMAIN q = 1 .. Len(q) /\ \A i \in 1 .. Len(q) : q[i] \in Node
  BY LenProperties, ElementOfSeq
<1>2. \A i \in 1 .. Len(q) :
        /\ f[i] \in Node
        /\ f[i].msg = q[i].msg
  BY <1>1 DEF Node
<1>3. f \in [1 .. Len(q) -> Node]
  BY <1>2
<1>4. Linked(q, th) = f
  BY <1>1 DEF Linked
<1>5. f \in Seq(Node)
  BY <1>1, <1>3, FunctionIsSeq
<1> QED
  BY <1>1, <1>2, <1>4, <1>5

\* Removing one element of a sequence leaves a sequence.
LEMMA RemoveAtTypes ==
  ASSUME NEW S, NEW q \in Seq(S), NEW i \in DOMAIN q
  PROVE  RemoveAt(q, i) \in Seq(S)
<1>1. i \in 1 .. Len(q) /\ Len(q) \in Nat
  BY LenProperties
<1>2. SubSeq(q, 1, i - 1) \in Seq(S) /\ SubSeq(q, i + 1, Len(q)) \in Seq(S)
  BY <1>1, SubSeqProperties
<1> QED
  BY <1>2, ConcatProperties DEF RemoveAt

\* The rest and the last element of a sequence that is not empty.
LEMMA FrontLastTypes ==
  ASSUME NEW S, NEW q \in Seq(S), q # <<>>
  PROVE  Front(q) \in Seq(S) /\ Last(q) \in S
<1>1. Len(q) \in Nat /\ Len(q) # 0
  BY LenProperties, EmptySeq
<1>2. q[Len(q)] \in S
  BY <1>1, ElementOfSeq
<1>3. SubSeq(q, 1, Len(q) - 1) \in Seq(S)
  BY <1>1, SubSeqProperties
<1> QED
  BY <1>2, <1>3 DEF Front, Last

\* The loop's count of its remote handles stays an integer.
LEMMA CountTypes ==
  ASSUME NEW f \in [Scheds -> Int], NEW s \in Scheds
  PROVE  /\ [f EXCEPT ![s] = @ + 1] \in [Scheds -> Int]
         /\ [f EXCEPT ![s] = @ - 1] \in [Scheds -> Int]
<1>1. f[s] + 1 \in Int /\ f[s] - 1 \in Int
  OBVIOUS
<1> QED
  BY <1>1

\* A send keeps the queues and the record of sends in progress well formed.
LEMMA SendTypes ==
  ASSUME MsgOK,
         NEW inb \in [Scheds -> Seq(Node)], NEW th \in Threads,
         NEW to \in Scheds \cup {None}, NEW m \in SchedMessage,
         NEW h \in Handles, NEW last \in BOOLEAN,
         Send(inb, th, to, m, h, last)
  PROVE  MsgOK'
<1>1. [msg |-> m, by |-> th] \in Node
  BY DEF Node
<1>2. inbox' \in [Scheds -> Seq(Node)]
  <2>1. \A s \in Scheds : Append(inb[s], [msg |-> m, by |-> th]) \in Seq(Node)
    BY <1>1, AppendProperties
  <2> QED
    BY <2>1 DEF Send
<1>3. [stage |-> "link", to |-> to, msg |-> m, h |-> h, last |-> last] \in Sending
  BY DEF Sending
<1>4. out' \in [Threads -> Sending \cup {NotSending("none"), NotSending("pick")}]
  BY <1>3 DEF MsgOK, Send
<1> QED
  BY <1>2, <1>4 DEF MsgOK

\* The end of a send in progress, or of the search for a sleeper.
LEMMA QuietTypes ==
  ASSUME MsgOK, NEW th \in Threads, NEW st \in {"none", "pick"}
  PROVE  [out EXCEPT ![th] = NotSending(st)]
            \in [Threads -> Sending \cup {NotSending("none"), NotSending("pick")}]
  BY DEF MsgOK

\* The message a scheduler pops is well formed and the rest of its queue too.
LEMMA PopTypes ==
  ASSUME MsgOK, NEW s \in Scheds, inbox[s] # <<>>
  PROVE  /\ Head(inbox[s]) \in Node
         /\ Popped(s) \in [Scheds -> Seq(Node)]
         /\ Head(inbox[s]).msg.kind \in TaskKinds => Arg(s) \in Tasks
         /\ Head(inbox[s]).msg.kind = "NewNeighbor" => Arg(s) \in Scheds
<1>1. inbox[s] \in Seq(Node)
  BY DEF MsgOK
<1>2. Head(inbox[s]) \in Node /\ Tail(inbox[s]) \in Seq(Node)
  BY <1>1, HeadTailProperties
<1>3. Head(inbox[s]).msg \in SchedMessage
  BY <1>2 DEF Node
<1>4. /\ Head(inbox[s]).msg.kind \in TaskKinds => Head(inbox[s]).msg.arg \in Tasks
      /\ Head(inbox[s]).msg.kind = "NewNeighbor" => Head(inbox[s]).msg.arg \in Scheds
  BY <1>3 DEF SchedMessage, TaskKinds
<1>5. Popped(s) \in [Scheds -> Seq(Node)]
  BY <1>2 DEF Popped, MsgOK
<1> QED
  BY <1>2, <1>4, <1>5 DEF Arg

-------------------------------------------------------------------------------
(* Type correctness: the steps the actions share *)

\* What an action leaves alone stays typed.  The pool's own part also speaks
\* of pc, but only of a scheduler that no other thread has started.
LEMMA Frames ==
  /\ CtlOK /\ UNCHANGED ctlv => CtlOK'
  /\ LoopOK /\ UNCHANGED loopv => LoopOK'
  /\ WorkOK /\ UNCHANGED workv => WorkOK'
  /\ SleepOK /\ UNCHANGED sleepv => SleepOK'
  /\ MsgOK /\ UNCHANGED msgv => MsgOK'
  /\ TaskOK /\ UNCHANGED taskv => TaskOK'
  /\ PoolOK /\ UNCHANGED poolv /\ (\A q \in Scheds : pc[q] = "off" => pc'[q] = "off")
       => PoolOK'
  /\ PoolOK /\ UNCHANGED <<ctlv, poolv>> => PoolOK'
  /\ PoolOK /\ UNCHANGED <<pc, poolv>> => PoolOK'
  BY DEF CtlOK, LoopOK, WorkOK, SleepOK, MsgOK, TaskOK, PoolOK,
         ctlv, loopv, workv, sleepv, msgv, taskv, poolv

\* The scheduler's thread moves on: its counter stays typed, no task is on
\* the thread, and a scheduler that is not started is not touched.
LEMMA GoOnTypes ==
  ASSUME CtlOK, NEW s \in Scheds, pc[s] # "off",
         NEW next \in {"keep_going", "msg2did", "loop", "work", "sleep"},
         GoOn(s, next)
  PROVE  /\ pc' \in [Scheds -> PC]
         /\ pc'[s] \notin {"task", "reap", "off"}
         /\ \A q \in Scheds \ {s} : pc'[q] = pc[q]
  BY LoopAssumption DEF CtlOK, GoOn, Goes, PC

\* A message that did no work, or none: the scheduler moves on.
LEMMA NothingDoneTypes ==
  ASSUME CtlOK, NEW s \in Scheds, pc[s] \in {"msg1", "msg2", "msg2did"},
         NothingDone(s), UNCHANGED <<stealYield, note>>
  PROVE  CtlOK' /\ \A q \in Scheds : pc[q] = "off" => pc'[q] = "off"
<1> DEFINE next == CASE pc[s] = "msg1" -> "work" [] pc[s] = "msg2" -> "sleep"
                     [] pc[s] = "msg2did" -> "keep_going"
<1>1. next \in {"keep_going", "msg2did", "loop", "work", "sleep"}
  OBVIOUS
<1>2. GoOn(s, next) /\ pc[s] # "off"
  BY DEF NothingDone
<1>3. /\ pc' \in [Scheds -> PC] /\ pc'[s] \notin {"task", "reap", "off"}
      /\ \A q \in Scheds \ {s} : pc'[q] = pc[q]
  <2> HIDE DEF next
  <2> QED BY <1>1, <1>2, GoOnTypes
<1> QED
  BY <1>3 DEF CtlOK, NothingDone

\* Switching to a task keeps the control state typed.
LEMMA ResumeTypes ==
  ASSUME CtlOK, NEW s \in Scheds, NEW t \in Tasks, pc[s] # "off",
         NEW next \in {"keep_going", "msg2did", "loop"},
         ResumeTask(s, t, next), stealYield' \in [Scheds -> BOOLEAN], UNCHANGED note
  PROVE  CtlOK' /\ \A q \in Scheds : pc[q] = "off" => pc'[q] = "off"
  BY SchedsAssumption DEF CtlOK, ResumeTask, PC

\* Sending a task away keeps the messages and the homes typed.
LEMMA SendAwayTypes ==
  ASSUME TypeOK, NEW s \in Scheds, NEW t \in Tasks,
         NEW inb \in [Scheds -> Seq(Node)], SendAway(inb, s, t)
  PROVE  MsgOK' /\ home' \in [Tasks -> Scheds \cup {AnySched, None}]
<1>1. /\ s \in Threads /\ MsgOK
      /\ <<"temp", s>> \in Handles /\ <<"friend", s>> \in Handles
      /\ Msg("PinnedTask", t) \in SchedMessage /\ Msg("TaskFromFriend", t) \in SchedMessage
      /\ Friend[s] \in Scheds \cup {None}
  BY HandleTypes, MsgTypes, FriendAssumption DEF TypeOK, Threads, TaskKinds
<1>2. CASE home[t] \in Scheds
  <2>1. Send(inb, s, home[t], Msg("PinnedTask", t), <<"temp", s>>, TRUE)
    BY <1>2 DEF SendAway
  <2>2. MsgOK'
    BY <1>1, <1>2, <2>1, SendTypes
  <2> QED
    BY <1>2, <2>2 DEF SendAway, TypeOK, TaskOK
<1>3. CASE home[t] \notin Scheds
  <2>1. Send(inb, s, Friend[s], Msg("TaskFromFriend", t), <<"friend", s>>, FALSE)
    BY <1>3 DEF SendAway
  <2>2. MsgOK'
    BY <1>1, <2>1, SendTypes
  <2> QED
    BY <1>3, <2>2 DEF SendAway, TypeOK, TaskOK
<1> QED
  BY <1>2, <1>3

\* process_task: the task runs here or is sent away.
LEMMA ProcessTaskTypes ==
  ASSUME TypeOK, NEW s \in Scheds, NEW t \in Tasks, pc[s] \notin {"off", "task", "reap"},
         NEW inb \in [Scheds -> Seq(Node)],
         NEW next \in {"keep_going", "msg2did", "loop"},
         ProcessTask(inb, s, t, next), stealYield' \in [Scheds -> BOOLEAN], UNCHANGED note
  PROVE  /\ CtlOK' /\ MsgOK' /\ home' \in [Tasks -> Scheds \cup {AnySched, None}]
         /\ \A q \in Scheds : pc[q] = "off" => pc'[q] = "off"
<1>1. CASE RunsHere(s, t) /\ ResumeTask(s, t, next) /\ inbox' = inb /\ UNCHANGED <<out, home>>
  <2>1. CtlOK' /\ \A q \in Scheds : pc[q] = "off" => pc'[q] = "off"
    BY <1>1, ResumeTypes DEF TypeOK
  <2> QED
    BY <1>1, <2>1 DEF TypeOK, MsgOK, TaskOK
<1>2. CASE ~RunsHere(s, t) /\ SendAway(inb, s, t) /\ GoOn(s, next) /\ UNCHANGED <<running, after>>
  <2>1. /\ pc' \in [Scheds -> PC] /\ pc'[s] \notin {"task", "reap", "off"}
        /\ \A q \in Scheds \ {s} : pc'[q] = pc[q]
    BY <1>2, GoOnTypes DEF TypeOK
  <2>2. CtlOK'
    BY <1>2, <2>1 DEF TypeOK, CtlOK
  <2> QED
    BY <1>2, <2>1, <2>2, SendAwayTypes
<1> QED
  BY <1>1, <1>2 DEF ProcessTask

\* enqueue_task keeps the work queue and the idle flag typed.
LEMMA EnqueueTypes ==
  ASSUME TypeOK, NEW s \in Scheds, NEW t \in Tasks, EnqueueTask(s, t)
  PROVE  /\ wq' \in [Scheds -> Seq(Tasks)] /\ idle' \in [Scheds -> BOOLEAN]
         /\ out' \in [Threads -> Sending \cup {NotSending("none"), NotSending("pick")}]
<1>1. Append(wq[s], t) \in Seq(Tasks)
  BY AppendProperties DEF TypeOK, WorkOK
<1>2. out' \in [Threads -> Sending \cup {NotSending("none"), NotSending("pick")}]
  BY QuietTypes DEF TypeOK, EnqueueTask, Threads
<1> QED
  BY <1>1, <1>2 DEF EnqueueTask, TypeOK, WorkOK, LoopOK

\* run_task: the running task changes or another one is sent away.
LEMMA RunTaskTypes ==
  ASSUME TypeOK, NEW s \in Scheds, NEW t \in Tasks, NEW u \in Tasks, pc[s] = "task",
         RunTask(s, t, u), UNCHANGED <<pc, after, stealYield, note, evq, remotes, known>>
  PROVE  /\ CtlOK' /\ LoopOK' /\ WorkOK' /\ MsgOK'
         /\ home' \in [Tasks -> Scheds \cup {AnySched, None}]
<1>1. CASE EnqueueTask(s, t) /\ running' = [running EXCEPT ![s] = u] /\ UNCHANGED <<home, inbox>>
  <2>1. CtlOK'
    BY <1>1, SchedsAssumption DEF TypeOK, CtlOK
  <2> QED
    BY <1>1, <2>1, EnqueueTypes DEF TypeOK, LoopOK, WorkOK, MsgOK, TaskOK
<1>2. CASE SendAway(inbox, s, u) /\ UNCHANGED <<running, wq, idle>>
  <2>1. MsgOK' /\ home' \in [Tasks -> Scheds \cup {AnySched, None}]
    BY <1>2, SendAwayTypes DEF TypeOK, MsgOK
  <2> QED
    BY <1>2, <2>1, Frames DEF TypeOK, CtlOK, LoopOK, WorkOK
<1> QED
  BY <1>1, <1>2 DEF RunTask

\* Control goes back to the scheduler.
LEMMA GiveUpTypes ==
  ASSUME CtlOK, NEW s \in Scheds, pc[s] # "off", GiveUp(s), stealYield' \in [Scheds -> BOOLEAN],
         UNCHANGED note
  PROVE  CtlOK' /\ \A q \in Scheds : pc[q] = "off" => pc'[q] = "off"
<1>1. after[s] \in {"keep_going", "msg2did", "loop"}
  BY DEF CtlOK
<1>2. /\ pc' \in [Scheds -> PC] /\ pc'[s] \notin {"task", "reap", "off"}
      /\ \A q \in Scheds \ {s} : pc'[q] = pc[q]
  BY <1>1, GoOnTypes DEF GiveUp
<1> QED
  BY <1>2, SchedsAssumption DEF CtlOK, GiveUp

-------------------------------------------------------------------------------
(* Type correctness, one lemma per action *)

\* LinkAndFire(th) keeps the state typed.
LEMMA LinkAndFireTypes ==
  ASSUME TypeOK, NEW th \in Threads, LinkAndFire(th)
  PROVE  TypeOK'
<1> DEFINE to == out[th].to
<1>1. out[th] \in Sending
  BY DEF LinkAndFire, TypeOK, MsgOK, NotSending
<1>2. out[th].h \in Handles
  BY <1>1 DEF Sending
<1>3. \A q \in Scheds : Linked(inbox[q], th) \in Seq(Node)
  BY LinkedTypes DEF TypeOK, MsgOK
<1>4. \A q \in Scheds : /\ Fired(evq[q], out[th].h) \in Seq(Event)
                        /\ Dropped(Fired(evq[q], out[th].h), out[th].h) \in Seq(Event)
  BY <1>2, EventQueueTypes DEF TypeOK, LoopOK
<1>5. LoopOK'
  BY <1>4 DEF LinkAndFire, TypeOK, LoopOK
<1>6. MsgOK'
  BY <1>3, QuietTypes DEF LinkAndFire, TypeOK, MsgOK
<1> QED
  BY <1>5, <1>6, Frames DEF LinkAndFire, TypeOK

\* PickSleeper(s) keeps the state typed.
LEMMA PickSleeperTypes ==
  ASSUME TypeOK, NEW s \in Scheds, PickSleeper(s)
  PROVE  TypeOK'
<1>1. s \in Threads
  BY DEF Threads
<1>2. SleepOK' /\ MsgOK'
  <2>1. CASE NoneAsleep
    BY <1>1, <2>1, QuietTypes DEF PickSleeper, TypeOK, SleepOK, MsgOK
  <2>2. CASE ~NoneAsleep
    <3>1. Head(sleepers) \in Scheds /\ Tail(sleepers) \in Seq(Scheds)
      BY <2>2, HeadTailProperties DEF NoneAsleep, TypeOK, SleepOK
    <3>2. Send(inbox, s, Head(sleepers), Msg("Wake", None), <<"temp", s>>, TRUE)
      BY <2>2 DEF PickSleeper
    <3>3. Msg("Wake", None) \in SchedMessage /\ <<"temp", s>> \in Handles
      BY MsgTypes, HandleTypes
    <3>4. MsgOK'
      BY <1>1, <3>1, <3>2, <3>3, SendTypes DEF TypeOK, MsgOK
    <3> QED
      BY <2>2, <3>1, <3>4 DEF PickSleeper, TypeOK, SleepOK
  <2> QED
    BY <2>1, <2>2
<1> QED
  BY <1>2, Frames DEF PickSleeper, TypeOK

\* LoopEvent(s) keeps the state typed.
LEMMA LoopEventTypes ==
  ASSUME TypeOK, NEW s \in Scheds, LoopEvent(s)
  PROVE  TypeOK'
<1>1. PICK i \in DOMAIN evq[s] :
        /\ evq' = [evq EXCEPT ![s] = RemoveAt(@, i)]
        /\ remotes' = [remotes EXCEPT ![s] =
                         IF evq[s][i].ev = "RemoveRemote" THEN @ - 1 ELSE @]
        /\ UNCHANGED <<pc, idle>> \/ EnterSched(s)
  BY DEF LoopEvent
<1>2. RemoveAt(evq[s], i) \in Seq(Event)
  BY RemoveAtTypes DEF TypeOK, LoopOK
<1>3. LoopOK'
  <2>1. remotes' \in [Scheds -> Int]
    <3>1. remotes' = [remotes EXCEPT ![s] = @ - 1] \/ UNCHANGED remotes
      BY <1>1 DEF TypeOK, LoopOK
    <3> QED
      BY <3>1, CountTypes DEF TypeOK, LoopOK
  <2>2. evq' \in [Scheds -> Seq(Event)]
    BY <1>1, <1>2 DEF TypeOK, LoopOK
  <2> QED
    BY <1>1, <2>1, <2>2 DEF EnterSched, TypeOK, LoopOK
<1>4. CtlOK' /\ (\A q \in Scheds : pc[q] = "off" => pc'[q] = "off")
  BY <1>1 DEF LoopEvent, InLoop, EnterSched, TypeOK, CtlOK, PC
<1> QED
  BY <1>3, <1>4, Frames DEF LoopEvent, TypeOK

\* LoopIdle(s) keeps the state typed.
LEMMA LoopIdleTypes ==
  ASSUME TypeOK, NEW s \in Scheds, LoopIdle(s)
  PROVE  TypeOK'
<1>1. LoopOK'
  BY DEF LoopIdle, EnterSched, TypeOK, LoopOK
<1>2. CtlOK' /\ (\A q \in Scheds : pc[q] = "off" => pc'[q] = "off")
  BY DEF LoopIdle, InLoop, EnterSched, TypeOK, CtlOK, PC
<1> QED
  BY <1>1, <1>2, Frames DEF LoopIdle, TypeOK

\* LoopExit(s) keeps the state typed.
LEMMA LoopExitTypes ==
  ASSUME TypeOK, NEW s \in Scheds, LoopExit(s)
  PROVE  TypeOK'
<1>1. <<"friend", s>> \in Handles
  BY HandleTypes
<1>2. \A q \in Scheds : Dropped(evq[q], <<"friend", s>>) \in Seq(Event)
  BY <1>1, EventQueueTypes DEF TypeOK, LoopOK
<1>3. LoopOK'
  BY <1>2 DEF LoopExit, TypeOK, LoopOK
<1>4. CtlOK' /\ (\A q \in Scheds : pc[q] = "off" => pc'[q] = "off")
  BY DEF LoopExit, InLoop, TypeOK, CtlOK, PC
<1> QED
  BY <1>3, <1>4, Frames DEF LoopExit, TypeOK

\* PinnedTask(s) keeps the state typed.
LEMMA PinnedTaskTypes ==
  ASSUME TypeOK, NEW s \in Scheds, PinnedTask(s)
  PROVE  TypeOK'
<1>1. Popped(s) \in [Scheds -> Seq(Node)] /\ Arg(s) \in Tasks
  BY PopTypes DEF PinnedTask, Message, TypeOK, TaskKinds
<1>2. CtlOK' /\ (\A q \in Scheds : pc[q] = "off" => pc'[q] = "off")
  <2>1. stealYield' \in [Scheds -> BOOLEAN]
    BY DEF PinnedTask, TypeOK, CtlOK
  <2> QED
    BY <1>1, <2>1, ResumeTypes DEF PinnedTask, Message, TypeOK
<1>3. LoopOK'
  BY CountTypes DEF PinnedTask, TypeOK, LoopOK
<1>4. TaskOK' /\ MsgOK'
  BY <1>1 DEF PinnedTask, TypeOK, TaskOK, MsgOK
<1> QED
  BY <1>2, <1>3, <1>4, Frames DEF PinnedTask, TypeOK

\* TaskFromFriend(s) keeps the state typed.
LEMMA TaskFromFriendTypes ==
  ASSUME TypeOK, NEW s \in Scheds, TaskFromFriend(s)
  PROVE  TypeOK'
<1>1. Popped(s) \in [Scheds -> Seq(Node)] /\ Arg(s) \in Tasks
  BY PopTypes DEF TaskFromFriend, Message, TypeOK, TaskKinds
<1>2. pc[s] \notin {"off", "task", "reap"}
  BY DEF TaskFromFriend, Message
<1>3. /\ CtlOK' /\ MsgOK' /\ home' \in [Tasks -> Scheds \cup {AnySched, None}]
      /\ \A q \in Scheds : pc[q] = "off" => pc'[q] = "off"
  <2>1. stealYield' \in [Scheds -> BOOLEAN]
    BY DEF TaskFromFriend, TypeOK, CtlOK
  <2> QED
    BY <1>1, <1>2, <2>1, ProcessTaskTypes DEF TaskFromFriend
<1>4. TaskOK'
  BY <1>3 DEF TaskFromFriend, TypeOK, TaskOK
<1> QED
  BY <1>3, <1>4, Frames DEF TaskFromFriend, TypeOK

\* RunOnce(s) keeps the state typed.
LEMMA RunOnceTypes ==
  ASSUME TypeOK, NEW s \in Scheds, RunOnce(s)
  PROVE  TypeOK'
<1>1. Popped(s) \in [Scheds -> Seq(Node)] /\ Arg(s) \in Tasks
  BY PopTypes DEF RunOnce, Message, TypeOK, TaskKinds
<1>2. CtlOK' /\ (\A q \in Scheds : pc[q] = "off" => pc'[q] = "off")
  <2>1. stealYield' \in [Scheds -> BOOLEAN]
    BY DEF RunOnce, TypeOK, CtlOK
  <2> QED
    BY <1>1, <2>1, ResumeTypes DEF RunOnce, Message, TypeOK
<1>3. MsgOK'
  BY <1>1 DEF RunOnce, TypeOK, MsgOK
<1> QED
  BY <1>2, <1>3, Frames DEF RunOnce, TypeOK

\* Wake(s) keeps the state typed.
LEMMA WakeTypes ==
  ASSUME TypeOK, NEW s \in Scheds, Wake(s)
  PROVE  TypeOK'
<1>1. Popped(s) \in [Scheds -> Seq(Node)]
  BY PopTypes DEF Wake, Message, TypeOK, TaskKinds
<1>2. /\ pc' \in [Scheds -> PC] /\ pc'[s] \notin {"task", "reap", "off"}
      /\ \A q \in Scheds \ {s} : pc'[q] = pc[q]
  BY GoOnTypes DEF Wake, Message, TypeOK
<1>3. CtlOK' /\ (\A q \in Scheds : pc[q] = "off" => pc'[q] = "off")
  BY <1>2 DEF Wake, Message, TypeOK, CtlOK

<1>4. MsgOK' /\ SleepOK'
  BY <1>1 DEF Wake, TypeOK, MsgOK, SleepOK
<1> QED
  BY <1>3, <1>4, Frames DEF Wake, TypeOK

\* Shutdown(s) keeps the state typed.
LEMMA ShutdownTypes ==
  ASSUME TypeOK, NEW s \in Scheds, Shutdown(s)
  PROVE  TypeOK'
<1>1. Popped(s) \in [Scheds -> Seq(Node)]
  BY PopTypes DEF Shutdown, Message, TypeOK, TaskKinds
<1>2. CtlOK' /\ (\A q \in Scheds : pc[q] = "off" => pc'[q] = "off")
  <2>1. CASE sleepy[s]
    BY <2>1 DEF Shutdown, Message, TypeOK, CtlOK, PC
  <2>2. CASE ~sleepy[s]
    <3>1. GoOn(s, "keep_going") /\ pc[s] # "off"
      BY <2>2 DEF Shutdown, StopSleeping, Message
    <3>2. /\ pc' \in [Scheds -> PC] /\ pc'[s] \notin {"task", "reap", "off"}
          /\ \A q \in Scheds \ {s} : pc'[q] = pc[q]
      BY <3>1, GoOnTypes DEF TypeOK
    <3> QED
      BY <3>2 DEF Shutdown, Message, TypeOK, CtlOK
  <2> QED
    BY <2>1, <2>2
<1>3. MsgOK' /\ SleepOK'
  BY <1>1 DEF Shutdown, StopSleeping, TypeOK, MsgOK, SleepOK
<1> QED
  BY <1>2, <1>3, Frames DEF Shutdown, TypeOK

\* DrainSleepers(s) keeps the state typed.
LEMMA DrainSleepersTypes ==
  ASSUME TypeOK, NEW s \in Scheds, DrainSleepers(s)
  PROVE  TypeOK'
<1>1. s \in Threads
  BY DEF Threads
<1>2. CASE NoneAsleep
  <2>1. GoOn(s, "keep_going") /\ pc[s] = "drain"
    BY <1>2 DEF DrainSleepers, StopSleeping
  <2>2. /\ pc' \in [Scheds -> PC] /\ pc'[s] \notin {"task", "reap", "off"}
        /\ \A q \in Scheds \ {s} : pc'[q] = pc[q]
    BY <2>1, GoOnTypes DEF TypeOK
  <2>3. CtlOK' /\ (\A q \in Scheds : pc[q] = "off" => pc'[q] = "off")
    BY <2>1, <2>2 DEF DrainSleepers, TypeOK, CtlOK
  <2>4. SleepOK' /\ MsgOK'
    BY <1>2 DEF DrainSleepers, StopSleeping, msgv, TypeOK, SleepOK, MsgOK
  <2> QED
    BY <2>3, <2>4, Frames DEF DrainSleepers, TypeOK
<1>3. CASE ~NoneAsleep
  <2>1. Head(sleepers) \in Scheds /\ Tail(sleepers) \in Seq(Scheds)
    BY <1>3, HeadTailProperties DEF NoneAsleep, TypeOK, SleepOK
  <2>2. Send(inbox, s, Head(sleepers), Msg("Wake", None), <<"temp", s>>, TRUE)
    BY <1>3 DEF DrainSleepers
  <2>3. Msg("Wake", None) \in SchedMessage /\ <<"temp", s>> \in Handles
    BY MsgTypes, HandleTypes
  <2>4. MsgOK'
    BY <1>1, <2>1, <2>2, <2>3, SendTypes DEF TypeOK, MsgOK
  <2>5. SleepOK' /\ CtlOK' /\ (\A q \in Scheds : pc[q] = "off" => pc'[q] = "off")
    BY <1>3, <2>1 DEF DrainSleepers, TypeOK, SleepOK, CtlOK
  <2> QED
    BY <2>4, <2>5, Frames DEF DrainSleepers, TypeOK
<1> QED
  BY <1>2, <1>3, Frames DEF DrainSleepers, TypeOK

\* NewNeighbor(s) keeps the state typed.
LEMMA NewNeighborTypes ==
  ASSUME TypeOK, NEW s \in Scheds, NewNeighbor(s)
  PROVE  TypeOK'
<1>1. Popped(s) \in [Scheds -> Seq(Node)] /\ Arg(s) \in Scheds
  BY PopTypes DEF NewNeighbor, Message, TypeOK, TaskKinds
<1>2. CtlOK' /\ (\A q \in Scheds : pc[q] = "off" => pc'[q] = "off")
  BY NothingDoneTypes DEF NewNeighbor, Message, TypeOK
<1>3. WorkOK' /\ MsgOK'
  BY <1>1 DEF NewNeighbor, TypeOK, WorkOK, MsgOK
<1> QED
  BY <1>2, <1>3, Frames DEF NewNeighbor, TypeOK

\* NoMessage(s) keeps the state typed.
LEMMA NoMessageTypes ==
  ASSUME TypeOK, NEW s \in Scheds, NoMessage(s)
  PROVE  TypeOK'
<1>1. CtlOK' /\ (\A q \in Scheds : pc[q] = "off" => pc'[q] = "off")
  BY NothingDoneTypes DEF NoMessage, TypeOK
<1> QED
  BY <1>1, Frames DEF NoMessage, TypeOK

\* WorkOwn(s) keeps the state typed.
LEMMA WorkOwnTypes ==
  ASSUME TypeOK, NEW s \in Scheds, WorkOwn(s)
  PROVE  TypeOK'
<1>1. Front(wq[s]) \in Seq(Tasks) /\ Last(wq[s]) \in Tasks
  BY FrontLastTypes DEF WorkOwn, TypeOK, WorkOK
<1>2. pc[s] \notin {"off", "task", "reap"} /\ inbox \in [Scheds -> Seq(Node)]
  BY DEF WorkOwn, Working, TypeOK, MsgOK
<1>3. /\ CtlOK' /\ MsgOK' /\ home' \in [Tasks -> Scheds \cup {AnySched, None}]
      /\ \A q \in Scheds : pc[q] = "off" => pc'[q] = "off"
  <2>1. stealYield' \in [Scheds -> BOOLEAN]
    BY DEF WorkOwn, TypeOK, CtlOK
  <2> QED
    BY <1>1, <1>2, <2>1, ProcessTaskTypes DEF WorkOwn
<1>4. TaskOK' /\ WorkOK'
  BY <1>1, <1>3 DEF WorkOwn, TypeOK, TaskOK, WorkOK
<1> QED
  BY <1>3, <1>4, Frames DEF WorkOwn, TypeOK

\* WorkSteal(s) keeps the state typed.
LEMMA WorkStealTypes ==
  ASSUME TypeOK, NEW s \in Scheds, WorkSteal(s)
  PROVE  TypeOK'
<1>1. PICK q \in known[s] : /\ wq[q] # <<>> /\ wq' = [wq EXCEPT ![q] = Tail(@)]
                           /\ ProcessTask(inbox, s, Head(wq[q]), "msg2did")
  BY DEF WorkSteal
<1>2. q \in Scheds /\ wq[q] \in Seq(Tasks)
  BY <1>1 DEF TypeOK, WorkOK
<1>3. Head(wq[q]) \in Tasks /\ Tail(wq[q]) \in Seq(Tasks)
  BY <1>1, <1>2, HeadTailProperties
<1>4. pc[s] \notin {"off", "task", "reap"} /\ inbox \in [Scheds -> Seq(Node)]
  BY DEF WorkSteal, Working, TypeOK, MsgOK
<1>5. /\ CtlOK' /\ MsgOK' /\ home' \in [Tasks -> Scheds \cup {AnySched, None}]
      /\ \A r \in Scheds : pc[r] = "off" => pc'[r] = "off"
  <2>1. stealYield' \in [Scheds -> BOOLEAN]
    BY DEF WorkSteal, TypeOK, CtlOK
  <2> QED
    BY <1>1, <1>3, <1>4, <2>1, ProcessTaskTypes DEF WorkSteal
<1>6. TaskOK' /\ WorkOK'
  BY <1>1, <1>3, <1>5 DEF WorkSteal, TypeOK, TaskOK, WorkOK
<1> QED
  BY <1>5, <1>6, Frames DEF WorkSteal, TypeOK

\* WorkNone(s) keeps the state typed.
LEMMA WorkNoneTypes ==
  ASSUME TypeOK, NEW s \in Scheds, WorkNone(s)
  PROVE  TypeOK'
<1>1. CtlOK' /\ (\A q \in Scheds : pc[q] = "off" => pc'[q] = "off")
  BY DEF WorkNone, Working, TypeOK, CtlOK, PC
<1> QED
  BY <1>1, Frames DEF WorkNone, TypeOK

\* GoToSleep(s) keeps the state typed.
LEMMA GoToSleepTypes ==
  ASSUME TypeOK, NEW s \in Scheds, GoToSleep(s)
  PROVE  TypeOK'
<1>1. CtlOK' /\ (\A q \in Scheds : pc[q] = "off" => pc'[q] = "off")
  BY DEF GoToSleep, StopIdling, TypeOK, CtlOK, PC
<1>2. remotes' \in [Scheds -> Int]
  BY CountTypes DEF GoToSleep, TypeOK, LoopOK
<1>3. LoopOK'
  BY <1>2 DEF GoToSleep, StopIdling, TypeOK, LoopOK
<1>4. SleepOK'
  <2>1. Append(sleepers, s) \in Seq(Scheds)
    BY AppendProperties DEF TypeOK, SleepOK
  <2> QED
    BY <2>1 DEF GoToSleep, TypeOK, SleepOK
<1> QED
  BY <1>1, <1>3, <1>4, Frames DEF GoToSleep, TypeOK

\* FillSleeper(s) keeps the state typed.
LEMMA FillSleeperTypes ==
  ASSUME TypeOK, NEW s \in Scheds, FillSleeper(s)
  PROVE  TypeOK'
<1>1. CtlOK' /\ (\A q \in Scheds : pc[q] = "off" => pc'[q] = "off")
  BY DEF FillSleeper, StopIdling, TypeOK, CtlOK, PC
<1>2. LoopOK'
  BY DEF FillSleeper, StopIdling, TypeOK, LoopOK
<1> QED
  BY <1>1, <1>2, Frames DEF FillSleeper, TypeOK

\* NotifyDone(s) keeps the state typed.
LEMMA NotifyDoneTypes ==
  ASSUME TypeOK, NEW s \in Scheds, NotifyDone(s)
  PROVE  TypeOK'
<1>1. CtlOK'
  BY DEF NotifyDone, TypeOK, CtlOK
<1>2. PoolOK'
  BY DEF NotifyDone, TypeOK, PoolOK
<1> QED
  BY <1>1, <1>2, Frames DEF NotifyDone, TypeOK

\* Reap(s, t) keeps the state typed.
LEMMA ReapTypes ==
  ASSUME TypeOK, NEW s \in Scheds, NEW t \in Tasks, Reap(s, t)
  PROVE  TypeOK'
<1>1. <<"temp", s>> \in Handles /\ <<"task", t>> \in Handles
  BY HandleTypes
<1>2. \A q \in Scheds : DropAll(q, t, s) \in Seq(Event)
  <2> SUFFICES ASSUME NEW q \in Scheds PROVE DropAll(q, t, s) \in Seq(Event)
    OBVIOUS
  <2> DEFINE q1 == IF home[t] = q THEN Dropped(evq[q], <<"temp", s>>) ELSE evq[q]
  <2>1. q1 \in Seq(Event)
    BY <1>1, EventQueueTypes DEF TypeOK, LoopOK
  <2>2. Dropped(q1, <<"task", t>>) \in Seq(Event)
    <3> HIDE DEF q1
    <3> QED BY <1>1, <2>1, EventQueueTypes
  <2> QED
    BY <2>1, <2>2 DEF DropAll
<1>3. LoopOK'
  BY <1>2 DEF Reap, TypeOK, LoopOK
<1>4. CtlOK' /\ (\A q \in Scheds : pc[q] = "off" => pc'[q] = "off")
  BY GiveUpTypes DEF Reap, TypeOK, CtlOK
<1>5. TaskOK'
  BY DEF Reap, TypeOK, TaskOK, TState
<1> QED
  BY <1>3, <1>4, <1>5, Frames DEF Reap, TypeOK

\* Bootstrap(s, t) keeps the state typed.
LEMMA BootstrapTypes ==
  ASSUME TypeOK, NEW s \in Scheds, NEW t \in Tasks, Bootstrap(s, t)
  PROVE  TypeOK'
<1>1. TaskOK' /\ PoolOK'
  BY DEF Bootstrap, ctlv, TypeOK, TaskOK, PoolOK, TState
<1> QED
  BY <1>1, Frames DEF Bootstrap, TypeOK

\* SpawnSibling(s, t, u) keeps the state typed.
LEMMA SpawnSiblingTypes ==
  ASSUME TypeOK, NEW s \in Scheds, NEW t \in Tasks, NEW u \in Tasks, SpawnSibling(s, t, u)
  PROVE  TypeOK'
<1>1. pc[s] = "task"
  BY DEF SpawnSibling, TaskTurn
<1>2. /\ CtlOK' /\ LoopOK' /\ WorkOK' /\ MsgOK'
      /\ home' \in [Tasks -> Scheds \cup {AnySched, None}]
  BY <1>1, RunTaskTypes DEF SpawnSibling
<1>3. TaskOK'
  BY <1>2 DEF SpawnSibling, TypeOK, TaskOK, TState
<1> QED
  BY <1>2, <1>3, Frames DEF SpawnSibling, TypeOK

\* Reawaken(s, t, u) keeps the state typed.
LEMMA ReawakenTypes ==
  ASSUME TypeOK, NEW s \in Scheds, NEW t \in Tasks, NEW u \in Tasks, Reawaken(s, t, u)
  PROVE  TypeOK'
<1>1. pc[s] = "task"
  BY DEF Reawaken, TaskTurn
<1>2. /\ CtlOK' /\ LoopOK' /\ WorkOK' /\ MsgOK'
      /\ home' \in [Tasks -> Scheds \cup {AnySched, None}]
  BY <1>1, RunTaskTypes DEF Reawaken
<1>3. TaskOK'
  BY <1>2 DEF Reawaken, TypeOK, TaskOK, TState
<1> QED
  BY <1>2, <1>3, Frames DEF Reawaken, TypeOK

\* YieldNow(s, t) keeps the state typed.
LEMMA YieldNowTypes ==
  ASSUME TypeOK, NEW s \in Scheds, NEW t \in Tasks, YieldNow(s, t)
  PROVE  TypeOK'
<1>1. CtlOK' /\ (\A q \in Scheds : pc[q] = "off" => pc'[q] = "off")
  BY GiveUpTypes DEF YieldNow, TaskTurn, TypeOK, CtlOK
<1>2. WorkOK' /\ LoopOK' /\ MsgOK'
  BY EnqueueTypes DEF YieldNow, TypeOK, WorkOK, LoopOK, MsgOK
<1>3. TaskOK'
  BY LoopAssumption DEF YieldNow, Burn, TypeOK, TaskOK
<1> QED
  BY <1>1, <1>2, <1>3, Frames DEF YieldNow, TypeOK

\* Deschedule(s, t) keeps the state typed.
LEMMA DescheduleTypes ==
  ASSUME TypeOK, NEW s \in Scheds, NEW t \in Tasks, Deschedule(s, t)
  PROVE  TypeOK'
<1>1. CtlOK' /\ (\A q \in Scheds : pc[q] = "off" => pc'[q] = "off")
  BY GiveUpTypes DEF Deschedule, TaskTurn, TypeOK, CtlOK
<1>2. remotes' \in [Scheds -> Int] /\ thandle' \in [Tasks -> Scheds \cup {None}]
  <2>1. CASE thandle[t] = None
    <3>1. /\ remotes' = [remotes EXCEPT ![s] = @ + 1]
          /\ thandle' = [thandle EXCEPT ![t] = s]
      BY <2>1 DEF Deschedule, MakeTaskHandle
    <3> QED
      BY <3>1, CountTypes DEF TypeOK, LoopOK, TaskOK
  <2>2. CASE thandle[t] # None
    BY <2>2 DEF Deschedule, MakeTaskHandle, TypeOK, LoopOK, TaskOK
  <2> QED
    BY <2>1, <2>2
<1>3. /\ wq' \in [Scheds -> Seq(Tasks)] /\ idle' \in [Scheds -> BOOLEAN]
      /\ out' \in [Threads -> Sending \cup {NotSending("none"), NotSending("pick")}]
      /\ tstate' \in [Tasks -> TState]
  <2>1. CASE EnqueueTask(s, t) /\ UNCHANGED tstate
    BY <2>1, EnqueueTypes DEF TypeOK, TaskOK
  <2>2. CASE tstate' = [tstate EXCEPT ![t] = "blocked"] /\ UNCHANGED <<wq, idle, out>>
    BY <2>2 DEF TypeOK, TaskOK, WorkOK, LoopOK, MsgOK, TState
  <2> QED
    BY <2>1, <2>2 DEF Deschedule
<1>4. WorkOK' /\ LoopOK' /\ MsgOK'
  BY <1>2, <1>3 DEF Deschedule, TypeOK, WorkOK, LoopOK, MsgOK
<1>5. TaskOK'
  BY <1>2, <1>3, LoopAssumption DEF Deschedule, Burn, TypeOK, TaskOK
<1> QED
  BY <1>1, <1>4, <1>5, Frames DEF Deschedule, TypeOK

\* ReawakenFromLoop(s, u) keeps the state typed.
LEMMA ReawakenFromLoopTypes ==
  ASSUME TypeOK, NEW s \in Scheds, NEW u \in Tasks, ReawakenFromLoop(s, u)
  PROVE  TypeOK'
<1>1. pc[s] \notin {"off", "task", "reap"} /\ inbox \in [Scheds -> Seq(Node)]
  BY DEF ReawakenFromLoop, InLoop, TypeOK, MsgOK
<1>2. /\ CtlOK' /\ MsgOK' /\ home' \in [Tasks -> Scheds \cup {AnySched, None}]
      /\ \A q \in Scheds : pc[q] = "off" => pc'[q] = "off"
  <2>1. stealYield' \in [Scheds -> BOOLEAN]
    BY DEF ReawakenFromLoop, TypeOK, CtlOK
  <2> QED
    BY <1>1, <2>1, ProcessTaskTypes DEF ReawakenFromLoop
<1>3. TaskOK'
  BY <1>2 DEF ReawakenFromLoop, TypeOK, TaskOK, TState
<1> QED
  BY <1>2, <1>3, Frames DEF ReawakenFromLoop, TypeOK

\* ReawakenRemotely(u) keeps the state typed.
LEMMA ReawakenRemotelyTypes ==
  ASSUME TypeOK, NEW u \in Tasks, ReawakenRemotely(u)
  PROVE  TypeOK'
<1>1. /\ Ext \in Threads /\ thandle[u] \in Scheds \cup {None}
      /\ Msg("RunOnce", u) \in SchedMessage /\ <<"task", u>> \in Handles
  BY MsgTypes, HandleTypes DEF Threads, TaskKinds, TypeOK, TaskOK
<1>2. MsgOK'
  BY <1>1, SendTypes DEF ReawakenRemotely, TypeOK, MsgOK
<1>3. TaskOK'
  BY DEF ReawakenRemotely, TypeOK, TaskOK, TState
<1> QED
  BY <1>2, <1>3, Frames DEF ReawakenRemotely, TypeOK

\* Terminate(s, t) keeps the state typed.
LEMMA TerminateTypes ==
  ASSUME TypeOK, NEW s \in Scheds, NEW t \in Tasks, Terminate(s, t)
  PROVE  TypeOK'
<1>1. CtlOK' /\ (\A q \in Scheds : pc[q] = "off" => pc'[q] = "off")
  BY DEF Terminate, TaskTurn, TypeOK, CtlOK, PC
<1>2. TaskOK'
  BY DEF Terminate, TypeOK, TaskOK, TState
<1>3. PoolOK'
  BY <1>1 DEF Terminate, TypeOK, PoolOK
<1> QED
  BY <1>1, <1>2, <1>3, Frames DEF Terminate, TypeOK

\* Spawn(t) keeps the state typed.
LEMMA SpawnTypes ==
  ASSUME TypeOK, NEW t \in Tasks, Spawn(t)
  PROVE  TypeOK'
<1>1. /\ Owner \in Threads /\ MsgOK /\ inbox \in [Scheds -> Seq(Node)]
      /\ pool[next_friend] \in Scheds /\ Msg("TaskFromFriend", t) \in SchedMessage /\ <<"pool", None>> \in Handles
  BY MsgTypes, HandleTypes, ElementOfSeq DEF Spawn, Threads, TaskKinds, TypeOK, MsgOK, PoolOK
<1>2. MsgOK'
  BY <1>1, SendTypes DEF Spawn

<1>3. TaskOK' /\ PoolOK'
  <2>1. Len(pool) \in Nat
    BY LenProperties DEF TypeOK, PoolOK
  <2> QED
    BY <2>1 DEF Spawn, ctlv, TypeOK, TaskOK, PoolOK, TState
<1> QED
  BY <1>2, <1>3, Frames DEF Spawn, TypeOK

\* SpawnPinned(t, s) keeps the state typed.
LEMMA SpawnPinnedTypes ==
  ASSUME TypeOK, NEW t \in Tasks, NEW s \in Scheds, SpawnPinned(t, s)
  PROVE  TypeOK'
<1>1. /\ Owner \in Threads /\ MsgOK /\ inbox \in [Scheds -> Seq(Node)]
      /\ s \in Scheds /\ Msg("PinnedTask", t) \in SchedMessage /\ <<"user", None>> \in Handles
  BY MsgTypes, HandleTypes DEF SpawnPinned, Threads, TaskKinds, TypeOK, MsgOK, PoolOK
<1>2. MsgOK'
  BY <1>1, SendTypes DEF SpawnPinned

<1>3. TaskOK'
  BY DEF SpawnPinned, TypeOK, TaskOK, TState
<1>4. \A q \in Scheds : pc[q] = "off" => pc'[q] = "off"
  BY DEF SpawnPinned, ctlv
<1> QED
  BY <1>2, <1>3, <1>4, Frames DEF SpawnPinned, TypeOK

\* DropUser(s) keeps the state typed.
LEMMA DropUserTypes ==
  ASSUME TypeOK, NEW s \in Scheds, DropUser(s)
  PROVE  TypeOK'
<1>1. Dropped(evq[s], <<"user", None>>) \in Seq(Event)
  BY HandleTypes, EventQueueTypes DEF TypeOK, LoopOK
<1>2. LoopOK' /\ PoolOK'
  BY <1>1 DEF DropUser, ctlv, TypeOK, LoopOK, PoolOK
<1> QED
  BY <1>2, Frames DEF DropUser, TypeOK

\* SpawnSched(s) keeps the state typed.
LEMMA SpawnSchedTypes ==
  ASSUME TypeOK, NEW s \in Scheds, SpawnSched(s)
  PROVE  TypeOK'
<1>1. PoolOK'
  BY DEF SpawnSched, ctlv, TypeOK, PoolOK
<1> QED
  BY <1>1, Frames DEF SpawnSched, TypeOK

\* SendNewNeighbor keeps the state typed.
LEMMA SendNewNeighborTypes ==
  ASSUME TypeOK, SendNewNeighbor
  PROVE  TypeOK'
<1>1. /\ Owner \in Threads /\ MsgOK /\ inbox \in [Scheds -> Seq(Node)]
      /\ pool[oi] \in Scheds /\ Msg("NewNeighbor", newS) \in SchedMessage /\ <<"pool", None>> \in Handles
  BY MsgTypes, HandleTypes, ElementOfSeq, LenProperties DEF SendNewNeighbor, Threads, TaskKinds, TypeOK, MsgOK, PoolOK, OwnerAt
<1>2. MsgOK'
  BY <1>1, SendTypes DEF SendNewNeighbor

<1>3. PoolOK'
  BY DEF SendNewNeighbor, ctlv, TypeOK, PoolOK
<1> QED
  BY <1>2, <1>3, Frames DEF SendNewNeighbor, TypeOK

\* StartSched keeps the state typed.
LEMMA StartSchedTypes ==
  ASSUME TypeOK, StartSched
  PROVE  TypeOK'
<1>1. newS \in Scheds /\ pc[newS] = "off"
  BY DEF StartSched, OwnerAt, TypeOK, PoolOK
<1>2. Range(pool) \subseteq Scheds
  BY RangeOfSeq DEF TypeOK, PoolOK
<1>3. CtlOK' /\ LoopOK' /\ WorkOK'
  BY <1>1, <1>2 DEF StartSched, TypeOK, CtlOK, LoopOK, WorkOK, PC
<1>4. /\ Append(pool, newS) \in Seq(Scheds) /\ Len(Append(pool, newS)) = Len(pool) + 1
      /\ Len(pool) \in Nat
  BY <1>1, AppendProperties, LenProperties DEF TypeOK, PoolOK
<1>5. PoolOK'
  BY <1>1, <1>4 DEF StartSched, TypeOK, PoolOK
<1> QED
  BY <1>3, <1>5, Frames DEF StartSched, TypeOK

\* StartShutdown keeps the state typed.
LEMMA StartShutdownTypes ==
  ASSUME TypeOK, StartShutdown
  PROVE  TypeOK'
<1>1. PoolOK'
  BY DEF StartShutdown, OwnerAt, ctlv, TypeOK, PoolOK
<1> QED
  BY <1>1, Frames DEF StartShutdown, TypeOK

\* WaitForTasks keeps the state typed.
LEMMA WaitForTasksTypes ==
  ASSUME TypeOK, WaitForTasks
  PROVE  TypeOK'
<1>1. PoolOK'
  BY DEF WaitForTasks, OwnerAt, ctlv, TypeOK, PoolOK
<1> QED
  BY <1>1, Frames DEF WaitForTasks, TypeOK

\* RecvDone keeps the state typed.
LEMMA RecvDoneTypes ==
  ASSUME TypeOK, RecvDone
  PROVE  TypeOK'
<1>1. PoolOK'
  BY DEF RecvDone, OwnerAt, ctlv, TypeOK, PoolOK
<1> QED
  BY <1>1, Frames DEF RecvDone, TypeOK

\* JoinThreads keeps the state typed.
LEMMA JoinThreadsTypes ==
  ASSUME TypeOK, JoinThreads
  PROVE  TypeOK'
<1>1. PoolOK'
  BY DEF JoinThreads, OwnerAt, ctlv, TypeOK, PoolOK
<1> QED
  BY <1>1, Frames DEF JoinThreads, TypeOK

\* SendShutdown keeps the state typed.
LEMMA SendShutdownTypes ==
  ASSUME TypeOK, SendShutdown
  PROVE  TypeOK'
<1>1. PoolOK'
  <2>1. CASE oi <= Len(pool)
    BY <2>1 DEF SendShutdown, OwnerAt, ctlv, TypeOK, PoolOK
  <2>2. CASE ~(oi <= Len(pool))
    BY <2>2 DEF SendShutdown, OwnerAt, ctlv, TypeOK, PoolOK
  <2> QED
    BY <2>1, <2>2
<1>2. MsgOK'
  <2>1. CASE oi <= Len(pool)
    <3>1. /\ Owner \in Threads /\ MsgOK /\ inbox \in [Scheds -> Seq(Node)]
          /\ pool[oi] \in Scheds /\ Msg("Shutdown", None) \in SchedMessage
          /\ <<"pool", None>> \in Handles
      BY <2>1, MsgTypes, HandleTypes, ElementOfSeq, LenProperties
         DEF Threads, TypeOK, MsgOK, PoolOK
    <3> QED
      BY <2>1, <3>1, SendTypes DEF SendShutdown
  <2>2. CASE ~(oi <= Len(pool))
    BY <2>2 DEF SendShutdown, msgv, TypeOK, MsgOK
  <2> QED
    BY <2>1, <2>2
<1> QED
  BY <1>1, <1>2, Frames DEF SendShutdown, TypeOK

\* The initial state is typed.  The count of remotes a scheduler starts with
\* is a number because there are finitely many schedulers.
LEMMA InitTypes == Init => TypeOK
<1> SUFFICES ASSUME Init PROVE TypeOK
  OBVIOUS
<1>1. \A s \in Scheds : Cardinality({q \in Scheds : Friend[q] = s}) \in Int
  <2> SUFFICES ASSUME NEW s \in Scheds
               PROVE  Cardinality({q \in Scheds : Friend[q] = s}) \in Int
    OBVIOUS
  <2>1. {q \in Scheds : Friend[q] = s} \in SUBSET Scheds
    OBVIOUS
  <2>2. IsFiniteSet({q \in Scheds : Friend[q] = s})
    BY <2>1, SchedsAssumption, FS_Subset
  <2> QED
    BY <2>2, FS_CardinalityType
<1>2. Range(InitPool) \subseteq Scheds
  BY PoolAssumption, RangeOfSeq
<1>3. \A S : <<>> \in Seq(S)
  OBVIOUS
<1>4. CtlOK
  BY SchedsAssumption DEF Init, CtlOK, PC
<1>5. LoopOK
  <2>1. remotes \in [Scheds -> Int]
    BY <1>1 DEF Init
  <2> QED
    BY <1>3, <2>1 DEF Init, LoopOK
<1>6. WorkOK /\ SleepOK
  BY <1>2, <1>3 DEF Init, WorkOK, SleepOK
<1>7. MsgOK
  BY <1>3 DEF Init, MsgOK
<1>8. TaskOK
  BY LoopAssumption DEF Init, TaskOK, TState
<1>9. PoolOK
  <2>1. pool \in Seq(Scheds) /\ Len(pool) \in Nat /\ Len(pool) # 0
    BY PoolAssumption, LenProperties, EmptySeq DEF Init
  <2>2. InitUser \subseteq Scheds
    BY <1>2, PoolAssumption
  <2> QED
    BY <2>1, <2>2 DEF Init, PoolOK
<1> QED
  BY <1>4, <1>5, <1>6, <1>7, <1>8, <1>9 DEF TypeOK

\* Every step of every thread keeps the state typed.
LEMMA NextTypes == TypeOK /\ [Next]_vars => TypeOK'
<1> SUFFICES ASSUME TypeOK, [Next]_vars PROVE TypeOK'
  OBVIOUS
<1>1. ASSUME NEW s \in Scheds, SchedStep(s) PROVE TypeOK'
  <2>1. s \in Threads
    BY DEF Threads
  <2> QED
    BY <1>1, <2>1, LinkAndFireTypes, PickSleeperTypes, LoopEventTypes, LoopIdleTypes,
       LoopExitTypes, PinnedTaskTypes, TaskFromFriendTypes, RunOnceTypes, WakeTypes,
       ShutdownTypes, DrainSleepersTypes, NewNeighborTypes, NoMessageTypes,
       WorkOwnTypes, WorkStealTypes, WorkNoneTypes, GoToSleepTypes, FillSleeperTypes,
       NotifyDoneTypes, ReapTypes
       DEF SchedStep
<1>2. ASSUME NEW s \in Scheds, TaskStep(s) PROVE TypeOK'
  BY <1>2, BootstrapTypes, YieldNowTypes, DescheduleTypes, TerminateTypes,
     SpawnSiblingTypes, ReawakenTypes
     DEF TaskStep
<1>3. ASSUME NEW s \in Scheds, NEW u \in Tasks, ReawakenFromLoop(s, u) PROVE TypeOK'
  BY <1>3, ReawakenFromLoopTypes
<1>4. Owner \in Threads /\ Ext \in Threads
  BY DEF Threads
<1>5. ASSUME OwnerStep PROVE TypeOK'
  BY <1>4, <1>5, LinkAndFireTypes, SendNewNeighborTypes, StartSchedTypes,
     WaitForTasksTypes, RecvDoneTypes, SendShutdownTypes, JoinThreadsTypes
     DEF OwnerStep
<1>6. ASSUME UserStep PROVE TypeOK'
  BY <1>6, StartShutdownTypes, SpawnTypes, SpawnPinnedTypes, SpawnSchedTypes,
     DropUserTypes
     DEF UserStep
<1>7. ASSUME ExtStep PROVE TypeOK'
  BY <1>4, <1>7, LinkAndFireTypes, ReawakenRemotelyTypes DEF ExtStep
<1>8. ASSUME UNCHANGED vars PROVE TypeOK'
  BY <1>8, Frames DEF vars, TypeOK
<1> QED
  BY <1>1, <1>2, <1>3, <1>5, <1>6, <1>7, <1>8 DEF Next, Finished

\* Type correctness: in every reachable state, for any number of schedulers
\* and tasks, every variable has its type, a scheduler has a task on its
\* thread exactly when its own context is switched away (change_task_context),
\* and the scheduler spawn_sched is announcing has not started.
THEOREM TypeCorrect == Spec => []TypeOK
<1>1. Init => TypeOK
  BY InitTypes
<1>2. TypeOK /\ [Next]_vars => TypeOK'
  BY NextTypes
<1> QED
  BY <1>1, <1>2, PTL DEF Spec

-------------------------------------------------------------------------------
(* The sleeper list.  SleeperOnce is not inductive: a popped handle leaves   *)
(* its scheduler sleepy while the Wake travels, and only WakeOnce says that  *)
(* the scheduler cannot be on the list again when that Wake clears sleepy.   *)

SleepInv == SleeperOnce /\ WakeOnce

\* Queue r holds no Wake that q did not hold.
NoMoreWakes(q, r) == (HasWake(r) => HasWake(q)) /\ (OneWake(q) => OneWake(r))

\* Popping a message brings no Wake, and popping the Wake leaves none.
LEMMA PopWakes ==
  ASSUME NEW q \in Seq(Node), q # <<>>
  PROVE  /\ NoMoreWakes(q, Tail(q))
         /\ IsWake(Head(q)) => HasWake(q)
         /\ OneWake(q) /\ IsWake(Head(q)) => ~HasWake(Tail(q))
<1>1. /\ Len(q) \in Nat \ {0} /\ DOMAIN q = 1 .. Len(q)
      /\ DOMAIN Tail(q) = 1 .. (Len(q) - 1)
      /\ \A i \in 1 .. (Len(q) - 1) : Tail(q)[i] = q[i + 1]
      /\ Head(q) = q[1]
  BY HeadTailProperties, LenProperties, EmptySeq
<1>2. \A i \in DOMAIN Tail(q) : i + 1 \in DOMAIN q /\ i + 1 # 1 /\ Tail(q)[i] = q[i + 1]
  BY <1>1
<1>3. 1 \in DOMAIN q
  BY <1>1
<1>4. HasWake(Tail(q)) => HasWake(q)
  BY <1>2 DEF HasWake
<1>5. OneWake(q) => OneWake(Tail(q))
  <2> SUFFICES ASSUME OneWake(q), NEW i \in DOMAIN Tail(q), NEW j \in DOMAIN Tail(q),
                      IsWake(Tail(q)[i]), IsWake(Tail(q)[j])
               PROVE  i = j
    BY DEF OneWake
  <2>1. i + 1 = j + 1
    BY <1>2 DEF OneWake
  <2> QED
    BY <1>1, <2>1
<1>6. OneWake(q) /\ IsWake(Head(q)) => ~HasWake(Tail(q))
  BY <1>1, <1>2, <1>3 DEF OneWake, HasWake
<1> QED
  BY <1>1, <1>3, <1>4, <1>5, <1>6 DEF NoMoreWakes, HasWake

\* Pushing a message that is no Wake brings none; pushing one on a queue
\* without Wakes leaves a single one.
LEMMA PushWakes ==
  ASSUME NEW q \in Seq(Node), NEW n \in Node
  PROVE  /\ ~IsWake(n) => NoMoreWakes(q, Append(q, n))
         /\ ~HasWake(q) => OneWake(Append(q, n))
<1>1. /\ Len(q) \in Nat /\ DOMAIN q = 1 .. Len(q)
      /\ DOMAIN Append(q, n) = 1 .. (Len(q) + 1)
      /\ \A i \in 1 .. Len(q) : Append(q, n)[i] = q[i]
      /\ Append(q, n)[Len(q) + 1] = n
  BY AppendProperties, LenProperties
<1>2. \A i \in DOMAIN Append(q, n) :
        \/ i \in DOMAIN q /\ Append(q, n)[i] = q[i]
        \/ i = Len(q) + 1 /\ Append(q, n)[i] = n
  BY <1>1
<1>3. ~IsWake(n) => NoMoreWakes(q, Append(q, n))
  BY <1>2 DEF NoMoreWakes, HasWake, OneWake
<1>4. ~HasWake(q) => OneWake(Append(q, n))
  BY <1>2 DEF HasWake, OneWake
<1> QED
  BY <1>3, <1>4

\* Linking a node changes no message.
LEMMA LinkWakes ==
  ASSUME NEW q \in Seq(Node), NEW th \in Threads
  PROVE  NoMoreWakes(q, Linked(q, th))
  BY LinkedTypes DEF NoMoreWakes, HasWake, OneWake, IsWake

\* A send of any message but Wake.
LEMMA SendNoWake ==
  ASSUME MsgOK, NEW inb \in [Scheds -> Seq(Node)],
         \A q \in Scheds : NoMoreWakes(inbox[q], inb[q]),
         NEW th \in Threads, NEW to, NEW m \in SchedMessage, NEW h, NEW last,
         m.kind # "Wake", Send(inb, th, to, m, h, last)
  PROVE  \A q \in Scheds : NoMoreWakes(inbox[q], inbox'[q])
<1> DEFINE n == [msg |-> m, by |-> th]
<1>1. n \in Node /\ ~IsWake(n)
  BY DEF Node, IsWake
<1> SUFFICES ASSUME NEW q \in Scheds PROVE NoMoreWakes(inbox[q], inbox'[q])
  OBVIOUS
<1>2. inbox'[q] = inb[q] \/ inbox'[q] = Append(inb[q], n)
  BY DEF Send
<1>3. NoMoreWakes(inb[q], Append(inb[q], n))
  <2> HIDE DEF n
  <2> QED BY <1>1, PushWakes
<1> QED
  <2> HIDE DEF n
  <2> QED BY <1>2, <1>3 DEF NoMoreWakes

\* Steps that leave the sleeper list and the sleepy flags alone and put no
\* Wake in a queue.
LEMMA SleepFrame ==
  ASSUME SleepInv, UNCHANGED sleepv,
         \A q \in Scheds : NoMoreWakes(inbox[q], inbox'[q])
  PROVE  SleepInv'
<1>1. SleeperOnce'
  BY DEF SleepInv, SleeperOnce, sleepv
<1>2. WakeOnce'
  BY DEF SleepInv, WakeOnce, NoMoreWakes, sleepv
<1> QED
  BY <1>1, <1>2 DEF SleepInv

\* A queue that does not change.
LEMMA SameWakes == \A q : NoMoreWakes(q, q)
  BY DEF NoMoreWakes

\* A handle is taken off the list and Wake is sent through it: enqueue_task
\* and the draining of the list by Shutdown.
LEMMA SleepPick ==
  ASSUME TypeOK, SleepInv, NEW s \in Scheds, sleepers # <<>>,
         Send(inbox, s, Head(sleepers), Msg("Wake", None), <<"temp", s>>, TRUE),
         sleepers' = Tail(sleepers), UNCHANGED <<sleepy, nosleep>>
  PROVE  SleepInv'
<1> DEFINE w == Head(sleepers)
           n == [msg |-> Msg("Wake", None), by |-> s]
<1>1. /\ Len(sleepers) \in Nat \ {0} /\ DOMAIN sleepers = 1 .. Len(sleepers)
      /\ DOMAIN Tail(sleepers) = 1 .. (Len(sleepers) - 1)
      /\ \A i \in 1 .. (Len(sleepers) - 1) : Tail(sleepers)[i] = sleepers[i + 1]
      /\ w = sleepers[1] /\ w \in Scheds
  BY HeadTailProperties, LenProperties, EmptySeq DEF TypeOK, SleepOK
<1>2. /\ 1 \in DOMAIN sleepers
      /\ \A i \in DOMAIN Tail(sleepers) :
           i + 1 \in DOMAIN sleepers /\ i + 1 # 1 /\ Tail(sleepers)[i] = sleepers[i + 1]
  BY <1>1
<1>3. IsInjective(Tail(sleepers))
  <2> SUFFICES ASSUME NEW i \in DOMAIN Tail(sleepers), NEW j \in DOMAIN Tail(sleepers),
                      Tail(sleepers)[i] = Tail(sleepers)[j]
               PROVE  i = j
    BY DEF IsInjective
  <2>1. i + 1 = j + 1
    BY <1>2 DEF SleepInv, SleeperOnce, IsInjective
  <2> QED
    BY <1>1, <2>1
<1>4. w \notin Range(Tail(sleepers)) /\ w \in Range(sleepers)
  BY <1>1, <1>2 DEF Range, SleepInv, SleeperOnce, IsInjective
<1>5. Range(Tail(sleepers)) \subseteq Range(sleepers)
  BY <1>2 DEF Range
<1>6. SleeperOnce'
  BY <1>3, <1>5 DEF SleepInv, SleeperOnce
<1>7. (sleepy[w] \/ nosleep[w]) /\ ~HasWake(inbox[w])
  BY <1>1, <1>4 DEF SleepInv, SleeperOnce, WakeOnce
<1>8. /\ inbox'[w] = Append(inbox[w], n)
      /\ \A q \in Scheds \ {w} : inbox'[q] = inbox[q]
  BY <1>1 DEF Send, TypeOK, MsgOK
<1>9. OneWake(inbox'[w])
  <2>1. n \in Node /\ inbox[w] \in Seq(Node)
    BY <1>1, MsgTypes DEF Node, Threads, TypeOK, MsgOK
  <2> HIDE DEF n
  <2> QED
    BY <1>7, <1>8, <2>1, PushWakes
<1>10. WakeOnce'
  <2> SUFFICES ASSUME NEW q \in Scheds
               PROVE  /\ OneWake(inbox'[q])
                      /\ HasWake(inbox'[q]) => /\ q \notin Range(sleepers')
                                               /\ sleepy'[q] \/ nosleep'[q]
    BY DEF WakeOnce
  <2>1. CASE q = w
    BY <1>4, <1>7, <1>9, <2>1
  <2>2. CASE q # w
    BY <1>5, <1>8, <2>2 DEF SleepInv, WakeOnce
  <2> QED
    BY <2>1, <2>2
<1> QED
  BY <1>6, <1>10 DEF SleepInv

\* The Wake handler: it clears sleepy of a scheduler that is on no list.
LEMMA SleepWake ==
  ASSUME TypeOK, SleepInv, NEW s \in Scheds, Wake(s)
  PROVE  SleepInv'
<1>1. inbox[s] \in Seq(Node) /\ inbox[s] # <<>> /\ IsWake(Head(inbox[s]))
  BY DEF Wake, Message, IsWake, TypeOK, MsgOK
<1>2. OneWake(inbox[s])
  BY DEF SleepInv, WakeOnce
<1>3. HasWake(inbox[s]) /\ ~HasWake(Tail(inbox[s])) /\ OneWake(Tail(inbox[s]))
  BY <1>1, <1>2, PopWakes DEF NoMoreWakes
<1>4. s \notin Range(sleepers)
  BY <1>3 DEF SleepInv, WakeOnce
<1>5. /\ inbox'[s] = Tail(inbox[s]) /\ \A q \in Scheds \ {s} : inbox'[q] = inbox[q]
      /\ \A q \in Scheds \ {s} : sleepy'[q] = sleepy[q]
      /\ sleepers' = sleepers /\ nosleep' = nosleep
  BY DEF Wake, Popped, TypeOK, MsgOK, SleepOK
<1>6. SleeperOnce'
  <2>1. Range(sleepers) \subseteq Scheds
    BY RangeOfSeq DEF TypeOK, SleepOK
  <2> QED
    BY <1>4, <1>5, <2>1 DEF SleepInv, SleeperOnce
<1>7. WakeOnce'
  BY <1>3, <1>5 DEF SleepInv, WakeOnce
<1> QED
  BY <1>6, <1>7 DEF SleepInv

\* A scheduler stops sleeping, on the list or not.
LEMMA SleepStop ==
  ASSUME TypeOK, SleepInv, NEW s \in Scheds, StopSleeping(s),
         UNCHANGED sleepers, \A q \in Scheds : NoMoreWakes(inbox[q], inbox'[q])
  PROVE  SleepInv'
<1>1. /\ nosleep'[s] /\ ~sleepy'[s]
      /\ \A q \in Scheds \ {s} : sleepy'[q] = sleepy[q] /\ nosleep'[q] = nosleep[q]
  BY DEF StopSleeping, TypeOK, SleepOK
<1>2. SleeperOnce'
  <2>1. Range(sleepers) \subseteq Scheds
    BY RangeOfSeq DEF TypeOK, SleepOK
  <2> QED
    BY <1>1, <2>1 DEF SleepInv, SleeperOnce
<1>3. WakeOnce'
  BY <1>1 DEF SleepInv, WakeOnce, NoMoreWakes
<1> QED
  BY <1>2, <1>3 DEF SleepInv

\* What a scheduler pops from its queue brings no Wake anywhere.
LEMMA PoppedWakes ==
  ASSUME TypeOK, NEW s \in Scheds, inbox[s] # <<>>
  PROVE  \A q \in Scheds : NoMoreWakes(inbox[q], Popped(s)[q])
<1>1. NoMoreWakes(inbox[s], Tail(inbox[s]))
  BY PopWakes DEF TypeOK, MsgOK
<1> QED
  BY <1>1, SameWakes DEF Popped, TypeOK, MsgOK

\* The Shutdown handler: a sleepy scheduler drains the list first.
LEMMA SleepShutdown ==
  ASSUME TypeOK, SleepInv, NEW s \in Scheds, Shutdown(s)
  PROVE  SleepInv'
<1>1. \A q \in Scheds : NoMoreWakes(inbox[q], inbox'[q])
  BY PoppedWakes DEF Shutdown, Message
<1>2. CASE sleepy[s]
  BY <1>1, <1>2, SleepFrame DEF Shutdown, sleepv
<1>3. CASE ~sleepy[s]
  BY <1>1, <1>3, SleepStop DEF Shutdown
<1> QED
  BY <1>2, <1>3

\* One step of the draining, or its end.
LEMMA SleepDrain ==
  ASSUME TypeOK, SleepInv, NEW s \in Scheds, DrainSleepers(s)
  PROVE  SleepInv'
<1>1. CASE NoneAsleep
  <2>1. \A q \in Scheds : NoMoreWakes(inbox[q], inbox'[q])
    BY <1>1, SameWakes DEF DrainSleepers, msgv
  <2> QED
    BY <1>1, <2>1, SleepStop DEF DrainSleepers
<1>2. CASE ~NoneAsleep
  BY <1>2, SleepPick DEF DrainSleepers, NoneAsleep
<1> QED
  BY <1>1, <1>2

\* A scheduler puts itself on the list only when it is on no list and no
\* Wake is on its way.
LEMMA SleepGoToSleep ==
  ASSUME TypeOK, SleepInv, NEW s \in Scheds, GoToSleep(s)
  PROVE  SleepInv'
<1>1. \A q \in Scheds : inbox'[q] = inbox[q]
  BY DEF GoToSleep, msgv
<1>2. CASE sleepy[s] \/ nosleep[s]
  <2>1. UNCHANGED sleepv
    BY <1>2 DEF GoToSleep, sleepv
  <2> QED
    BY <1>1, <2>1, SameWakes, SleepFrame
<1>3. CASE ~sleepy[s] /\ ~nosleep[s]
  <2>1. s \notin Range(sleepers) /\ ~HasWake(inbox[s])
    BY <1>3 DEF SleepInv, SleeperOnce, WakeOnce
  <2>2. /\ sleepers' = Append(sleepers, s) /\ nosleep' = nosleep /\ sleepy'[s]
        /\ \A q \in Scheds \ {s} : sleepy'[q] = sleepy[q]
    BY <1>3 DEF GoToSleep, TypeOK, SleepOK
  <2>3. /\ Len(sleepers) \in Nat /\ DOMAIN sleepers = 1 .. Len(sleepers)
        /\ DOMAIN Append(sleepers, s) = 1 .. (Len(sleepers) + 1)
        /\ \A i \in 1 .. Len(sleepers) : Append(sleepers, s)[i] = sleepers[i]
        /\ Append(sleepers, s)[Len(sleepers) + 1] = s
    BY AppendProperties, LenProperties DEF TypeOK, SleepOK
  <2>4. \A i \in DOMAIN Append(sleepers, s) :
          \/ i \in DOMAIN sleepers /\ Append(sleepers, s)[i] = sleepers[i]
          \/ i = Len(sleepers) + 1 /\ Append(sleepers, s)[i] = s
    BY <2>3
  <2>5. IsInjective(Append(sleepers, s))
    BY <2>1, <2>4 DEF IsInjective, Range, SleepInv, SleeperOnce
  <2>6. Range(Append(sleepers, s)) \subseteq Range(sleepers) \cup {s}
    BY <2>4 DEF Range
  <2>7. SleeperOnce'
    <3>1. Range(sleepers) \subseteq Scheds
      BY RangeOfSeq DEF TypeOK, SleepOK
    <3> QED
      BY <1>3, <2>2, <2>5, <2>6, <3>1 DEF SleepInv, SleeperOnce
  <2>8. WakeOnce'
    <3> SUFFICES ASSUME NEW q \in Scheds
                 PROVE  /\ OneWake(inbox'[q])
                        /\ HasWake(inbox'[q]) => /\ q \notin Range(sleepers')
                                                 /\ sleepy'[q] \/ nosleep'[q]
      BY DEF WakeOnce
    <3>1. CASE q = s
      BY <1>1, <2>1, <3>1 DEF SleepInv, WakeOnce
    <3>2. CASE q # s
      BY <1>1, <2>2, <2>6, <3>2 DEF SleepInv, WakeOnce
    <3> QED
      BY <3>1, <3>2
  <2> QED
    BY <2>7, <2>8 DEF SleepInv
<1> QED
  BY <1>2, <1>3

\* A task sent home or to the friend is no Wake.
LEMMA SendAwayNoWake ==
  ASSUME TypeOK, NEW inb \in [Scheds -> Seq(Node)],
         \A q \in Scheds : NoMoreWakes(inbox[q], inb[q]),
         NEW s \in Scheds, NEW t \in Tasks, SendAway(inb, s, t)
  PROVE  \A q \in Scheds : NoMoreWakes(inbox[q], inbox'[q])
<1>1. /\ MsgOK /\ s \in Threads
      /\ Msg("PinnedTask", t) \in SchedMessage /\ Msg("PinnedTask", t).kind # "Wake"
      /\ Msg("TaskFromFriend", t) \in SchedMessage /\ Msg("TaskFromFriend", t).kind # "Wake"
  BY DEF TypeOK, Threads, Msg, SchedMessage, TaskKinds
<1>2. \/ Send(inb, s, home[t], Msg("PinnedTask", t), <<"temp", s>>, TRUE)
      \/ Send(inb, s, Friend[s], Msg("TaskFromFriend", t), <<"friend", s>>, FALSE)
  BY DEF SendAway
<1> QED
  BY <1>1, <1>2, SendNoWake

\* process_task sends a task, if it sends anything.
LEMMA ProcessNoWake ==
  ASSUME TypeOK, NEW inb \in [Scheds -> Seq(Node)],
         \A q \in Scheds : NoMoreWakes(inbox[q], inb[q]),
         NEW s \in Scheds, NEW t \in Tasks, NEW next, ProcessTask(inb, s, t, next)
  PROVE  \A q \in Scheds : NoMoreWakes(inbox[q], inbox'[q])
  BY SendAwayNoWake DEF ProcessTask

\* So does run_task.
LEMMA RunTaskNoWake ==
  ASSUME TypeOK, NEW s \in Scheds, NEW t \in Tasks, NEW u \in Tasks, RunTask(s, t, u)
  PROVE  \A q \in Scheds : NoMoreWakes(inbox[q], inbox'[q])
<1>1. CASE UNCHANGED inbox
  BY <1>1, SameWakes
<1>2. CASE SendAway(inbox, s, u)
  BY <1>2, SameWakes, SendAwayNoWake DEF TypeOK, MsgOK
<1> QED
  BY <1>1, <1>2 DEF RunTask

\* The owner's and the native waker's sends are no Wakes.
LEMMA OtherSendsNoWake ==
  ASSUME TypeOK, NEW th \in {Owner, Ext}, NEW to, NEW m \in SchedMessage, m.kind # "Wake",
         NEW h, NEW last, Send(inbox, th, to, m, h, last)
  PROVE  \A q \in Scheds : NoMoreWakes(inbox[q], inbox'[q])
<1>1. th \in Threads /\ MsgOK /\ inbox \in [Scheds -> Seq(Node)]
  BY DEF Threads, TypeOK, MsgOK
<1> QED
  BY <1>1, SameWakes, SendNoWake

\* Linking a node and firing the callback.
LEMMA SleepLink ==
  ASSUME TypeOK, SleepInv, NEW th \in Threads, LinkAndFire(th)
  PROVE  SleepInv'
<1>1. \A q \in Scheds : NoMoreWakes(inbox[q], Linked(inbox[q], th))
  BY LinkWakes DEF TypeOK, MsgOK
<1>2. \A q \in Scheds : inbox'[q] = inbox[q] \/ inbox'[q] = Linked(inbox[q], th)
  BY DEF LinkAndFire, TypeOK, MsgOK
<1>3. \A q \in Scheds : NoMoreWakes(inbox[q], inbox'[q])
  BY <1>1, <1>2, SameWakes
<1> QED
  BY <1>3, SleepFrame DEF LinkAndFire

\* One step of a scheduler's thread, the ones that touch the list first.
LEMMA SleepSched ==
  ASSUME TypeOK, SleepInv, NEW s \in Scheds, SchedStep(s)
  PROVE  SleepInv'
<1>1. CASE PickSleeper(s)
  <2>1. CASE NoneAsleep
    BY <1>1, <2>1, SameWakes, SleepFrame DEF PickSleeper, sleepv
  <2>2. CASE ~NoneAsleep
    BY <1>1, <2>2, SleepPick DEF PickSleeper, NoneAsleep
  <2> QED
    BY <2>1, <2>2
<1>2. CASE Wake(s) \/ Shutdown(s) \/ DrainSleepers(s) \/ GoToSleep(s)
  BY <1>2, SleepWake, SleepShutdown, SleepDrain, SleepGoToSleep
<1>3. CASE LinkAndFire(s)
  BY <1>3, SleepLink DEF Threads
<1>4. CASE PinnedTask(s) \/ RunOnce(s) \/ NewNeighbor(s)
  <2>1. inbox' = Popped(s) /\ inbox[s] # <<>> /\ UNCHANGED sleepv
    BY <1>4 DEF PinnedTask, RunOnce, NewNeighbor, Message
  <2> QED
    BY <2>1, PoppedWakes, SleepFrame
<1>5. CASE TaskFromFriend(s)
  <2>1. inbox[s] # <<>> /\ ProcessTask(Popped(s), s, Arg(s), "keep_going")
    BY <1>5 DEF TaskFromFriend, Message
  <2>2. Popped(s) \in [Scheds -> Seq(Node)] /\ Arg(s) \in Tasks
    BY <1>5, PopTypes DEF TaskFromFriend, Message, TypeOK, TaskKinds
  <2>3. \A q \in Scheds : NoMoreWakes(inbox[q], inbox'[q])
    BY <2>1, <2>2, PoppedWakes, ProcessNoWake
  <2> QED
    BY <1>5, <2>3, SleepFrame DEF TaskFromFriend
<1>6. CASE WorkOwn(s)
  <2>1. Last(wq[s]) \in Tasks /\ inbox \in [Scheds -> Seq(Node)]
    BY <1>6, FrontLastTypes DEF WorkOwn, TypeOK, WorkOK, MsgOK
  <2>2. \A q \in Scheds : NoMoreWakes(inbox[q], inbox'[q])
    BY <1>6, <2>1, SameWakes, ProcessNoWake DEF WorkOwn
  <2> QED
    BY <1>6, <2>2, SleepFrame DEF WorkOwn
<1>7. CASE WorkSteal(s)
  <2>1. PICK v \in known[s] : wq[v] # <<>> /\ ProcessTask(inbox, s, Head(wq[v]), "msg2did")
    BY <1>7 DEF WorkSteal
  <2>2. Head(wq[v]) \in Tasks /\ inbox \in [Scheds -> Seq(Node)]
    BY <2>1, HeadTailProperties DEF TypeOK, WorkOK, MsgOK
  <2>3. \A q \in Scheds : NoMoreWakes(inbox[q], inbox'[q])
    BY <2>1, <2>2, SameWakes, ProcessNoWake
  <2> QED
    BY <1>7, <2>3, SleepFrame DEF WorkSteal
<1>8. CASE \/ LoopEvent(s) \/ LoopIdle(s) \/ LoopExit(s) \/ NoMessage(s) \/ WorkNone(s)
           \/ FillSleeper(s) \/ NotifyDone(s) \/ \E t \in Tasks : Reap(s, t)
  <2>1. UNCHANGED inbox /\ UNCHANGED sleepv
    BY <1>8 DEF LoopEvent, LoopIdle, LoopExit, NoMessage, WorkNone, FillSleeper, NotifyDone, Reap,
       msgv
  <2> QED
    BY <2>1, SameWakes, SleepFrame
<1> QED
  BY <1>1, <1>2, <1>3, <1>4, <1>5, <1>6, <1>7, <1>8 DEF SchedStep

\* A running task pushes no Wake itself: enqueue_task leaves that to PickSleeper.
LEMMA SleepTask ==
  ASSUME TypeOK, SleepInv, NEW s \in Scheds, TaskStep(s)
  PROVE  SleepInv'
<1>1. PICK t \in Tasks :
        \/ Bootstrap(s, t) \/ YieldNow(s, t) \/ Deschedule(s, t) \/ Terminate(s, t)
        \/ \E u \in Tasks : SpawnSibling(s, t, u) \/ Reawaken(s, t, u)
  BY DEF TaskStep
<1>2. CASE Bootstrap(s, t) \/ YieldNow(s, t) \/ Deschedule(s, t) \/ Terminate(s, t)
  <2>1. UNCHANGED inbox /\ UNCHANGED sleepv
    BY <1>2 DEF Bootstrap, YieldNow, Deschedule, Terminate, msgv
  <2> QED
    BY <2>1, SameWakes, SleepFrame
<1>3. CASE \E u \in Tasks : SpawnSibling(s, t, u) \/ Reawaken(s, t, u)
  <2>1. PICK u \in Tasks : RunTask(s, t, u) /\ UNCHANGED sleepv
    BY <1>3 DEF SpawnSibling, Reawaken
  <2> QED
    BY <2>1, RunTaskNoWake, SleepFrame
<1> QED
  BY <1>1, <1>2, <1>3

\* The steps of the thread that owns the pool and of the program that uses it.
LEMMA SleepOwner ==
  ASSUME TypeOK, SleepInv, OwnerStep \/ UserStep
  PROVE  SleepInv'
<1>1. CASE LinkAndFire(Owner)
  BY <1>1, SleepLink DEF Threads
<1>2. CASE \/ StartSched \/ WaitForTasks \/ RecvDone \/ JoinThreads \/ StartShutdown
           \/ \E s \in Scheds : SpawnSched(s) \/ DropUser(s)
  <2>1. UNCHANGED inbox /\ UNCHANGED sleepv
    BY <1>2 DEF StartSched, WaitForTasks, RecvDone, JoinThreads, StartShutdown,
                SpawnSched, DropUser, msgv
  <2> QED
    BY <2>1, SameWakes, SleepFrame
<1>3. CASE SendNewNeighbor
  <2>1. newS \in Scheds
    BY <1>3 DEF SendNewNeighbor, OwnerAt, TypeOK, PoolOK
  <2>2. Msg("NewNeighbor", newS) \in SchedMessage /\ Msg("NewNeighbor", newS).kind # "Wake"
    BY <2>1 DEF Msg, SchedMessage
  <2> QED
    BY <1>3, <2>2, OtherSendsNoWake, SleepFrame DEF SendNewNeighbor
<1>4. CASE SendShutdown
  <2>1. Msg("Shutdown", None) \in SchedMessage /\ Msg("Shutdown", None).kind # "Wake"
    BY DEF Msg, SchedMessage
  <2>2. CASE oi <= Len(pool)
    BY <1>4, <2>1, <2>2, OtherSendsNoWake, SleepFrame DEF SendShutdown
  <2>3. CASE ~(oi <= Len(pool))
    BY <1>4, <2>3, SameWakes, SleepFrame DEF SendShutdown, msgv
  <2> QED
    BY <2>2, <2>3
<1>5. CASE \E t \in Tasks : Spawn(t) \/ \E s \in Scheds : SpawnPinned(t, s)
  <2>1. PICK t \in Tasks : Spawn(t) \/ \E s \in Scheds : SpawnPinned(t, s)
    BY <1>5
  <2>2. /\ Msg("TaskFromFriend", t) \in SchedMessage /\ Msg("TaskFromFriend", t).kind # "Wake"
        /\ Msg("PinnedTask", t) \in SchedMessage /\ Msg("PinnedTask", t).kind # "Wake"
    BY DEF Msg, SchedMessage, TaskKinds
  <2>3. CASE Spawn(t)
    BY <2>2, <2>3, OtherSendsNoWake, SleepFrame DEF Spawn
  <2>4. CASE \E s \in Scheds : SpawnPinned(t, s)
    BY <2>2, <2>4, OtherSendsNoWake, SleepFrame DEF SpawnPinned
  <2> QED
    BY <2>1, <2>3, <2>4
<1> QED
  BY <1>1, <1>2, <1>3, <1>4, <1>5 DEF OwnerStep, UserStep

\* Every step keeps the inductive invariant.
LEMMA SleepNext == TypeOK /\ SleepInv /\ [Next]_vars => SleepInv'
<1> SUFFICES ASSUME TypeOK, SleepInv, [Next]_vars PROVE SleepInv'
  OBVIOUS
<1>1. CASE \E s \in Scheds : SchedStep(s) \/ TaskStep(s)
  BY <1>1, SleepSched, SleepTask
<1>2. CASE \E s \in Scheds, u \in Tasks : ReawakenFromLoop(s, u)
  <2>1. PICK s \in Scheds, u \in Tasks : ReawakenFromLoop(s, u)
    BY <1>2
  <2>2. \A q \in Scheds : NoMoreWakes(inbox[q], inbox'[q])
    BY <2>1, SameWakes, ProcessNoWake DEF ReawakenFromLoop, TypeOK, MsgOK
  <2> QED
    BY <2>1, <2>2, SleepFrame DEF ReawakenFromLoop
<1>3. CASE OwnerStep \/ UserStep
  BY <1>3, SleepOwner
<1>4. CASE ExtStep
  <2>1. CASE LinkAndFire(Ext)
    BY <2>1, SleepLink DEF Threads
  <2>2. CASE \E u \in Tasks : ReawakenRemotely(u)
    <3>1. PICK u \in Tasks : ReawakenRemotely(u)
      BY <2>2
    <3>2. Msg("RunOnce", u) \in SchedMessage /\ Msg("RunOnce", u).kind # "Wake"
      BY DEF Msg, SchedMessage, TaskKinds
    <3> QED
      BY <3>1, <3>2, OtherSendsNoWake, SleepFrame DEF ReawakenRemotely
  <2> QED
    BY <1>4, <2>1, <2>2 DEF ExtStep
<1>5. CASE UNCHANGED vars
  BY <1>5, SameWakes, SleepFrame DEF vars, msgv
<1> QED
  BY <1>1, <1>2, <1>3, <1>4, <1>5 DEF Next, Finished

\* Nobody sleeps and no message is sent at first.
LEMMA SleepInit == Init => SleepInv
  BY DEF Init, SleepInv, SleeperOnce, WakeOnce, OneWake, HasWake, Range, IsInjective

\* The inductive invariant of the sleeper list.
LEMMA SleepInvariant == Spec => []SleepInv
<1>1. Init => SleepInv
  BY SleepInit
<1>2. TypeOK /\ SleepInv /\ [Next]_vars => SleepInv'
  BY SleepNext
<1> QED
  BY <1>1, <1>2, TypeCorrect, PTL DEF Spec

\* Sleeper list discipline for any number of schedulers: a scheduler's handle
\* is on the list at most once, and there either the scheduler is sleepy or it has
\* been shut down since and left behind (run_sched_once, interpret_message_queue,
\* enqueue_task).
THEOREM SleepersDistinct == Spec => []SleeperOnce
<1>1. SleepInv => SleeperOnce
  BY DEF SleepInv
<1> QED
  BY <1>1, SleepInvariant, PTL

\* No scheduler ever has two Wakes on their way, nor one that is left over
\* from an earlier sleep (interpret_message_queue's handling of Wake).
THEOREM WakesMatchSleeps == Spec => []WakeOnce
<1>1. SleepInv => WakeOnce
  BY DEF SleepInv
<1> QED
  BY <1>1, SleepInvariant, PTL

\* The sleeper list never holds more handles than there are schedulers, so
\* the fixed capacity of its queue (sleeper_list.rs) is never exceeded by a
\* pool of at most that many schedulers.
THEOREM SleepersFit == Spec => [](Len(sleepers) <= Cardinality(Scheds))
<1>1. TypeOK /\ SleepInv => Len(sleepers) <= Cardinality(Scheds)
  <2> SUFFICES ASSUME TypeOK, SleepInv PROVE Len(sleepers) <= Cardinality(Scheds)
    OBVIOUS
  <2>1. Len(sleepers) \in Nat /\ sleepers \in [1 .. Len(sleepers) -> Scheds]
    BY LenProperties DEF TypeOK, SleepOK
  <2>2. sleepers \in Injection(1 .. Len(sleepers), Scheds)
    BY <2>1 DEF Injection, SleepInv, SleeperOnce, IsInjective
  <2>3. Cardinality(1 .. Len(sleepers)) <= Cardinality(Scheds)
    BY <2>2, SchedsAssumption, FS_Injection
  <2>4. Cardinality(1 .. Len(sleepers)) = Len(sleepers)
    BY <2>1, FS_Interval
  <2> QED
    BY <2>3, <2>4
<1> QED
  BY <1>1, TypeCorrect, SleepInvariant, PTL

===============================================================================

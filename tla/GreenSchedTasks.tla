--------------------------- MODULE GreenSchedTasks ----------------------------
(***************************************************************************)
(* Proofs about the tasks of GreenSched, for any pool and either event     *)
(* loop: no task is lost or duplicated, each runs only where it may, a     *)
(* loop that waits has an empty work queue, and shutdown's wait for the    *)
(* count of tasks always ends with a message.                              *)
(***************************************************************************)
EXTENDS GreenSchedProofs

-------------------------------------------------------------------------------
(* Queues: which kinds of elements a sequence holds, and how often *)

Has(q, S)  == \E i \in DOMAIN q : q[i] \in S
Once(q, S) == \A i, j \in DOMAIN q : q[i] \in S /\ q[j] \in S => i = j

\* Pushing an element.
LEMMA PushHas ==
  ASSUME NEW E, NEW q \in Seq(E), NEW e \in E, NEW S
  PROVE  /\ Has(Append(q, e), S) <=> Has(q, S) \/ e \in S
         /\ Once(q, S) /\ ~(Has(q, S) /\ e \in S) => Once(Append(q, e), S)
<1>1. /\ Len(q) \in Nat /\ DOMAIN q = 1 .. Len(q)
      /\ DOMAIN Append(q, e) = 1 .. (Len(q) + 1)
      /\ \A i \in 1 .. Len(q) : Append(q, e)[i] = q[i]
      /\ Append(q, e)[Len(q) + 1] = e
  BY AppendProperties, LenProperties
<1>2. \A i \in DOMAIN Append(q, e) :
        \/ i \in DOMAIN q /\ Append(q, e)[i] = q[i]
        \/ i = Len(q) + 1 /\ Append(q, e)[i] = e
  BY <1>1
<1>3. \A i \in DOMAIN q : i \in DOMAIN Append(q, e) /\ Append(q, e)[i] = q[i]
  BY <1>1
<1>4. Len(q) + 1 \in DOMAIN Append(q, e)
  BY <1>1
<1>5. Has(Append(q, e), S) <=> Has(q, S) \/ e \in S
  BY <1>1, <1>2, <1>3, <1>4 DEF Has
<1>6. Once(q, S) /\ ~(Has(q, S) /\ e \in S) => Once(Append(q, e), S)
  BY <1>2 DEF Has, Once
<1> QED
  BY <1>5, <1>6

\* Taking the first element.
LEMMA PopHas ==
  ASSUME NEW E, NEW q \in Seq(E), q # <<>>, NEW S
  PROVE  /\ Has(q, S) <=> Has(Tail(q), S) \/ Head(q) \in S
         /\ Once(q, S) => Once(Tail(q), S) /\ ~(Has(Tail(q), S) /\ Head(q) \in S)
<1>1. /\ Len(q) \in Nat \ {0} /\ DOMAIN q = 1 .. Len(q)
      /\ DOMAIN Tail(q) = 1 .. (Len(q) - 1)
      /\ \A i \in 1 .. (Len(q) - 1) : Tail(q)[i] = q[i + 1]
      /\ Head(q) = q[1]
  BY HeadTailProperties, LenProperties, EmptySeq
<1>2. \A i \in DOMAIN Tail(q) : i + 1 \in DOMAIN q /\ i + 1 # 1 /\ Tail(q)[i] = q[i + 1]
  BY <1>1
<1>3. 1 \in DOMAIN q
  BY <1>1
<1>4. \A i \in DOMAIN q : i = 1 \/ (i - 1 \in DOMAIN Tail(q) /\ Tail(q)[i - 1] = q[i])
  BY <1>1
<1>5. Has(q, S) <=> Has(Tail(q), S) \/ Head(q) \in S
  BY <1>1, <1>2, <1>3, <1>4 DEF Has
<1>6. Once(q, S) => Once(Tail(q), S)
  <2> SUFFICES ASSUME Once(q, S), NEW i \in DOMAIN Tail(q), NEW j \in DOMAIN Tail(q),
                      Tail(q)[i] \in S, Tail(q)[j] \in S
               PROVE  i = j
    BY DEF Once
  <2>1. i + 1 = j + 1
    BY <1>2 DEF Once
  <2> QED
    BY <1>1, <2>1
<1>7. Once(q, S) => ~(Has(Tail(q), S) /\ Head(q) \in S)
  BY <1>1, <1>2, <1>3 DEF Once, Has
<1> QED
  BY <1>5, <1>6, <1>7

\* Taking the last element.
LEMMA FrontHas ==
  ASSUME NEW E, NEW q \in Seq(E), q # <<>>, NEW S
  PROVE  /\ Has(q, S) <=> Has(Front(q), S) \/ Last(q) \in S
         /\ Once(q, S) => Once(Front(q), S) /\ ~(Has(Front(q), S) /\ Last(q) \in S)
<1>1. Len(q) \in Nat \ {0} /\ DOMAIN q = 1 .. Len(q)
  BY LenProperties, EmptySeq
<1>2. /\ DOMAIN Front(q) = 1 .. (Len(q) - 1)
      /\ \A i \in 1 .. (Len(q) - 1) : Front(q)[i] = q[i]
      /\ Last(q) = q[Len(q)]
  <2>1. /\ SubSeq(q, 1, Len(q) - 1) \in Seq(E)
        /\ Len(SubSeq(q, 1, Len(q) - 1)) = Len(q) - 1
        /\ \A i \in 1 .. (Len(q) - 1) : SubSeq(q, 1, Len(q) - 1)[i] = q[i]
    BY <1>1, SubSeqProperties
  <2> QED
    BY <1>1, <2>1, LenProperties DEF Front, Last
<1>3. \A i \in DOMAIN Front(q) : i \in DOMAIN q /\ i # Len(q) /\ Front(q)[i] = q[i]
  BY <1>1, <1>2
<1>4. \A i \in DOMAIN q : i = Len(q) \/ (i \in DOMAIN Front(q) /\ Front(q)[i] = q[i])
  BY <1>1, <1>2
<1>5. Len(q) \in DOMAIN q
  BY <1>1
<1>6. Has(q, S) <=> Has(Front(q), S) \/ Last(q) \in S
  BY <1>2, <1>3, <1>4, <1>5 DEF Has
<1>7. Once(q, S) => Once(Front(q), S) /\ ~(Has(Front(q), S) /\ Last(q) \in S)
  BY <1>2, <1>3, <1>5 DEF Once, Has
<1> QED
  BY <1>6, <1>7

\* Changing elements without a change of what they count as.
LEMMA MapHas ==
  ASSUME NEW q, NEW r, NEW S, DOMAIN r = DOMAIN q,
         \A i \in DOMAIN q : r[i] \in S <=> q[i] \in S
  PROVE  (Has(r, S) <=> Has(q, S)) /\ (Once(r, S) <=> Once(q, S))
  BY DEF Has, Once

\* The empty sequence holds nothing.
LEMMA EmptyHas == \A S : ~Has(<<>>, S) /\ Once(<<>>, S)
  BY DEF Has, Once

-------------------------------------------------------------------------------
(* The idle callback.  IdleCovers is not inductive: that the callback may be *)
(* paused has to be known from the moment do_work found the queue empty.     *)

InRound == {"msg1", "work", "msg2", "msg2did", "sleep", "fill", "drain"}

IdleInv ==
    \A s \in Scheds :
        /\ ~idle[s] => wq[s] = <<>>
        /\ pc[s] \in {"msg2", "sleep", "fill"} => wq[s] = <<>>
        /\ pc[s] \in InRound => idle[s]
        /\ pc[s] \in {"task", "reap"} /\ after[s] # "loop" => idle[s]

\* Where a scheduler's thread is after GoOn.
LEMMA GoOnPlaces ==
  ASSUME CtlOK, NEW s \in Scheds, NEW next, GoOn(s, next)
  PROVE  /\ next = "keep_going" => pc'[s] \in {"loop", "work"}
         /\ next # "keep_going" => pc'[s] = next
         /\ \A q \in Scheds \ {s} : pc'[q] = pc[q]
  BY LoopAssumption DEF CtlOK, GoOn, Goes

\* Where it is when a look at the message queue did nothing.
LEMMA NothingDonePlaces ==
  ASSUME CtlOK, NEW s \in Scheds, pc[s] \in {"msg1", "msg2", "msg2did"}, NothingDone(s)
  PROVE  /\ pc[s] = "msg1" => pc'[s] = "work"
         /\ pc[s] = "msg2" => pc'[s] = "sleep"
         /\ pc[s] = "msg2did" => pc'[s] \in {"loop", "work"}
         /\ \A q \in Scheds \ {s} : pc'[q] = pc[q]
<1> DEFINE next == CASE pc[s] = "msg1" -> "work" [] pc[s] = "msg2" -> "sleep"
                     [] pc[s] = "msg2did" -> "keep_going"
<1>1. GoOn(s, next)
  BY DEF NothingDone
<1>2. /\ pc[s] = "msg1" => next = "work"
      /\ pc[s] = "msg2" => next = "sleep"
      /\ pc[s] = "msg2did" => next = "keep_going"
  OBVIOUS
<1> HIDE DEF next
<1> QED
  BY <1>1, <1>2, GoOnPlaces

\* A step of a thread that leaves the flags and the queues alone and either
\* stays in its round or goes to the loop, with the flag as it was.
LEMMA IdleMove ==
  ASSUME TypeOK, IdleInv, NEW s \in Scheds, UNCHANGED <<idle, wq>>,
         \A q \in Scheds \ {s} : pc'[q] = pc[q] /\ after'[q] = after[q],
         pc'[s] \in InRound => idle[s],
         pc'[s] \in {"msg2", "sleep", "fill"} => wq[s] = <<>>,
         pc'[s] \in {"task", "reap"} /\ after'[s] # "loop" => idle[s]
  PROVE  IdleInv'
  BY DEF IdleInv

\* process_task: the scheduler is in its round, or in its loop and comes back
\* to it.
LEMMA ProcessPlaces ==
  ASSUME TypeOK, NEW inb, NEW s \in Scheds, NEW t, NEW next, ProcessTask(inb, s, t, next)
  PROVE  /\ \/ pc'[s] = "task" /\ after'[s] = next
            \/ pc'[s] = next /\ next # "keep_going" /\ after'[s] = after[s]
            \/ next = "keep_going" /\ pc'[s] \in {"loop", "work"} /\ after'[s] = after[s]
         /\ \A q \in Scheds \ {s} : pc'[q] = pc[q] /\ after'[q] = after[q]
<1>1. CASE ResumeTask(s, t, next)
  BY <1>1 DEF ResumeTask, TypeOK, CtlOK
<1>2. CASE GoOn(s, next) /\ UNCHANGED after
  BY <1>2, GoOnPlaces DEF TypeOK
<1> QED
  BY <1>1, <1>2 DEF ProcessTask

\* One step of a scheduler's thread.
LEMMA IdleSched ==
  ASSUME TypeOK, IdleInv, NEW s \in Scheds, SchedStep(s)
  PROVE  IdleInv'
<1>1. CASE \/ LinkAndFire(s) \/ PickSleeper(s) \/ NotifyDone(s)
  BY <1>1 DEF LinkAndFire, PickSleeper, NotifyDone, IdleInv, ctlv, loopv, workv
<1>2. CASE LoopEvent(s) \/ LoopIdle(s)
  <2>1. /\ UNCHANGED <<after, wq>>
        /\ \/ UNCHANGED <<pc, idle>>
           \/ EnterSched(s)
    BY <1>2 DEF LoopEvent, LoopIdle, workv
  <2> QED
    BY <2>1 DEF IdleInv, EnterSched, TypeOK, CtlOK, LoopOK, InRound
<1>3. CASE LoopExit(s)
  BY <1>3, IdleMove DEF LoopExit, TypeOK, CtlOK, workv, InRound
<1>4. CASE PinnedTask(s) \/ RunOnce(s)
  <2>1. /\ UNCHANGED <<idle, wq>> /\ pc[s] \in InRound
        /\ pc' = [pc EXCEPT ![s] = "task"] /\ after' = [after EXCEPT ![s] = "keep_going"]
    BY <1>4 DEF PinnedTask, RunOnce, Message, ResumeTask, workv, loopv, InRound
  <2> QED
    BY <2>1, IdleMove DEF IdleInv, TypeOK, CtlOK, InRound
<1>5. CASE TaskFromFriend(s)
  <2>1. UNCHANGED <<idle, wq>> /\ pc[s] \in InRound
    BY <1>5 DEF TaskFromFriend, Message, workv, loopv, InRound
  <2>2. ProcessTask(Popped(s), s, Arg(s), "keep_going")
    BY <1>5 DEF TaskFromFriend
  <2> QED
    BY <2>1, <2>2, ProcessPlaces, IdleMove DEF IdleInv, InRound
<1>6. CASE Wake(s) \/ Shutdown(s)
  <2>1. UNCHANGED <<idle, wq, after>> /\ pc[s] \in InRound
    BY <1>6 DEF Wake, Shutdown, Message, workv, loopv, InRound
  <2>2. GoOn(s, "keep_going") \/ pc' = [pc EXCEPT ![s] = "drain"]
    BY <1>6 DEF Wake, Shutdown, StopSleeping
  <2> QED
    BY <2>1, <2>2, GoOnPlaces, IdleMove DEF IdleInv, TypeOK, CtlOK, InRound
<1>7. CASE DrainSleepers(s)
  <2>1. UNCHANGED <<idle, wq, after>> /\ pc[s] \in InRound
    BY <1>7 DEF DrainSleepers, workv, loopv, InRound
  <2>2. GoOn(s, "keep_going") \/ UNCHANGED pc
    BY <1>7 DEF DrainSleepers, StopSleeping
  <2> QED
    BY <2>1, <2>2, GoOnPlaces, IdleMove DEF IdleInv, TypeOK, CtlOK, InRound
<1>8. CASE NewNeighbor(s) \/ NoMessage(s)
  <2>1. /\ UNCHANGED <<idle, wq, after>> /\ NothingDone(s)
        /\ pc[s] \in {"msg1", "msg2", "msg2did"}
    BY <1>8 DEF NewNeighbor, NoMessage, NothingDone, Message, workv, loopv
  <2> QED
    BY <2>1, NothingDonePlaces, IdleMove DEF IdleInv, TypeOK, InRound
<1>9. CASE WorkOwn(s)
  <2>1. /\ UNCHANGED idle /\ pc[s] \in InRound
        /\ \A q \in Scheds : wq[q] = <<>> => wq'[q] = <<>>
        /\ ProcessTask(inbox, s, Last(wq[s]), "msg2did")
    BY <1>9 DEF WorkOwn, Working, loopv, InRound, TypeOK, WorkOK
  <2> QED
    BY <2>1, ProcessPlaces DEF IdleInv, InRound
<1>10. CASE WorkSteal(s)
  <2>1. PICK v \in known[s] : /\ wq[v] # <<>> /\ wq' = [wq EXCEPT ![v] = Tail(@)]
                              /\ ProcessTask(inbox, s, Head(wq[v]), "msg2did")
    BY <1>10 DEF WorkSteal
  <2>2. /\ UNCHANGED idle /\ pc[s] \in InRound
        /\ \A q \in Scheds : wq[q] = <<>> => wq'[q] = <<>>
    BY <1>10, <2>1 DEF WorkSteal, Working, loopv, InRound, TypeOK, WorkOK
  <2> QED
    BY <2>1, <2>2, ProcessPlaces DEF IdleInv, InRound
<1>11. CASE WorkNone(s)
  BY <1>11, IdleMove DEF WorkNone, Working, workv, loopv, IdleInv, TypeOK, CtlOK, InRound
<1>12. CASE GoToSleep(s) \/ FillSleeper(s)
  BY <1>12 DEF GoToSleep, FillSleeper, StopIdling, workv, IdleInv, TypeOK, CtlOK, LoopOK, InRound
<1>13. CASE \E t \in Tasks : Reap(s, t)
  <2>1. /\ UNCHANGED <<idle, wq>> /\ pc[s] = "reap" /\ GoOn(s, after[s])
        /\ after' = [after EXCEPT ![s] = "loop"]
    BY <1>13 DEF Reap, GiveUp, workv
  <2>2. after[s] \in {"keep_going", "msg2did", "loop"}
    BY DEF TypeOK, CtlOK
  <2> QED
    BY <2>1, <2>2, GoOnPlaces, IdleMove DEF IdleInv, TypeOK, CtlOK, InRound
<1> QED
  BY <1>1, <1>2, <1>3, <1>4, <1>5, <1>6, <1>7, <1>8, <1>9, <1>10, <1>11, <1>12, <1>13
     DEF SchedStep

\* enqueue_task resumes the idle callback with the task on the queue.
LEMMA IdleEnqueue ==
  ASSUME TypeOK, IdleInv, NEW s \in Scheds, NEW t \in Tasks, EnqueueTask(s, t),
         \A q \in Scheds \ {s} : pc'[q] = pc[q] /\ after'[q] = after[q],
         pc'[s] \notin {"msg2", "sleep", "fill"}
  PROVE  IdleInv'
  BY DEF IdleInv, EnqueueTask, TypeOK, LoopOK, WorkOK

\* One step of the running task.
LEMMA IdleTask ==
  ASSUME TypeOK, IdleInv, NEW s \in Scheds, TaskStep(s)
  PROVE  IdleInv'
<1>1. PICK t \in Tasks :
        \/ Bootstrap(s, t) \/ YieldNow(s, t) \/ Deschedule(s, t) \/ Terminate(s, t)
        \/ \E u \in Tasks : SpawnSibling(s, t, u) \/ Reawaken(s, t, u)
  BY DEF TaskStep
<1>2. CASE Bootstrap(s, t)
  BY <1>2 DEF Bootstrap, IdleInv, ctlv, loopv, workv
<1>3. CASE Terminate(s, t)
  BY <1>3, IdleMove DEF Terminate, TaskTurn, IdleInv, loopv, workv, TypeOK, CtlOK, InRound
<1>4. after[s] \in {"keep_going", "msg2did", "loop"}
  BY DEF TypeOK, CtlOK
<1>5. CASE YieldNow(s, t) \/ Deschedule(s, t)
  <2>1. /\ pc[s] = "task" /\ GoOn(s, after[s]) /\ after' = [after EXCEPT ![s] = "loop"]
        /\ EnqueueTask(s, t) \/ UNCHANGED <<wq, idle>>
    BY <1>5 DEF YieldNow, Deschedule, GiveUp, TaskTurn
  <2>2. /\ \A q \in Scheds \ {s} : pc'[q] = pc[q] /\ after'[q] = after[q]
        /\ pc'[s] \notin {"msg2", "sleep", "fill", "task", "reap"}
        /\ pc'[s] \in InRound => after[s] # "loop"
    BY <1>4, <2>1, GoOnPlaces DEF TypeOK, CtlOK, InRound
  <2>3. CASE EnqueueTask(s, t)
    BY <2>2, <2>3, IdleEnqueue
  <2>4. CASE UNCHANGED <<wq, idle>>
    BY <2>1, <2>2, <2>4, IdleMove DEF IdleInv
  <2> QED
    BY <2>1, <2>3, <2>4
<1>6. CASE \E u \in Tasks : SpawnSibling(s, t, u) \/ Reawaken(s, t, u)
  <2>1. /\ pc[s] = "task" /\ UNCHANGED <<pc, after>>
        /\ EnqueueTask(s, t) \/ UNCHANGED <<wq, idle>>
    BY <1>6 DEF SpawnSibling, Reawaken, RunTask, TaskTurn
  <2> QED
    BY <2>1, IdleEnqueue DEF IdleInv
<1> QED
  BY <1>1, <1>2, <1>3, <1>5, <1>6

\* The other threads touch no scheduler but one that they start.
LEMMA IdleOthers ==
  ASSUME TypeOK, IdleInv, OwnerStep \/ UserStep \/ ExtStep
  PROVE  IdleInv'
<1>1. CASE StartSched
  <2>1. newS \in Scheds /\ pc[newS] = "off"
    BY <1>1 DEF StartSched, OwnerAt, TypeOK, PoolOK
  <2> QED
    BY <1>1, <2>1 DEF StartSched, IdleInv, TypeOK, CtlOK, LoopOK, InRound
<1>2. CASE ~StartSched
  <2>1. UNCHANGED <<pc, after, idle, wq>>
    BY <1>2 DEF OwnerStep, UserStep, ExtStep, LinkAndFire, SendNewNeighbor, WaitForTasks,
       RecvDone, SendShutdown, JoinThreads, StartShutdown, Spawn, SpawnPinned, SpawnSched,
       DropUser, ReawakenRemotely, ctlv, loopv, workv
  <2> QED
    BY <2>1 DEF IdleInv
<1> QED
  BY <1>1, <1>2

\* Every step keeps the invariant of the idle callback.
LEMMA IdleNext == TypeOK /\ IdleInv /\ [Next]_vars => IdleInv'
<1> SUFFICES ASSUME TypeOK, IdleInv, [Next]_vars PROVE IdleInv'
  OBVIOUS
<1>1. CASE \E s \in Scheds, u \in Tasks : ReawakenFromLoop(s, u)
  <2>1. PICK s \in Scheds, u \in Tasks : ReawakenFromLoop(s, u)
    BY <1>1
  <2>2. UNCHANGED <<idle, wq>> /\ pc[s] = "loop" /\ ProcessTask(inbox, s, u, "loop")
    BY <2>1 DEF ReawakenFromLoop, InLoop, loopv, workv
  <2> QED
    BY <2>2, ProcessPlaces, IdleMove DEF InRound
<1>2. CASE UNCHANGED vars
  BY <1>2 DEF vars, ctlv, loopv, workv, IdleInv
<1> QED
  BY <1>1, <1>2, IdleSched, IdleTask, IdleOthers DEF Next, Finished

\* The invariant of the idle callback holds throughout.
LEMMA IdleInvariant == Spec => []IdleInv
<1>1. Init => IdleInv
  BY DEF Init, IdleInv, InRound
<1>2. TypeOK /\ IdleInv /\ [Next]_vars => IdleInv'
  BY IdleNext
<1> QED
  BY <1>1, <1>2, TypeCorrect, PTL DEF Spec

\* No scheduler ever waits in its loop, idle callback paused, with a task on
\* its own queue: run_sched_once pauses the callback only after do_work found
\* the queue empty, thieves only take from it, and enqueue_task resumes it.
THEOREM WaitingHasNoWork == Spec => []IdleCovers
<1>1. IdleInv => IdleCovers
  BY DEF IdleInv, IdleCovers
<1> QED
  BY <1>1, IdleInvariant, PTL

-------------------------------------------------------------------------------
(* Where the tasks are.  OneOwner counts places; the inductive invariant     *)
(* says for each task which of its three kinds of places it is in, and ties  *)
(* that place to the task's state, its home and its handle.                  *)

TaskNodes(t)    == {n \in Node : n.msg.kind \in TaskKinds /\ n.msg.arg = t}
KindNodes(k, t) == {n \in Node : n.msg.kind = k /\ n.msg.arg = t}

\* The schedulers whose message queue holds the task, by kind of message.
MailIn(inb, t)   == {s \in Scheds : Has(inb[s], TaskNodes(t))}
PinnedIn(inb, t) == {s \in Scheds : Has(inb[s], KindNodes("PinnedTask", t))}
WokenIn(inb, t)  == {s \in Scheds : Has(inb[s], KindNodes("RunOnce", t))}
OnceIn(inb, t)   == \A s \in Scheds : Once(inb[s], TaskNodes(t))
SameMail(a, b, t) ==
    /\ MailIn(b, t) = MailIn(a, t) /\ PinnedIn(b, t) = PinnedIn(a, t)
    /\ WokenIn(b, t) = WokenIn(a, t) /\ (OnceIn(a, t) => OnceIn(b, t))

RunningAt(t) == {s \in Scheds : running[s] = t}
QueuedAt(t)  == {s \in Scheds : Has(wq[s], {t})}
OnceQueued(t) == \A s \in Scheds : Once(wq[s], {t})

Nowhere(t) == RunningAt(t) = {} /\ QueuedAt(t) = {} /\ MailIn(inbox, t) = {}
Somewhere(t) ==
    \E s \in Scheds :
        \/ RunningAt(t) = {s} /\ QueuedAt(t) = {} /\ MailIn(inbox, t) = {}
        \/ RunningAt(t) = {} /\ QueuedAt(t) = {s} /\ MailIn(inbox, t) = {}
        \/ RunningAt(t) = {} /\ QueuedAt(t) = {} /\ MailIn(inbox, t) = {s}

Live == {"fresh", "ready", "dying"}

PlaceOf(t) ==
    /\ OnceQueued(t) /\ OnceIn(inbox, t)
    /\ tstate[t] \in Live => Somewhere(t)
    /\ tstate[t] \notin Live => Nowhere(t)
LifeOf(t) ==
    /\ tstate[t] = "unborn" => home[t] = AnySched
    /\ tstate[t] \in {"unborn", "fresh"} => thandle[t] = None
    /\ tstate[t] = "blocked" => thandle[t] # None
    /\ home[t] = None /\ tstate[t] # "dead" => PinnedIn(inbox, t) # {}
    /\ PinnedIn(inbox, t) # {} => home[t] \notin Scheds
    /\ \A s \in RunningAt(t) : pc[s] = "reap" => tstate[t] = "dying"
HomeOf(t) ==
    /\ \A s \in RunningAt(t) : pc[s] = "task" => RunsHere(s, t)
    /\ thandle[t] # None /\ home[t] # None => RunsHere(thandle[t], t)
    /\ \A s \in PinnedIn(inbox, t) : thandle[t] # None => thandle[t] = s
    /\ \A s \in WokenIn(inbox, t) : RunsHere(s, t)

TaskInv == \A t \in Tasks : PlaceOf(t) /\ LifeOf(t) /\ HomeOf(t)

\* A task that a step does not concern.
SameTask(t) ==
    /\ tstate'[t] = tstate[t] /\ home'[t] = home[t] /\ thandle'[t] = thandle[t]
    /\ RunningAt(t)' = RunningAt(t) /\ \A s \in RunningAt(t) : pc'[s] = pc[s]
    /\ QueuedAt(t)' = QueuedAt(t) /\ (OnceQueued(t) => OnceQueued(t)')
    /\ SameMail(inbox, inbox', t)

\* It keeps its invariant.
LEMMA TaskFrame ==
  ASSUME NEW t \in Tasks, PlaceOf(t), LifeOf(t), HomeOf(t), SameTask(t)
  PROVE  (PlaceOf(t) /\ LifeOf(t) /\ HomeOf(t))'
<1>1. PlaceOf(t)'
  BY DEF PlaceOf, SameTask, SameMail, Somewhere, Nowhere
<1>2. LifeOf(t)'
  BY DEF LifeOf, SameTask, SameMail
<1>3. HomeOf(t)'
  BY DEF HomeOf, SameTask, SameMail, RunsHere
<1> QED
  BY <1>1, <1>2, <1>3

\* A queue that holds a set of nodes once holds any part of it once.
LEMMA SubsetOnce ==
  ASSUME NEW q, NEW S, NEW T, T \subseteq S
  PROVE  (Has(q, T) => Has(q, S)) /\ (Once(q, S) => Once(q, T))
  BY DEF Has, Once

\* The nodes of a task, by kind.
LEMMA NodeKinds ==
  ASSUME NEW t
  PROVE  /\ KindNodes("PinnedTask", t) \subseteq TaskNodes(t)
         /\ KindNodes("RunOnce", t) \subseteq TaskNodes(t)
  BY DEF KindNodes, TaskNodes, TaskKinds

\* A message about something else leaves the mail of a task alone.
LEMMA SendSame ==
  ASSUME NEW inb \in [Scheds -> Seq(Node)], NEW th \in Threads, NEW to, NEW m \in SchedMessage,
         NEW h, NEW last, Send(inb, th, to, m, h, last),
         NEW t, m.kind \notin TaskKinds \/ m.arg # t
  PROVE  SameMail(inb, inbox', t)
<1> DEFINE n == [msg |-> m, by |-> th]
<1>1. /\ n \in Node /\ n \notin TaskNodes(t)
      /\ n \notin KindNodes("PinnedTask", t) /\ n \notin KindNodes("RunOnce", t)
  BY DEF Node, TaskNodes, KindNodes, TaskKinds
<1>2. \A q \in Scheds : inbox'[q] = inb[q] \/ inbox'[q] = Append(inb[q], n)
  BY DEF Send
<1> HIDE DEF n
<1>3. ASSUME NEW q \in Scheds, NEW S, n \notin S
      PROVE  (Has(inbox'[q], S) <=> Has(inb[q], S)) /\ (Once(inb[q], S) => Once(inbox'[q], S))
  <2>1. /\ Has(Append(inb[q], n), S) <=> Has(inb[q], S)
        /\ Once(inb[q], S) => Once(Append(inb[q], n), S)
    BY <1>1, <1>3, PushHas
  <2> QED
    BY <1>2, <2>1
<1> QED
  BY <1>1, <1>3 DEF SameMail, MailIn, PinnedIn, WokenIn, OnceIn

\* A message that carries a task which is in no queue puts it in one.
LEMMA SendAdds ==
  ASSUME NEW t, NEW inb \in [Scheds -> Seq(Node)], MailIn(inb, t) = {},
         NEW th \in Threads, NEW to \in Scheds,
         NEW m \in SchedMessage, m.kind \in TaskKinds, m.arg = t,
         NEW h, NEW last, Send(inb, th, to, m, h, last)
  PROVE  /\ MailIn(inbox', t) = {to}
         /\ m.kind = "PinnedTask" => PinnedIn(inbox', t) = {to}
         /\ m.kind # "PinnedTask" => PinnedIn(inbox', t) = {}
         /\ m.kind = "RunOnce" => WokenIn(inbox', t) = {to}
         /\ m.kind # "RunOnce" => WokenIn(inbox', t) = {}
         /\ OnceIn(inb, t) => OnceIn(inbox', t)
<1> DEFINE n == [msg |-> m, by |-> th]
<1>1. /\ n \in Node /\ n \in TaskNodes(t)
      /\ n \in KindNodes("PinnedTask", t) <=> m.kind = "PinnedTask"
      /\ n \in KindNodes("RunOnce", t) <=> m.kind = "RunOnce"
  BY DEF Node, TaskNodes, KindNodes
<1>2. \A q \in Scheds : inbox'[q] = IF q = to THEN Append(inb[q], n) ELSE inb[q]
  BY DEF Send
<1> HIDE DEF n
<1>3. \A q \in Scheds : ~Has(inb[q], TaskNodes(t))
  BY DEF MailIn
<1>4. \A q \in Scheds : ~Has(inb[q], KindNodes("PinnedTask", t)) /\ ~Has(inb[q], KindNodes("RunOnce", t))
  BY <1>3, NodeKinds, SubsetOnce
<1>5. ASSUME NEW S
      PROVE  Has(Append(inb[to], n), S) <=> Has(inb[to], S) \/ n \in S
  BY <1>1, PushHas
<1>6. OnceIn(inb, t) => Once(Append(inb[to], n), TaskNodes(t))
  BY <1>1, <1>3, PushHas DEF OnceIn
<1> QED
  BY <1>1, <1>2, <1>3, <1>4, <1>5, <1>6 DEF MailIn, PinnedIn, WokenIn, OnceIn

\* The same for a task that is sent home.
LEMMA SendPins ==
  ASSUME NEW t \in Tasks, NEW inb \in [Scheds -> Seq(Node)], MailIn(inb, t) = {},
         NEW th \in Threads, NEW to \in Scheds,
         NEW h, NEW last, Send(inb, th, to, Msg("PinnedTask", t), h, last)
  PROVE  /\ MailIn(inbox', t) = {to} /\ PinnedIn(inbox', t) = {to}
         /\ WokenIn(inbox', t) = {} /\ (OnceIn(inb, t) => OnceIn(inbox', t))
<1> DEFINE m == Msg("PinnedTask", t)
<1>1. /\ m \in SchedMessage /\ m.kind \in TaskKinds /\ m.arg = t
      /\ m.kind = "PinnedTask" /\ m.kind # "RunOnce"
  BY DEF Msg, SchedMessage, TaskKinds
<1>2. Send(inb, th, to, m, h, last)
  OBVIOUS
<1> HIDE DEF m
<1> QED
  BY <1>1, <1>2, SendAdds

\* Popping a message about something else.
LEMMA PopSame ==
  ASSUME TypeOK, NEW s \in Scheds, inbox[s] # <<>>, NEW t,
         Head(inbox[s]).msg.kind \notin TaskKinds \/ Arg(s) # t
  PROVE  SameMail(inbox, Popped(s), t)
<1>1. /\ Head(inbox[s]) \notin TaskNodes(t)
      /\ Head(inbox[s]) \notin KindNodes("PinnedTask", t)
      /\ Head(inbox[s]) \notin KindNodes("RunOnce", t)
  BY DEF TaskNodes, KindNodes, TaskKinds, Arg
<1>2. inbox \in [Scheds -> Seq(Node)] /\ inbox[s] \in Seq(Node)
  BY DEF TypeOK, MsgOK
<1>3. \A q \in Scheds : Popped(s)[q] = IF q = s THEN Tail(inbox[s]) ELSE inbox[q]
  BY <1>2 DEF Popped
<1>4. ASSUME NEW S, Head(inbox[s]) \notin S
      PROVE  /\ Has(Tail(inbox[s]), S) <=> Has(inbox[s], S)
             /\ Once(inbox[s], S) => Once(Tail(inbox[s]), S)
  BY <1>2, <1>4, PopHas
<1> QED
  BY <1>1, <1>3, <1>4 DEF SameMail, MailIn, PinnedIn, WokenIn, OnceIn

\* Popping the task itself.
LEMMA PopTakes ==
  ASSUME TypeOK, NEW s \in Scheds, inbox[s] # <<>>, NEW k \in TaskKinds,
         Head(inbox[s]).msg.kind = k
  PROVE  /\ s \in MailIn(inbox, Arg(s))
         /\ k = "PinnedTask" => s \in PinnedIn(inbox, Arg(s))
         /\ k = "RunOnce" => s \in WokenIn(inbox, Arg(s))
         /\ OnceIn(inbox, Arg(s)) /\ MailIn(inbox, Arg(s)) = {s}
              => /\ MailIn(Popped(s), Arg(s)) = {} /\ PinnedIn(Popped(s), Arg(s)) = {}
                 /\ WokenIn(Popped(s), Arg(s)) = {} /\ OnceIn(Popped(s), Arg(s))
                 /\ k # "PinnedTask" => PinnedIn(inbox, Arg(s)) = {}
<1> DEFINE t == Arg(s)
<1>1. inbox \in [Scheds -> Seq(Node)] /\ inbox[s] \in Seq(Node) /\ Head(inbox[s]) \in Node
  BY PopTypes DEF TypeOK, MsgOK
<1>2. /\ Head(inbox[s]) \in TaskNodes(t)
      /\ k = "PinnedTask" => Head(inbox[s]) \in KindNodes("PinnedTask", t)
      /\ k = "RunOnce" => Head(inbox[s]) \in KindNodes("RunOnce", t)
  BY <1>1 DEF TaskNodes, KindNodes, Arg
<1>3. \A q \in Scheds : Popped(s)[q] = IF q = s THEN Tail(inbox[s]) ELSE inbox[q]
  BY <1>1 DEF Popped
<1> HIDE DEF t
<1>4. ASSUME NEW S
      PROVE  /\ Head(inbox[s]) \in S => Has(inbox[s], S)
             /\ Once(inbox[s], S) => Once(Tail(inbox[s]), S)
             /\ Once(inbox[s], S) /\ Head(inbox[s]) \in S => ~Has(Tail(inbox[s]), S)
  BY <1>1, PopHas
<1>5. /\ s \in MailIn(inbox, t)
      /\ k = "PinnedTask" => s \in PinnedIn(inbox, t)
      /\ k = "RunOnce" => s \in WokenIn(inbox, t)
  BY <1>2, <1>4 DEF MailIn, PinnedIn, WokenIn
<1>6. ASSUME OnceIn(inbox, t), MailIn(inbox, t) = {s}
      PROVE  /\ MailIn(Popped(s), t) = {} /\ PinnedIn(Popped(s), t) = {}
             /\ WokenIn(Popped(s), t) = {} /\ OnceIn(Popped(s), t)
             /\ k # "PinnedTask" => PinnedIn(inbox, t) = {}
  <2>1. OnceIn(Popped(s), t)
    BY <1>3, <1>4, <1>6 DEF OnceIn
  <2>2. \A q \in Scheds : ~Has(Popped(s)[q], TaskNodes(t))
    BY <1>2, <1>3, <1>4, <1>6 DEF OnceIn, MailIn
  <2>3. \A q \in Scheds : /\ ~Has(Popped(s)[q], KindNodes("PinnedTask", t))
                          /\ ~Has(Popped(s)[q], KindNodes("RunOnce", t))
    BY <2>2, NodeKinds, SubsetOnce
  <2>4. ASSUME k # "PinnedTask" PROVE PinnedIn(inbox, t) = {}
    <3>1. Head(inbox[s]) \notin KindNodes("PinnedTask", t)
      BY <2>4 DEF KindNodes
    <3>2. ~Has(inbox[s], KindNodes("PinnedTask", t))
      BY <1>1, <1>3, <2>3, <3>1, PopHas
    <3>3. \A q \in Scheds : q # s => inbox[q] = Popped(s)[q]
      BY <1>3
    <3> QED
      BY <2>3, <3>2, <3>3 DEF PinnedIn
  <2> QED
    BY <2>1, <2>2, <2>3, <2>4 DEF MailIn, PinnedIn, WokenIn
<1> QED
  BY <1>5, <1>6 DEF t

\* Linking a node moves no task.
LEMMA LinkSame ==
  ASSUME TypeOK, NEW th \in Threads, LinkAndFire(th), NEW t
  PROVE  SameMail(inbox, inbox', t)
<1>1. \A q \in Scheds : inbox'[q] = inbox[q] \/ inbox'[q] = Linked(inbox[q], th)
  BY DEF LinkAndFire, TypeOK, MsgOK
<1>2. ASSUME NEW q \in Scheds, NEW S,
             \/ S = TaskNodes(t) \/ S = KindNodes("PinnedTask", t) \/ S = KindNodes("RunOnce", t)
      PROVE  /\ Has(Linked(inbox[q], th), S) <=> Has(inbox[q], S)
             /\ Once(inbox[q], S) => Once(Linked(inbox[q], th), S)
  <2>1. /\ inbox[q] \in Seq(Node) /\ Linked(inbox[q], th) \in Seq(Node)
        /\ DOMAIN Linked(inbox[q], th) = DOMAIN inbox[q]
        /\ \A i \in DOMAIN inbox[q] : Linked(inbox[q], th)[i].msg = inbox[q][i].msg
    BY LinkedTypes DEF TypeOK, MsgOK
  <2>2. \A i \in DOMAIN inbox[q] : inbox[q][i] \in Node /\ Linked(inbox[q], th)[i] \in Node
    BY <2>1, ElementOfSeq, LenProperties
  <2>3. ASSUME NEW i \in DOMAIN inbox[q]
        PROVE  Linked(inbox[q], th)[i] \in S <=> inbox[q][i] \in S
    <3>1. /\ Linked(inbox[q], th)[i] \in Node /\ inbox[q][i] \in Node
          /\ Linked(inbox[q], th)[i].msg = inbox[q][i].msg
      BY <2>1, <2>2
    <3> QED
      BY <1>2, <3>1 DEF TaskNodes, KindNodes
  <2> QED
    BY <2>1, <2>3, MapHas
<1> QED
  BY <1>1, <1>2 DEF SameMail, MailIn, PinnedIn, WokenIn, OnceIn

\* A queue nobody touches.
LEMMA MailRefl == \A a, t : SameMail(a, a, t)
  BY DEF SameMail

\* A scheduler's thread changes hands.
LEMMA RunEffect ==
  ASSUME TypeOK, NEW s \in Scheds, NEW x, running' = [running EXCEPT ![s] = x], NEW t
  PROVE  /\ x = t /\ RunningAt(t) = {} => RunningAt(t)' = {s}
         /\ x # t /\ RunningAt(t) = {s} => RunningAt(t)' = {}
         /\ x # t /\ s \notin RunningAt(t) => RunningAt(t)' = RunningAt(t)
  BY DEF RunningAt, TypeOK, CtlOK

\* enqueue_task puts a task that is on no queue on one.
LEMMA QueueEffect ==
  ASSUME TypeOK, NEW s \in Scheds, NEW u \in Tasks, wq' = [wq EXCEPT ![s] = Append(@, u)]
  PROVE  /\ QueuedAt(u)' = QueuedAt(u) \cup {s}
         /\ OnceQueued(u) /\ QueuedAt(u) = {} => OnceQueued(u)'
         /\ \A t \in Tasks \ {u} : QueuedAt(t)' = QueuedAt(t) /\ (OnceQueued(t) => OnceQueued(t)')
<1>1. \A q \in Scheds : wq'[q] = IF q = s THEN Append(wq[s], u) ELSE wq[q]
  BY DEF TypeOK, WorkOK
<1>2. ASSUME NEW S
      PROVE  /\ Has(Append(wq[s], u), S) <=> Has(wq[s], S) \/ u \in S
             /\ Once(wq[s], S) /\ ~(Has(wq[s], S) /\ u \in S) => Once(Append(wq[s], u), S)
  BY PushHas DEF TypeOK, WorkOK
<1>3. QueuedAt(u)' = QueuedAt(u) \cup {s}
  BY <1>1, <1>2 DEF QueuedAt
<1>4. OnceQueued(u) /\ QueuedAt(u) = {} => OnceQueued(u)'
  BY <1>1, <1>2 DEF OnceQueued, QueuedAt
<1>5. \A t \in Tasks \ {u} : QueuedAt(t)' = QueuedAt(t) /\ (OnceQueued(t) => OnceQueued(t)')
  BY <1>1, <1>2 DEF OnceQueued, QueuedAt
<1> QED
  BY <1>3, <1>4, <1>5

\* The owner's pop and a thief's steal take one task off a queue.
LEMMA DequeueEffect ==
  ASSUME TypeOK, NEW v \in Scheds, wq[v] # <<>>, NEW u,
         \/ u = Last(wq[v]) /\ wq' = [wq EXCEPT ![v] = Front(@)]
         \/ u = Head(wq[v]) /\ wq' = [wq EXCEPT ![v] = Tail(@)]
  PROVE  /\ v \in QueuedAt(u)
         /\ OnceQueued(u) => QueuedAt(u)' = QueuedAt(u) \ {v} /\ OnceQueued(u)'
         /\ \A t \in Tasks \ {u} : QueuedAt(t)' = QueuedAt(t) /\ (OnceQueued(t) => OnceQueued(t)')
<1>1. wq[v] \in Seq(Tasks)
  BY DEF TypeOK, WorkOK
<1>2. PICK r : /\ \A q \in Scheds : wq'[q] = IF q = v THEN r ELSE wq[q]
               /\ \A S : /\ Has(wq[v], S) <=> Has(r, S) \/ u \in S
                         /\ Once(wq[v], S) => Once(r, S) /\ ~(Has(r, S) /\ u \in S)
  <2>1. CASE u = Last(wq[v]) /\ wq' = [wq EXCEPT ![v] = Front(@)]
    <3>1. \A q \in Scheds : wq'[q] = IF q = v THEN Front(wq[v]) ELSE wq[q]
      BY <2>1 DEF TypeOK, WorkOK
    <3>2. \A S : /\ Has(wq[v], S) <=> Has(Front(wq[v]), S) \/ Last(wq[v]) \in S
                 /\ Once(wq[v], S) => Once(Front(wq[v]), S) /\ ~(Has(Front(wq[v]), S) /\ Last(wq[v]) \in S)
      BY <1>1, FrontHas
    <3> QED
      BY <2>1, <3>1, <3>2
  <2>2. CASE u = Head(wq[v]) /\ wq' = [wq EXCEPT ![v] = Tail(@)]
    <3>1. \A q \in Scheds : wq'[q] = IF q = v THEN Tail(wq[v]) ELSE wq[q]
      BY <2>2 DEF TypeOK, WorkOK
    <3>2. \A S : /\ Has(wq[v], S) <=> Has(Tail(wq[v]), S) \/ Head(wq[v]) \in S
                 /\ Once(wq[v], S) => Once(Tail(wq[v]), S) /\ ~(Has(Tail(wq[v]), S) /\ Head(wq[v]) \in S)
      BY <1>1, PopHas
    <3> QED
      BY <2>2, <3>1, <3>2
  <2> QED
    BY <2>1, <2>2
<1>3. Has(wq[v], {u})
  BY <1>2
<1>4. v \in QueuedAt(u)
  BY <1>3 DEF QueuedAt
<1>5. OnceQueued(u) => QueuedAt(u)' = QueuedAt(u) \ {v} /\ OnceQueued(u)'
  BY <1>2 DEF OnceQueued, QueuedAt
<1>6. \A t \in Tasks \ {u} : QueuedAt(t)' = QueuedAt(t) /\ (OnceQueued(t) => OnceQueued(t)')
  BY <1>2 DEF OnceQueued, QueuedAt
<1> QED
  BY <1>4, <1>5, <1>6

\* A work queue nobody touches.
LEMMA QueueFrame ==
  ASSUME UNCHANGED wq
  PROVE  \A t \in Tasks : QueuedAt(t)' = QueuedAt(t) /\ (OnceQueued(t) => OnceQueued(t)')
  BY DEF QueuedAt, OnceQueued

\* What it takes for one task to change places while the others stay.
LEMMA TaskMove ==
  ASSUME TaskInv, NEW u \in Tasks, (PlaceOf(u) /\ LifeOf(u) /\ HomeOf(u))',
         \A t \in Tasks \ {u} : SameTask(t)
  PROVE  TaskInv'
<1> SUFFICES ASSUME NEW t \in Tasks PROVE (PlaceOf(t) /\ LifeOf(t) /\ HomeOf(t))'
  BY DEF TaskInv
<1>1. CASE t = u
  BY <1>1
<1>2. CASE t # u
  <2>1. PlaceOf(t) /\ LifeOf(t) /\ HomeOf(t) /\ SameTask(t)
    BY <1>2 DEF TaskInv
  <2> QED
    BY <2>1, TaskFrame
<1> QED
  BY <1>1, <1>2

\* Steps that move no task.
LEMMA TaskStay ==
  ASSUME TaskInv, UNCHANGED <<tstate, home, thandle, running, wq>>,
         \A s \in Scheds : running[s] # None => pc'[s] = pc[s],
         \A t \in Tasks : SameMail(inbox, inbox', t)
  PROVE  TaskInv'
<1> SUFFICES ASSUME NEW t \in Tasks PROVE (PlaceOf(t) /\ LifeOf(t) /\ HomeOf(t))'
  BY DEF TaskInv
<1>1. t # None
  BY SchedsAssumption
<1>2. RunningAt(t)' = RunningAt(t) /\ \A s \in RunningAt(t) : pc'[s] = pc[s]
  BY <1>1 DEF RunningAt
<1>3. SameTask(t)
  BY <1>2, QueueFrame DEF SameTask
<1> QED
  BY <1>3, TaskFrame DEF TaskInv

\* A task that is nowhere but in the scheduler's hands is sent to its home or
\* to the friend (send_task_home, send_to_friend).  inb is the message queues,
\* and the primed work queues are those, once the task was taken off.
LEMMA TaskSendAway ==
  ASSUME TypeOK, TaskInv, NEW s \in Scheds, NEW u \in Tasks,
         NEW inb \in [Scheds -> Seq(Node)], ~RunsHere(s, u), SendAway(inb, s, u),
         RunningAt(u) = {}, QueuedAt(u)' = {}, OnceQueued(u)', MailIn(inb, u) = {}, OnceIn(inb, u),
         \A t \in Tasks \ {u} : /\ QueuedAt(t)' = QueuedAt(t) /\ (OnceQueued(t) => OnceQueued(t)')
                                /\ SameMail(inbox, inb, t),
         home[u] # None, tstate'[u] \in {"fresh", "ready", "dying"},
         tstate'[u] = "fresh" => thandle[u] = None, UNCHANGED <<thandle, running>>,
         \A t \in Tasks \ {u} : tstate'[t] = tstate[t],
         \A q \in Scheds : running[q] # None => pc'[q] = pc[q]
  PROVE  TaskInv'
<1>1. \A t \in Tasks : RunningAt(t)' = RunningAt(t) /\ \A q \in RunningAt(t) : pc'[q] = pc[q]
  BY SchedsAssumption DEF RunningAt
<1>2. /\ Msg("PinnedTask", u) \in SchedMessage /\ Msg("TaskFromFriend", u) \in SchedMessage
      /\ Msg("PinnedTask", u).arg = u /\ Msg("TaskFromFriend", u).arg = u
      /\ s \in Threads /\ home[u] \in Scheds \cup {AnySched}
      /\ Msg("TaskFromFriend", u).kind = "TaskFromFriend"
      /\ Msg("TaskFromFriend", u).kind \in TaskKinds
  BY MsgTypes DEF Msg, TaskKinds, Threads, TypeOK, TaskOK
<1>3. CASE home[u] \in Scheds
  <2>1. /\ Send(inb, s, home[u], Msg("PinnedTask", u), <<"temp", s>>, TRUE)
        /\ home' = [home EXCEPT ![u] = None]
    BY <1>3 DEF SendAway
  <2>2. /\ MailIn(inbox', u) = {home[u]} /\ PinnedIn(inbox', u) = {home[u]}
        /\ WokenIn(inbox', u) = {} /\ OnceIn(inbox', u)
    BY <1>2, <1>3, <2>1, SendPins
  <2>3. \A t \in Tasks \ {u} : SameMail(inb, inbox', t)
    BY <1>2, <2>1, SendSame
  <2>4. /\ home'[u] = None /\ None \notin Scheds /\ AnySched \notin Scheds
        /\ \A t \in Tasks \ {u} : home'[t] = home[t]
    BY <2>1, SchedsAssumption DEF TypeOK, TaskOK, Threads
  <2>5. thandle[u] # None => thandle[u] = home[u]
    BY <1>3, <2>4 DEF TaskInv, HomeOf, RunsHere
  <2>6. PlaceOf(u)'
    BY <1>1, <1>3, <2>2 DEF PlaceOf, Somewhere, Live
  <2>7. LifeOf(u)'
    BY <1>1, <2>2, <2>4 DEF LifeOf
  <2>8. HomeOf(u)'
    BY <1>1, <2>2, <2>4, <2>5 DEF HomeOf
  <2>9. \A t \in Tasks \ {u} : SameTask(t)
    BY <1>1, <2>3, <2>4 DEF SameTask, SameMail
  <2> QED
    BY <2>6, <2>7, <2>8, <2>9, TaskMove
<1>4. CASE home[u] = AnySched
  <2>1. home[u] \notin Scheds /\ Friend[s] \in Scheds
    BY <1>4, SchedsAssumption, FriendAssumption DEF RunsHere
  <2>2. /\ Send(inb, s, Friend[s], Msg("TaskFromFriend", u), <<"friend", s>>, FALSE)
        /\ UNCHANGED home
    BY <2>1 DEF SendAway
  <2>3. /\ MailIn(inbox', u) = {Friend[s]} /\ PinnedIn(inbox', u) = {}
        /\ WokenIn(inbox', u) = {} /\ OnceIn(inbox', u)
    BY <1>2, <2>1, <2>2, SendAdds
  <2>4. \A t \in Tasks \ {u} : SameMail(inb, inbox', t)
    BY <1>2, <2>2, SendSame
  <2>5. PlaceOf(u)'
    BY <1>1, <2>1, <2>3 DEF PlaceOf, Somewhere, Live
  <2>6. LifeOf(u)'
    BY <1>1, <1>4, <2>2, <2>3, SchedsAssumption DEF LifeOf
  <2>7. HomeOf(u)'
    BY <1>1, <2>2, <2>3 DEF HomeOf, TaskInv, RunsHere
  <2>8. \A t \in Tasks \ {u} : SameTask(t)
    BY <1>1, <2>2, <2>4 DEF SameTask, SameMail
  <2> QED
    BY <2>5, <2>6, <2>7, <2>8, TaskMove
<1> QED
  BY <1>2, <1>3, <1>4

\* process_task: such a task is resumed here or sent away.
LEMMA TaskProcess ==
  ASSUME TypeOK, TaskInv, NEW s \in Scheds, running[s] = None, NEW u \in Tasks,
         NEW inb \in [Scheds -> Seq(Node)], NEW next, ProcessTask(inb, s, u, next),
         RunningAt(u) = {}, QueuedAt(u)' = {}, OnceQueued(u)',
         MailIn(inb, u) = {}, PinnedIn(inb, u) = {}, WokenIn(inb, u) = {}, OnceIn(inb, u),
         \A t \in Tasks \ {u} : /\ QueuedAt(t)' = QueuedAt(t) /\ (OnceQueued(t) => OnceQueued(t)')
                                /\ SameMail(inbox, inb, t),
         home[u] # None, tstate'[u] \in {"fresh", "ready", "dying"},
         tstate'[u] = "fresh" => thandle[u] = None, UNCHANGED thandle,
         \A t \in Tasks \ {u} : tstate'[t] = tstate[t]
  PROVE  TaskInv'
<1>1. \A t \in Tasks : s \notin RunningAt(t)
  BY SchedsAssumption DEF RunningAt
<1>2. CASE RunsHere(s, u) /\ ResumeTask(s, u, next) /\ inbox' = inb /\ UNCHANGED <<out, home>>
  <2>1. /\ running' = [running EXCEPT ![s] = u]
        /\ \A q \in Scheds \ {s} : pc'[q] = pc[q]
        /\ pc'[s] = "task"
    BY <1>2 DEF ResumeTask, TypeOK, CtlOK
  <2>2. RunningAt(u)' = {s} /\ \A t \in Tasks \ {u} : RunningAt(t)' = RunningAt(t)
    BY <1>1, <2>1, RunEffect
  <2>3. PlaceOf(u)'
    BY <1>2, <2>2 DEF PlaceOf, Somewhere, Live
  <2>4. LifeOf(u)'
    BY <1>2, <2>1, <2>2 DEF LifeOf, TaskInv
  <2>5. HomeOf(u)'
    BY <1>2, <2>1, <2>2 DEF HomeOf, TaskInv, RunsHere
  <2>6. \A t \in Tasks \ {u} : SameTask(t)
    BY <1>1, <1>2, <2>1, <2>2 DEF SameTask, RunningAt
  <2> QED
    BY <2>3, <2>4, <2>5, <2>6, TaskMove
<1>3. CASE ~RunsHere(s, u) /\ SendAway(inb, s, u) /\ GoOn(s, next) /\ UNCHANGED <<running, after>>
  <2>1. \A q \in Scheds : running[q] # None => pc'[q] = pc[q]
    BY <1>3, GoOnPlaces DEF TypeOK
  <2> QED
    BY <1>3, <2>1, TaskSendAway
<1> QED
  BY <1>2, <1>3 DEF ProcessTask

\* What the invariant says of a task that was found somewhere, or that can be
\* nowhere.
LEMMA TaskFound ==
  ASSUME TaskInv, NEW u \in Tasks
  PROVE  /\ OnceQueued(u) /\ OnceIn(inbox, u)
         /\ PinnedIn(inbox, u) \subseteq MailIn(inbox, u)
         /\ WokenIn(inbox, u) \subseteq MailIn(inbox, u)
         /\ \A s \in MailIn(inbox, u) : /\ tstate[u] \in Live /\ MailIn(inbox, u) = {s}
                                        /\ RunningAt(u) = {} /\ QueuedAt(u) = {}
         /\ \A s \in QueuedAt(u) : /\ tstate[u] \in Live /\ MailIn(inbox, u) = {}
                                   /\ RunningAt(u) = {} /\ QueuedAt(u) = {s}
         /\ \A s \in RunningAt(u) : /\ tstate[u] \in Live /\ MailIn(inbox, u) = {}
                                    /\ RunningAt(u) = {s} /\ QueuedAt(u) = {}
         /\ tstate[u] \notin Live => Nowhere(u)
         /\ MailIn(inbox, u) = {} => PinnedIn(inbox, u) = {} /\ WokenIn(inbox, u) = {}
         /\ MailIn(inbox, u) = {} /\ tstate[u] # "dead" => home[u] # None
<1>1. PlaceOf(u) /\ LifeOf(u)
  BY DEF TaskInv
<1>2. PinnedIn(inbox, u) \subseteq MailIn(inbox, u) /\ WokenIn(inbox, u) \subseteq MailIn(inbox, u)
  BY NodeKinds, SubsetOnce DEF PinnedIn, WokenIn, MailIn
<1>3. MailIn(inbox, u) = {} => PinnedIn(inbox, u) = {} /\ WokenIn(inbox, u) = {}
  BY <1>2
<1>4. OnceQueued(u) /\ OnceIn(inbox, u) /\ (tstate[u] \notin Live => Nowhere(u))
  BY <1>1 DEF PlaceOf
<1>5. \A s \in MailIn(inbox, u) : /\ tstate[u] \in Live /\ MailIn(inbox, u) = {s}
                                  /\ RunningAt(u) = {} /\ QueuedAt(u) = {}
  BY <1>1 DEF PlaceOf, Somewhere, Nowhere
<1>6. \A s \in QueuedAt(u) : /\ tstate[u] \in Live /\ MailIn(inbox, u) = {}
                             /\ RunningAt(u) = {} /\ QueuedAt(u) = {s}
  BY <1>1 DEF PlaceOf, Somewhere, Nowhere
<1>7. \A s \in RunningAt(u) : /\ tstate[u] \in Live /\ MailIn(inbox, u) = {}
                              /\ RunningAt(u) = {s} /\ QueuedAt(u) = {}
  BY <1>1 DEF PlaceOf, Somewhere, Nowhere
<1>8. MailIn(inbox, u) = {} /\ tstate[u] # "dead" => home[u] # None
  BY <1>1, <1>3 DEF LifeOf
<1> QED
  BY <1>2, <1>3, <1>4, <1>5, <1>6, <1>7, <1>8

\* PinnedTask and RunOnce: the task in the message is resumed at once.
LEMMA TaskResume ==
  ASSUME TypeOK, TaskInv, NEW s \in Scheds, PinnedTask(s) \/ RunOnce(s)
  PROVE  TaskInv'
<1>1. /\ inbox[s] # <<>> /\ inbox' = Popped(s) /\ UNCHANGED <<wq, tstate, thandle>>
      /\ running' = [running EXCEPT ![s] = Arg(s)] /\ running[s] = None
      /\ pc'[s] = "task" /\ \A q \in Scheds \ {s} : pc'[q] = pc[q]
      /\ Head(inbox[s]).msg.kind \in TaskKinds
  BY DEF PinnedTask, RunOnce, Message, ResumeTask, TypeOK, CtlOK, workv, taskv, TaskKinds
<1>2. PICK u \in Tasks : u = Arg(s)
  BY <1>1, PopTypes DEF TypeOK
<1>3. s \in MailIn(inbox, u)
  BY <1>1, <1>2, PopTakes
<1>4. /\ tstate[u] \in Live /\ MailIn(inbox, u) = {s} /\ OnceIn(inbox, u) /\ OnceQueued(u)
      /\ RunningAt(u) = {} /\ QueuedAt(u) = {}
  BY <1>2, <1>3, TaskFound
<1>5. /\ MailIn(inbox', u) = {} /\ PinnedIn(inbox', u) = {} /\ WokenIn(inbox', u) = {}
      /\ OnceIn(inbox', u)
  BY <1>1, <1>2, <1>4, PopTakes
<1>6. \A t \in Tasks \ {u} : SameMail(inbox, inbox', t)
  BY <1>1, <1>2, PopSame
<1>7. \A t \in Tasks : s \notin RunningAt(t)
  BY <1>1, SchedsAssumption DEF RunningAt
<1>8. RunningAt(u)' = {s} /\ \A t \in Tasks \ {u} : RunningAt(t)' = RunningAt(t)
  BY <1>1, <1>2, <1>4, <1>7, RunEffect
<1>9. \A t \in Tasks : QueuedAt(t)' = QueuedAt(t) /\ (OnceQueued(t) => OnceQueued(t)')
  BY <1>1, QueueFrame
<1>10. /\ home'[u] # None /\ \A t \in Tasks \ {u} : home'[t] = home[t]
       /\ RunsHere(s, u)' /\ (thandle[u] # None => RunsHere(thandle[u], u)')
       /\ home'[u] = home[u] \/ home'[u] = s
  <2>1. CASE PinnedTask(s)
    <3>1. home' = [home EXCEPT ![u] = s] /\ Head(inbox[s]).msg.kind = "PinnedTask"
      BY <1>2, <2>1 DEF PinnedTask, Message
    <3>2. /\ home'[u] = s /\ s # None /\ \A t \in Tasks \ {u} : home'[t] = home[t]
      BY <1>2, <3>1, SchedsAssumption DEF TypeOK, TaskOK, Threads
    <3>3. s \in PinnedIn(inbox, u)
      BY <1>1, <1>2, <3>1, PopTakes
    <3>4. thandle[u] # None => thandle[u] = s
      BY <1>2, <3>3 DEF TaskInv, HomeOf
    <3> QED
      BY <1>1, <3>2, <3>4 DEF RunsHere
  <2>2. CASE RunOnce(s)
    <3>1. UNCHANGED home /\ Head(inbox[s]).msg.kind = "RunOnce"
      BY <2>2 DEF RunOnce, Message, taskv
    <3>2. s \in WokenIn(inbox, u)
      BY <1>1, <1>2, <3>1, PopTakes
    <3>3. RunsHere(s, u)
      BY <1>2, <3>2 DEF TaskInv, HomeOf
    <3>4. home[u] # None
      BY <3>3, SchedsAssumption DEF RunsHere, Threads
    <3>5. thandle[u] # None => RunsHere(thandle[u], u)
      BY <1>2, <3>4 DEF TaskInv, HomeOf
    <3> QED
      BY <1>1, <3>1, <3>3, <3>4, <3>5 DEF RunsHere
  <2> QED
    BY <2>1, <2>2
<1>11. PlaceOf(u)'
  BY <1>1, <1>2, <1>4, <1>5, <1>8, <1>9 DEF PlaceOf, Somewhere, Live
<1>12. LifeOf(u)'
  BY <1>1, <1>2, <1>4, <1>5, <1>8, <1>10 DEF LifeOf, TaskInv, Live
<1>13. HomeOf(u)'
  BY <1>1, <1>5, <1>8, <1>10 DEF HomeOf
<1>14. \A t \in Tasks \ {u} : SameTask(t)
  BY <1>1, <1>6, <1>7, <1>8, <1>9, <1>10 DEF SameTask, RunningAt
<1> QED
  BY <1>2, <1>11, <1>12, <1>13, <1>14, TaskMove

\* The scheduler's own steps that move no task.
LEMMA TaskRest ==
  ASSUME TypeOK, TaskInv, NEW s \in Scheds,
         \/ LinkAndFire(s) \/ PickSleeper(s) \/ LoopEvent(s) \/ LoopIdle(s) \/ LoopExit(s)
         \/ Wake(s) \/ Shutdown(s) \/ DrainSleepers(s) \/ NewNeighbor(s) \/ NoMessage(s)
         \/ WorkNone(s) \/ GoToSleep(s) \/ FillSleeper(s) \/ NotifyDone(s)
  PROVE  TaskInv'
<1>1. s \in Threads /\ Msg("Wake", None) \in SchedMessage /\ Msg("Wake", None).kind \notin TaskKinds
  BY MsgTypes DEF Threads, Msg, TaskKinds
<1>2. CASE LinkAndFire(s)
  BY <1>1, <1>2, LinkSame, TaskStay DEF LinkAndFire, ctlv, workv, taskv
<1>3. CASE PickSleeper(s)
  <2>1. UNCHANGED <<ctlv, workv, taskv>>
    BY <1>3 DEF PickSleeper
  <2>2. \/ UNCHANGED inbox
        \/ Send(inbox, s, Head(sleepers), Msg("Wake", None), <<"temp", s>>, TRUE)
    BY <1>3 DEF PickSleeper
  <2>3. inbox \in [Scheds -> Seq(Node)]
    BY DEF TypeOK, MsgOK
  <2>4. \A t \in Tasks : SameMail(inbox, inbox', t)
    BY <1>1, <2>2, <2>3, SendSame, MailRefl
  <2> QED
    BY <2>1, <2>4, TaskStay DEF ctlv, workv, taskv
<1>4. CASE \/ LoopEvent(s) \/ LoopIdle(s) \/ LoopExit(s) \/ WorkNone(s) \/ GoToSleep(s)
           \/ FillSleeper(s) \/ NotifyDone(s)
  <2>1. UNCHANGED <<inbox, tstate, home, thandle, running, wq>>
    BY <1>4 DEF LoopEvent, LoopIdle, LoopExit, WorkNone, GoToSleep, FillSleeper, NotifyDone, msgv,
       taskv, workv
  <2>2. running[s] = None \/ UNCHANGED pc
    BY <1>4 DEF LoopEvent, LoopIdle, LoopExit, WorkNone, GoToSleep, FillSleeper, NotifyDone, InLoop,
       Working, TypeOK, CtlOK
  <2>3. \A q \in Scheds \ {s} : pc'[q] = pc[q]
    BY <1>4 DEF LoopEvent, LoopIdle, LoopExit, WorkNone, GoToSleep, FillSleeper, StopIdling,
       NotifyDone, EnterSched, TypeOK, CtlOK
  <2> QED
    BY <2>1, <2>2, <2>3, MailRefl, TaskStay
<1>5. CASE Wake(s) \/ Shutdown(s) \/ NewNeighbor(s)
  <2>1. /\ inbox[s] # <<>> /\ inbox' = Popped(s) /\ UNCHANGED <<tstate, home, thandle, running, wq>>
        /\ running[s] = None
        /\ Head(inbox[s]).msg.kind \notin TaskKinds
    BY <1>5 DEF Wake, Shutdown, NewNeighbor, NothingDone, Message, taskv, workv, TaskKinds, TypeOK, CtlOK
  <2>2. \A t \in Tasks : SameMail(inbox, inbox', t)
    BY <2>1, PopSame
  <2>3. \A q \in Scheds \ {s} : pc'[q] = pc[q]
    BY <1>5, GoOnPlaces DEF Wake, Shutdown, NewNeighbor, NothingDone, StopSleeping, TypeOK, CtlOK
  <2> QED
    BY <2>1, <2>2, <2>3, TaskStay
<1>6. CASE NoMessage(s)
  <2>1. UNCHANGED <<inbox, tstate, home, thandle, running, wq>> /\ running[s] = None
    BY <1>6 DEF NoMessage, NothingDone, msgv, taskv, workv, TypeOK, CtlOK
  <2>2. \A q \in Scheds \ {s} : pc'[q] = pc[q]
    BY <1>6, GoOnPlaces DEF NoMessage, NothingDone, TypeOK, CtlOK
  <2> QED
    BY <2>1, <2>2, MailRefl, TaskStay
<1>7. CASE DrainSleepers(s)
  <2>1. /\ UNCHANGED <<tstate, home, thandle, running, wq>> /\ running[s] = None
        /\ \A q \in Scheds \ {s} : pc'[q] = pc[q]
    BY <1>7, GoOnPlaces DEF DrainSleepers, StopSleeping, taskv, workv, TypeOK, CtlOK
  <2>2. \/ UNCHANGED inbox
        \/ Send(inbox, s, Head(sleepers), Msg("Wake", None), <<"temp", s>>, TRUE)
    BY <1>7 DEF DrainSleepers, msgv
  <2>3. inbox \in [Scheds -> Seq(Node)]
    BY DEF TypeOK, MsgOK
  <2>4. \A t \in Tasks : SameMail(inbox, inbox', t)
    BY <1>1, <2>2, <2>3, SendSame, MailRefl
  <2> QED
    BY <2>1, <2>4, TaskStay
<1> QED
  BY <1>2, <1>3, <1>4, <1>5, <1>6, <1>7

\* TaskFromFriend, do_work and an I/O callback hand a task to process_task.
LEMMA TaskWork ==
  ASSUME TypeOK, TaskInv, NEW s \in Scheds,
         \/ TaskFromFriend(s) \/ WorkOwn(s) \/ WorkSteal(s)
         \/ \E u \in Tasks : ReawakenFromLoop(s, u)
  PROVE  TaskInv'
<1>1. inbox \in [Scheds -> Seq(Node)] /\ wq \in [Scheds -> Seq(Tasks)]
  BY DEF TypeOK, MsgOK, WorkOK
<1>2. running[s] = None /\ UNCHANGED thandle
  BY DEF TaskFromFriend, WorkOwn, WorkSteal, ReawakenFromLoop, InLoop, Message, Working, TypeOK, CtlOK
<1>3. CASE TaskFromFriend(s)
  <2>1. /\ inbox[s] # <<>> /\ UNCHANGED <<wq, tstate>>
        /\ Head(inbox[s]).msg.kind \in TaskKinds
        /\ Head(inbox[s]).msg.kind = "TaskFromFriend"
        /\ ProcessTask(Popped(s), s, Arg(s), "keep_going")
    BY <1>3 DEF TaskFromFriend, Message, workv, TaskKinds
  <2>2. PICK u \in Tasks : u = Arg(s)
    BY <2>1, PopTypes DEF TypeOK
  <2>3. s \in MailIn(inbox, u)
    BY <2>1, <2>2, PopTakes
  <2>4. /\ tstate[u] \in Live /\ MailIn(inbox, u) = {s} /\ OnceIn(inbox, u) /\ OnceQueued(u)
        /\ RunningAt(u) = {} /\ QueuedAt(u) = {}
    BY <2>3, TaskFound
  <2>5. /\ MailIn(Popped(s), u) = {} /\ PinnedIn(Popped(s), u) = {} /\ WokenIn(Popped(s), u) = {}
        /\ OnceIn(Popped(s), u) /\ PinnedIn(inbox, u) = {}
    BY <2>1, <2>2, <2>4, PopTakes
  <2>6. /\ home[u] # None /\ (tstate[u] = "fresh" => thandle[u] = None)
        /\ tstate[u] \in {"fresh", "ready", "dying"}
    BY <2>4, <2>5 DEF TaskInv, LifeOf, Live
  <2>7. \A t \in Tasks \ {u} : /\ QueuedAt(t)' = QueuedAt(t) /\ (OnceQueued(t) => OnceQueued(t)')
                               /\ SameMail(inbox, Popped(s), t)
    BY <2>1, <2>2, QueueFrame, PopSame
  <2>8. QueuedAt(u)' = {} /\ OnceQueued(u)'
    BY <2>1, <2>4, QueueFrame
  <2>9. Popped(s) \in [Scheds -> Seq(Node)] /\ ProcessTask(Popped(s), s, u, "keep_going")
    BY <2>1, <2>2, PopTypes DEF TypeOK
  <2> QED
    BY <1>2, <2>1, <2>4, <2>5, <2>6, <2>7, <2>8, <2>9, TaskProcess
<1>4. ASSUME NEW v \in Scheds, wq[v] # <<>>, NEW u \in Tasks,
             \/ u = Last(wq[v]) /\ wq' = [wq EXCEPT ![v] = Front(@)]
             \/ u = Head(wq[v]) /\ wq' = [wq EXCEPT ![v] = Tail(@)],
             ProcessTask(inbox, s, u, "msg2did"), UNCHANGED tstate
      PROVE  TaskInv'
  <2>1. v \in QueuedAt(u)
    BY <1>4, DequeueEffect
  <2>2. /\ tstate[u] \in Live /\ MailIn(inbox, u) = {} /\ RunningAt(u) = {} /\ QueuedAt(u) = {v}
        /\ OnceQueued(u) /\ OnceIn(inbox, u) /\ PinnedIn(inbox, u) = {} /\ WokenIn(inbox, u) = {}
    BY <2>1, TaskFound
  <2>3. home[u] # None
    BY <2>2, TaskFound DEF Live
  <2>4. /\ tstate[u] = "fresh" => thandle[u] = None
        /\ tstate[u] \in {"fresh", "ready", "dying"}
    BY <2>2 DEF TaskInv, LifeOf, Live
  <2>5. QueuedAt(u)' = {} /\ OnceQueued(u)'
    BY <1>4, <2>2, DequeueEffect
  <2>6. \A t \in Tasks \ {u} : /\ QueuedAt(t)' = QueuedAt(t) /\ (OnceQueued(t) => OnceQueued(t)')
                               /\ SameMail(inbox, inbox, t)
    BY <1>4, DequeueEffect, MailRefl
  <2> QED
    BY <1>1, <1>2, <1>4, <2>2, <2>3, <2>4, <2>5, <2>6, TaskProcess
<1>5. CASE WorkOwn(s)
  <2>1. /\ wq[s] # <<>> /\ UNCHANGED tstate /\ wq' = [wq EXCEPT ![s] = Front(@)]
        /\ ProcessTask(inbox, s, Last(wq[s]), "msg2did")
    BY <1>5 DEF WorkOwn
  <2>2. PICK u \in Tasks : u = Last(wq[s])
    BY <1>1, <2>1, FrontLastTypes
  <2> QED
    BY <1>4, <2>1, <2>2
<1>6. CASE WorkSteal(s)
  <2>1. PICK v \in known[s] : /\ wq[v] # <<>> /\ UNCHANGED tstate /\ wq' = [wq EXCEPT ![v] = Tail(@)]
                              /\ ProcessTask(inbox, s, Head(wq[v]), "msg2did")
    BY <1>6 DEF WorkSteal
  <2>2. v \in Scheds
    BY DEF TypeOK, WorkOK
  <2>3. PICK u \in Tasks : u = Head(wq[v])
    BY <1>1, <2>1, <2>2, HeadTailProperties
  <2> QED
    BY <1>4, <2>1, <2>2, <2>3
<1>7. CASE \E u \in Tasks : ReawakenFromLoop(s, u)
  <2>1. PICK u \in Tasks : /\ tstate[u] = "blocked" /\ UNCHANGED wq
                           /\ tstate' = [tstate EXCEPT ![u] = "ready"]
                           /\ ProcessTask(inbox, s, u, "loop")
    BY <1>7 DEF ReawakenFromLoop, workv
  <2>2. tstate'[u] = "ready" /\ \A t \in Tasks \ {u} : tstate'[t] = tstate[t]
    BY <2>1 DEF TypeOK, TaskOK
  <2>3. /\ Nowhere(u) /\ OnceQueued(u) /\ OnceIn(inbox, u)
    BY <2>1, TaskFound DEF Live
  <2>4. /\ RunningAt(u) = {} /\ QueuedAt(u) = {} /\ MailIn(inbox, u) = {}
    BY <2>3 DEF Nowhere
  <2>5. PinnedIn(inbox, u) = {} /\ WokenIn(inbox, u) = {} /\ home[u] # None
    BY <2>1, <2>4, TaskFound
  <2>6. QueuedAt(u)' = {} /\ OnceQueued(u)'
    BY <2>1, <2>3, <2>4, QueueFrame
  <2>7. \A t \in Tasks \ {u} : /\ QueuedAt(t)' = QueuedAt(t) /\ (OnceQueued(t) => OnceQueued(t)')
                               /\ SameMail(inbox, inbox, t)
    BY <2>1, QueueFrame, MailRefl
  <2> QED
    BY <1>1, <1>2, <2>1, <2>2, <2>3, <2>4, <2>5, <2>6, <2>7, TaskProcess
<1> QED
  BY <1>3, <1>5, <1>6, <1>7

\* Each task stays as it is or is again where the invariant wants it.
LEMMA TaskEach ==
  ASSUME TaskInv, \A t \in Tasks : SameTask(t) \/ (PlaceOf(t) /\ LifeOf(t) /\ HomeOf(t))'
  PROVE  TaskInv'
<1> SUFFICES ASSUME NEW t \in Tasks PROVE (PlaceOf(t) /\ LifeOf(t) /\ HomeOf(t))'
  BY DEF TaskInv
<1> QED
  BY TaskFrame DEF TaskInv

\* What the invariant says of the task on a scheduler's thread.
LEMMA TaskOnThread ==
  ASSUME TypeOK, TaskInv, NEW s \in Scheds, NEW t \in Tasks, running[s] = t
  PROVE  /\ tstate[t] \in Live /\ RunningAt(t) = {s} /\ QueuedAt(t) = {} /\ OnceQueued(t)
         /\ MailIn(inbox, t) = {} /\ PinnedIn(inbox, t) = {} /\ WokenIn(inbox, t) = {}
         /\ OnceIn(inbox, t) /\ home[t] # None
         /\ pc[s] = "task" => RunsHere(s, t)
         /\ pc[s] = "reap" => tstate[t] = "dying"
<1>1. s \in RunningAt(t)
  BY DEF RunningAt
<1>2. /\ tstate[t] \in Live /\ RunningAt(t) = {s} /\ QueuedAt(t) = {} /\ OnceQueued(t)
      /\ MailIn(inbox, t) = {} /\ OnceIn(inbox, t)
  BY <1>1, TaskFound
<1>3. PinnedIn(inbox, t) = {} /\ WokenIn(inbox, t) = {} /\ home[t] # None
  BY <1>2, TaskFound DEF Live
<1>4. (pc[s] = "task" => RunsHere(s, t)) /\ (pc[s] = "reap" => tstate[t] = "dying")
  BY <1>1 DEF TaskInv, LifeOf, HomeOf
<1> QED
  BY <1>2, <1>3, <1>4

\* GiveUp clears the thread.
LEMMA GiveUpEffect ==
  ASSUME TypeOK, NEW s \in Scheds, GiveUp(s)
  PROVE  /\ running' = [running EXCEPT ![s] = None]
         /\ \A q \in Scheds \ {s} : pc'[q] = pc[q]
         /\ pc'[s] \notin {"task", "reap"}
  BY GoOnPlaces DEF GiveUp, TypeOK, CtlOK

\* The running task goes to the back of its scheduler's queue, whatever runs
\* there next.
LEMMA TaskEnqueued ==
  ASSUME TypeOK, TaskInv, NEW s \in Scheds, NEW t \in Tasks, running[s] = t, pc[s] = "task",
         tstate[t] = "ready", tstate'[t] = "ready", home'[t] = home[t],
         thandle'[t] = thandle[t] \/ thandle'[t] = s,
         wq' = [wq EXCEPT ![s] = Append(@, t)], UNCHANGED inbox,
         NEW x, x # t, running' = [running EXCEPT ![s] = x]
  PROVE  (PlaceOf(t) /\ LifeOf(t) /\ HomeOf(t))'
<1>1. /\ RunningAt(t) = {s} /\ QueuedAt(t) = {} /\ OnceQueued(t) /\ OnceIn(inbox, t)
      /\ MailIn(inbox, t) = {} /\ PinnedIn(inbox, t) = {} /\ WokenIn(inbox, t) = {}
      /\ home[t] # None /\ RunsHere(s, t)
  BY TaskOnThread
<1>2. QueuedAt(t)' = {s} /\ OnceQueued(t)'
  BY <1>1, QueueEffect
<1>3. RunningAt(t)' = {}
  BY <1>1 DEF RunningAt, TypeOK, CtlOK
<1>4. PlaceOf(t)'
  BY <1>1, <1>2, <1>3 DEF PlaceOf, Somewhere, Live
<1>5. LifeOf(t)'
  BY <1>1, <1>3 DEF LifeOf
<1>6. HomeOf(t)'
  BY <1>1, <1>3 DEF HomeOf, TaskInv, RunsHere
<1> QED
  BY <1>4, <1>5, <1>6

\* run_task: the caller is enqueued and the other task runs, or the other is
\* sent away.
LEMMA TaskRunTask ==
  ASSUME TypeOK, TaskInv, NEW s \in Scheds, NEW t \in Tasks, running[s] = t, pc[s] = "task",
         tstate[t] = "ready", NEW u \in Tasks, tstate[u] \in {"unborn", "blocked"},
         tstate'[u] \in {"fresh", "ready"}, tstate'[u] = "fresh" => tstate[u] = "unborn",
         \A v \in Tasks \ {u} : tstate'[v] = tstate[v],
         RunTask(s, t, u), UNCHANGED <<pc, thandle>>
  PROVE  TaskInv'
<1>1. t # u
  OBVIOUS
<1>2. Nowhere(u) /\ OnceQueued(u) /\ OnceIn(inbox, u)
  BY TaskFound DEF Live
<1>3. RunningAt(u) = {} /\ QueuedAt(u) = {} /\ MailIn(inbox, u) = {}
  BY <1>2 DEF Nowhere
<1>4. PinnedIn(inbox, u) = {} /\ WokenIn(inbox, u) = {} /\ home[u] # None
  BY <1>3, TaskFound
<1>5. tstate'[u] = "fresh" => thandle[u] = None
  BY DEF TaskInv, LifeOf
<1>6. CASE RunsHere(s, u) /\ EnqueueTask(s, t) /\ running' = [running EXCEPT ![s] = u]
           /\ UNCHANGED <<home, inbox>>
  <2>1. wq' = [wq EXCEPT ![s] = Append(@, t)] /\ running' = [running EXCEPT ![s] = u]
    BY <1>6 DEF EnqueueTask
  <2>2. (PlaceOf(t) /\ LifeOf(t) /\ HomeOf(t))'
    BY <1>1, <1>6, <2>1, TaskEnqueued
  <2>3. RunningAt(u)' = {s}
    BY <1>3, <2>1, RunEffect
  <2>4. QueuedAt(u)' = {} /\ OnceQueued(u)'
    BY <1>1, <1>2, <1>3, <2>1, QueueEffect
  <2>5. PlaceOf(u)'
    BY <1>2, <1>3, <1>6, <2>3, <2>4 DEF PlaceOf, Somewhere, Live
  <2>6. LifeOf(u)'
    BY <1>4, <1>5, <1>6, <2>3 DEF LifeOf
  <2>7. HomeOf(u)'
    BY <1>4, <1>6, <2>3 DEF HomeOf, TaskInv, RunsHere
  <2>8. ASSUME NEW v \in Tasks \ {t, u} PROVE SameTask(v)
    <3>1. s \notin RunningAt(v) /\ u # v
      BY DEF RunningAt
    <3>2. RunningAt(v)' = RunningAt(v)
      BY <2>1, <3>1 DEF RunningAt, TypeOK, CtlOK
    <3>3. QueuedAt(v)' = QueuedAt(v) /\ (OnceQueued(v) => OnceQueued(v)')
      BY <2>1, QueueEffect
    <3> QED
      BY <1>6, <3>2, <3>3, MailRefl DEF SameTask
  <2> QED
    BY <2>2, <2>5, <2>6, <2>7, <2>8, TaskEach
<1>7. CASE ~RunsHere(s, u) /\ SendAway(inbox, s, u) /\ UNCHANGED <<running, wq, idle>>
  <2>1. inbox \in [Scheds -> Seq(Node)]
    BY DEF TypeOK, MsgOK
  <2>2. \A v \in Tasks : QueuedAt(v)' = QueuedAt(v) /\ (OnceQueued(v) => OnceQueued(v)')
    BY <1>7, QueueFrame
  <2>3. QueuedAt(u)' = {} /\ OnceQueued(u)'
    BY <1>2, <1>3, <2>2
  <2>4. \A v \in Tasks \ {u} : SameMail(inbox, inbox, v)
    BY MailRefl
  <2>5. tstate'[u] \in {"fresh", "ready", "dying"}
    OBVIOUS
  <2> QED
    BY <1>2, <1>3, <1>4, <1>5, <1>7, <2>1, <2>2, <2>3, <2>4, <2>5, TaskSendAway
<1> QED
  BY <1>6, <1>7 DEF RunTask

\* The end of a task: it leaves its thread for good.
LEMMA TaskReap ==
  ASSUME TypeOK, TaskInv, NEW s \in Scheds, NEW t \in Tasks, Reap(s, t)
  PROVE  TaskInv'
<1>1. /\ running[s] = t /\ pc[s] = "reap" /\ GiveUp(s) /\ UNCHANGED <<wq, inbox>>
      /\ home'[t] = None /\ thandle'[t] = None /\ tstate'[t] = "dead"
      /\ \A v \in Tasks \ {t} : home'[v] = home[v] /\ thandle'[v] = thandle[v] /\ tstate'[v] = tstate[v]
  BY DEF Reap, workv, msgv, TypeOK, TaskOK
<1>2. /\ running' = [running EXCEPT ![s] = None] /\ None # t
      /\ \A q \in Scheds \ {s} : pc'[q] = pc[q]
  BY <1>1, GiveUpEffect, SchedsAssumption
<1>3. /\ RunningAt(t) = {s} /\ QueuedAt(t) = {} /\ OnceQueued(t) /\ OnceIn(inbox, t)
      /\ MailIn(inbox, t) = {} /\ PinnedIn(inbox, t) = {} /\ WokenIn(inbox, t) = {}
  BY <1>1, TaskOnThread
<1>4. RunningAt(t)' = {}
  BY <1>2, <1>3, RunEffect
<1>5. \A v \in Tasks : QueuedAt(v)' = QueuedAt(v) /\ (OnceQueued(v) => OnceQueued(v)')
  BY <1>1, QueueFrame
<1>6. PlaceOf(t)'
  BY <1>1, <1>3, <1>4, <1>5 DEF PlaceOf, Nowhere, Live
<1>7. LifeOf(t)'
  BY <1>1, <1>3, <1>4 DEF LifeOf
<1>8. HomeOf(t)'
  BY <1>1, <1>3, <1>4 DEF HomeOf
<1>9. ASSUME NEW v \in Tasks \ {t} PROVE SameTask(v)
  <2>1. s \notin RunningAt(v) /\ None # v
    BY <1>1, SchedsAssumption DEF RunningAt
  <2>2. RunningAt(v)' = RunningAt(v)
    BY <1>2, <2>1, RunEffect
  <2>3. \A q \in RunningAt(v) : pc'[q] = pc[q]
    BY <1>2, <2>1 DEF RunningAt
  <2> QED
    BY <1>1, <1>5, <2>2, <2>3, MailRefl DEF SameTask
<1> QED
  BY <1>6, <1>7, <1>8, <1>9, TaskMove

\* One step of the running task.
LEMMA TaskTurns ==
  ASSUME TypeOK, TaskInv, NEW s \in Scheds, TaskStep(s)
  PROVE  TaskInv'
<1>1. PICK t \in Tasks :
        \/ Bootstrap(s, t) \/ YieldNow(s, t) \/ Deschedule(s, t) \/ Terminate(s, t)
        \/ \E u \in Tasks : SpawnSibling(s, t, u) \/ Reawaken(s, t, u)
  BY DEF TaskStep
<1>2. pc[s] = "task" /\ running[s] = t /\ t # None
  BY <1>1, SchedsAssumption DEF Bootstrap, YieldNow, Deschedule, Terminate, SpawnSibling, Reawaken, TaskTurn
<1>3. /\ RunningAt(t) = {s} /\ QueuedAt(t) = {} /\ OnceQueued(t) /\ OnceIn(inbox, t)
      /\ MailIn(inbox, t) = {} /\ PinnedIn(inbox, t) = {} /\ WokenIn(inbox, t) = {}
      /\ home[t] # None /\ RunsHere(s, t)
  BY <1>2, TaskOnThread
<1>4. CASE Bootstrap(s, t) \/ Terminate(s, t)
  <2>1. /\ UNCHANGED <<running, wq, inbox, home, thandle>>
        /\ tstate[t] = "ready" \/ tstate'[t] # "dying"
        /\ tstate'[t] \in {"ready", "dying"} /\ (pc'[s] = "reap" => tstate'[t] = "dying")
        /\ \A v \in Tasks \ {t} : tstate'[v] = tstate[v]
        /\ \A q \in Scheds \ {s} : pc'[q] = pc[q]
    BY <1>2, <1>4 DEF Bootstrap, Terminate, TypeOK, TaskOK, CtlOK, ctlv, workv, msgv
  <2>2. \A v \in Tasks : QueuedAt(v)' = QueuedAt(v) /\ (OnceQueued(v) => OnceQueued(v)')
    BY <2>1, QueueFrame
  <2>3. \A v \in Tasks : RunningAt(v)' = RunningAt(v)
    BY <2>1 DEF RunningAt
  <2>4. PlaceOf(t)'
    BY <1>3, <2>1, <2>2, <2>3 DEF PlaceOf, Somewhere, Live
  <2>5. LifeOf(t)'
    BY <1>3, <2>1, <2>3 DEF LifeOf
  <2>6. HomeOf(t)'
    BY <1>3, <2>1, <2>3 DEF HomeOf, TaskInv, RunsHere
  <2>7. \A v \in Tasks \ {t} : SameTask(v)
    BY <1>2, <2>1, <2>2, <2>3, MailRefl DEF SameTask, RunningAt
  <2> QED
    BY <2>4, <2>5, <2>6, <2>7, TaskMove
<1>5. CASE YieldNow(s, t) \/ Deschedule(s, t)
  <2>1. /\ tstate[t] = "ready" /\ GiveUp(s) /\ UNCHANGED <<home, inbox>>
        /\ thandle'[t] = thandle[t] \/ thandle'[t] = s
        /\ \A v \in Tasks \ {t} : thandle'[v] = thandle[v]
    BY <1>5 DEF YieldNow, Deschedule, MakeTaskHandle, TypeOK, TaskOK
  <2>2. /\ running' = [running EXCEPT ![s] = None] /\ None # t
        /\ \A q \in Scheds \ {s} : pc'[q] = pc[q]
    BY <1>2, <2>1, GiveUpEffect
  <2>3. RunningAt(t)' = {}
    BY <1>3, <2>2, RunEffect
  <2>4. ASSUME NEW v \in Tasks \ {t}
        PROVE  RunningAt(v)' = RunningAt(v) /\ \A q \in RunningAt(v) : pc'[q] = pc[q]
    <3>1. s \notin RunningAt(v) /\ None # v
      BY <1>2, SchedsAssumption DEF RunningAt
    <3>2. RunningAt(v)' = RunningAt(v)
      BY <2>2, <3>1, RunEffect
    <3> QED
      BY <2>2, <3>1, <3>2 DEF RunningAt
  <2>5. CASE EnqueueTask(s, t) /\ UNCHANGED tstate
    <3>1. wq' = [wq EXCEPT ![s] = Append(@, t)]
      BY <2>5 DEF EnqueueTask
    <3>2. (PlaceOf(t) /\ LifeOf(t) /\ HomeOf(t))'
      BY <1>2, <2>1, <2>2, <2>5, <3>1, TaskEnqueued
    <3>3. \A v \in Tasks \ {t} : QueuedAt(v)' = QueuedAt(v) /\ (OnceQueued(v) => OnceQueued(v)')
      BY <3>1, QueueEffect
    <3>4. \A v \in Tasks \ {t} : SameTask(v)
      BY <2>1, <2>4, <2>5, <3>3, MailRefl DEF SameTask
    <3> QED
      BY <3>2, <3>4, TaskMove
  <2>6. CASE Deschedule(s, t) /\ tstate' = [tstate EXCEPT ![t] = "blocked"] /\ UNCHANGED wq
    <3>1. \A v \in Tasks : QueuedAt(v)' = QueuedAt(v) /\ (OnceQueued(v) => OnceQueued(v)')
      BY <2>6, QueueFrame
    <3>2. /\ tstate'[t] = "blocked" /\ \A v \in Tasks \ {t} : tstate'[v] = tstate[v]
      BY <2>6 DEF TypeOK, TaskOK
    <3>3. thandle'[t] # None
      BY <2>6, SchedsAssumption DEF Deschedule, MakeTaskHandle, TypeOK, TaskOK, Threads
    <3>4. PlaceOf(t)'
      BY <1>3, <2>1, <2>3, <3>1, <3>2 DEF PlaceOf, Nowhere, Live
    <3>5. LifeOf(t)'
      BY <1>3, <2>1, <2>3, <3>2, <3>3 DEF LifeOf
    <3>6. HomeOf(t)'
      BY <1>3, <2>1, <2>3 DEF HomeOf, TaskInv, RunsHere
    <3>7. \A v \in Tasks \ {t} : SameTask(v)
      BY <2>1, <2>4, <3>1, <3>2, MailRefl DEF SameTask
    <3> QED
      BY <3>4, <3>5, <3>6, <3>7, TaskMove
  <2> QED
    BY <1>5, <2>5, <2>6 DEF YieldNow, Deschedule
<1>6. CASE \E u \in Tasks : SpawnSibling(s, t, u) \/ Reawaken(s, t, u)
  <2>1. PICK u \in Tasks :
          /\ tstate[t] = "ready" /\ tstate[u] \in {"unborn", "blocked"}
          /\ tstate' = [tstate EXCEPT ![u] = IF tstate[u] = "unborn" THEN "fresh" ELSE "ready"]
          /\ RunTask(s, t, u) /\ UNCHANGED <<pc, thandle>>
    BY <1>6 DEF SpawnSibling, Reawaken
  <2>2. /\ tstate'[u] \in {"fresh", "ready"} /\ (tstate'[u] = "fresh" => tstate[u] = "unborn")
        /\ \A v \in Tasks \ {u} : tstate'[v] = tstate[v]
    BY <2>1 DEF TypeOK, TaskOK
  <2> QED
    BY <1>2, <2>1, <2>2, TaskRunTask
<1> QED
  BY <1>1, <1>4, <1>5, <1>6

\* A task that is nowhere is put in a message by another thread: Spawn,
\* SpawnPinned, reawaken_remotely.
LEMMA TaskSent ==
  ASSUME TypeOK, TaskInv, NEW u \in Tasks, tstate[u] \in {"unborn", "blocked"},
         NEW th \in Threads, NEW to \in Scheds,
         NEW m \in SchedMessage, m.kind \in TaskKinds, m.arg = u,
         NEW h, NEW last, Send(inbox, th, to, m, h, last),
         m.kind = "RunOnce" => tstate[u] = "blocked" /\ to = thandle[u],
         m.kind = "PinnedTask" => tstate[u] = "unborn",
         tstate'[u] = IF tstate[u] = "unborn" THEN "fresh" ELSE "ready",
         \A v \in Tasks \ {u} : tstate'[v] = tstate[v],
         UNCHANGED <<pc, running, wq, home, thandle>>
  PROVE  TaskInv'
<1>1. Nowhere(u) /\ OnceQueued(u) /\ OnceIn(inbox, u)
  BY TaskFound DEF Live
<1>2. RunningAt(u) = {} /\ QueuedAt(u) = {} /\ MailIn(inbox, u) = {}
  BY <1>1 DEF Nowhere
<1>3. PinnedIn(inbox, u) = {} /\ WokenIn(inbox, u) = {} /\ home[u] # None
  BY <1>2, TaskFound
<1>4. inbox \in [Scheds -> Seq(Node)]
  BY DEF TypeOK, MsgOK
<1>5. /\ MailIn(inbox', u) = {to} /\ OnceIn(inbox', u)
      /\ m.kind = "PinnedTask" => PinnedIn(inbox', u) = {to}
      /\ m.kind # "PinnedTask" => PinnedIn(inbox', u) = {}
      /\ m.kind = "RunOnce" => WokenIn(inbox', u) = {to}
      /\ m.kind # "RunOnce" => WokenIn(inbox', u) = {}
  BY <1>1, <1>2, <1>4, SendAdds
<1>6. \A v \in Tasks \ {u} : SameMail(inbox, inbox', v)
  BY <1>4, SendSame
<1>7. \A v \in Tasks : /\ QueuedAt(v)' = QueuedAt(v) /\ (OnceQueued(v) => OnceQueued(v)')
                       /\ RunningAt(v)' = RunningAt(v)
  BY QueueFrame DEF RunningAt
<1>8. /\ tstate[u] = "unborn" => home[u] = AnySched /\ thandle[u] = None
      /\ tstate[u] = "blocked" => thandle[u] # None
      /\ thandle[u] # None => RunsHere(thandle[u], u)
      /\ AnySched \notin Scheds
  BY <1>3, SchedsAssumption DEF TaskInv, LifeOf, HomeOf
<1>9. PlaceOf(u)'
  BY <1>1, <1>2, <1>5, <1>7 DEF PlaceOf, Somewhere, Live
<1>10. LifeOf(u)'
  BY <1>2, <1>3, <1>5, <1>7, <1>8 DEF LifeOf
<1>11. HomeOf(u)'
  BY <1>2, <1>5, <1>7, <1>8 DEF HomeOf, RunsHere
<1>12. \A v \in Tasks \ {u} : SameTask(v)
  BY <1>6, <1>7 DEF SameTask
<1> QED
  BY <1>9, <1>10, <1>11, <1>12, TaskMove

\* The steps of the other threads.
LEMMA TaskOthers ==
  ASSUME TypeOK, TaskInv, OwnerStep \/ UserStep \/ ExtStep
  PROVE  TaskInv'
<1>1. Owner \in Threads /\ Ext \in Threads /\ inbox \in [Scheds -> Seq(Node)]
  BY DEF Threads, TypeOK, MsgOK
<1>2. ASSUME NEW m \in SchedMessage, m.kind \notin TaskKinds, NEW to, NEW h, NEW last,
             Send(inbox, Owner, to, m, h, last), UNCHANGED <<ctlv, workv, taskv>>
      PROVE  TaskInv'
  <2>1. \A t \in Tasks : SameMail(inbox, inbox', t)
    BY <1>1, <1>2, SendSame
  <2> QED
    BY <1>2, <2>1, TaskStay DEF ctlv, workv, taskv
<1>3. ASSUME NEW th \in {Owner, Ext}, LinkAndFire(th) PROVE TaskInv'
  BY <1>1, <1>3, LinkSame, TaskStay DEF LinkAndFire, ctlv, workv, taskv
<1>4. CASE SendNewNeighbor
  <2>1. /\ newS \in Scheds /\ Msg("NewNeighbor", newS) \in SchedMessage
        /\ Msg("NewNeighbor", newS).kind \notin TaskKinds
    BY <1>4, MsgTypes DEF SendNewNeighbor, OwnerAt, TypeOK, PoolOK, Msg, TaskKinds
  <2> QED
    BY <1>2, <1>4, <2>1 DEF SendNewNeighbor
<1>5. CASE SendShutdown
  <2>1. Msg("Shutdown", None) \in SchedMessage /\ Msg("Shutdown", None).kind \notin TaskKinds
    BY MsgTypes DEF Msg, TaskKinds
  <2>2. CASE oi <= Len(pool)
    BY <1>2, <1>5, <2>1, <2>2 DEF SendShutdown
  <2>3. CASE ~(oi <= Len(pool))
    BY <1>5, <2>3, MailRefl, TaskStay DEF SendShutdown, ctlv, workv, taskv, msgv
  <2> QED
    BY <2>2, <2>3
<1>6. CASE StartSched
  <2>1. newS \in Scheds /\ running[newS] = None
    BY <1>6 DEF StartSched, OwnerAt, TypeOK, PoolOK, CtlOK
  <2>2. \A s \in Scheds : running[s] # None => pc'[s] = pc[s]
    BY <1>6, <2>1 DEF StartSched, TypeOK, CtlOK
  <2>3. UNCHANGED <<tstate, home, thandle, running, wq, inbox>>
    BY <1>6 DEF StartSched, taskv, msgv
  <2> QED
    BY <2>2, <2>3, MailRefl, TaskStay
<1>7. CASE WaitForTasks \/ RecvDone \/ JoinThreads \/ StartShutdown
           \/ \E s \in Scheds : SpawnSched(s) \/ DropUser(s)
  <2>1. UNCHANGED <<ctlv, workv, taskv, msgv>>
    BY <1>7 DEF WaitForTasks, RecvDone, JoinThreads, StartShutdown, SpawnSched, DropUser
  <2> QED
    BY <2>1, MailRefl, TaskStay DEF ctlv, workv, taskv, msgv
<1>8. ASSUME NEW t \in Tasks, Spawn(t) PROVE TaskInv'
  <2> DEFINE m == Msg("TaskFromFriend", t)
  <2>1. /\ m \in SchedMessage /\ m.kind \in TaskKinds /\ m.arg = t
        /\ m.kind # "RunOnce" /\ m.kind # "PinnedTask"
    BY MsgTypes DEF Msg, TaskKinds
  <2>2. pool[next_friend] \in Scheds
    BY LenProperties, ElementOfSeq DEF TypeOK, PoolOK
  <2>3. /\ Send(inbox, Owner, pool[next_friend], m, <<"pool", None>>, FALSE)
        /\ tstate[t] = "unborn" /\ tstate'[t] = "fresh"
        /\ \A v \in Tasks \ {t} : tstate'[v] = tstate[v]
        /\ UNCHANGED <<pc, running, wq, home, thandle>>
    BY <1>8 DEF Spawn, ctlv, workv, TypeOK, TaskOK
  <2> HIDE DEF m
  <2> QED
    BY <1>1, <2>1, <2>2, <2>3, TaskSent
<1>9. ASSUME NEW t \in Tasks, NEW s \in Scheds, SpawnPinned(t, s) PROVE TaskInv'
  <2> DEFINE m == Msg("PinnedTask", t)
  <2>1. /\ m \in SchedMessage /\ m.kind \in TaskKinds /\ m.arg = t
        /\ m.kind # "RunOnce"
    BY MsgTypes DEF Msg, TaskKinds
  <2>2. /\ Send(inbox, Owner, s, m, <<"user", None>>, FALSE)
        /\ tstate[t] = "unborn" /\ tstate'[t] = "fresh"
        /\ \A v \in Tasks \ {t} : tstate'[v] = tstate[v]
        /\ UNCHANGED <<pc, running, wq, home, thandle>>
    BY <1>9 DEF SpawnPinned, ctlv, workv, TypeOK, TaskOK
  <2> HIDE DEF m
  <2> QED
    BY <1>1, <2>1, <2>2, TaskSent
<1>10. ASSUME NEW u \in Tasks, ReawakenRemotely(u) PROVE TaskInv'
  <2> DEFINE m == Msg("RunOnce", u)
  <2>1. /\ m \in SchedMessage /\ m.kind \in TaskKinds /\ m.arg = u
        /\ m.kind # "PinnedTask"
    BY MsgTypes DEF Msg, TaskKinds
  <2>2. /\ Send(inbox, Ext, thandle[u], m, <<"task", u>>, FALSE)
        /\ tstate[u] = "blocked" /\ tstate'[u] = "ready"
        /\ \A v \in Tasks \ {u} : tstate'[v] = tstate[v]
        /\ UNCHANGED <<pc, running, wq, home, thandle>>
    BY <1>10 DEF ReawakenRemotely, ctlv, workv, TypeOK, TaskOK
  <2>3. thandle[u] \in Scheds
    BY <2>2 DEF TaskInv, LifeOf, TypeOK, TaskOK
  <2> HIDE DEF m
  <2> QED
    BY <1>1, <2>1, <2>2, <2>3, TaskSent
<1> QED
  BY <1>3, <1>4, <1>5, <1>6, <1>7, <1>8, <1>9, <1>10 DEF OwnerStep, UserStep, ExtStep

\* Every step keeps every task in its place.
LEMMA TaskNext == TypeOK /\ TaskInv /\ [Next]_vars => TaskInv'
<1> SUFFICES ASSUME TypeOK, TaskInv, [Next]_vars PROVE TaskInv'
  OBVIOUS
<1>1. CASE UNCHANGED vars
  BY <1>1, MailRefl, TaskStay DEF vars, ctlv, workv, taskv, msgv
<1>2. ASSUME NEW s \in Scheds, SchedStep(s) PROVE TaskInv'
  BY <1>2, TaskRest, TaskWork, TaskResume, TaskReap DEF SchedStep
<1> QED
  BY <1>1, <1>2, TaskTurns, TaskWork, TaskOthers DEF Next, Finished

\* No task exists before it is spawned.
LEMMA TaskInit == Init => TaskInv
<1> SUFFICES ASSUME Init, NEW t \in Tasks PROVE PlaceOf(t) /\ LifeOf(t) /\ HomeOf(t)
  BY DEF TaskInv
<1>1. /\ \A s \in Scheds : running[s] = None /\ wq[s] = <<>> /\ inbox[s] = <<>>
      /\ tstate[t] = "unborn" /\ home[t] = AnySched /\ thandle[t] = None
      /\ t # None /\ AnySched # None
  BY SchedsAssumption DEF Init
<1>2. RunningAt(t) = {} /\ QueuedAt(t) = {} /\ OnceQueued(t)
  BY <1>1, EmptyHas DEF RunningAt, QueuedAt, OnceQueued
<1>3. MailIn(inbox, t) = {} /\ PinnedIn(inbox, t) = {} /\ WokenIn(inbox, t) = {} /\ OnceIn(inbox, t)
  BY <1>1, EmptyHas DEF MailIn, PinnedIn, WokenIn, OnceIn
<1> QED
  BY <1>1, <1>2, <1>3 DEF PlaceOf, LifeOf, HomeOf, Nowhere, Live

\* The invariant of the tasks holds throughout.
LEMMA TaskInvariant == Spec => []TaskInv
<1>1. TypeOK /\ TaskInv /\ [Next]_vars => TaskInv'
  BY TaskNext
<1> QED
  BY <1>1, TaskInit, TypeCorrect, PTL DEF Spec

\* A task in one place is in one place of OneOwner's list.
LEMMA CountPlaces ==
  ASSUME TypeOK, TaskInv, NEW t \in Tasks
  PROVE  Cardinality(Places(t)) = IF tstate[t] \in Live THEN 1 ELSE 0
<1>1. PlaceOf(t) /\ inbox \in [Scheds -> Seq(Node)]
  BY DEF TaskInv, TypeOK, MsgOK
<1> DEFINE R == {<<"running", s, 1>> : s \in {x \in Scheds : running[x] = t}}
           W(s) == {<<"wq", s, i>> : i \in {j \in DOMAIN wq[s] : wq[s][j] = t}}
           M(s) == {<<"inbox", s, i>> : i \in {j \in DOMAIN inbox[s] :
                      inbox[s][j].msg.kind \in TaskKinds /\ inbox[s][j].msg.arg = t}}
<1>2. ASSUME NEW p
      PROVE  p \in Places(t) <=> \/ p \in R
                                 \/ \E s \in Scheds : p \in W(s)
                                 \/ \E s \in Scheds : p \in M(s)
  <2>1. p \in UNION {W(s) : s \in Scheds} <=> \E s \in Scheds : p \in W(s)
    OBVIOUS
  <2>2. p \in UNION {M(s) : s \in Scheds} <=> \E s \in Scheds : p \in M(s)
    OBVIOUS
  <2>3. p \in Places(t) <=> \/ p \in R
                           \/ p \in UNION {W(s) : s \in Scheds}
                           \/ p \in UNION {M(s) : s \in Scheds}
    BY DEF Places
  <2> QED
    BY <2>1, <2>2, <2>3
<1>3. \A s \in Scheds : \A i \in DOMAIN inbox[s] : inbox[s][i] \in Node
  BY <1>1, ElementOfSeq, LenProperties
<1>4. \A s \in Scheds : \A i \in DOMAIN inbox[s] :
        (inbox[s][i].msg.kind \in TaskKinds /\ inbox[s][i].msg.arg = t) <=> inbox[s][i] \in TaskNodes(t)
  BY <1>3 DEF TaskNodes
<1>5. /\ RunningAt(t) = {} => R = {}
      /\ \A s : RunningAt(t) = {s} => R = {<<"running", s, 1>>}
  BY DEF RunningAt
<1>6. /\ \A s \in Scheds : s \notin QueuedAt(t) => W(s) = {}
      /\ \A s \in QueuedAt(t) : \E i : W(s) = {<<"wq", s, i>>}
  <2>1. \A s \in Scheds : s \notin QueuedAt(t) => W(s) = {}
    BY DEF QueuedAt, Has
  <2>2. ASSUME NEW s \in QueuedAt(t) PROVE \E i : W(s) = {<<"wq", s, i>>}
    <3>1. PICK i \in DOMAIN wq[s] : wq[s][i] = t
      BY DEF QueuedAt, Has
    <3>2. \A j \in DOMAIN wq[s] : wq[s][j] = t => j = i
      BY <1>1, <3>1 DEF PlaceOf, OnceQueued, Once, QueuedAt
    <3>3. {j \in DOMAIN wq[s] : wq[s][j] = t} = {i}
      BY <3>1, <3>2
    <3> QED
      BY <3>3
  <2> QED
    BY <2>1, <2>2
<1>7. /\ \A s \in Scheds : s \notin MailIn(inbox, t) => M(s) = {}
      /\ \A s \in MailIn(inbox, t) : \E i : M(s) = {<<"inbox", s, i>>}
  <2>1. \A s \in Scheds : s \notin MailIn(inbox, t) => M(s) = {}
    BY <1>4 DEF MailIn, Has
  <2>2. ASSUME NEW s \in MailIn(inbox, t) PROVE \E i : M(s) = {<<"inbox", s, i>>}
    <3>1. PICK i \in DOMAIN inbox[s] : inbox[s][i] \in TaskNodes(t)
      BY DEF MailIn, Has
    <3>2. s \in Scheds /\ \A j \in DOMAIN inbox[s] : inbox[s][j] \in TaskNodes(t) => j = i
      BY <1>1, <3>1 DEF PlaceOf, OnceIn, Once, MailIn
    <3>3. {j \in DOMAIN inbox[s] : inbox[s][j].msg.kind \in TaskKinds /\ inbox[s][j].msg.arg = t} = {i}
      BY <1>4, <3>1, <3>2
    <3> QED
      BY <3>3
  <2> QED
    BY <2>1, <2>2
<1> HIDE DEF R, W, M
<1>8. CASE tstate[t] \notin Live
  <2>1. RunningAt(t) = {} /\ QueuedAt(t) = {} /\ MailIn(inbox, t) = {}
    BY <1>1, <1>8 DEF PlaceOf, Nowhere
  <2>2. Places(t) = {}
    BY <1>2, <1>5, <1>6, <1>7, <2>1
  <2> QED
    BY <1>8, <2>2, FS_EmptySet
<1>9. CASE tstate[t] \in Live
  <2>1. PICK s \in Scheds :
        \/ RunningAt(t) = {s} /\ QueuedAt(t) = {} /\ MailIn(inbox, t) = {}
        \/ RunningAt(t) = {} /\ QueuedAt(t) = {s} /\ MailIn(inbox, t) = {}
        \/ RunningAt(t) = {} /\ QueuedAt(t) = {} /\ MailIn(inbox, t) = {s}
    BY <1>1, <1>9 DEF PlaceOf, Somewhere
  <2>2. PICK p : Places(t) = {p}
    <3>1. CASE RunningAt(t) = {s} /\ QueuedAt(t) = {} /\ MailIn(inbox, t) = {}
      <4>1. /\ R = {<<"running", s, 1>>} /\ (\A q \in Scheds : W(q) = {})
            /\ \A q \in Scheds : M(q) = {}
        BY <1>5, <1>6, <1>7, <3>1
      <4>2. Places(t) = R
        BY <1>2, <4>1
      <4> QED
        BY <4>1, <4>2
    <3>2. CASE RunningAt(t) = {} /\ QueuedAt(t) = {s} /\ MailIn(inbox, t) = {}
      <4>1. PICK i : W(s) = {<<"wq", s, i>>}
        BY <1>6, <3>2
      <4>2. R = {} /\ (\A q \in Scheds \ {s} : W(q) = {}) /\ \A q \in Scheds : M(q) = {}
        BY <1>5, <1>6, <1>7, <3>2
      <4>3. Places(t) = W(s)
        BY <1>2, <4>2
      <4> QED
        BY <4>1, <4>3
    <3>3. CASE RunningAt(t) = {} /\ QueuedAt(t) = {} /\ MailIn(inbox, t) = {s}
      <4>1. PICK i : M(s) = {<<"inbox", s, i>>}
        BY <1>7, <3>3
      <4>2. R = {} /\ (\A q \in Scheds \ {s} : M(q) = {}) /\ \A q \in Scheds : W(q) = {}
        BY <1>5, <1>6, <1>7, <3>3
      <4>3. Places(t) = M(s)
        BY <1>2, <4>2
      <4> QED
        BY <4>1, <4>3
    <3> QED
      BY <2>1, <3>1, <3>2, <3>3
  <2> QED
    BY <1>9, <2>2, FS_Singleton
<1> QED
  BY <1>8, <1>9

\* A task that can run is in exactly one place - on one thread, once on one
\* work queue or in one message - and one that cannot is in none: no steal,
\* switch, send or wake loses a task or hands it to two schedulers.
THEOREM TasksHaveOneOwner == Spec => []OneOwner
<1>1. TypeOK /\ TaskInv => OneOwner
  BY CountPlaces DEF OneOwner, Live
<1> QED
  BY <1>1, TypeCorrect, TaskInvariant, PTL

\* A task only ever executes on a scheduler that may run it, a pinned one on
\* its home: also after RunOnce, which resumes the task without a look at its
\* home, because the handle of a blocked task stays appropriate for it.
THEOREM TasksRunWhereTheyMay == Spec => []AppropriateSched
<1>1. TypeOK /\ TaskInv => AppropriateSched
  <2> SUFFICES ASSUME TypeOK, TaskInv, NEW s \in Scheds, pc[s] = "task"
               PROVE  RunsHere(s, running[s])
    BY DEF AppropriateSched
  <2>1. running[s] \in Tasks
    BY DEF TypeOK, CtlOK
  <2> QED
    BY <2>1, TaskOnThread
<1> QED
  BY <1>1, TypeCorrect, TaskInvariant, PTL

-------------------------------------------------------------------------------
(* The count of tasks.  decrement() announces the 0 only on the way down, so *)
(* a waiting owner has to be told of every 0 that its wait may have missed.  *)

Counted == {t \in Tasks : tstate[t] \in {"ready", "blocked"}}

CountInv ==
    /\ cnt = Cardinality(Counted)
    /\ \A s \in Scheds : note[s] => pc[s] = "reap"
    /\ NoLostDone

\* Which threads a scheduler's step moves, and when it leaves the loop or a
\* dead task.
LEMMA SchedPlaces ==
  ASSUME TypeOK, NEW s \in Scheds, SchedStep(s)
  PROVE  /\ \A q \in Scheds \ {s} : pc'[q] = pc[q]
         /\ pc[s] = "reap" => pc'[s] = "reap" \/ ~note[s]
         /\ pc[s] \in {"off", "stopped"} => pc'[s] = pc[s]
         /\ pc'[s] = "off" => pc[s] = "off"
         /\ pc'[s] = "stopped" /\ pc[s] # "stopped" => LoopExit(s)
<1>1. CASE LinkAndFire(s) \/ PickSleeper(s) \/ NotifyDone(s)
  BY <1>1 DEF LinkAndFire, PickSleeper, NotifyDone, ctlv
<1>2. CASE LoopEvent(s) \/ LoopIdle(s)
  BY <1>2 DEF LoopEvent, LoopIdle, EnterSched, InLoop, TypeOK, CtlOK
<1>3. CASE LoopExit(s)
  BY <1>3 DEF LoopExit, InLoop, TypeOK, CtlOK
<1>4. CASE PinnedTask(s) \/ RunOnce(s)
  BY <1>4 DEF PinnedTask, RunOnce, Message, ResumeTask, TypeOK, CtlOK
<1>5. CASE TaskFromFriend(s)
  <2>1. ProcessTask(Popped(s), s, Arg(s), "keep_going") /\ pc[s] \in {"msg1", "msg2", "msg2did"}
    BY <1>5 DEF TaskFromFriend, Message
  <2> QED
    BY <2>1, ProcessPlaces
<1>6. CASE Wake(s) \/ Shutdown(s) \/ DrainSleepers(s)
  <2>1. GoOn(s, "keep_going") \/ pc' = [pc EXCEPT ![s] = "drain"] \/ UNCHANGED pc
    BY <1>6 DEF Wake, Shutdown, DrainSleepers, StopSleeping
  <2>2. pc[s] \in {"msg1", "msg2", "msg2did", "drain"}
    BY <1>6 DEF Wake, Shutdown, DrainSleepers, Message
  <2> QED
    BY <2>1, <2>2, GoOnPlaces DEF TypeOK, CtlOK
<1>7. CASE NewNeighbor(s) \/ NoMessage(s)
  <2>1. NothingDone(s) /\ pc[s] \in {"msg1", "msg2", "msg2did"}
    BY <1>7 DEF NewNeighbor, NoMessage, Message
  <2> QED
    BY <2>1, NothingDonePlaces DEF TypeOK
<1>8. CASE WorkOwn(s)
  <2>1. ProcessTask(inbox, s, Last(wq[s]), "msg2did") /\ pc[s] = "work"
    BY <1>8 DEF WorkOwn, Working
  <2> QED
    BY <2>1, ProcessPlaces
<1>9. CASE WorkSteal(s)
  <2>1. PICK v \in known[s] : ProcessTask(inbox, s, Head(wq[v]), "msg2did")
    BY <1>9 DEF WorkSteal
  <2>2. pc[s] = "work"
    BY <1>9 DEF WorkSteal, Working
  <2> QED
    BY <2>1, <2>2, ProcessPlaces
<1>10. CASE WorkNone(s) \/ GoToSleep(s) \/ FillSleeper(s)
  BY <1>10 DEF WorkNone, GoToSleep, FillSleeper, StopIdling, Working, TypeOK, CtlOK
<1>11. CASE \E t \in Tasks : Reap(s, t)
  <2>1. GiveUp(s) /\ pc[s] = "reap" /\ ~note[s]
    BY <1>11 DEF Reap
  <2>2. after[s] \in {"keep_going", "msg2did", "loop"}
    BY DEF TypeOK, CtlOK
  <2> QED
    BY <2>1, <2>2, GoOnPlaces DEF GiveUp, TypeOK
<1> QED
  BY <1>1, <1>2, <1>3, <1>4, <1>5, <1>6, <1>7, <1>8, <1>9, <1>10, <1>11 DEF SchedStep

\* The same for a step of the running task.
LEMMA TurnPlaces ==
  ASSUME TypeOK, NEW s \in Scheds, TaskStep(s)
  PROVE  /\ \A q \in Scheds \ {s} : pc'[q] = pc[q]
         /\ pc[s] = "task" /\ pc'[s] \notin {"off", "stopped"}
<1>1. PICK t \in Tasks :
        \/ Bootstrap(s, t) \/ YieldNow(s, t) \/ Deschedule(s, t) \/ Terminate(s, t)
        \/ \E u \in Tasks : SpawnSibling(s, t, u) \/ Reawaken(s, t, u)
  BY DEF TaskStep
<1>2. pc[s] = "task"
  BY <1>1 DEF Bootstrap, YieldNow, Deschedule, Terminate, SpawnSibling, Reawaken, TaskTurn
<1>3. CASE Bootstrap(s, t) \/ Terminate(s, t) \/ \E u \in Tasks : SpawnSibling(s, t, u) \/ Reawaken(s, t, u)
  BY <1>2, <1>3 DEF Bootstrap, Terminate, SpawnSibling, Reawaken, ctlv, TypeOK, CtlOK
<1>4. CASE YieldNow(s, t) \/ Deschedule(s, t)
  <2>1. GiveUp(s)
    BY <1>4 DEF YieldNow, Deschedule
  <2>2. after[s] \in {"keep_going", "msg2did", "loop"}
    BY DEF TypeOK, CtlOK
  <2> QED
    BY <1>2, <2>1, <2>2, GoOnPlaces DEF GiveUp, TypeOK
<1> QED
  BY <1>1, <1>2, <1>3, <1>4

\* A step that counts no task in or out.
LEMMA CountFrame ==
  ASSUME CountInv, UNCHANGED <<cnt, note, doneMsgs>>, Counted' = Counted,
         \A s \in Scheds : pc[s] = "reap" => pc'[s] = "reap" \/ ~note[s],
         opc' = "recv" /\ cnt = 0 => opc = "recv"
  PROVE  CountInv'
  BY DEF CountInv, NoLostDone

\* One step of a scheduler's thread.
LEMMA CountSched ==
  ASSUME TypeOK, TaskInv, CountInv, NEW s \in Scheds, SchedStep(s)
  PROVE  CountInv'
<1>1. \A q \in Scheds : pc[q] = "reap" => pc'[q] = "reap" \/ ~note[q]
  BY SchedPlaces
<1>2. CASE NotifyDone(s)
  BY <1>2 DEF NotifyDone, CountInv, NoLostDone, Counted, taskv, TypeOK, CtlOK, PoolOK
<1>3. ASSUME NEW t \in Tasks, Reap(s, t) PROVE CountInv'
  <2>1. tstate[t] = "dying"
    BY <1>3, TaskOnThread DEF Reap
  <2>2. Counted' = Counted
    BY <1>3, <2>1 DEF Reap, Counted, TypeOK, TaskOK
  <2> QED
    BY <1>1, <1>3, <2>2, CountFrame DEF Reap, poolv
<1>4. CASE ~NotifyDone(s) /\ ~\E t \in Tasks : Reap(s, t)
  <2>1. UNCHANGED <<cnt, note, doneMsgs, opc, tstate>>
    BY <1>4 DEF SchedStep, LinkAndFire, PickSleeper, LoopEvent, LoopIdle, LoopExit, PinnedTask,
       TaskFromFriend, RunOnce, Wake, Shutdown, DrainSleepers, NewNeighbor, NoMessage, WorkOwn,
       WorkSteal, WorkNone, GoToSleep, FillSleeper, StopIdling, poolv, ctlv, taskv
  <2> QED
    BY <1>1, <2>1, CountFrame DEF Counted
<1> QED
  BY <1>2, <1>3, <1>4

\* One step of the running task: the only one that counts.
LEMMA CountTask ==
  ASSUME TypeOK, TaskInv, CountInv, NEW s \in Scheds, TaskStep(s)
  PROVE  CountInv'
<1>1. PICK t \in Tasks :
        \/ Bootstrap(s, t) \/ YieldNow(s, t) \/ Deschedule(s, t) \/ Terminate(s, t)
        \/ \E u \in Tasks : SpawnSibling(s, t, u) \/ Reawaken(s, t, u)
  BY DEF TaskStep
<1>2. \A q \in Scheds : pc[q] = "reap" => pc'[q] = "reap"
  BY TurnPlaces
<1>3. IsFiniteSet(Counted) /\ Cardinality(Counted) \in Nat
  BY FS_Subset, FS_CardinalityType, SchedsAssumption DEF Counted
<1>4. CASE Bootstrap(s, t)
  <2>1. Counted' = Counted \cup {t} /\ t \notin Counted
    BY <1>4 DEF Bootstrap, Counted, TypeOK, TaskOK
  <2>2. Cardinality(Counted') = Cardinality(Counted) + 1
    BY <1>3, <2>1, FS_AddElement
  <2> QED
    BY <1>3, <1>4, <2>2 DEF Bootstrap, CountInv, NoLostDone, ctlv
<1>5. CASE Terminate(s, t)
  <2>1. Counted' = Counted \ {t} /\ t \in Counted
    BY <1>5 DEF Terminate, Counted, TypeOK, TaskOK
  <2>2. Cardinality(Counted') = Cardinality(Counted) - 1
    BY <1>3, <2>1, FS_RemoveElement
  <2>3. /\ cnt' = cnt - 1 /\ pc'[s] = "reap"
        /\ \A q \in Scheds \ {s} : note'[q] = note[q] /\ pc'[q] = pc[q]
    BY <1>5 DEF Terminate, TypeOK, CtlOK
  <2>4. cnt = 1 => note'[s]
    BY <1>5 DEF Terminate, TypeOK, CtlOK
  <2>5. cnt' = Cardinality(Counted')
    BY <1>3, <2>2, <2>3 DEF CountInv
  <2>6. \A q \in Scheds : note'[q] => pc'[q] = "reap"
    BY <2>3 DEF CountInv
  <2>7. cnt' = 0 => note'[s]
    BY <1>3, <2>3, <2>4 DEF CountInv
  <2> QED
    BY <2>5, <2>6, <2>7 DEF CountInv, NoLostDone
<1>6. CASE YieldNow(s, t) \/ Deschedule(s, t)
           \/ \E u \in Tasks : SpawnSibling(s, t, u) \/ Reawaken(s, t, u)
  <2>1. Counted' = Counted /\ UNCHANGED <<cnt, note, doneMsgs, opc>>
    BY <1>6 DEF YieldNow, Deschedule, SpawnSibling, Reawaken, Counted, TypeOK, TaskOK, poolv
  <2> QED
    BY <1>2, <2>1, CountFrame
<1> QED
  BY <1>1, <1>4, <1>5, <1>6

\* The other threads: shutdown waits for a message only while the count is
\* not 0.
LEMMA CountOthers ==
  ASSUME TypeOK, CountInv, OwnerStep \/ UserStep \/ ExtStep
  PROVE  CountInv'
<1>1. Counted' = Counted
  BY DEF OwnerStep, UserStep, ExtStep, LinkAndFire, SendNewNeighbor, StartSched, WaitForTasks,
     RecvDone, SendShutdown, JoinThreads, StartShutdown, Spawn, SpawnPinned, SpawnSched,
     DropUser, ReawakenRemotely, taskv, Counted, TypeOK, TaskOK
<1>2. UNCHANGED <<cnt, note>>
  BY DEF OwnerStep, UserStep, ExtStep, LinkAndFire, SendNewNeighbor, StartSched, WaitForTasks,
     RecvDone, SendShutdown, JoinThreads, StartShutdown, Spawn, SpawnPinned, SpawnSched,
     DropUser, ReawakenRemotely, ctlv, poolv
<1>3. \A q \in Scheds : pc[q] = "reap" => pc'[q] = "reap"
  BY DEF OwnerStep, UserStep, ExtStep, LinkAndFire, SendNewNeighbor, StartSched, WaitForTasks,
     RecvDone, SendShutdown, JoinThreads, StartShutdown, Spawn, SpawnPinned, SpawnSched,
     DropUser, ReawakenRemotely, ctlv, OwnerAt, TypeOK, CtlOK, PoolOK
<1>4. opc' = "recv" => UNCHANGED doneMsgs /\ (opc = "recv" \/ cnt # 0)
  BY DEF OwnerStep, UserStep, ExtStep, LinkAndFire, SendNewNeighbor, StartSched, WaitForTasks,
     RecvDone, SendShutdown, JoinThreads, StartShutdown, Spawn, SpawnPinned, SpawnSched,
     DropUser, ReawakenRemotely, poolv, OwnerAt
<1> QED
  BY <1>1, <1>2, <1>3, <1>4 DEF CountInv, NoLostDone

\* The count of tasks is exact throughout.
LEMMA CountInvariant == Spec => []CountInv
<1>1. Init => CountInv
  <2> SUFFICES ASSUME Init PROVE CountInv
    OBVIOUS
  <2>1. Counted = {}
    BY DEF Init, Counted
  <2> QED
    BY <2>1, FS_EmptySet DEF Init, CountInv, NoLostDone
<1>2. TypeOK /\ TaskInv /\ CountInv /\ [Next]_vars => CountInv'
  <2> SUFFICES ASSUME TypeOK, TaskInv, CountInv, [Next]_vars PROVE CountInv'
    OBVIOUS
  <2>1. CASE UNCHANGED vars
    BY <2>1 DEF vars, ctlv, taskv, poolv, CountInv, NoLostDone, Counted
  <2>2. ASSUME NEW s \in Scheds, NEW u \in Tasks, ReawakenFromLoop(s, u) PROVE CountInv'
    <3>1. \A q \in Scheds : pc[q] = "reap" => pc'[q] = "reap"
      BY <2>2, ProcessPlaces DEF ReawakenFromLoop, InLoop
    <3>2. Counted' = Counted /\ UNCHANGED <<cnt, note, doneMsgs, opc>>
      BY <2>2 DEF ReawakenFromLoop, Counted, TypeOK, TaskOK, poolv
    <3> QED
      BY <3>1, <3>2, CountFrame
  <2> QED
    BY <2>1, <2>2, CountSched, CountTask, CountOthers DEF Next, Finished
<1> QED
  BY <1>1, <1>2, TypeCorrect, TaskInvariant, PTL DEF Spec

\* Whenever the owner waits in recv for a count that is already 0, the
\* message that ends the wait is buffered or about to be sent: decrement
\* cannot take the count to 0 unnoticed between the check and the recv.
THEOREM DoneIsAnnounced == Spec => []NoLostDone
<1>1. CountInv => NoLostDone
  BY DEF CountInv
<1> QED
  BY <1>1, CountInvariant, PTL

\* The count of tasks is exact: it counts the tasks that have run and not
\* ended, neither those still in their first message nor the dead.
THEOREM CountIsExact ==
  Spec => [](cnt = Cardinality({t \in Tasks : tstate[t] \in {"ready", "blocked"}}))
<1>1. CountInv => cnt = Cardinality({t \in Tasks : tstate[t] \in {"ready", "blocked"}})
  BY DEF CountInv, Counted
<1> QED
  BY <1>1, CountInvariant, PTL

===============================================================================

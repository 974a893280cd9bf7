------------------------------ MODULE GreenSched ------------------------------
(***************************************************************************)
(* The M:N scheduler of libgreen: a pool of schedulers (one OS thread and  *)
(* one event loop each) that run, steal, pin, block and wake green tasks.  *)
(*                                                                         *)
(* Each scheduler thread is a small program counter over run_sched_once    *)
(* (sched.rs) and the loop that calls it (basic.rs, or librustuv's loop    *)
(* when Uv).  A SchedHandle::send is not atomic: the sender reserves a     *)
(* place in the receiver's queue, links the node, and only then fires the  *)
(* remote callback, and other threads run in between.  Two more threads    *)
(* take part: Owner, which holds the SchedPool, and Ext, a native thread   *)
(* that wakes blocked tasks (GreenTask::reawaken_remotely).                *)
(***************************************************************************)
EXTENDS Integers, FiniteSets, SequencesExt

CONSTANTS
    Scheds,     \* every scheduler that may ever exist in the pool
    Tasks,      \* every green task that may ever be spawned
    PoolTasks,  \* those the owner of the pool may spawn itself
    InitPool,   \* the schedulers SchedPool::new starts, in order
    InitUser,   \* schedulers to which the program already holds a handle
    Friend,     \* friend_handle of each scheduler, None = run_anything
    Uv,         \* TRUE: librustuv's event loop, FALSE: BasicLoop
    ActiveIO,   \* what has_active_io may answer
    MaxFuel,    \* bound on the yields and blocks of all tasks together
    Owner, Ext, \* the thread of the SchedPool, a native waker thread
    AnySched,        \* Home::AnySched
    None        \* Option::None

Threads == Scheds \cup {Owner, Ext}

ASSUME SchedsAssumption ==
    /\ IsFiniteSet(Scheds) /\ IsFiniteSet(Tasks)
    /\ {Owner, Ext} \cap Scheds = {} /\ Owner # Ext
    /\ AnySched \notin Scheds /\ AnySched # None
    /\ None \notin Threads /\ None \notin Tasks
ASSUME PoolAssumption ==
    /\ InitPool \in Seq(Scheds) /\ InitPool # <<>> /\ IsInjective(InitPool)
    /\ InitUser \subseteq Range(InitPool) /\ PoolTasks \subseteq Tasks
ASSUME FriendAssumption ==
    /\ Friend \in [Scheds -> Scheds \cup {None}]
    /\ \A s \in Scheds : Friend[s] # None =>
          /\ {s, Friend[s]} \subseteq Range(InitPool)
          /\ Friend[Friend[s]] = None
ASSUME LoopAssumption ==
    /\ Uv \in BOOLEAN /\ ActiveIO \subseteq BOOLEAN /\ FALSE \in ActiveIO
    /\ MaxFuel \in Nat

VARIABLES
    \* the scheduler thread
    pc,         \* where run_sched_once, or the loop that calls it, is
    after,      \* where it resumes when the task it switched to gives up
    running,    \* the task whose context is on the thread, or None
    stealYield, \* steal_for_yield
    note,       \* decrement() took the task count to 0: done.send is due
    \* its event loop
    evq,        \* remote callbacks to run and remotes to remove
    remotes,    \* remote handles registered with the loop
    idle,       \* idle_callback is resumed
    \* what schedulers share
    wq,         \* work_queue, bottom last
    known,      \* work_queues: whose queues this scheduler may steal from
    sleepy, nosleep, sleepers,
    inbox,      \* message_queue; by # None is a node not linked yet
    out,        \* the send() each thread is in the middle of
    \* green tasks
    tstate, home, thandle, fuel,
    \* SchedPool and TaskState
    opc, oi, pool, next_friend, userh, newS, cnt, doneMsgs

ctlv   == <<pc, after, running, stealYield, note>>
loopv  == <<evq, remotes, idle>>
workv  == <<wq, known>>
sleepv == <<sleepy, nosleep, sleepers>>
msgv   == <<inbox, out>>
taskv  == <<tstate, home, thandle, fuel>>
poolv  == <<opc, oi, pool, next_friend, userh, newS, cnt, doneMsgs>>
vars   == <<ctlv, loopv, workv, sleepv, msgv, taskv, poolv>>

-------------------------------------------------------------------------------
(* Values *)

TaskKinds == {"PinnedTask", "TaskFromFriend", "RunOnce"}
SchedMessage == [kind : TaskKinds, arg : Tasks]
                \cup [kind : {"NewNeighbor"}, arg : Scheds]
                \cup [kind : {"Wake", "Shutdown"}, arg : {None}]
Msg(k, a) == [kind |-> k, arg |-> a]
NoMsg == Msg("none", None)

\* Which remote callback of a scheduler a handle owns: libuv merges the
\* pending sends of one handle, never those of two.  To BasicLoop they are
\* all alike: its remote ids only choose which SchedRunner is called.
Handles == {"pool", "user", "friend", "task", "temp"}
             \X (Scheds \cup Tasks \cup {None})
Event == [h : Handles, ev : {"RunRemote", "RemoveRemote"}]
Id(h) == IF Uv THEN h ELSE <<"temp", None>>
RunRemote(h)    == [h |-> Id(h), ev |-> "RunRemote"]
RemoveRemote(h) == [h |-> Id(h), ev |-> "RemoveRemote"]

\* The stages of a send in progress.  "pick" is enqueue_task about to look
\* for a sleeper; last = TRUE drops the handle once the message is sent.
Sending == [stage : {"link"}, to : Scheds \cup {None},
            msg : SchedMessage, h : Handles, last : BOOLEAN]
NotSending(st) == [stage |-> st, to |-> None, msg |-> NoMsg,
                   h |-> <<"temp", None>>, last |-> FALSE]
Quiet(th) == out[th].stage = "none"

\* A node of a message queue; by # None while its sender has not linked it.
Node == [msg : SchedMessage, by : Threads \cup {None}]

\* "msg1" is the first look at the message queue, "msg2" and "msg2did" the one
\* after do_work, which found nothing or something.
PC == {"off", "loop", "msg1", "work", "msg2", "msg2did", "sleep", "fill", "drain",
       "task", "reap", "stopped"}
TState == {"unborn", "fresh", "ready", "blocked", "dying", "dead"}

CtlOK ==
    /\ pc \in [Scheds -> PC]
    /\ after \in [Scheds -> {"keep_going", "msg2did", "loop"}]
    /\ stealYield \in [Scheds -> BOOLEAN] /\ note \in [Scheds -> BOOLEAN]
    /\ running \in [Scheds -> Tasks \cup {None}]
    /\ \A s \in Scheds : (running[s] # None) <=> (pc[s] \in {"task", "reap"})
LoopOK ==
    /\ evq \in [Scheds -> Seq(Event)]
    /\ remotes \in [Scheds -> Int] /\ idle \in [Scheds -> BOOLEAN]
WorkOK == wq \in [Scheds -> Seq(Tasks)] /\ known \in [Scheds -> SUBSET Scheds]
SleepOK ==
    /\ sleepy \in [Scheds -> BOOLEAN] /\ nosleep \in [Scheds -> BOOLEAN]
    /\ sleepers \in Seq(Scheds)
MsgOK ==
    /\ inbox \in [Scheds -> Seq(Node)]
    /\ out \in [Threads -> Sending \cup {NotSending("none"), NotSending("pick")}]
TaskOK ==
    /\ tstate \in [Tasks -> TState]
    /\ home \in [Tasks -> Scheds \cup {AnySched, None}]
    /\ thandle \in [Tasks -> Scheds \cup {None}]
    /\ fuel \in 0 .. MaxFuel
PoolOK ==
    /\ opc \in {"open", "nn", "wait", "recv", "send", "join", "done"}
    /\ oi \in Nat \ {0} /\ pool \in Seq(Scheds) /\ next_friend \in 1 .. Len(pool)
    /\ userh \subseteq Scheds /\ newS \in Scheds \cup {None}
    /\ cnt \in Int /\ doneMsgs \in Nat
    /\ opc = "nn" => newS \in Scheds /\ pc[newS] = "off"

\* Types, and the ties that hold between two variables at every step: a
\* scheduler has a task on its thread exactly when its context is switched
\* away, and the scheduler spawn_sched is building has not started.
TypeOK == CtlOK /\ LoopOK /\ WorkOK /\ SleepOK /\ MsgOK /\ TaskOK /\ PoolOK

\* SchedPool::new: one scheduler per thread, each with a handle in the pool
\* and a stealer for every queue; bootstrap resumes the idle callback before
\* it runs the loop.
Init ==
    LET started == Range(InitPool) IN
    /\ pc = [s \in Scheds |-> IF s \in started THEN "loop" ELSE "off"]
    /\ after = [s \in Scheds |-> "loop"]
    /\ stealYield = [s \in Scheds |-> FALSE]
    /\ note = [s \in Scheds |-> FALSE] /\ running = [s \in Scheds |-> None]
    /\ evq = [s \in Scheds |-> <<>>]
    /\ remotes = [s \in Scheds |-> IF s \in started
                    THEN 1 + Cardinality({q \in Scheds : Friend[q] = s})
                           + (IF s \in InitUser THEN 1 ELSE 0) ELSE 0]
    /\ idle = [s \in Scheds |-> s \in started]
    /\ wq = [s \in Scheds |-> <<>>]
    /\ known = [s \in Scheds |-> IF s \in started THEN started ELSE {}]
    /\ sleepy = [s \in Scheds |-> FALSE] /\ nosleep = [s \in Scheds |-> FALSE]
    /\ sleepers = <<>>
    /\ inbox = [s \in Scheds |-> <<>>]
    /\ out = [th \in Threads |-> NotSending("none")]
    /\ tstate = [t \in Tasks |-> "unborn"] /\ home = [t \in Tasks |-> AnySched]
    /\ thandle = [t \in Tasks |-> None] /\ fuel = MaxFuel
    /\ opc = "open" /\ oi = 1 /\ pool = InitPool /\ next_friend = 1
    /\ userh = InitUser /\ newS = None /\ cnt = 0 /\ doneMsgs = 0

-------------------------------------------------------------------------------
(* SchedHandle::send: push on the mpsc queue, then fire the remote callback *)

\* Mutant: send forgets remote.fire().
FiredNever(q, h) == q

\* RemoteCallback::fire.  BasicLoop queues one message per call; libuv runs
\* the callback at least once after the call, so a pending one is enough.
Fired(q, h) == IF Uv /\ RunRemote(h) \in Range(q) THEN q
               ELSE Append(q, RunRemote(h))

\* Dropping a remote handle.  BasicLoop queues RemoveRemote behind the
\* handle's own messages; Async::drop sets the exit flag and sends, and the
\* callback that sees the flag, perhaps a pending one, runs and then closes.
Dropped(q, h) ==
    IF Uv /\ RunRemote(h) \in Range(q)
    THEN [i \in DOMAIN q |-> IF q[i] = RunRemote(h) THEN RemoveRemote(h) ELSE q[i]]
    ELSE Append(q, RemoveRemote(h))

\* Queue::push, first half: swap the head.  A consumer that reaches this
\* node now sees Inconsistent, and does not see the nodes behind it.  This
\* step is taken with the one that decides on the message; inb is the
\* message queues as that step leaves them.
Send(inb, th, to, m, h, last) ==
    /\ out' = [out EXCEPT ![th] = [stage |-> "link", to |-> to, msg |-> m,
                                   h |-> h, last |-> last]]
    /\ inbox' = [inb EXCEPT ![to] = Append(@, [msg |-> m, by |-> th])]

\* Second half: store the predecessor's next pointer, then fire, then drop
\* the handle if it was made for this message only.
Linked(q, th) == [i \in DOMAIN q |-> IF q[i].by = th THEN [q[i] EXCEPT !.by = None]
                                     ELSE q[i]]
LinkAndFire(th) ==
    /\ out[th].stage = "link"
    /\ inbox' = [inbox EXCEPT ![out[th].to] = Linked(@, th)]
    /\ evq' = [evq EXCEPT ![out[th].to] =
                 IF out[th].last THEN Dropped(Fired(@, out[th].h), out[th].h)
                 ELSE Fired(@, out[th].h)]
    /\ out' = [out EXCEPT ![th] = NotSending("none")]
    /\ UNCHANGED <<ctlv, remotes, idle, workv, sleepv, taskv, poolv>>

\* A pop of the sleeper list finds nothing: it is empty, or the oldest handle is
\* not filled in yet, which hides those behind it too.
NoneAsleep == sleepers = <<>> \/ pc[Head(sleepers)] = "fill"

\* Mutant: the handle popped from the sleeper list is leaked after the send.
PickSleeperLeaks(s) ==
    /\ out[s].stage = "pick"
    /\ IF NoneAsleep
       THEN out' = [out EXCEPT ![s] = NotSending("none")] /\ UNCHANGED <<sleepers, inbox>>
       ELSE /\ Send(inbox, s, Head(sleepers), Msg("Wake", None), <<"temp", s>>, FALSE)
            /\ sleepers' = Tail(sleepers)
    /\ UNCHANGED <<ctlv, loopv, workv, sleepy, nosleep, taskv, poolv>>

\* The rest of enqueue_task once the task is on the queue: take a handle off
\* the sleeper list, if there is one, send Wake through it and drop it.
PickSleeper(s) ==
    /\ out[s].stage = "pick"
    /\ IF NoneAsleep
       THEN out' = [out EXCEPT ![s] = NotSending("none")] /\ UNCHANGED <<sleepers, inbox>>
       ELSE /\ Send(inbox, s, Head(sleepers), Msg("Wake", None), <<"temp", s>>, TRUE)
            /\ sleepers' = Tail(sleepers)
    /\ UNCHANGED <<ctlv, loopv, workv, sleepy, nosleep, taskv, poolv>>

-------------------------------------------------------------------------------
(* The event loop of a scheduler.  BasicLoop runs the remote callbacks that *)
(* are pending and then the idle callback, libuv the other way round: here  *)
(* the idle callback, while active, may come between any two of them.       *)

InLoop(s) == pc[s] = "loop" /\ Quiet(s)

\* run_sched_once is entered: the idle callback is resumed first.
EnterSched(s) ==
    /\ pc' = [pc EXCEPT ![s] = "msg1"]
    /\ idle' = [idle EXCEPT ![s] = TRUE]

\* Mutant: a callback that sees the exit flag closes the handle without
\* running what was pending.
LoopEventClosesFirst(s) ==
    /\ InLoop(s)
    /\ \E i \in DOMAIN evq[s] :
         /\ Uv \/ i = 1
         /\ evq' = [evq EXCEPT ![s] = RemoveAt(@, i)]
         /\ LET removed == evq[s][i].ev = "RemoveRemote" IN
            /\ remotes' = [remotes EXCEPT ![s] = IF removed THEN @ - 1 ELSE @]
            /\ IF removed THEN UNCHANGED <<pc, idle>> ELSE EnterSched(s)
    /\ UNCHANGED <<after, running, stealYield, note, workv, sleepv, msgv, taskv, poolv>>

\* One pending callback: BasicLoop takes them in order, libuv in the order
\* of its handles, which is any order here.
LoopEvent(s) ==
    /\ InLoop(s)
    /\ \E i \in DOMAIN evq[s] :
         /\ Uv \/ i = 1
         /\ evq' = [evq EXCEPT ![s] = RemoveAt(@, i)]
         /\ LET removed == evq[s][i].ev = "RemoveRemote" IN
            /\ remotes' = [remotes EXCEPT ![s] = IF removed THEN @ - 1 ELSE @]
            /\ IF removed /\ ~Uv THEN UNCHANGED <<pc, idle>> ELSE EnterSched(s)
    /\ UNCHANGED <<after, running, stealYield, note, workv, sleepv, msgv, taskv, poolv>>

LoopIdle(s) ==
    /\ InLoop(s) /\ idle[s] /\ EnterSched(s)
    /\ UNCHANGED <<after, running, stealYield, note, evq, remotes, workv, sleepv,
                   msgv, taskv, poolv>>

\* Mutant: the loop also returns when one handle is left.
LoopExitEarly(s) ==
    /\ InLoop(s) /\ remotes[s] <= 1 /\ ~idle[s]
    /\ pc' = [pc EXCEPT ![s] = "stopped"]
    /\ evq' = IF Friend[s] = None THEN evq
              ELSE [evq EXCEPT ![Friend[s]] = Dropped(@, <<"friend", s>>)]
    /\ UNCHANGED <<after, running, stealYield, note, remotes, idle, workv, sleepv,
                   msgv, taskv, poolv>>

\* Mutant: the dropped Scheduler leaks its friend handle.
LoopExitLeaks(s) ==
    /\ InLoop(s) /\ remotes[s] = 0 /\ ~idle[s]
    /\ pc' = [pc EXCEPT ![s] = "stopped"]
    /\ evq' = evq
    /\ UNCHANGED <<after, running, stealYield, note, remotes, idle, workv, sleepv,
                   msgv, taskv, poolv>>

\* No handle is left and the idle callback is paused: the loop returns,
\* bootstrap ends and the Scheduler, with its friend handle, is dropped.
LoopExit(s) ==
    /\ InLoop(s) /\ remotes[s] = 0 /\ ~idle[s]
    /\ pc' = [pc EXCEPT ![s] = "stopped"]
    /\ evq' = IF Friend[s] = None THEN evq
              ELSE [evq EXCEPT ![Friend[s]] = Dropped(@, <<"friend", s>>)]
    /\ UNCHANGED <<after, running, stealYield, note, remotes, idle, workv, sleepv,
                   msgv, taskv, poolv>>

-------------------------------------------------------------------------------
(* Routing: process_task, send_task_home, send_to_friend, enqueue_task *)

RunsHere(s, t) == home[t] = s \/ (home[t] = AnySched /\ Friend[s] = None)

\* The task goes to its home through the handle it carries (taken out of the
\* task and dropped after the send) or to the scheduler's friend.
SendAway(inb, s, t) ==
    IF home[t] \in Scheds
    THEN /\ Send(inb, s, home[t], Msg("PinnedTask", t), <<"temp", s>>, TRUE)
         /\ home' = [home EXCEPT ![t] = None]
    ELSE /\ Send(inb, s, Friend[s], Msg("TaskFromFriend", t), <<"friend", s>>, FALSE)
         /\ UNCHANGED home

\* The scheduler switches to t and continues at next when it comes back.
ResumeTask(s, t, next) ==
    /\ running' = [running EXCEPT ![s] = t]
    /\ pc' = [pc EXCEPT ![s] = "task"]
    /\ after' = [after EXCEPT ![s] = next]

\* Where run_sched_once goes on.  After some work (keep_going) that is more
\* work, or back to the loop, idle callback still active, when there is I/O
\* to poll for.
Goes(next) == IF next = "keep_going"
              THEN {IF io THEN "loop" ELSE "work" : io \in ActiveIO} ELSE {next}
GoOn(s, next) == \E p \in Goes(next) : pc' = [pc EXCEPT ![s] = p]

\* process_task called from the scheduler's own context.
ProcessTask(inb, s, t, next) ==
    \/ /\ RunsHere(s, t) /\ ResumeTask(s, t, next)
       /\ inbox' = inb /\ UNCHANGED <<out, home>>
    \/ /\ ~RunsHere(s, t) /\ SendAway(inb, s, t)
       /\ GoOn(s, next) /\ UNCHANGED <<running, after>>

EnqueueTask(s, t) ==
    /\ wq' = [wq EXCEPT ![s] = Append(@, t)]
    /\ idle' = [idle EXCEPT ![s] = TRUE]
    /\ out' = [out EXCEPT ![s] = NotSending("pick")]

-------------------------------------------------------------------------------
(* interpret_message_queue *)

\* The oldest message, when its node is linked, is popped.
Message(s, kind) ==
    /\ pc[s] \in {"msg1", "msg2", "msg2did"} /\ Quiet(s)
    /\ inbox[s] # <<>> /\ Head(inbox[s]).by = None
    /\ Head(inbox[s]).msg.kind = kind
Popped(s) == [inbox EXCEPT ![s] = Tail(@)]
Arg(s) == Head(inbox[s]).msg.arg

\* Nothing was done: the first check falls through to do_work, the second
\* ends the round, and the scheduler sleeps unless do_work found something.
NothingDone(s) ==
    /\ GoOn(s, CASE pc[s] = "msg1" -> "work" [] pc[s] = "msg2" -> "sleep"
                 [] pc[s] = "msg2did" -> "keep_going")
    /\ UNCHANGED <<after, running>>

\* A pinned task gets its home here and runs at once.
PinnedTask(s) ==
    /\ Message(s, "PinnedTask") /\ inbox' = Popped(s)
    /\ home' = [home EXCEPT ![Arg(s)] = s]
    /\ remotes' = [remotes EXCEPT ![s] = @ + 1]
    /\ ResumeTask(s, Arg(s), "keep_going")
    /\ UNCHANGED <<stealYield, note, evq, idle, workv, sleepv, out,
                   tstate, thandle, fuel, poolv>>

TaskFromFriend(s) ==
    /\ Message(s, "TaskFromFriend")
    /\ ProcessTask(Popped(s), s, Arg(s), "keep_going")
    /\ UNCHANGED <<stealYield, note, loopv, workv, sleepv, tstate, thandle,
                   fuel, poolv>>

\* RunOnce bypasses process_task: the task runs here whatever its home is.
RunOnce(s) ==
    /\ Message(s, "RunOnce") /\ inbox' = Popped(s)
    /\ ResumeTask(s, Arg(s), "keep_going")
    /\ UNCHANGED <<stealYield, note, loopv, workv, sleepv, out, taskv, poolv>>

Wake(s) ==
    /\ Message(s, "Wake") /\ inbox' = Popped(s)
    /\ sleepy' = [sleepy EXCEPT ![s] = FALSE]
    /\ GoOn(s, "keep_going")
    /\ UNCHANGED <<after, running, stealYield, note, loopv, workv, nosleep,
                   sleepers, out, taskv, poolv>>

\* Shutdown empties the sleeper list first if a handle of this scheduler may
\* be on it.
StopSleeping(s) ==
    /\ nosleep' = [nosleep EXCEPT ![s] = TRUE]
    /\ sleepy' = [sleepy EXCEPT ![s] = FALSE]
    /\ GoOn(s, "keep_going")
\* Mutant: the sleeper list is not drained.
ShutdownNoDrain(s) ==
    /\ Message(s, "Shutdown") /\ inbox' = Popped(s) /\ StopSleeping(s)
    /\ UNCHANGED <<after, running, stealYield, note, loopv, workv, sleepers,
                   out, taskv, poolv>>

Shutdown(s) ==
    /\ Message(s, "Shutdown") /\ inbox' = Popped(s)
    /\ IF sleepy[s] THEN /\ pc' = [pc EXCEPT ![s] = "drain"]
                         /\ UNCHANGED <<nosleep, sleepy>>
       ELSE StopSleeping(s)
    /\ UNCHANGED <<after, running, stealYield, note, loopv, workv, sleepers,
                   out, taskv, poolv>>

DrainSleepers(s) ==
    /\ pc[s] = "drain" /\ Quiet(s)
    /\ IF NoneAsleep
       THEN StopSleeping(s) /\ UNCHANGED <<sleepers, msgv>>
       ELSE /\ Send(inbox, s, Head(sleepers), Msg("Wake", None), <<"temp", s>>, TRUE)
            /\ sleepers' = Tail(sleepers) /\ UNCHANGED <<pc, nosleep, sleepy>>
    /\ UNCHANGED <<after, running, stealYield, note, loopv, workv, taskv, poolv>>

\* The only message that does not count as work.
NewNeighbor(s) ==
    /\ Message(s, "NewNeighbor") /\ inbox' = Popped(s) /\ NothingDone(s)
    /\ known' = [known EXCEPT ![s] = @ \cup {Arg(s)}]
    /\ UNCHANGED <<stealYield, note, loopv, wq, sleepv, out, taskv, poolv>>

\* Empty and Inconsistent are treated alike.
NoMessage(s) ==
    /\ pc[s] \in {"msg1", "msg2", "msg2did"} /\ Quiet(s)
    /\ inbox[s] # <<>> => Head(inbox[s]).by # None
    /\ NothingDone(s)
    /\ UNCHANGED <<stealYield, note, loopv, workv, sleepv, msgv, taskv, poolv>>

-------------------------------------------------------------------------------
(* do_work, find_work and try_steals *)

Working(s) == pc[s] = "work" /\ Quiet(s)

\* The owner pops the youngest task of its own queue, unless it has just
\* yielded and must steal first.
WorkOwn(s) ==
    /\ Working(s) /\ ~stealYield[s] /\ wq[s] # <<>>
    /\ wq' = [wq EXCEPT ![s] = Front(@)]
    /\ ProcessTask(inbox, s, Last(wq[s]), "msg2did")
    /\ UNCHANGED <<stealYield, note, loopv, known, sleepv, tstate,
                   thandle, fuel, poolv>>

\* Mutant: the thief returns the task although it lost the race for it.
WorkStealRace(s) ==
    /\ Working(s) /\ (stealYield[s] \/ wq[s] = <<>>)
    /\ \E q \in known[s] :
         /\ wq[q] # <<>>
         /\ ProcessTask(inbox, s, Head(wq[q]), "msg2did")
    /\ stealYield' = [stealYield EXCEPT ![s] = FALSE]
    /\ UNCHANGED <<note, loopv, workv, sleepv, tstate, thandle, fuel, poolv>>

\* A thief takes the oldest task of any queue it knows, its own included.
WorkSteal(s) ==
    /\ Working(s) /\ (stealYield[s] \/ wq[s] = <<>>)
    /\ \E q \in known[s] :
         /\ wq[q] # <<>>
         /\ wq' = [wq EXCEPT ![q] = Tail(@)]
         /\ ProcessTask(inbox, s, Head(wq[q]), "msg2did")
    /\ stealYield' = [stealYield EXCEPT ![s] = FALSE]
    /\ UNCHANGED <<note, loopv, known, sleepv, tstate, thandle, fuel, poolv>>

\* A round of steals looks at each queue once and gives up where it loses a
\* race, so it may find nothing while another thread is about.
StealsMayFail(s) ==
    \/ \A q \in known[s] : wq[q] = <<>>
    \/ \E q \in Scheds \ {s} : pc[q] \notin {"off", "stopped"}
\* Mutant: a failed round of steals is tried again.
WorkNoneSpins(s) ==
    /\ Working(s) /\ (stealYield[s] \/ wq[s] = <<>>) /\ StealsMayFail(s)
    /\ stealYield' = [stealYield EXCEPT ![s] = FALSE]
    /\ UNCHANGED <<pc, after, running, note, loopv, workv, sleepv, msgv, taskv, poolv>>

\* Mutant: after a failed steal the own queue is not looked at.
WorkNoneOnce(s) ==
    /\ Working(s) /\ (stealYield[s] \/ wq[s] = <<>>) /\ StealsMayFail(s)
    /\ pc' = [pc EXCEPT ![s] = "msg2"]
    /\ stealYield' = [stealYield EXCEPT ![s] = FALSE]
    /\ UNCHANGED <<after, running, note, loopv, workv, sleepv, msgv, taskv, poolv>>

WorkNone(s) ==
    /\ Working(s) /\ (stealYield[s] \/ wq[s] = <<>>) /\ StealsMayFail(s)
    /\ pc' = [pc EXCEPT ![s] = IF stealYield[s] THEN "work" ELSE "msg2"]
    /\ stealYield' = [stealYield EXCEPT ![s] = FALSE]
    /\ UNCHANGED <<after, running, note, loopv, workv, sleepv, msgv, taskv, poolv>>

\* The idle callback is paused, and the loop goes on.
StopIdling(s) == idle' = [idle EXCEPT ![s] = FALSE] /\ pc' = [pc EXCEPT ![s] = "loop"]

\* Mutant: no_sleep is not checked.
GoToSleepLate(s) ==
    /\ pc[s] = "sleep" /\ Quiet(s)
    /\ IF ~sleepy[s]
       THEN /\ sleepy' = [sleepy EXCEPT ![s] = TRUE]
            /\ sleepers' = Append(sleepers, s)
            /\ remotes' = [remotes EXCEPT ![s] = @ + 1]
            /\ pc' = [pc EXCEPT ![s] = "fill"] /\ UNCHANGED idle
       ELSE /\ StopIdling(s) /\ UNCHANGED <<sleepy, sleepers, remotes>>
    /\ UNCHANGED <<after, running, stealYield, note, evq, workv,
                   nosleep, msgv, taskv, poolv>>

\* Mutant: the idle callback is not paused.
GoToSleepSpins(s) ==
    /\ pc[s] = "sleep" /\ Quiet(s)
    /\ IF ~sleepy[s] /\ ~nosleep[s]
       THEN /\ sleepy' = [sleepy EXCEPT ![s] = TRUE]
            /\ sleepers' = Append(sleepers, s)
            /\ remotes' = [remotes EXCEPT ![s] = @ + 1]
            /\ pc' = [pc EXCEPT ![s] = "fill"]
       ELSE /\ pc' = [pc EXCEPT ![s] = "loop"] /\ UNCHANGED <<sleepy, sleepers, remotes>>
    /\ UNCHANGED <<after, running, stealYield, note, evq, idle, workv,
                   nosleep, msgv, taskv, poolv>>

\* Mutant: sleepy is not checked.
GoToSleepAgain(s) ==
    /\ pc[s] = "sleep" /\ Quiet(s)
    /\ IF ~nosleep[s]
       THEN /\ sleepy' = [sleepy EXCEPT ![s] = TRUE]
            /\ sleepers' = Append(sleepers, s)
            /\ remotes' = [remotes EXCEPT ![s] = @ + 1]
            /\ pc' = [pc EXCEPT ![s] = "fill"] /\ UNCHANGED idle
       ELSE /\ StopIdling(s) /\ UNCHANGED <<sleepy, sleepers, remotes>>
    /\ UNCHANGED <<after, running, stealYield, note, evq, workv,
                   nosleep, msgv, taskv, poolv>>

\* The end of run_sched_once when nothing was done.
GoToSleep(s) ==
    /\ pc[s] = "sleep" /\ Quiet(s)
    /\ IF ~sleepy[s] /\ ~nosleep[s]
       THEN /\ sleepy' = [sleepy EXCEPT ![s] = TRUE]
            /\ sleepers' = Append(sleepers, s)
            /\ remotes' = [remotes EXCEPT ![s] = @ + 1]
            /\ pc' = [pc EXCEPT ![s] = "fill"] /\ UNCHANGED idle
       ELSE /\ StopIdling(s) /\ UNCHANGED <<sleepy, sleepers, remotes>>
    /\ UNCHANGED <<after, running, stealYield, note, evq, workv,
                   nosleep, msgv, taskv, poolv>>

\* The push fills in the place it took, and is over.
FillSleeper(s) ==
    /\ pc[s] = "fill" /\ StopIdling(s)
    /\ UNCHANGED <<after, running, stealYield, note, evq, remotes, workv, sleepv, msgv,
                   taskv, poolv>>

-------------------------------------------------------------------------------
(* What the running task does.  It bounces on its deschedule lock first, so *)
(* it waits for a remote waker still inside the send that woke it.          *)

Locked(t) == ~Quiet(Ext) /\ out[Ext].msg.arg = t
TaskTurn(s, t) == /\ pc[s] = "task" /\ Quiet(s) /\ running[s] = t /\ ~Locked(t)

\* Mutant: the thread's task is not cleared when its context is left.
GiveUpKeeps(s) == /\ UNCHANGED running
                  /\ GoOn(s, after[s]) /\ after' = [after EXCEPT ![s] = "loop"]

\* Control goes back to the scheduler's context.
GiveUp(s) == /\ running' = [running EXCEPT ![s] = None]
             /\ GoOn(s, after[s]) /\ after' = [after EXCEPT ![s] = "loop"]
Burn == fuel > 0 /\ fuel' = fuel - 1

\* First code of a new task (after the cleanup job of the context switch,
\* which is part of the switch here): only now is the task counted.
Bootstrap(s, t) ==
    /\ TaskTurn(s, t) /\ tstate[t] = "fresh"
    /\ tstate' = [tstate EXCEPT ![t] = "ready"]
    /\ cnt' = cnt + 1
    /\ UNCHANGED <<ctlv, loopv, workv, sleepv, msgv, home, thandle, fuel, opc,
                   oi, pool, next_friend, userh, newS, doneMsgs>>

\* Mutant: the task that hands over is not enqueued.
RunTaskForgets(s, t, u) ==
    \/ /\ RunsHere(s, u) /\ running' = [running EXCEPT ![s] = u]
       /\ UNCHANGED <<home, inbox, wq, idle, out>>
    \/ ~RunsHere(s, u) /\ SendAway(inbox, s, u) /\ UNCHANGED <<running, wq, idle>>

\* Mutant: the woken task is run without a look at its home.
RunTaskAnywhere(s, t, u) ==
    /\ EnqueueTask(s, t) /\ running' = [running EXCEPT ![s] = u]
    /\ UNCHANGED <<home, inbox>>

\* run_task: t hands its thread to u, or sends u away and goes on.
RunTask(s, t, u) ==
    \/ /\ RunsHere(s, u) /\ EnqueueTask(s, t)
       /\ running' = [running EXCEPT ![s] = u] /\ UNCHANGED <<home, inbox>>
    \/ ~RunsHere(s, u) /\ SendAway(inbox, s, u) /\ UNCHANGED <<running, wq, idle>>

\* spawn_opts: a sibling, created without a home, is switched to.
SpawnSibling(s, t, u) ==
    /\ TaskTurn(s, t) /\ tstate[t] = "ready" /\ tstate[u] = "unborn"
    /\ tstate' = [tstate EXCEPT ![u] = "fresh"]
    /\ RunTask(s, t, u)
    /\ UNCHANGED <<pc, after, stealYield, note, evq, remotes, known,
                   sleepv, thandle, fuel, poolv>>

YieldNow(s, t) ==
    /\ TaskTurn(s, t) /\ tstate[t] = "ready" /\ Burn
    /\ stealYield' = [stealYield EXCEPT ![s] = TRUE]
    /\ GiveUp(s) /\ EnqueueTask(s, t)
    /\ UNCHANGED <<note, evq, remotes, known, sleepv, inbox,
                   tstate, home, thandle, poolv>>

\* deschedule: the first time, a handle back to this scheduler is made.
MakeTaskHandle(s, t) ==
    IF thandle[t] = None
    THEN /\ thandle' = [thandle EXCEPT ![t] = s]
         /\ remotes' = [remotes EXCEPT ![s] = @ + 1]
    ELSE UNCHANGED <<thandle, remotes>>

\* The closure keeps the blocked task, or gives it back and it is enqueued.
Deschedule(s, t) ==
    /\ TaskTurn(s, t) /\ tstate[t] = "ready" /\ Burn
    /\ MakeTaskHandle(s, t) /\ GiveUp(s)
    /\ \/ /\ tstate' = [tstate EXCEPT ![t] = "blocked"]
          /\ UNCHANGED <<wq, idle, out>>
       \/ EnqueueTask(s, t) /\ UNCHANGED tstate
    /\ UNCHANGED <<stealYield, note, evq, known, sleepv, inbox, home, poolv>>

\* reawaken called by a task of the same pool.
Reawaken(s, t, u) ==
    /\ TaskTurn(s, t) /\ tstate[t] = "ready" /\ tstate[u] = "blocked"
    /\ tstate' = [tstate EXCEPT ![u] = "ready"]
    /\ RunTask(s, t, u)
    /\ UNCHANGED <<pc, after, stealYield, note, evq, remotes, known,
                   sleepv, thandle, fuel, poolv>>

\* reawaken called from an I/O callback, that is, by the scheduler's task.
ReawakenFromLoop(s, u) ==
    /\ Uv /\ InLoop(s) /\ tstate[u] = "blocked"
    /\ tstate' = [tstate EXCEPT ![u] = "ready"]
    /\ ProcessTask(inbox, s, u, "loop")
    /\ UNCHANGED <<stealYield, note, loopv, workv, sleepv, thandle, fuel, poolv>>

\* reawaken_remotely called by a native thread.
ReawakenRemotely(u) ==
    /\ Quiet(Ext) /\ tstate[u] = "blocked"
    /\ tstate' = [tstate EXCEPT ![u] = "ready"]
    /\ Send(inbox, Ext, thandle[u], Msg("RunOnce", u), <<"task", u>>, FALSE)
    /\ UNCHANGED <<ctlv, loopv, workv, sleepv, home, thandle, fuel, poolv>>

\* Mutant: fetch_sub is taken to return the new value.
TerminateOffByOne(s, t) ==
    /\ TaskTurn(s, t) /\ tstate[t] = "ready"
    /\ tstate' = [tstate EXCEPT ![t] = "dying"]
    /\ pc' = [pc EXCEPT ![s] = "reap"]
    /\ cnt' = cnt - 1 /\ note' = [note EXCEPT ![s] = (cnt = 0)]
    /\ UNCHANGED <<after, running, stealYield, loopv, workv, sleepv, msgv,
                   home, thandle, fuel, opc, oi, pool, next_friend, userh, newS,
                   doneMsgs>>

\* terminate_current_task: TaskState::decrement, then the dead task is
\* dropped with the handles it holds.
Terminate(s, t) ==
    /\ TaskTurn(s, t) /\ tstate[t] = "ready"
    /\ tstate' = [tstate EXCEPT ![t] = "dying"]
    /\ pc' = [pc EXCEPT ![s] = "reap"]
    /\ cnt' = cnt - 1 /\ note' = [note EXCEPT ![s] = (cnt = 1)]
    /\ UNCHANGED <<after, running, stealYield, loopv, workv, sleepv, msgv,
                   home, thandle, fuel, opc, oi, pool, next_friend, userh, newS,
                   doneMsgs>>
NotifyDone(s) ==
    /\ pc[s] = "reap" /\ note[s]
    /\ doneMsgs' = doneMsgs + 1 /\ note' = [note EXCEPT ![s] = FALSE]
    /\ UNCHANGED <<pc, after, running, stealYield, loopv, workv, sleepv,
                   msgv, taskv, opc, oi, pool, next_friend, userh, newS, cnt>>
\* Mutant: the dead task's handle for remote wakeups is leaked.
DropAllButHandle(q, t, s) ==
    IF home[t] = q THEN Dropped(evq[q], <<"temp", s>>) ELSE evq[q]

DropAll(q, t, s) ==
    LET q1 == IF home[t] = q THEN Dropped(evq[q], <<"temp", s>>) ELSE evq[q]
    IN  IF thandle[t] = q THEN Dropped(q1, <<"task", t>>) ELSE q1
Reap(s, t) ==
    /\ pc[s] = "reap" /\ ~note[s] /\ running[s] = t
    /\ evq' = [q \in Scheds |-> DropAll(q, t, s)]
    /\ home' = [home EXCEPT ![t] = None]
    /\ thandle' = [thandle EXCEPT ![t] = None]
    /\ tstate' = [tstate EXCEPT ![t] = "dead"] /\ GiveUp(s)
    /\ UNCHANGED <<stealYield, note, remotes, idle, workv, sleepv, msgv, fuel, poolv>>

-------------------------------------------------------------------------------
(* SchedPool, used by the one thread that owns it *)

OwnerAt(where) == opc = where /\ Quiet(Owner)

\* spawn: the next scheduler in turn gets the task.
Spawn(t) ==
    /\ OwnerAt("open") /\ t \in PoolTasks /\ tstate[t] = "unborn"
    /\ tstate' = [tstate EXCEPT ![t] = "fresh"]
    /\ Send(inbox, Owner, pool[next_friend], Msg("TaskFromFriend", t), <<"pool", None>>, FALSE)
    /\ next_friend' = IF next_friend + 1 > Len(pool) THEN 1 ELSE next_friend + 1
    /\ UNCHANGED <<ctlv, loopv, workv, sleepv, home, thandle, fuel, opc,
                   oi, pool, userh, newS, cnt, doneMsgs>>

\* GreenSpawner::spawn with a handle returned by spawn_sched.
SpawnPinned(t, s) ==
    /\ OwnerAt("open") /\ t \in PoolTasks /\ tstate[t] = "unborn" /\ s \in userh
    /\ tstate' = [tstate EXCEPT ![t] = "fresh"]
    /\ Send(inbox, Owner, s, Msg("PinnedTask", t), <<"user", None>>, FALSE)
    /\ UNCHANGED <<ctlv, loopv, workv, sleepv, home, thandle, fuel, poolv>>

\* The caller of spawn_sched drops its handle: the scheduler may then exit.
DropUser(s) ==
    /\ OwnerAt("open") /\ s \in userh
    /\ userh' = userh \ {s}
    /\ evq' = [evq EXCEPT ![s] = Dropped(@, <<"user", None>>)]
    /\ UNCHANGED <<ctlv, remotes, idle, workv, sleepv, msgv, taskv, opc,
                   oi, pool, next_friend, newS, cnt, doneMsgs>>

\* spawn_sched: tell the others about the new queue, then start the thread.
SpawnSched(s) ==
    /\ OwnerAt("open") /\ pc[s] = "off"
    /\ opc' = "nn" /\ oi' = 1 /\ newS' = s
    /\ UNCHANGED <<ctlv, loopv, workv, sleepv, msgv, taskv, pool, next_friend,
                   userh, cnt, doneMsgs>>
SendNewNeighbor ==
    /\ OwnerAt("nn") /\ oi <= Len(pool)
    /\ Send(inbox, Owner, pool[oi], Msg("NewNeighbor", newS), <<"pool", None>>, FALSE)
    /\ oi' = oi + 1
    /\ UNCHANGED <<ctlv, loopv, workv, sleepv, taskv, opc, pool,
                   next_friend, userh, newS, cnt, doneMsgs>>
StartSched ==
    /\ OwnerAt("nn") /\ oi > Len(pool)
    /\ pc' = [pc EXCEPT ![newS] = "loop"]
    /\ idle' = [idle EXCEPT ![newS] = TRUE]
    /\ remotes' = [remotes EXCEPT ![newS] = 2]
    /\ known' = [known EXCEPT ![newS] = Range(pool) \cup {newS}]
    /\ pool' = Append(pool, newS) /\ userh' = userh \cup {newS}
    /\ opc' = "open" /\ oi' = 1 /\ newS' = None
    /\ UNCHANGED <<after, running, stealYield, note, evq, wq, sleepv, msgv, taskv,
                   next_friend, cnt, doneMsgs>>

\* shutdown, called once the handles of spawn_sched are gone: wait for the
\* task count, tell every scheduler, join every thread.
StartShutdown ==
    /\ OwnerAt("open") /\ userh = {} /\ opc' = "wait"
    /\ UNCHANGED <<ctlv, loopv, workv, sleepv, msgv, taskv, oi, pool,
                   next_friend, userh, newS, cnt, doneMsgs>>
WaitForTasks ==
    /\ OwnerAt("wait")
    /\ opc' = (IF cnt # 0 THEN "recv" ELSE "send") /\ oi' = 1
    /\ UNCHANGED <<ctlv, loopv, workv, sleepv, msgv, taskv, pool, next_friend,
                   userh, newS, cnt, doneMsgs>>
RecvDone ==
    /\ OwnerAt("recv") /\ doneMsgs > 0
    /\ doneMsgs' = doneMsgs - 1 /\ opc' = "wait"
    /\ UNCHANGED <<ctlv, loopv, workv, sleepv, msgv, taskv, oi, pool,
                   next_friend, userh, newS, cnt>>
SendShutdown ==
    /\ OwnerAt("send")
    /\ IF oi <= Len(pool)
       THEN /\ Send(inbox, Owner, pool[oi], Msg("Shutdown", None), <<"pool", None>>, TRUE)
            /\ oi' = oi + 1 /\ UNCHANGED opc
       ELSE opc' = "join" /\ oi' = 1 /\ UNCHANGED msgv
    /\ UNCHANGED <<ctlv, loopv, workv, sleepv, taskv, pool, next_friend,
                   userh, newS, cnt, doneMsgs>>
\* Mutant: one thread is joined only.
JoinFirst ==
    /\ OwnerAt("join") /\ pc[pool[1]] = "stopped"
    /\ opc' = "done"
    /\ UNCHANGED <<ctlv, loopv, workv, sleepv, msgv, taskv, oi, pool, next_friend,
                   userh, newS, cnt, doneMsgs>>

JoinThreads ==
    /\ OwnerAt("join") /\ \A s \in Range(pool) : pc[s] = "stopped"
    /\ opc' = "done"
    /\ UNCHANGED <<ctlv, loopv, workv, sleepv, msgv, taskv, oi, pool, next_friend,
                   userh, newS, cnt, doneMsgs>>

-------------------------------------------------------------------------------
(* Specification *)

SchedStep(s) ==
    \/ LinkAndFire(s) \/ PickSleeper(s)
    \/ LoopEvent(s) \/ LoopIdle(s) \/ LoopExit(s)
    \/ PinnedTask(s) \/ TaskFromFriend(s) \/ RunOnce(s) \/ Wake(s)
    \/ Shutdown(s) \/ DrainSleepers(s) \/ NewNeighbor(s) \/ NoMessage(s)
    \/ WorkOwn(s) \/ WorkSteal(s) \/ WorkNone(s) \/ GoToSleep(s) \/ FillSleeper(s)
    \/ NotifyDone(s)
    \/ \E t \in Tasks : Reap(s, t)

TaskStep(s) ==
    \E t \in Tasks :
      \/ Bootstrap(s, t) \/ YieldNow(s, t) \/ Deschedule(s, t) \/ Terminate(s, t)
      \/ \E u \in Tasks : SpawnSibling(s, t, u) \/ Reawaken(s, t, u)

OwnerStep ==
    \/ LinkAndFire(Owner) \/ SendNewNeighbor \/ StartSched
    \/ WaitForTasks \/ RecvDone \/ SendShutdown \/ JoinThreads

\* What the program that uses the pool chooses to do.
UserStep ==
    \/ StartShutdown
    \/ \E t \in Tasks : Spawn(t) \/ \E s \in Scheds : SpawnPinned(t, s)
    \/ \E s \in Scheds : SpawnSched(s) \/ DropUser(s)

ExtStep == LinkAndFire(Ext) \/ \E u \in Tasks : ReawakenRemotely(u)

\* A scheduler that was shut down has its handle on the sleeper list still, which
\* keeps its loop alive: the pop of its drain stopped at a place not filled in.
LeftBehind == \E s \in Range(sleepers) : nosleep[s]

\* shutdown has returned and no thread is left, or it never will.
Finished == (opc = "done" \/ LeftBehind) /\ UNCHANGED vars

Next ==
    \/ \E s \in Scheds : SchedStep(s) \/ TaskStep(s)
    \/ \E s \in Scheds, u \in Tasks : ReawakenFromLoop(s, u)
    \/ OwnerStep \/ UserStep \/ ExtStep \/ Finished

Spec == Init /\ [][Next]_vars

\* Every thread keeps running, tasks end (their fuel is finite), and native
\* threads eventually wake what they hold.  Nothing makes the user act.
Fairness ==
    /\ \A s \in Scheds : WF_vars(SchedStep(s) \/ TaskStep(s))
    /\ WF_vars(OwnerStep) /\ WF_vars(ExtStep)
FairSpec == Spec /\ Fairness

-------------------------------------------------------------------------------
(* Properties *)

\* Where a task is.
Places(t) ==
         {<<"running", s, 1>> : s \in {x \in Scheds : running[x] = t}}
    \cup (UNION {{<<"wq", s, i>> : i \in {j \in DOMAIN wq[s] : wq[s][j] = t}} :
                 s \in Scheds})
    \cup (UNION {{<<"inbox", s, i>> : i \in {j \in DOMAIN inbox[s] :
                     inbox[s][j].msg.kind \in TaskKinds /\ inbox[s][j].msg.arg = t}} :
                 s \in Scheds})

\* A Box<GreenTask> has one owner: through every steal, switch, send and wake
\* (sched.rs process_task, enqueue_task, SchedHandle::send, task.rs reawaken)
\* a task that can run is in exactly one place, and one that is blocked, dead
\* or not yet made is in none, so it is neither lost nor run twice.
OneOwner ==
    \A t \in Tasks : Cardinality(Places(t)) =
        IF tstate[t] \in {"fresh", "ready", "dying"} THEN 1 ELSE 0

\* A task only ever executes where it may (process_task): a pinned task on
\* its home scheduler, any other on a scheduler that runs anything.  RunOnce,
\* which bypasses process_task, does not break this within one pool.
AppropriateSched ==
    \A s \in Scheds : pc[s] = "task" => RunsHere(s, running[s])

\* Sleeper list discipline (run_sched_once, Wake and Shutdown handling): a
\* scheduler is on the list at most once, so that the list, of fixed capacity,
\* cannot overflow, and either it is sleepy or it has been shut down since it went
\* there and was left behind; it never goes there after its shutdown.
SleeperOnce ==
    /\ IsInjective(sleepers)
    /\ \A s \in Range(sleepers) : sleepy[s] <=> ~nosleep[s]

IsWake(m) == m.msg.kind = "Wake"
HasWake(q) == \E i \in DOMAIN q : IsWake(q[i])
OneWake(q) == \A i, j \in DOMAIN q : IsWake(q[i]) /\ IsWake(q[j]) => i = j

\* At most one Wake is on its way to a scheduler, none while its handle is
\* still on the list, and one that is on its way finds the scheduler sleepy
\* or shutting down: the wake-up it carries belongs to its last sleep.
WakeOnce ==
    \A s \in Scheds :
        /\ OneWake(inbox[s])
        /\ HasWake(inbox[s]) => s \notin Range(sleepers) /\ (sleepy[s] \/ nosleep[s])

\* The handles of scheduler s that somebody still holds or is dropping.
HandlesTo(s) ==
         {<<"pool", i>> : i \in {j \in DOMAIN pool : pool[j] = s /\
              ~(opc \in {"join", "done"} \/ (opc = "send" /\ j < oi))}}
    \cup {<<"user", 0>> : u \in userh \cap {s}}
    \cup {<<"friend", q>> : q \in {x \in Scheds : Friend[x] = s /\ pc[x] # "stopped"}}
    \cup {<<"home", t>> : t \in {x \in Tasks : home[x] = s}}
    \cup {<<"task", t>> : t \in {x \in Tasks : thandle[x] = s}}
    \cup {<<"sleeper", i>> : i \in {j \in DOMAIN sleepers : sleepers[j] = s}}
    \cup {<<"sent", th>> : th \in {x \in Threads : out[x].to = s /\ out[x].last}}
    \cup {<<"removed", i>> : i \in {j \in DOMAIN evq[s] : evq[s][j].ev = "RemoveRemote"}}

\* The loop's count of remotes (make_handle, Drop of a handle, RemoveRemote)
\* is exactly the handles that exist or whose removal is still queued: the
\* loop neither exits under a live handle nor is kept alive by a lost one.
RemotesExact ==
    \A s \in Scheds : pc[s] # "off" => remotes[s] = Cardinality(HandlesTo(s))

\* bootstrap's exit condition: when the loop returns, the message queue is
\* empty (the rtassert), no task is left on the work queue, no callback is
\* pending and no handle of this scheduler is on the sleeper list.
CleanExit ==
    \A s \in Scheds : pc[s] = "stopped" =>
        /\ inbox[s] = <<>> /\ wq[s] = <<>> /\ evq[s] = <<>>
        /\ s \notin Range(sleepers)

\* "we will guaranteed wake up and see its message at some point" (sched.rs
\* interpret_message_queue): a scheduler whose loop waits, with no callback
\* pending and no send to it under way, has no message in its queue.  One
\* that is there would be seen only if somebody happened to send another.
NoLostMessage ==
    \A s \in Scheds :
        (/\ InLoop(s) /\ ~idle[s] /\ evq[s] = <<>>
         /\ \A th \in Threads : out[th].to # s) => inbox[s] = <<>>

\* What a scheduler, its loop and their handles may lose at no time: a task, a
\* place on the sleeper list, the count of the remotes of a loop, a message to a
\* scheduler that sleeps, and whatever is left when a loop exits.
NothingLost == OneOwner /\ SleeperOnce /\ RemotesExact /\ NoLostMessage /\ CleanExit

\* A loop that is about to wait with its idle callback paused has no task on
\* its own queue: enqueue_task's resume is never undone by a later pause.
IdleCovers ==
    \A s \in Scheds : (pc[s] = "loop" /\ ~idle[s]) => wq[s] = <<>>

\* shutdown's wait (TaskState::decrement, tasks_done.recv): whenever the
\* owner waits in recv for a count that is already 0, a message is buffered
\* or on its way.
NoLostDone ==
    (opc = "recv" /\ cnt = 0) => (doneMsgs > 0 \/ \E s \in Scheds : note[s])

\* What a growing pool keeps although NewNeighbor makes it lose messages
\* (NoLostMessage fails there): a task in a message that is overlooked is still
\* there, once; the handles of every loop stay counted, those the overlooked message
\* or its sender hold included; and sleeps and wake-ups still match (sched.rs).
GrowthSafe ==
    OneOwner /\ SleeperOnce /\ WakeOnce /\ RemotesExact /\ IdleCovers /\ NoLostDone

\* When shutdown returns every task that was ever spawned has ended and every
\* scheduler thread is gone, even though the Shutdown messages may have been
\* sent while tasks were still alive: a task counts only once it has run.
ShutdownWaits ==
    opc = "done" =>
        /\ \A t \in Tasks : tstate[t] \in {"unborn", "dead"}
        /\ \A s \in Scheds : pc[s] \in {"off", "stopped"}

\* A task that was handed to the pool runs to its end, whatever the order of
\* sends, steals, sleeps and wakes (no lost wakeup anywhere on its way).
TasksComplete ==
    \A t \in Tasks : (tstate[t] = "fresh") ~> (tstate[t] = "dead")

\* A drain of the sleeper list at the moment when its first place is not filled in:
\* the pop finds nothing, whatever is behind it.
DrainIsBlind == \E s \in Scheds : pc[s] = "drain" /\ sleepers # <<>> /\ NoneAsleep

\* A shutdown that has begun returns, in every behaviour in which the drains of the
\* sleeper list find the handles that are on it.
ShutdownReturns == <>DrainIsBlind \/ ((opc = "wait") ~> (opc = "done"))

\* "There may be an outstanding handle on the sleeper list. Pop them all to make
\* sure that's not the case" (sched.rs 411-413): when every scheduler of the pool
\* has handled Shutdown and no task is left to push work and pop the list, it is
\* empty. A loop whose handle were on it could never exit, nor shutdown return.
ShutdownDrains ==
    /\ \A s \in Range(pool) : nosleep[s]
    /\ \A t \in Tasks : tstate[t] \in {"unborn", "dead"}
    => sleepers = <<>>

===============================================================================

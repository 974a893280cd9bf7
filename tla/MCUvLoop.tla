------------------------------ MODULE MCUvLoop ------------------------------
(***************************************************************************)
(* What lives on one loop of librustuv, for TLC: the queue that brings     *)
(* tasks home, homing itself, requests, timers, signals and the recursive  *)
(* file system calls. Each is a small model of its own, and no step of one *)
(* depends on another, so one run takes them in turn: `part' names the one *)
(* a behaviour is about, the others stay as they are.                      *)
(***************************************************************************)
EXTENDS Naturals, Sequences

CONSTANTS
  Queues,                  \* UvQueue
  Scheds, Wanderers,       \* Homing: the schedulers, and the tasks that use the object
  IoHome, Regular, PoolOf, Friend, HomeOf, StartOf,
  Callers,                 \* UvRequest: the tasks
  MaxOps, MaxWrites,       \* bounds: operations of a task, requests of one of them
  MaxActions,              \* UvTimer, bound: actions installed
  Signals, MaxStarts,      \* UvSignal; bound: calls of start per object
  Movers, Names, Plans,    \* FsTree: the tasks, the names of files, what may happen
  Loops,                   \* the loops they run on
  Depth,                   \* bound: how deep the tree is
  None                     \* no task, scheduler, Queue and object

\* Homing: scheduler 1 has the I/O object and is the friend of 3, a special one.
\* Task 3 is pinned to the home of the object, the others have no home.
OnePool == [s \in 1..3 |-> 1]
FirstIsFriend == [s \in 1..3 |-> 1]
PinnedHere == [t \in 1..3 |-> IF t = 3 THEN 1 ELSE 0]
StartsAnywhere == [t \in 1..3 |-> IF t = 2 THEN 3 ELSE 1]

\* FsTree: the paths, and some of them.
Paths == UNION {[1..n -> Names] : n \in 0..Depth}
A == <<"a">>
AA == <<"a", "a">>
AB == <<"a", "b">>

Tree(dirs, files) ==
  [p \in Paths |-> IF p \in dirs \cup {<<>>} THEN "dir" ELSE IF p \in files THEN "file" ELSE "none"]

Plan(trees, makes, removes, others, most, loops) ==
  [tree : trees, makes : {makes}, removes : {removes}, others : {others}, most : {most},
   on : {loops[1]}, busy : {loops[2]}]

\* Two tasks on two loops, or on one; and with another task that uses loop 1.
Apart == <<<<1, 2>>, {}>>
Together == <<<<1, 1>>, {}>>
Crowded == <<<<1, 2>>, {1}>>

Nowhere == <<{}, {}>>
Shallow == {p \in Paths : Len(p) \in {1, 2}}

\* Two mkdir_recursive on paths that overlap, while others make files and
\* directories.
Making ==
  LET on(loops, trees, most) ==
        Plan(trees, <<{AB, A}, {AB, AA}>>, Nowhere, {"create", "mkdir"} \X Shallow, most, loops)
  IN UNION {on(Apart, {Tree({}, {}), Tree({}, {A}), Tree({A}, {AB})}, 2),
            on(Together, {Tree({}, {}), Tree({A}, {AB})}, 1),
            on(Crowded, {Tree({}, {})}, 0)}

\* A rmdir_recursive while another one, or a mkdir_recursive, works on the same
\* tree, and one other change.
Removing ==
  LET with(makes, removes, trees, loops) ==
        Plan(trees, <<makes, {}>>, <<removes, {A}>>,
             {"create", "mkdir", "remove"} \X Shallow, 1, loops)
      Wide == Tree({A, AA, AB}, {})
      Narrow == Tree({A, AB}, {AA})
  IN UNION {with({AB, A}, {}, {Narrow}, Apart), with({}, {A, AB}, {Wide}, Apart),
            with({AB}, {}, {Narrow}, Together), with({}, {A}, {Narrow}, Together)}

\* One rmdir_recursive alone, on everything that can be in its directory; and on
\* one of these trees while other tasks take its loop.
Alone ==
  LET on(trees, loops) == Plan(trees, Nowhere, <<{A}, {}>>, {}, 0, loops)
  IN on({Tree({A} \cup d, f \ d) :
           d \in SUBSET {AA, AB, Append(AA, "a"), Append(AB, "a"), Append(AB, "b")},
           f \in SUBSET {AA, AB, Append(AA, "b"), Append(AB, "a")}}, Apart)
     \cup on({Tree({A, AB}, {AA})}, Crowded)

AllPlans == Making \cup Removing \cup Alone

VARIABLES
  part,    \* the part a behaviour is about
  \* UvQueue
  q_qpc, q_cloned, q_queue, q_pend, q_refcnt, q_stage, q_waking, q_handle,
  q_failed,
  \* Homing
  h_run, h_st, h_loc, h_ph, h_held, h_queue, h_failed,
  \* UvRequest
  r_cur, r_borrowed, r_op, r_left, r_req, r_slot, r_cnt, r_count, r_file, r_ops,
  r_failed,
  \* UvTimer
  t_cur, t_pc, t_armed, t_action, t_id, t_stack, t_last, t_data, t_failed,
  \* UvSignal
  s_cur, s_listens, s_callback, s_starts, s_pending, s_stack, s_running,
  s_alive, s_failed,
  \* FsTree
  f_plan, f_fs, f_pc, f_path, f_at, f_err, f_stack, f_todo, f_child, f_subdir,
  f_result, f_others, f_using, f_taken

Queue == INSTANCE UvQueue WITH
  Nobody <- None, RemoteClones <- FALSE,
  qpc <- q_qpc, cloned <- q_cloned, queue <- q_queue, pend <- q_pend,
  refcnt <- q_refcnt, stage <- q_stage, waking <- q_waking, handle <- q_handle,
  failed <- q_failed

Remote == INSTANCE UvQueue WITH
  Nobody <- None, RemoteClones <- TRUE,
  qpc <- q_qpc, cloned <- q_cloned, queue <- q_queue, pend <- q_pend,
  refcnt <- q_refcnt, stage <- q_stage, waking <- q_waking, handle <- q_handle,
  failed <- q_failed

Home == INSTANCE Homing WITH
  Tasks <- Wanderers, Home <- HomeOf, Start <- StartOf, run <- h_run,
  st <- h_st, loc <- h_loc, ph <- h_ph, held <- h_held, queue <- h_queue,
  failed <- h_failed

Request == INSTANCE UvRequest WITH
  Tasks <- Callers, Mixed <- TRUE,
  cur <- r_cur, borrowed <- r_borrowed, op <- r_op, left <- r_left,
  req <- r_req, slot <- r_slot, cnt <- r_cnt, count <- r_count, file <- r_file,
  ops <- r_ops, failed <- r_failed

Serial == INSTANCE UvRequest WITH
  Tasks <- Callers, Mixed <- FALSE,
  cur <- r_cur, borrowed <- r_borrowed, op <- r_op, left <- r_left,
  req <- r_req, slot <- r_slot, cnt <- r_cnt, count <- r_count, file <- r_file,
  ops <- r_ops, failed <- r_failed

Timer == INSTANCE UvTimer WITH
  cur <- t_cur, pc <- t_pc, armed <- t_armed,
  action <- t_action, id <- t_id, stack <- t_stack, last <- t_last,
  data <- t_data, failed <- t_failed

Signal == INSTANCE UvSignal WITH
  cur <- s_cur,
  listens <- s_listens, callback <- s_callback, starts <- s_starts,
  pending <- s_pending, stack <- s_stack, running <- s_running,
  alive <- s_alive, failed <- s_failed

Fs == INSTANCE FsTree WITH
  Tasks <- Movers, plan <- f_plan,
  fs <- f_fs, pc <- f_pc, path <- f_path, at <- f_at, err <- f_err,
  stack <- f_stack, todo <- f_todo, child <- f_child, subdir <- f_subdir,
  result <- f_result, others <- f_others, using <- f_using, taken <- f_taken

queueVars == <<q_qpc, q_cloned, q_queue, q_pend, q_refcnt, q_stage, q_waking,
               q_handle, q_failed>>
homeVars == <<h_run, h_st, h_loc, h_ph, h_held, h_queue, h_failed>>
requestVars == <<r_cur, r_borrowed, r_op, r_left, r_req, r_slot, r_cnt, r_count,
                 r_file, r_ops, r_failed>>
timerVars == <<t_cur, t_pc, t_armed, t_action, t_id, t_stack, t_last, t_data,
               t_failed>>
signalVars == <<s_cur, s_listens, s_callback, s_starts, s_pending, s_stack,
                s_running, s_alive, s_failed>>
fsVars == <<f_plan, f_fs, f_pc, f_path, f_at, f_err, f_stack, f_todo, f_child,
            f_subdir, f_result, f_others, f_using, f_taken>>

vars == <<part, queueVars, homeVars, requestVars, timerVars, signalVars, fsVars>>

Parts == {"UvQueue", "UvQueue remote", "Homing", "UvRequest", "UvRequest serial",
          "UvTimer", "UvSignal", "FsTree"}

ASSUME UvLoopAssumptions ==
  /\ Queue!QueuesAssumption
  /\ Home!TopologyAssumption /\ Home!ReachesHome
  /\ Request!BoundAssumption
  /\ Timer!BoundAssumption
  /\ Signal!SignalAssumption
  /\ Fs!FsAssumption

Init ==
  /\ part \in Parts
  /\ Queue!Init /\ Home!Init /\ Request!Init /\ Timer!Init /\ Signal!Init /\ Fs!Init
  /\ part # "FsTree" => f_plan = CHOOSE p \in Plans : Fs!IsTree(p.tree)

Next ==
  \/ /\ part = "UvQueue" /\ Queue!Next
     /\ UNCHANGED <<part, homeVars, requestVars, timerVars, signalVars, fsVars>>
  \/ /\ part = "UvQueue remote" /\ Remote!Next
     /\ UNCHANGED <<part, homeVars, requestVars, timerVars, signalVars, fsVars>>
  \/ /\ part = "Homing" /\ Home!Next
     /\ UNCHANGED <<part, queueVars, requestVars, timerVars, signalVars, fsVars>>
  \/ /\ part = "UvRequest" /\ Request!Next
     /\ UNCHANGED <<part, queueVars, homeVars, timerVars, signalVars, fsVars>>
  \/ /\ part = "UvRequest serial" /\ Serial!Next
     /\ UNCHANGED <<part, queueVars, homeVars, timerVars, signalVars, fsVars>>
  \/ /\ part = "UvTimer" /\ Timer!Next
     /\ UNCHANGED <<part, queueVars, homeVars, requestVars, signalVars, fsVars>>
  \/ /\ part = "UvSignal" /\ Signal!Next
     /\ UNCHANGED <<part, queueVars, homeVars, requestVars, timerVars, fsVars>>
  \/ /\ part = "FsTree" /\ Fs!Next
     /\ UNCHANGED <<part, queueVars, homeVars, requestVars, timerVars, signalVars>>

Fairness ==
  /\ Queue!Fairness /\ Request!Fairness /\ Timer!Fairness /\ Fs!Fairness

Spec == Init /\ [][Next]_vars /\ Fairness

-----------------------------------------------------------------------------
(* Properties.  Those of a part hold of its initial state too, in which it *)
(* stays while another part moves.                                         *)

\* The count of the QueuePool and the messages on their way to it are the
\* Queues there are, wherever they are cloned; the loop has not ended while a
\* Queue could send a task to it or a producer is between its Decrement and its
\* signal; and EventLoop::drop fails to close the loop only when a drop of a
\* Queue has unlocked but still had its Arc (queue.rs, event_loop.rs).
QueueKeepsLoop ==
  /\ Queue!TypeOK
  /\ Queue!CountExact
  /\ Queue!LoopAlive
  /\ Queue!SignalledBeforeExit
  /\ Queue!TeardownFailsLate

\* The assertions of homing.rs hold for tasks of the pool that are not pinned
\* elsewhere, and a task is at the home of the object as long as its missile is
\* armed, although waking another task may get it stolen.
HomingSafe ==
  /\ Home!TypeOK
  /\ Home!HomingSucceeds
  /\ Home!MissileAtHome

\* A callback of libuv finds the operation and its slot alive (fs.rs,
\* addrinfo.rs), and the count of blocked I/O that has_active_io reads is
\* exact, if one task blocks at a time (lib.rs).
RequestsSafe ==
  /\ Request!TypeOK
  /\ Request!CallbackSafe
  /\ (part = "UvRequest serial" => Request!ActiveIoExact)

\* timer_cb, sleep and close_cb find the action they expect, and a periodic
\* timer keeps its callback until it is replaced or dropped (timer.rs). A
\* Signal has the callback that was registered last, and signal_cb finds one
\* (signal.rs).
CallbacksCurrent ==
  /\ Timer!TypeOK
  /\ Timer!NoStaleAction
  /\ Timer!PeriodicKept
  /\ Signal!TypeOK
  /\ Signal!CallbackPresent

\* Concurrent mkdir_recursive calls make each other fail only on one thread, by
\* taking its loop (fs.rs:203), one that returns Ok has left a directory, and a
\* rmdir_recursive whose tree nobody touches succeeds on every tree, unless
\* another task of its thread takes the loop (fs.rs).
TreesAgree ==
  /\ Fs!TypeOK
  /\ Fs!MakesAgree
  /\ Fs!MadeMeansThere
  /\ Fs!AloneSucceeds

\* A timer callback that was replaced is never called again (timer.rs);
\* signal_cb calls the callback that was registered last, and none after a stop
\* (signal.rs); when a rmdir_recursive returns Ok, whatever the other calls did
\* meanwhile, its directory is gone (fs.rs).
StepsCurrent ==
  /\ Timer!NoOldCall
  /\ Signal!CallsCurrent
  /\ Fs!RemovedMeansGone

\* A task that was pushed to its home is resumed there, if Queues are cloned on
\* the loop only (queue.rs). Every operation on a file and every lookup returns
\* and gives the loop back, a task that sleeps is woken, and every recursive
\* call returns, whatever others do to the tree meanwhile.
OperationsReturn ==
  /\ (part = "UvQueue" => Queue!TasksComeHome)
  /\ Request!OpsReturn
  /\ Timer!SleepEnds
  /\ Fs!CallsReturn
=============================================================================

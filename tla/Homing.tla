------------------------------- MODULE Homing -------------------------------
(***************************************************************************)
(* Tasks that use an I/O object of librustuv from any scheduler: before an *)
(* operation the task goes to the home of the object (homing.rs), it waits *)
(* there for access (access.rs) and for libuv, and it is woken there.      *)
(* Where a woken task really runs is decided by the routing of the         *)
(* scheduler (process_task, reawaken): this module composes the two.       *)
(*                                                                         *)
(* A scheduler runs one task at a time; the callbacks of its event loop    *)
(* run when it runs none.  Reaching the loop through the Queue is one step *)
(* here and is the subject of UvQueue.                                     *)
(***************************************************************************)
EXTENDS Naturals, SequencesExt

CONSTANTS Scheds,       \* the schedulers, each with its event loop
          Tasks,
          None,         \* no task, or no home: AnySched
          IoHome,       \* the scheduler whose loop has the I/O object
          Regular,      \* the schedulers with run_anything
          PoolOf,       \* the pool of each scheduler
          Friend,       \* the friend of each scheduler
          Home,         \* the scheduler each task is pinned to, or None
          Start         \* the scheduler each task first ran on, which its handle names

TopologyAssumption ==
  /\ None \notin Scheds \cup Tasks /\ IoHome \in Scheds /\ Regular \subseteq Scheds
  /\ Friend \in [Scheds -> Regular] /\ \A s \in Scheds : PoolOf[s] = PoolOf[Friend[s]]
  /\ Home \in [Tasks -> Scheds \cup {None}] /\ Start \in [Tasks -> Scheds]

\* The tasks that use the object are of its pool, and each is pinned to its home
\* or, when that runs anything, to no scheduler: routing keeps it there.
ReachesHome ==
  \A t \in Tasks : /\ PoolOf[Start[t]] = PoolOf[IoHome]
                   /\ Home[t] = IoHome \/ (Home[t] = None /\ IoHome \in Regular)

VARIABLES run,     \* the task each scheduler runs, or None
          st,      \* how each task is kept
          loc,     \* the scheduler that runs it, or whose queue it is in
          ph,      \* where in an I/O operation it is
          held,    \* Inner.held of the Access of the object
          queue,   \* Inner.queue
          failed   \* an assertion of homing.rs failed

vars == <<run, st, loc, ph, held, queue, failed>>

\* queued: on a work queue; mail, friendMail: in a message of its scheduler that
\* runs it at once (PinnedTask, RunOnce) or routes it (TaskFromFriend);
\* homing: in the Queue of the home; waiting: for access; io: for libuv.
St == {"running", "queued", "mail", "friendMail", "homing", "waiting", "io"}

\* going: in go_home; armed: a missile is armed; holder: and access is held.
Phase == {"user", "going", "armed", "holder"}

\* Every variable is typed, and a scheduler runs just the task that is on it.
TypeOK ==
  /\ run \in [Scheds -> Tasks \cup {None}]
  /\ st \in [Tasks -> St] /\ loc \in [Tasks -> Scheds] /\ ph \in [Tasks -> Phase]
  /\ held \in BOOLEAN /\ queue \in Seq(Tasks)
  /\ failed \in BOOLEAN
  /\ \A s \in Scheds, t \in Tasks : run[s] = t <=> (st[t] = "running" /\ loc[t] = s)

(* The tasks are on their work queues. *)
Init ==
  /\ run = [s \in Scheds |-> None]
  /\ st = [t \in Tasks |-> "queued"] /\ loc = Start
  /\ ph = [t \in Tasks |-> "user"]
  /\ held = FALSE /\ queue = <<>> /\ failed = FALSE

-----------------------------------------------------------------------------
(* Where a task goes. *)

Put(t, how, s) == st' = [st EXCEPT ![t] = how] /\ loc' = [loc EXCEPT ![t] = s]

(* The task leaves the scheduler that runs it. *)
Leave(t) == run' = [run EXCEPT ![loc[t]] = None]

(* process_task on a scheduler in its loop, which then runs t at once. *)
Route(s, t) ==
  \/ /\ Home[t] = s \/ (Home[t] = None /\ s \in Regular)
     /\ run' = [run EXCEPT ![s] = t] /\ Put(t, "running", s)
  \/ /\ Home[t] \notin {None, s}
     /\ Put(t, "mail", Home[t]) /\ UNCHANGED run
  \/ /\ Home[t] = None /\ s \notin Regular
     /\ Put(t, "friendMail", Friend[s]) /\ UNCHANGED run

(* GreenTask::reawaken by a callback of the loop of s: a task of another   *)
(* pool is sent back to it through its own handle.                         *)
Reawaken(s, t) ==
  IF PoolOf[s] = PoolOf[Start[t]]
  THEN Route(s, t)
  ELSE Put(t, "mail", Start[t]) /\ UNCHANGED run

-----------------------------------------------------------------------------
(* Schedulers. *)

InLoop(s) == run[s] = None

(* find_work: its own queue, or a steal from a scheduler of its pool. *)
Dequeue(s, t) ==
  /\ InLoop(s) /\ st[t] = "queued" /\ PoolOf[s] = PoolOf[loc[t]]
  /\ Route(s, t)
  /\ UNCHANGED <<ph, held, queue, failed>>

(* interpret_message_queue: PinnedTask and RunOnce, and TaskFromFriend. *)
Mail(t) ==
  /\ st[t] = "mail" /\ InLoop(loc[t])
  /\ run' = [run EXCEPT ![loc[t]] = t] /\ Put(t, "running", loc[t])
  /\ UNCHANGED <<ph, held, queue, failed>>

FriendMail(t) ==
  /\ st[t] = "friendMail" /\ InLoop(loc[t])
  /\ Route(loc[t], t)
  /\ UNCHANGED <<ph, held, queue, failed>>

(* A task outside of I/O yields to the work queue. *)
Yield(t) ==
  /\ st[t] = "running" /\ ph[t] = "user"
  /\ Leave(t) /\ Put(t, "queued", loc[t])
  /\ UNCHANGED <<ph, held, queue, failed>>

-----------------------------------------------------------------------------
(* An I/O operation. *)

(* fire_homing_missile: nothing to do at home, else deschedule and send.   *)
FireMissile(t) ==
  /\ st[t] = "running" /\ ph[t] = "user"
  /\ IF loc[t] = IoHome
     THEN /\ ph' = [ph EXCEPT ![t] = "armed"]
          /\ UNCHANGED <<run, st, loc>>
     ELSE /\ ph' = [ph EXCEPT ![t] = "going"]
          /\ Leave(t) /\ Put(t, "homing", IoHome)
  /\ UNCHANGED <<held, queue, failed>>

\* Mutant: the task is put on the work queue of its home.
AsyncCbLater(t) ==
  /\ st[t] = "homing" /\ InLoop(IoHome)
  /\ Put(t, "queued", IoHome)
  /\ UNCHANGED <<run, ph, held, queue, failed>>

(* async_cb of the Queue wakes the task that came home. *)
AsyncCb(t) ==
  /\ st[t] = "homing" /\ InLoop(IoHome)
  /\ Reawaken(IoHome, t)
  /\ UNCHANGED <<ph, held, queue, failed>>

(* go_home goes on, and asserts that it is there. *)
GoneHome(t) ==
  /\ st[t] = "running" /\ ph[t] = "going"
  /\ ph' = [ph EXCEPT ![t] = "armed"]
  /\ failed' = (loc[t] # IoHome)
  /\ UNCHANGED <<run, st, loc, held, queue>>

(* Access::grant *)
Grant(t) ==
  /\ st[t] = "running" /\ ph[t] = "armed"
  /\ IF held
     THEN /\ queue' = Append(queue, t)
          /\ Leave(t) /\ Put(t, "waiting", loc[t])
          /\ UNCHANGED <<ph, held>>
     ELSE /\ held' = TRUE /\ ph' = [ph EXCEPT ![t] = "holder"]
          /\ UNCHANGED <<run, st, loc, queue>>
  /\ UNCHANGED failed

(* The operation blocks for libuv, ... *)
Block(t) ==
  /\ st[t] = "running" /\ ph[t] = "holder"
  /\ Leave(t) /\ Put(t, "io", loc[t])
  /\ UNCHANGED <<ph, held, queue, failed>>

(* ... whose callback wakes the task. *)
IoCb(t) ==
  /\ st[t] = "io" /\ InLoop(IoHome)
  /\ Reawaken(IoHome, t)
  /\ UNCHANGED <<ph, held, queue, failed>>

(* HomingMissile::drop checks where the task is. *)
Disarm(t) == failed' = (loc[t] # IoHome)

(* Guard::drop with nobody waiting. *)
Release(t) ==
  /\ st[t] = "running" /\ ph[t] = "holder" /\ queue = <<>>
  /\ held' = FALSE
  /\ Disarm(t) /\ ph' = [ph EXCEPT ![t] = "user"]
  /\ UNCHANGED <<run, st, loc, queue>>

\* Mutant: the waiter is woken with the missile still armed.
PassOnArmed(t) ==
  /\ st[t] = "running" /\ ph[t] = "holder" /\ queue # <<>>
  /\ queue' = Tail(queue)
  /\ ph' = [ph EXCEPT ![t] = "armed", ![Head(queue)] = "holder"]
  /\ st' = [st EXCEPT ![t] = "queued", ![Head(queue)] = "running"]
  /\ loc' = [loc EXCEPT ![Head(queue)] = loc[t]]
  /\ run' = [run EXCEPT ![loc[t]] = Head(queue)]
  /\ UNCHANGED <<held, failed>>

(* Guard::drop that passes access on: the missile is dropped, then the     *)
(* waiter is woken, and if it runs here the task itself goes to the work   *)
(* queue (switch_task) where it may be stolen.                       *)
PassOn(t) ==
  /\ st[t] = "running" /\ ph[t] = "holder" /\ queue # <<>>
  /\ LET s == loc[t]
         w == Head(queue)
         runs == \/ Home[w] = s
                 \/ Home[w] = None /\ s \in Regular
         same == PoolOf[s] = PoolOf[Start[w]]
     IN /\ queue' = Tail(queue)
        /\ Disarm(t)
        /\ ph' = [ph EXCEPT ![t] = "user", ![w] = "holder"]
        /\ IF same /\ runs
           THEN /\ run' = [run EXCEPT ![s] = w]
                /\ st' = [st EXCEPT ![t] = "queued", ![w] = "running"]
                /\ loc' = [loc EXCEPT ![w] = s]
           ELSE /\ UNCHANGED run
                /\ IF same /\ Home[w] = None
                   THEN Put(w, "friendMail", Friend[s])
                   ELSE Put(w, "mail", IF same THEN Home[w] ELSE Start[w])
  /\ UNCHANGED held

-----------------------------------------------------------------------------
TaskStep(t) == \/ FireMissile(t) \/ GoneHome(t) \/ Grant(t)
               \/ Block(t) \/ Release(t) \/ PassOn(t) \/ Yield(t)

Stopped == failed /\ UNCHANGED vars

Next == \/ ~failed /\ \E t \in Tasks : TaskStep(t) \/ Mail(t) \/ FriendMail(t) \/ AsyncCb(t) \/ IoCb(t)
        \/ ~failed /\ \E s \in Scheds, t \in Tasks : Dequeue(s, t)
        \/ Stopped

Spec == Init /\ [][Next]_vars

-----------------------------------------------------------------------------
(* Properties *)

\* The assertions of go_home (homing.rs 85) and of the missile's drop
\* (homing.rs 129) hold: a task that goes home arrives there, and is still there
\* when its operation ends.
HomingSucceeds == ~failed

\* While a missile is armed its task is kept by the home of the object, where no
\* other scheduler steals it: every operation that wakes another task, and so
\* may move the waker, has dropped its missile before.
MissileAtHome == \A t \in Tasks : ph[t] \in {"armed", "holder"} => loc[t] = IoHome
=============================================================================

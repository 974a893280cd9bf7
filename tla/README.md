# A TLA+ model of green-rs

green-rs is the M:N runtime of early Rust: `libgreen` multiplexes green tasks
over a pool of scheduler threads, `librustuv` gives each of those threads a
libuv event loop and blocking I/O on top of it. This directory holds TLA+
modules translated from that code, the TLC runs that check them on small
instances, and TLAPS proofs of the results that hold for every instance.

## Inventory

| part | state | operations | talks to |
|---|---|---|---|
| `Scheduler` (sched.rs) | work deque, stealers for the other deques, message queue, `sleepy`, `no_sleep`, idle callback, `steal_for_yield`, friend handle | `run_sched_once`, `interpret_message_queue`, `do_work`/`find_work`/`try_steals`, `process_task`, `enqueue_task`, `run_task`, `yield_now`, `terminate_current_task`, `bootstrap` | other schedulers through `SchedHandle::send` and the sleeper list, its event loop through callbacks |
| `SchedPool`, `TaskState` (lib.rs) | handles, stealers, threads, `next_friend`, task count, `tasks_done` port | `new`, `spawn`, `spawn_sched`, `GreenSpawner::spawn`, `shutdown`, `increment`, `decrement` | schedulers through handles |
| `GreenTask` (task.rs) | coroutine, home, handle for remote wake-ups, deschedule lock | `spawn_opts`, `bootstrap_green_task`, `deschedule`, `reawaken`, `reawaken_remotely`, `terminate` | the scheduler it runs on; any thread that wakes it |
| `BasicLoop` (basic.rs) | queued remote messages, registered remotes, idle callback | `run`, `remote_callback`, `fire`, drop of a remote, `has_active_io` | its scheduler, and any thread that fires a remote |
| message queue, sleeper list | mpsc queue; bounded mpmc queue | `push`, `pop`, `casual_pop` | every scheduler |
| coroutine, context, stack, `SimpleTask` | saved registers, memory maps, a pool of stacks; a condition variable | switch, cache and reuse of stacks; block and wake while booting | the scheduler |
| event loop, idle, `Async` (librustuv) | libuv loop, thread-local borrow flag, exit flag per remote | `run`, `borrow`, `fire`, drop, idle `resume`/`pause` | the scheduler |
| `Queue`, homing | reference count, queue of tasks to bring home, lock | `push`, clone, drop, `go_home` | tasks of any thread |
| `Access`, `AccessTimeout`, `AcceptTimeout`, `ConnectCtx` | `held`, waiters, `closed`; timeout state and timer | `grant`, guard drop, `dequeue`, `set_timeout`, `timer_cb`, `close` | streams and listeners |
| `Stream`, `Tcp`, `Pipe`, `Tty`, `Udp`, `Timer` | read and write contexts, data pointer of the libuv handle | `read`, `write`, `cancel_read`, `close_read`, clone, drop, `accept`, `connect` | libuv callbacks |
| files, address lookup, processes, signals | one request each | start, callback, wake | libuv callbacks |

What is hard in it: every send to a scheduler is three steps (reserve a node,
link it, fire a callback) that other threads run between; schedulers go to
sleep while others push work to them; a loop stops when nobody holds a handle
to it, so that each handle has to be counted; tasks change threads while they
are woken; libuv merges callbacks; and on one loop, wake-ups hand the thread
over in the middle of a function. PROJECT.json lists each such hazard at its
line, with the property that covers it or the reason why none does.

What makes each part correct:

* scheduler: a task is in one place and runs where it may; nobody sleeps on
  work or on a message; a sleeper is listed once and woken once;
* pool: shutdown waits for every task, gets its done message, and returns;
* loops: a loop ends exactly when its last handle is gone, with nothing left;
* event loops: a fire is answered by a call, and a callback is destroyed only
  when its handle is gone and nothing is owed (`RemoteCallback`);
* tasks: one that parks goes on exactly when it was woken, once, and nobody
  touches it after that (`Parking`); a stack has one user;
* queue and homing: a loop lives as long as somebody can send a task to it, a
  task sent home arrives and stays there during its operation;
* I/O access: one reader and one writer at a time, in the order of their calls,
  nobody waits for ever on a closed or timed stream, a timer cancels only what
  it was set for; connections and datagrams are handed out once and in order;
* requests: a callback finds its operation and its task, is called as long as
  it is the registered one, and every operation returns and gives back what it
  borrowed; Ok means that the directory is there, or gone.

## Modules

| module | what it is |
|---|---|
| `GreenSched` | schedulers, pool, tasks, message queues, sleeper list and event loops, composed: their state machines meet in every send, so they share one module |
| `MCGreenSched` | its instances for TLC |
| `GreenSchedProofs`, `GreenSchedTasks`, `GreenSchedHandles`, `GreenSchedMessages` | its theorems, each module on top of the one before: types and sleepers, tasks, handles, messages and the end |
| `UvRead` | the reading half of a stream: `Access`, `AccessTimeout`, `Stream::read` and its callbacks |
| `MCUvRead`, `UvReadProofs` | its instance and its theorems |
| `RemoteCallback` | abstract: what an event loop promises about remote callbacks |
| `BasicLoop`, `UvAsync` | basic.rs and async.rs, which implement it |
| `Parking` | abstract: what `deschedule` and `reawaken` promise |
| `SimpleTask`, `Deschedule` | simple.rs, and task.rs on top of the context switch, which implement it |
| `StackPool` | the pools of cached stacks |
| `UvQueue` | the queue that brings tasks home, its count, and `EventLoop::drop` |
| `Homing` | `go_home` and missiles, composed with the routing of schedulers and with `Access` |
| `UvRequest` | requests that block with the loop borrowed: files, lookups, `block` and its count |
| `FsTree` | `mkdir_recursive` and `rmdir_recursive` in a tree that others change |
| `UvTimer`, `UvSignal` | timers and signals whose callbacks switch tasks |
| `UvWrite`, `UvUdp` | the writing half of a stream with `close_write`; datagrams |
| `UvAccept`, `UvConnect` | `AcceptTimeout` and `ConnectCtx` |
| `SockAddr` | the conversion of socket addresses |
| `MCGreenParts`, `MCUvLoop`, `MCUvNet` | instances of the modules from `BasicLoop` on, several in one run |
| `GreenPartsProofs`, `UvLoopProofs`, `UvNetProofs` | theorems about the parts of `MCGreenParts`, `MCUvLoop` and `MCUvNet`, whose constants the cfg gives |

`MCGreenParts`, `MCUvLoop` and `MCUvNet` put several models, which share nothing, into one run:
the variable `part`, chosen in the initial state, names the one that moves, and
the others stay in their initial state. The states of such a run are the sum,
not the product, of those of its parts. Each instantiates a module with
prefixed variables, e.g. `q_refcnt` for `refcnt` of `UvQueue`, evaluates the
modules' assumptions on their constants, and groups the properties of the
parts under names of their own; the parts' modules explain each conjunct.

### GreenSched

Threads are the schedulers, `Owner` (which holds the `SchedPool`) and `Ext` (a
native thread that wakes tasks). A scheduler's `pc` follows `run_sched_once`:

    loop -> msg1 -> work -> msg2 / msg2did -> (work | sleep -> fill | loop)

with `fill` between the two halves of the push that puts its handle on the
sleeper list, `task` while its context is switched away, `reap` while a dead task is
dropped, and `drain` inside the handling of `Shutdown`. `after` is where the
scheduler goes on when the task it switched to gives the thread back.

| action | code |
|---|---|
| `Send` (in the step that decides on a message), then `LinkAndFire` | `SchedHandle::send`: the first half of the mpsc push, then its second half, `remote.fire()` and the drop of a handle made for one message |
| `PickSleeper` | the end of `enqueue_task` |
| `LoopEvent`, `LoopIdle`, `LoopExit` | a remote callback or removal, the idle callback, the return of `run` and the rest of `bootstrap` |
| `PinnedTask`, `TaskFromFriend`, `RunOnce`, `Wake`, `Shutdown` with `DrainSleepers`, `NewNeighbor`, `NoMessage` | the arms of `interpret_message_queue` |
| `WorkOwn`, `WorkSteal`, `WorkNone`, `GoToSleep` then `FillSleeper` | `find_work`, `try_steals` and the end of `run_sched_once`: a place on the sleeper list is taken, then filled in, and the idle callback is paused |
| `Bootstrap`, `SpawnSibling`, `YieldNow`, `Deschedule`, `Reawaken`, `Terminate`, `NotifyDone`, `Reap` | what a running task does |
| `ReawakenFromLoop`, `ReawakenRemotely` | wake-ups from an I/O callback and from a native thread |
| `Spawn`, `SpawnPinned`, `DropUser`, `SpawnSched`, `SendNewNeighbor`, `StartSched`, `StartShutdown`, `WaitForTasks`, `RecvDone`, `SendShutdown`, `JoinThreads` | `SchedPool` |

The constant `Uv` chooses the loop. With `BasicLoop` each `fire` queues a
message of its own, in order. With libuv the pending sends of one handle are
merged into one callback, callbacks of different handles run in any order, and
a dropped handle's last callback still runs once.

The sleeper list is a bounded mpmc queue, of the standard library: a push takes
a place and then fills it in, and a pop that comes to a place not filled in
returns None, whatever is behind it (`NoneAsleep`). That matters to the loop
that `Shutdown` runs over the list, see below.

Abstractions, each of which only merges steps no other thread can tell apart,
or adds behaviour:

* the cleanup job of a context switch is part of the step that switches;
* linking a node, firing and dropping the handle are one step, because a
  consumer that sees the node before the callback only acts earlier;
* the idle callback may come between any two remote callbacks, whereas each
  loop has a fixed order;
* remote ids of `BasicLoop` are collapsed, for they only choose which equal
  `SchedRunner` is called;
* the deque is atomic; a round of steals may fail while
  another scheduler is alive, which covers lost races;
* the closure given to `deschedule` runs in the same step; the lock shows as
  the guard `Locked`, which keeps a task from running while its remote waker
  is still inside the send;
* `yield_check_count` is the free choice of `YieldNow`; threads are joined in
  one step;
* the caller drops the handles of `spawn_sched` before it shuts the pool down
  (a handle that outlives it keeps its loop alive, by design).

### UvRead

Objects that are clones of each other share an `Access` and a libuv stream.
All of it runs on the loop's thread without preemption, so an action is what
runs until the thread changes hands: `cur` is the handle whose task has the
thread, or `Loop`. `reawaken` calls `run_task`, which switches at once, so
waking a task is `cur' = h`. `pc` tells where the task that uses a handle is,
`state` is the `State`/`Client` pair of its `AccessTimeout`, `data` is the
object whose `ReadContext` the stream's data pointer names. `failed` becomes
TRUE where the code asserts, reaches `unreachable!()` or follows a null
pointer. Actions: `Grant`, `GrantRefused`, `GrantTimedOut`, `ReadRefused`,
`ReadStart` (`uv_read`), `ReadCb`, `TimerIdle`, `TimerQueued`, `TimerRequest`
(the branches of `timer_cb`), `SetTimeout`, `CloseRead`, `Clone`, `DropHandle`.

Whether timeouts may elapse while their tasks wait for access is up to the
program and its peers, so the variable `patient` is chosen in the initial state
and stays: in a patient behaviour no timer fires during such a wait
(`TimerQueued` and `GrantTimedOut` are disabled). Both kinds of behaviour are
checked in one run; the properties that the defect of timeout.rs:92 breaks,
described below, say `patient =>` in their own text.

### Event loops: RemoteCallback, BasicLoop, UvAsync

`RemoteCallback` has a status per callback (`Make`, `Fire`, `Drop`, `Call`,
destruction) and whether a fire is unanswered. `BasicLoop` follows `run()` with
`lpc`; each section under the lock of the messages is one action (`RemoteWork`
takes the whole list, `NextMessage`, `RunRemote` and `RemoveRemote` handle it,
`Wait` re-checks under the lock and waits, `SpuriousWake` is the condition
variable's), and callbacks may push work, make remotes and pause the idle
callback. In `UvAsync` the pending mark is libuv's; `ReadFlag` locks, reads the
exit flag and unlocks, `CallBack`/`EndCall` is the callback, `MaybeClose` and
`CloseCb` destroy; on other threads `Fire`, and `DropLock`, `DropSend`,
`DropUnlock` for the destructor. `failed` is `unreachable!()`, or a touch of
freed memory.

### Tasks: Parking, SimpleTask, Deschedule, StackPool

`Parking` knows whether the task is parked, was woken, and whether its closure
has returned. `SimpleTask` has the mutex, the flag and the wait, with spurious
wake-ups; `Deschedule` has the steps of a green task between threads: `Switch`
away, `ClosureLock`, `Offer` of up to `MaxTimes` `BlockedTask`s (select),
`Refuse`, `ClosureUnlock`, wakers that take one (`Wake`) and wake here or
remotely (`RemoteLock`, `RemoteSend`, `RemoteUnlock`), and `Resume` and `Bounce`
of the thread that runs it next. `StackPool` has the sequences of cached stacks
per scheduler and for spawns from outside, and the cleanup job that recycles.

### One loop of librustuv: UvQueue, Homing, UvRequest, FsTree, UvTimer, UvSignal

In `UvQueue` every statement of `push`, `clone` and `drop` that touches shared
state is a step, the mpsc push is two, and the loop's `async_cb` (`Dispatch`,
`Pop`, `Resume`, `PopNothing`, `TakeLock`) and the end of the loop (`Exit`,
`DropPool`, `Pump`, `CloseLoop`) run against them. A drop unlocks first
(`DropUnlock`) and gives up its Arc later (`DropArc`), as the code does. The
constant `RemoteClones` says whether other threads clone a Queue.

`Homing` composes `go_home` with the routing of woken tasks, stealing, friends
and `Access`; topology and homes are constants. `UvRequest` has the thread
(`cur`), the borrow flag, libuv's requests, the slot of the blocked task and the
count of blocked I/O, which each task reads, increments and puts back; with
`Mixed`, tasks also block without borrowing the loop. `FsTree` executes one
file system call per step. Each call borrows its loop first (`Begin`, the set
`using`) and fails with UNKNOWN when another call on that loop is blocked: of
another of these tasks, or of any other (`taken`). A `plan` gives the tree at
the start, who calls what and on which loop, what others may change, and the
loops that others use. `UvTimer` and `UvSignal` have a stack of callbacks
under way, since a callback may switch to the owner of the object.

### Sockets: UvWrite, UvUdp, UvAccept, UvConnect, SockAddr

As in `UvRead`, one thread, `cur` has it, and an action is what runs until it
changes hands. `UvWrite` keeps the cached request of each object and the order
of the calls; `UvUdp` has both directions of a socket, empty datagrams and the
buffer that goes back and forth; `UvAccept` numbers connections; `UvConnect`
follows context, request, timer and object of each call, with the status a
closed handle reports as a constant and a timeout of zero as one of the
timeouts. `UvUdp` and `UvAccept` have the variable `patient` of `UvRead`, with
the same meaning.
`SockAddr` computes on digits of a small base instead of bytes.

## Runs

Deadlock is checked in every passing run except `spawn_sched`, where a message
that is overlooked really stops the pool. Two other states in which a thread
waits for ever are results of defects that have runs of their own, and stutter
instead: `LeftBehind` in `GreenSched` (run `lost_handle`) and `Lost` in `UvRead`
(run `uv_read_exclusive`, only where `patient` is FALSE).

| run | instance | what it shows |
|---|---|---|
| `basic` | 2 schedulers on `BasicLoop`, a task and the task it spawns, one yield or block, shutdown at any time | `OneOwner`, `SleeperOnce`, `WakeOnce`, `CleanExit`, `NoLostMessage`, `IdleCovers`, `NoLostDone`, `ShutdownWaits`: through every interleaving of sends, steals, sleeps and wakes no task, message or done signal is lost, and shutdown returns only when all tasks have ended |
| `pinned` | a scheduler and a special one with a friend, 2 tasks that may be pinned, shutdown with one | `AppropriateSched`: a task runs only where it may, even woken remotely with `RunOnce`, which skips `process_task`; `NothingLost`, with the friend handle, which keeps the other loop alive exactly as long as it lives |
| `spawn_sched` | a scheduler is added to a running pool of one, on libuv, 2 tasks, active I/O or not, shutdown with one | `GrowthSafe` = `OneOwner`, `SleeperOnce`, `WakeOnce`, `RemotesExact`, `IdleCovers`, `NoLostDone`: what holds of a growing pool although messages may be overlooked, which happens in this very instance (`lost_message`) |
| `liveness` | 2 schedulers on libuv, 1 task, wake-ups from I/O callbacks, fair threads | `TypeOK`, `NothingLost` with merged callbacks and the exit flag of `Async`; `TasksComplete`, `ShutdownReturns`: nothing is stranded by a lost wake-up |
| `lost_message` | 1 scheduler on libuv, 1 more added, 2 tasks | violated, see below |
| `lost_handle` | the pool of `basic` | `ShutdownDrains` violated, see below |
| `uv_read` | 3 clones, timeouts during waits for access or not | always: `TypeOK`, `QueueExact`, `ClosedQueueDrains`; in patient behaviours: `PatientReadersExclude`, `PatientNoPanic`, `CancelMeansTimeout`, `ReadsReturn` |
| `uv_read_exclusive` | the same | `ExclusiveReaders` violated, see below |
| `teardown` | a Queue, dropped on another thread | `TeardownSucceeds` violated, see below |
| `green_parts` | `MCGreenParts`: `BasicLoop`, `UvAsync`, `SimpleTask`, `Deschedule`, `StackPool` | `LoopsEndClean`, `LoopsCallBack`, `WokenAlone`, `TasksPark`, `StacksKept`: both loops implement `RemoteCallback` and end clean, both kinds of task implement `Parking` and run alone, stacks are neither shared nor lost |
| `uv_parts` | `MCUvLoop`: `UvQueue` (two ways), `Homing`, `UvRequest` (two ways), `UvTimer`, `UvSignal`, `FsTree` on one and on two loops | `QueueKeepsLoop`, `HomingSafe`, `RequestsSafe`, `CallbacksCurrent`, `TreesAgree`, `StepsCurrent`, `OperationsReturn` |
| `uv_net` | `MCUvNet`: `UvWrite`, `UvUdp`, `UvAccept`, `UvConnect` (two ways), `SockAddr`; impatient behaviours and timeouts of zero included | `WritesExclusive`, `DatagramsKept`, `ConnectionsKept`, `ConnectSafe`, `SocketsServe`, `AddressesConvert` |

Every property of a passing run has a mutant, and most conjuncts of a grouped
property have one of their own: a changed definition (a dropped guard, a missed
reset, a forgotten drop) under which TLC finds the property violated.

### Bounds

* Two schedulers give every pair of roles (sender and sleeper, thief and
  victim, waker and woken); a third would repeat a role.
* Two tasks give hand-over, theft of one while the other runs, and each waking
  the other, and in `spawn_sched` a message behind `NewNeighbor`. The run of
  liveness uses one.
* `MaxFuel` bounds the yields and blocks of all tasks together; without it a
  task could yield for ever. One is enough for a task to sleep, be woken, and
  be counted again.
* `ShutdownWithOne` (runs `pinned` and `spawn_sched`) follows these instances
  through their shutdown only when no task was spawned, or one that has used up
  `MaxFuel` (it may still be blocked), as homes, friends and growth make them
  large; shutdown with two tasks is run `basic`. Their two tasks are alike and
  exchanged by symmetry.
* In `basic` the pool's owner spawns one task and that one the other; two
  spawns by the owner side by side are in `pinned`.
* `UvRead` needs no bound: three clones give a holder, a waiter that times
  out and a waiter behind it, and its state space is finite. `UvWrite` likewise.
* `green_parts`: two remotes of each loop, each fired twice, so that a fire
  falls before, into and after a callback and a drop; two pieces of work; five
  parks of a `SimpleTask`, enough for a waker left over from an earlier one;
  three parks with two `BlockedTask`s; three stacks of two sizes with room for
  one in each cache (and one more, see below).
* `uv_parts`: two Queues, one of which may be a clone of the other, are a
  producer inside every step of `push`, `clone` or `drop` and the one whose
  message is behind it. Three schedulers and three tasks for homing: the home,
  a thief and a friend; a holder of access, a waiter, and a stolen task. Two
  tasks with three operations each and writes of two requests. Five timer
  actions, two signals. Trees three deep over two names; two concurrent calls
  on one loop or on two, up to two changes by others, and one more user of the
  first loop.
* `uv_net`: two clones of a UDP socket or an acceptor with two datagrams or
  connections (a holder and a waiter; an empty datagram before one with data),
  two connects, all IPv4 addresses over bytes of three values.

### Fairness

`GreenSched`: weak fairness of each scheduler thread (the operating system
runs it, and a task that runs either ends or gives up, its fuel being finite),
of the pool's owner inside a call, and of the native thread that holds a
blocked task, which has to wake it some time. What the program chooses to do
(spawn, shut down) is not fair. `UvRead`: weak fairness of the task that has
the thread and of timers that are due; data may never arrive and no task is
made to call.

The other modules state their `Fairness` in the same way: weak fairness of the
thread of the loop and of a task or thread inside an operation. Callbacks of
libuv are strongly fair where another task may take the thread in between, again
and again (`TimerCb` and `SendCb` of `UvUdp`, `TimerCb` of `UvAccept`, `FsCb` of
`UvRequest`, the callbacks of `UvTimer`): uv_run looks at due timers and
completed requests in every iteration, so one that is due whenever the loop has
the thread is called. In `SimpleTask` the waker is strongly fair, because the
mutex it asks for is free again and again. The network, peers and callers are
not fair. In `MCGreenParts` the fairness of `BasicLoop` and `UvAsync` is
repeated with `part` in the action: their loops could move in the initial
state, where they stay when another part moves.

## What the violated runs show

* `lost_message`. `NewNeighbor` counts as no work, a round of
  `run_sched_once` that ends with it goes to sleep, and libuv may run one
  callback for three sends through the pool's handle. One `spawn_sched` between
  two `spawn`s is enough: the round runs the first task, finds nothing else to
  do, reads `NewNeighbor` in its last look at the queue and sleeps with the
  second task unread, against sched.rs:373-375. Two `spawn_sched` and a `spawn`
  do the same. `BasicLoop`, which calls back once per send, needs more: a native waker has reserved a node and not
  linked it, the owner sends `NewNeighbor` and then a task behind it, and the
  two callbacks run rounds that see an inconsistent queue and do nothing. When
  the node is linked, one callback is left for three messages, and its round
  reads two. The instance of `spawn_sched` is on libuv and has two tasks, so
  the loss happens there, and that run checks only what survives it. A pool that does not grow is safe with
  either loop (`MessagesAreSeen` below). The message that is not read may also be
  `Shutdown`: four `spawn_sched` while the first scheduler sleeps leave it
  `NewNeighbor` four times, then `Shutdown` and the `Wake` of another scheduler
  that drains the sleeper list. The pool's handle gives one callback and the
  `Wake` another one, each reads two, both handles are gone, and the loop ends
  with two messages unread, against the assertion at sched.rs:223. TLC reaches
  this state of five schedulers (`CleanExit` violated) when it follows only the
  behaviours in which the first scheduler falls asleep, the pool grows and is
  shut down, and then the second scheduler and the first one run; the instance
  is too large for all of them.
* `lost_handle`. `Shutdown` pops the sleeper list until it is empty, for the
  scheduler's own handle may be on it (sched.rs:411-415). s1 has taken a place
  and not filled it in; s2 sleeps behind it, handles its `Shutdown`, finds
  nothing at the place of s1 and stops popping. s1 fills its place in and is
  woken, so it is not sleepy when its own `Shutdown` comes, and does not pop the
  list. Nobody does any more: the handle of s2 keeps the loop of s2 alive, and
  `shutdown` waits in `join` for ever.
* `teardown`. `Queue::drop` releases its lock at the end of its body, and its
  Arc only after that, as a field (queue.rs:153-162). A loop that was waiting
  for the lock can end in between, drop an Arc that is not the last, and so not
  close the handle in time: the `unwrap` in `EventLoop::drop` panics
  (event_loop.rs:157), against the comment at queue.rs:96. The objects of this
  crate bring their task home before they drop their handle; `HomeHandle` is
  public, can be cloned and sent, and the lock and the comment are there for a
  drop on another thread. `TeardownFailsLate`, in run `uv_parts`, says that this
  is the only way in which it fails.
* `uv_read_exclusive`. A task whose timeout elapses in the queue for access is
  woken inside `Access::grant`, which returns a guard it does not own;
  `AccessTimeout::grant` returns ECANCELED and drops that guard, which frees
  or hands on access that another task still holds. Two tasks then read one
  stream, against tcp.rs:30-33; the first one's `ReadContext` is replaced and
  nobody wakes it. UDP receives and accepts take their access through the same
  line: a second `recv_from` replaces the first one's context, a second `accept`
  drops the first one's `BlockedTask`. `UvUdp` and `UvAccept` have these steps,
  and their properties say where they need `patient`.

## Where a property needs its assumption

Some properties hold only under a condition, which a constant, the variable
`patient` or a conjunct of the property states. Without it TLC finds the
following; each was met by changing the constant or dropping the condition.

* A timeout that elapses during the wait for access (`patient` is FALSE) breaks
  `ExclusiveReaders` and `NoPanic` of `UvRead` as described above, `ContextLive`
  of `UvUdp` and `NoIdleConnection` of `UvAccept`, and the liveness properties
  about the calls that are then replaced. What libuv does when a receive starts
  on a handle that receives already is outside src/: the model lets it succeed
  or fail.
* A loop is borrowed as long as a request on it is blocked, and every file call
  on it then fails with UNKNOWN (fs.rs:203, event_loop.rs:49-66). So two
  `mkdir_recursive` on one loop do make each other fail (fs.rs:385 passes the
  error of `stat` on), and a `rmdir_recursive` fails while any other task of its
  thread is in a file call. `MakesAgree` and `AloneSucceeds` except exactly
  this error, and only for a call whose thread has other such tasks (`Private`).
* `ShutdownReturns` is about the behaviours in which a drain of the sleeper list
  does not meet an unfilled place (`DrainIsBlind`), the case of `lost_handle`.
* `Queue::clone` does not signal (queue.rs:143-148). When it runs on another
  thread, `async_cb` may stop at its half-linked node, with a task behind it
  whose own signal is used up; `RemoteClones = TRUE` violates `TasksComeHome` of `OperationsReturn`.
* A task that is pinned to another scheduler, or belongs to another pool, is
  routed away from the home of an I/O object as soon as it is woken there, and
  the assertion at homing.rs:85 fails; `Home` or `PoolOf` of `Homing` show it.
  Nothing brings a task back to where it was before the operation, although
  homing.rs:108 says so: `Disarm` only checks where it is.
* `block` puts back the count it read before it blocked (lib.rs:147). With two
  tasks blocked at once `has_active_io` (event_loop.rs:134), on which
  sched.rs:318 relies, is wrong; `ActiveIoExact` is violated in part
  `UvRequest`, where `Mixed = TRUE`.
* `File::drop` unwraps `EventLoop::borrow()` (fs.rs:189), which fails while
  another task is blocked with the loop borrowed; the descriptor then stays
  open, against fs.rs:79. `DropFile` has this branch.
* A connect with a timeout of zero returns with the request's data pointing to
  its stack (timeout.rs:249). This is safe where a closed handle reports
  ECANCELED, which timeout.rs:301 says is not so on Windows. Both instances
  have this timeout: `NoUseAfterFree` is stated where ECANCELED is reported,
  and `OnlyZeroDangles` says that elsewhere only such a call is touched after
  it is gone. The same code relies on the task running inside `wakeup`:
  timeout.rs:268 writes to a request that `connect_cb` frees when `wakeup`
  returns, whereas the comment at timeout.rs:315 supposes that the task runs
  later.
* `signal_cb` calls the callback in place (signal.rs:94); a task it switches to
  may free it during the call, which `Timer` is careful to prevent
  (timer.rs:183). `StepsCurrent` says only what is called, not that it
  stays alive.
* `give_stack` caches while the length is at most the limit (stack.rs:140): one
  stack more than stack.rs:153 speaks of. `CacheBounded` states the code's bound.
* `rmdir_recursive` fails with ENOENT when a child disappears between `readdir`
  and `lstat` (fs.rs:414); the comment at fs.rs:420 covers only `unlink`.
* `shutdown` sends `Shutdown` when the count of tasks is 0, which does not
  include tasks still in a queue, because they are counted when they first run
  (task.rs:156), against lib.rs:530 of libgreen, "Now that everyone's gone".
  This is harmless: `ShutdownWaits` and `TasksComplete` hold, since a loop does
  not end before its queues are empty.
* An empty UDP datagram is taken for a callback without data and is never
  returned (udp.rs:122): `DatagramsKept` and `SocketsServe` are about datagrams with data.
* `close_write` may wait as long as other clones keep writing: `CloseReturns`
  supposes that writes pause.

## Proofs

Proved with TLAPS for every value of the constants that satisfies the named
assumptions (`SchedsAssumption`, `PoolAssumption`, `FriendAssumption`,
`LoopAssumption` in `GreenSched`: finite sets of distinct threads and tasks, a
pool without repetition, a friend that is in the pool and has no friend of its
own; `HandlesAssumption` in `UvRead`).

`GreenSchedProofs`

* `TypeCorrect`: `Spec => []TypeOK`. Besides types, a task is on a thread
  exactly when that scheduler's own context is switched away, and the
  scheduler that `spawn_sched` is building has not started.
* `SleepersDistinct`, `WakesMatchSleeps`: `Spec => []SleeperOnce` and
  `Spec => []WakeOnce`. Neither is inductive alone. That a scheduler may put
  itself on the list needs that no earlier entry of it is there, which follows
  from `~sleepy` and `~no_sleep`: whoever is on the list is sleepy, or was shut
  down and left behind; that `Wake` may clear `sleepy` needs that the handle has
  left the list, which is `WakeOnce`; and that a `Wake` is sent to a scheduler
  without one on its way needs that it was on the list. Their conjunction
  `SleepInv` is inductive with the types. Lemmas state what each action does
  to the message queues and the list (append one node, link nodes, drop the
  head), so that most actions are one line.
* `SleepersFit`: the list never holds more handles than there are schedulers,
  so its fixed capacity of 8192, which `push` asserts, is enough for pools up
  to that size.

`GreenSchedTasks`

* `WaitingHasNoWork`: `Spec => []IdleCovers`. The invariant `IdleInv` says it
  of every paused callback, also during a round, and of the two places after
  `do_work` found the queue empty.
* `TasksHaveOneOwner`, `TasksRunWhereTheyMay`: `Spec => []OneOwner` and
  `Spec => []AppropriateSched`. `OneOwner` counts places; `TaskInv` says of
  each task that it is on one thread, in one work queue or in one message
  (`PlaceOf`), how its state goes with its home and its handle (`LifeOf`: a
  task whose home was taken out is in a `PinnedTask` message), and where it
  may run (`HomeOf`: its handle leads to a scheduler that may run it, which is
  why `RunOnce` may skip `process_task`).
* `DoneIsAnnounced`: `Spec => []NoLostDone`; `CountIsExact`: the task count is
  the number of tasks that have begun and not ended. The proof of the first
  rests on the second: `decrement` reaches 0 only when the last one ends.

`GreenSchedHandles`

* `RemotesAreExact`: `Spec => []RemotesExact`. The inductive invariant is a
  ledger: the loop's count is the sum of the handles in the pool, with the
  caller of `spawn_sched`, on the sleeper list, of friends, homes and tasks, in
  sends that will drop theirs, and of queued removals. Each action moves a
  handle from one entry to another. It also needs that libuv has at most one
  pending callback per handle (`EventInv`) and that a scheduler outside the
  pool has none (`PoolInv`).

`GreenSchedMessages`

The first four have the hypothesis `Scheds = Range(InitPool)`: every scheduler that
may exist is in the pool from the start, so that `spawn_sched` cannot be called
again. That is the pool of `SchedPool::new` used with `spawn` alone or with
handles made at the start; for one that grows the first, the second and the
fourth are false, as the section on violated runs shows.

* `MessagesAreSeen`: `Spec => []NoLostMessage`. `MessageInv` says that a
  scheduler which waits, or is about to, and whose oldest message is linked has
  a callback pending; an unlinked node belongs to a send under way
  (`SendNode`), which will fire when it links. Without `NewNeighbor` a round
  ends in sleep only after a look at the queue that saw no message (`FixedInv`).
* `LoopsExitClean`: `Spec => []CleanExit`. A loop ends when its ledger is empty.
  What could be left is a callback or a message, and each leads to a handle: a
  send goes through a handle that it will drop, or borrows one that its holder
  cannot drop under it (`SendInv`: the owner and the scheduler wait for their
  own send, and a woken task for its waker); a pending callback is of a handle
  that is still held (libuv, `HolderInv`), or has a removal or a live handle
  behind it in the queue (`BasicLoop`, `BasicInv`).
* `ShutdownIsComplete`: `Spec => []ShutdownWaits`. All threads are joined, each
  loop has ended clean, so no task is in a queue, and one that is blocked would
  hold a handle of a loop that has none.
* `NothingIsLost`: `Spec => []NothingLost`, from these and the theorems above.
* `GrowthIsSafe`: `Spec => []GrowthSafe`, without the hypothesis: what growth
  does not break.

`GreenPartsProofs`

The constants are those of the parts, under `GreenPartsAssumptions`, the
conjunction of the parts' own: natural bounds, `NoCb` and `Outside` that are no
remote and no scheduler, and no stack of size 0. A step of `MCGreenParts` is a
step of one part and leaves the others alone (`PartsSteps`), so that the
invariants of the parts hold side by side (`PartsInv`).

* `LoopsEndCleanly`: `Spec => []LoopsEndClean`. For `BasicLoop`, `BasicInv` is
  about one queue, the batch that `remote_work` took followed by the messages
  sent since: every message in it names a registered callback, and nothing
  names a callback after its `RemoveRemote` (`QueueOK`); taking a batch does
  not change this queue, which is why the swap of lists is harmless. For
  `UvAsync`, `AsyncClosed` says that the exit flag is set exactly since `drop`
  began, and that the loop closes a handle only after the drop is over, since
  it reads the flag under the lock that `drop` holds while it sends.
* `LoopsImplementRemoteCallback`: from the same invariants, both loops satisfy
  `Init /\ [][Next]_vars` of `RemoteCallback` under their refinement mappings.
  A `Free` step needs that nothing is owed: no message of a `BasicRemote` is
  behind its `RemoveRemote`, and libuv's pending send and the exit flag have
  been seen by the callback that closes.
* `TasksAreWokenAlone`: `Spec => []WokenAlone`. `SimpleParked` ties the flag
  `awoken` to the state of the current park's waker, so that a spurious wake
  of the condition variable does not end a park. `GreenInv` says that the
  task is with one waker or none and only of the current park (`GreenHeld`),
  that the closure runs with the lock and while the task does not
  (`GreenClosure`), and which parks have been ended (`GreenWakes`).
* `TasksImplementParking`: both kinds of task satisfy `Init /\ [][Next]_vars`
  of `Parking`. That the closure has not begun is visible only in the first
  `BlockedTask`, which needs that it is offered first (`GreenFirst`).
* `StacksAreKept`: `Spec => []StacksKept`. `StackInv` adds to it that a
  scheduler runs or recycles only a task that has a stack, each task on at most
  one scheduler (`StackRun`): that is why `Recycle` cannot cache a stack twice.

`UvNetProofs`

In the same way for the parts of `MCUvNet`, under `UvNetAssumptions`: finitely
many clones, `None` that is no clone and no call, natural bounds, a byte of at
least two values, ports and segments of two bytes.

* `WritesAreExclusive`: `Spec => []WritesExclusive`. Access is held by the task
  that has the thread or by the one whose request libuv has, never by both, and
  whoever waits is in the queue once (`WriteHolds`); that is why the one that
  write_cb finds is blocked, and why the calls in order are the holder followed
  by the queue. The count of requests moves with two sets: the objects that
  have one and the shutdowns under way (`CountOne`).
* `DatagramsAreKept`: `Spec => []DatagramsKept`. The same for two Accesses at
  once (`UdpAccess`); what libuv has are the receive and the send that are
  blocked (`UdpRuns`), a timeout knows what its receive waits for
  (`UdpTimeouts`), so that timer_cb cancels its own. These (`UdpInv`) are
  invariants of the patient behaviours only, as the property says. Those about
  the data (`UdpData`) hold in all of them: what was returned followed by what is in the socket is in the order of arrival and no newer
  than the last arrival (`Ordered`), which a new datagram needs.
* `DatagramsAreNotDropped`: the action property `NoneDropped`, from the types in
  the same invariant.
* `ConnectionsAreKept`: `Spec => []ConnectionsKept`, by `AcceptData` in all
  behaviours, with the connections taken followed by those pending as the
  sequence of all arrivals, and by `AcceptInv` in the patient ones.
* `ConnectsAreSafe`: `Spec => []ConnectSafe`. `ConnectCall` says what a call has
  reached at each of its places: who woke it, what its request holds, and that
  a request libuv still has after the return has lost its context, or else has
  had a timeout of zero. Where closing reports ECANCELED, such a request is
  harmless; where it may report something else (`Win`), it is the only one that
  is touched after it is gone (`BadOnly`).
* `AddressesAreConverted`: `Spec => []AddressesConvert`. The bytes of an integer
  that is put together from bytes are these bytes (`Byte2`, `Byte4`), which
  rests on one fact about division (`DivMod`); so it holds for bytes of 256
  values as well as for the three that TLC tries.

`UvLoopProofs`

In the same way for the parts of `MCUvLoop`, under `UvLoopAssumptions`. One of
them is more than a bound: `ReachesHome` says that the tasks which use an I/O
object are of its pool, and each is pinned to its home or, when that scheduler
is a regular one, to none. Without it the assertion of homing.rs:85 fails, as
described above.

* `QueuesKeepTheLoop`: `Spec => []QueueKeepsLoop`, for any number of Queues,
  with `clone` on the loop and on other threads. `CountExact` is about the sum
  of all messages; what is inductive says it of every prefix of them
  (`Counted`): as long as a message is left, the count with those before it is
  positive. So a `Decrement` that brings the count to 0 is the last message,
  no task is behind it, and the loop may end. A half-linked node counts like a
  linked one, since its place in the queue is already taken. `QueuePlaces` says
  which calls are under way at each stage of the loop: while it polls, a drop
  that has not unlocked sees a count that is not 0, for `async_cb` waits for the
  lock; `QueueEnd` says where the handle is at the end: it is closed in time
  unless a drop has unlocked and still holds its Arc, which is what
  `TeardownFailsLate` allows and run `teardown` shows.
* `HomingIsSafe`: `Spec => []HomingSafe`, for any schedulers and tasks. A task
  is kept at the home of the object from the moment `go_home` sends it there
  until its missile is dropped (`HomingPlace`), however it is woken or stolen in
  between; routing does not move it (`WokenAtHome`), which is where
  `ReachesHome` is needed; and the queue for access is made of those that wait.
* `RequestsAreSafe`: `Spec => []RequestsSafe`. `Borrower` names the one
  operation that has the loop borrowed, `RequestCall` says where a task is while
  libuv has its request. With one blocked task at a time the count goes from 0
  to 1 and back (`SerialCount`), which is what `block` relies on.
* `CallbacksAreCurrent`: `Spec => []CallbacksCurrent`. In `TimerInv` an armed
  timer finds its action in Data, or timer_cb has it on its stack and will put
  it back (`PutsBack`), which it does only while the slot is empty and the id
  has not changed; in `SignalInv` a caught signal is one whose handle is still
  started.
* `TreesAreSafe`: `Spec => []TreesAgree`, for trees of any depth and any names,
  any plan and any tasks; the assumptions on a plan (`IsPlan`) are that a task
  makes one call and that nobody removes the directory the tasks work in. Three
  invariants hold together. `FsPlaces` says where each call is. Its part about
  `rmdir_recursive` is `Descends`: on the stack each directory is below an
  earlier one and none contains, or is, an earlier one, and the children still
  to be looked at are in the directory that was read last and not on the stack;
  so that a path is never pushed twice and the argument stays at the bottom.
  A call fails with UNKNOWN only if another task had its loop, and on a private
  one never does. `MakeInv`: while nobody removes anything, the components behind a
  `mkdir_recursive` are directories, and what made `mkdir` fail is still there.
  Its proof needs that what is there stays, whoever moves (`TreeStays`).
  `ClearInv`: with nobody else about, the directories on the stack are there, as
  are the children that were read, and a directory in which no subdirectory was
  found has no other children than these; so its `rmdir` finds it empty. Both
  kinds of change keep the file system a tree (`TreeGrows`, `TreeShrinks`).
* `StepsAreCurrent`: `Spec => StepsCurrent`, the action properties of three
  modules: an action that was replaced is not called (`TimersCallTheNewest`), a
  signal calls the callback registered last and none after a stop
  (`SignalsCallTheCurrent`), and when a `rmdir_recursive` returns Ok its directory is gone
  (`RemovedDirsAreGone`). The last one needs `FsPlaces` alone: whatever others
  do, the call returns Ok only as it pops the bottom of its stack, and that is
  its argument.

`UvReadProofs`

* `ReadTypeCorrect`: `Spec => []TypeOK`, in all behaviours.
* `ReadersExclude`, `ReadNeverPanics`, `CancelsOwnRead`: in patient behaviours,
  for any number of clones, at most one reads, no assertion fails, and a timer
  cancels only the read of its own handle. The invariant is
  `patient => ReadInv`; `ReadInv` says who holds access and the thread
  (`HeldExact`), that the queue is exactly the waiters (`QueueExact`), that the
  stream points to the reader (`StreamExact`), and that each timeout knows what
  its task waits for (`TimeoutExact`); each part is needed for another one's
  step, for instance exclusion of readers needs that whoever drops a guard holds
  access, which is where a timeout in the queue breaks it.
* `WaitersAreQueued`: `Spec => []QueueExact` in all behaviours. `HeldExact` is
  false in some of them, and what is left of the invariant is weaker: the
  stream, if it points to anybody, points to a task that reads, and a timeout
  that says its task waits for access is right (`WaitInv`).

Only model-checked: the liveness properties, which need fairness and ENABLED
and are out of the prover's reach, and the fairness of `RemoteCallback` and
`Parking`. What is false of the code is stated by the four runs that expect a
violation, and the theorems next to it say what is left.
Every invariant and action property that a passing run checks is stated by a theorem.

## Not modelled

* Register contexts, guard pages and memory maps (context.rs, parts of
  coroutine.rs and stack.rs) are machine code.
* The bindings to libuv (uvll.rs, most of raw/) are declarations and wrappers
  without logic.
* process.rs is not compiled: its `mod` line is commented out.
* `copy` of fs.rs is a loop of requests; setters of sockets and of the TTY,
  `callback()` of the event loop and idle.rs are one libuv call each.
* `AccessTimeout::drop` closes a timer without going home (timeout.rs:210). On
  another thread this is a data race inside libuv, for which the models have
  no state.

## Plan

The modules of the plan are written, and what a theorem can state of the runs'
properties is proved. What is left is a state for the timers of libuv that
another thread closes (timeout.rs:210).

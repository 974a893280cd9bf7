---------------------------- MODULE MCGreenParts ----------------------------
(***************************************************************************)
(* What libgreen is built on, for TLC: the two event loops that implement  *)
(* RemoteCallback, the two kinds of task that implement Parking, and the   *)
(* pools of stacks.  Each is a small model of its own, and no step of one  *)
(* depends on another, so one run takes them in turn: `part' names the one *)
(* a behaviour is about, the others stay as they are.                      *)
(***************************************************************************)
EXTENDS Naturals

CONSTANTS
  Remotes,       \* the remote callbacks of a loop
  NoCb,          \* UvAsync: the loop is in no callback
  MaxFires,      \* bound: fires of one remote callback
  MaxWork,       \* bound: pieces of local work of a BasicLoop
  MaxSimple,     \* bound: calls of deschedule of a SimpleTask
  MaxParks,      \* bound: calls of deschedule of a green task
  MaxTimes,      \* bound: BlockedTasks of one such call
  Scheds, Outside, Tasks, NoTask, Sizes, MaxCached, MaxStacks   \* see StackPool

VARIABLES
  part,    \* the part a behaviour is about
  \* BasicLoop
  b_lpc, b_calling, b_work, b_pushed, b_remotes, b_idle, b_messages, b_batch,
  b_owner, b_fires, b_failed,
  \* UvAsync
  a_cb, a_stage, a_should, a_handle, a_pend, a_flag, a_owner, a_fires, a_owed,
  a_failed,
  \* SimpleTask
  s_pc, s_lock, s_awoken, s_parks, s_waker, s_bad,
  \* Deschedule
  g_task, g_parks, g_times, g_next, g_lock, g_slot, g_waker, g_wakes,
  \* StackPool
  k_stacks, k_size, k_used, k_need, k_run, k_dead, k_amt

Basic == INSTANCE BasicLoop WITH
  lpc <- b_lpc,
  calling <- b_calling, work <- b_work, pushed <- b_pushed,
  remotes <- b_remotes, idle <- b_idle, messages <- b_messages,
  batch <- b_batch, owner <- b_owner, fires <- b_fires, failed <- b_failed

Async == INSTANCE UvAsync WITH
  cb <- a_cb, stage <- a_stage,
  should <- a_should, handle <- a_handle, pend <- a_pend, flag <- a_flag,
  owner <- a_owner, fires <- a_fires, owed <- a_owed, failed <- a_failed

Simple == INSTANCE SimpleTask WITH
  MaxParks <- MaxSimple, pc <- s_pc, lock <- s_lock, awoken <- s_awoken,
  parks <- s_parks, waker <- s_waker, bad <- s_bad

Green == INSTANCE Deschedule WITH
  task <- g_task, parks <- g_parks,
  times <- g_times, next <- g_next, lock <- g_lock, slot <- g_slot,
  waker <- g_waker, wakes <- g_wakes

Stacks == INSTANCE StackPool WITH
  stacks <- k_stacks,
  size <- k_size, used <- k_used, need <- k_need, run <- k_run, dead <- k_dead,
  amt <- k_amt

basicVars == <<b_lpc, b_calling, b_work, b_pushed, b_remotes, b_idle,
               b_messages, b_batch, b_owner, b_fires, b_failed>>
asyncVars == <<a_cb, a_stage, a_should, a_handle, a_pend, a_flag, a_owner,
               a_fires, a_owed, a_failed>>
simpleVars == <<s_pc, s_lock, s_awoken, s_parks, s_waker, s_bad>>
greenVars == <<g_task, g_parks, g_times, g_next, g_lock, g_slot, g_waker,
               g_wakes>>
stacksVars == <<k_stacks, k_size, k_used, k_need, k_run, k_dead, k_amt>>

vars == <<part, basicVars, asyncVars, simpleVars, greenVars, stacksVars>>

Parts == {"BasicLoop", "UvAsync", "SimpleTask", "Deschedule", "StackPool"}

ASSUME GreenPartsAssumptions ==
  /\ Basic!BoundsAssumption
  /\ Async!RemotesAssumption
  /\ Simple!BoundAssumption
  /\ Green!BoundAssumption
  /\ Stacks!StackAssumption

Init ==
  /\ part \in Parts
  /\ Basic!Init /\ Async!Init /\ Simple!Init /\ Green!Init /\ Stacks!Init

Next ==
  \/ /\ part = "BasicLoop" /\ Basic!Next
     /\ UNCHANGED <<part, asyncVars, simpleVars, greenVars, stacksVars>>
  \/ /\ part = "UvAsync" /\ Async!Next
     /\ UNCHANGED <<part, basicVars, simpleVars, greenVars, stacksVars>>
  \/ /\ part = "SimpleTask" /\ Simple!Next
     /\ UNCHANGED <<part, basicVars, asyncVars, greenVars, stacksVars>>
  \/ /\ part = "Deschedule" /\ Green!Next
     /\ UNCHANGED <<part, basicVars, asyncVars, simpleVars, stacksVars>>
  \/ /\ part = "StackPool" /\ Stacks!Next
     /\ UNCHANGED <<part, basicVars, asyncVars, simpleVars, greenVars>>

Fairness ==
  /\ WF_basicVars(part = "BasicLoop" /\ ~b_failed /\ Basic!LoopStep)
  /\ WF_basicVars(part = "BasicLoop" /\ ~b_failed /\ Basic!EndCall)
  /\ WF_asyncVars(part = "UvAsync" /\ ~a_failed /\ Async!LoopStep)
  /\ \A r \in Remotes : WF_asyncVars(~a_failed /\ Async!Dtor(r))
  /\ Simple!Fairness /\ Green!Fairness

Spec == Init /\ [][Next]_vars /\ Fairness

-----------------------------------------------------------------------------
(* Properties.  Those of a part hold of its initial state too, in which it *)
(* stays while another part moves.                                         *)

\* BasicLoop finds the callback of every message it takes, and returns only
\* when no remote callback and no message is left (basic.rs). uv_run returns
\* only when no thread can reach the loop through an Async, and nobody touches
\* the handle of an Async or the lock in its Data after close_cb freed them
\* (async.rs).
LoopsEndClean ==
  /\ Basic!TypeOK
  /\ Basic!NoUnreachable
  /\ Basic!ReturnsClean
  /\ Async!TypeOK
  /\ Async!NoUseAfterFree
  /\ Async!NoneLeft

\* BasicLoop and Async, whose sends libuv merges, both implement
\* RemoteCallback: a fire is answered by a call, and a callback goes only when
\* its handle was dropped and nothing is owed. Work that a callback pushes on
\* BasicLoop is done.
LoopsCallBack ==
  /\ Basic!Contract
  /\ Basic!WorkDone
  /\ Async!Contract

\* A task that runs is in the hands of no waker and of no closure: who wakes a
\* SimpleTask finds it parked and is out of its lock before it goes on
\* (simple.rs); a green task may be resumed by another scheduler meanwhile, and
\* of all the BlockedTasks of a select exactly one ends the park, and none a
\* later one (task.rs).
WokenAlone ==
  /\ Simple!TypeOK
  /\ Simple!WakersOnly
  /\ Green!TypeOK
  /\ Green!AloneWhenRunning
  /\ Green!WokenOnce

\* SimpleTask, and deschedule and reawaken of a green task, both implement
\* Parking: a task goes on exactly when it was woken or its closure refused to
\* park it.
TasksPark ==
  /\ Simple!Contract
  /\ Green!Contract

\* A stack has one user, whatever scheduler its task dies on; one that is
\* mapped is in use or cached, so that swap_remove and the cleanup job lose
\* none; no task runs on one smaller than it asked for; and a pool caches at
\* most one more than its limit (stack.rs).
StacksKept ==
  /\ Stacks!TypeOK
  /\ Stacks!SingleUse
  /\ Stacks!NoneLost
  /\ Stacks!BigEnough
  /\ Stacks!CacheBounded
=============================================================================

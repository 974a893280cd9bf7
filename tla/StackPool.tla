----------------------------- MODULE StackPool ------------------------------
(***************************************************************************)
(* The stacks of green tasks (stack.rs, coroutine.rs): each scheduler, and *)
(* the SchedPool for spawns from outside, keeps a StackPool.  A spawn      *)
(* takes a cached stack that is big enough, or maps one; the stack of a    *)
(* dead task goes into the pool of the scheduler it died on, in the        *)
(* cleanup job that runs once the scheduler is off that stack.             *)
(***************************************************************************)
EXTENDS Naturals, FiniteSets, SequencesExt, FiniteSetsExt

CONSTANTS Scheds,       \* the schedulers
          Outside,      \* the pool of SchedPool::spawn; not a scheduler
          Tasks,        \* tasks; a slot is used again when its task is dead
          Sizes,        \* the stack sizes that are asked for; 0 stands for no stack
          MaxCached,    \* RUST_MAX_CACHED_STACKS, or its default
          MaxStacks,    \* bound: stacks that are mapped
          NoTask

StackAssumption ==
  /\ Outside \notin Scheds /\ Sizes \subseteq Nat \ {0} /\ MaxCached \in Nat /\ MaxStacks \in Nat
  /\ NoTask \notin Tasks

Pools == Scheds \cup {Outside}
Ids == 1..MaxStacks

VARIABLES stacks,   \* StackPool.stacks of each pool: sequences of stack ids
          size,     \* Stack.min_size of each mapped stack, 0 when not mapped yet
          used,     \* the stack of each live task, 0 for none
          need,     \* the stack size each live task was spawned with
          run,      \* the task each scheduler runs
          dead,     \* the task whose cleanup job the scheduler is about to run
          amt       \* AMT: 0, or the limit plus 1

vars == <<stacks, size, used, need, run, dead, amt>>

Mapped == {i \in Ids : size[i] > 0}

\* The state and its types: everything that is in use is mapped.
TypeOK ==
  /\ stacks \in [Pools -> Seq(Ids)] /\ size \in [Ids -> Sizes \cup {0}]
  /\ used \in [Tasks -> Ids \cup {0}] /\ need \in [Tasks -> Sizes \cup {0}]
  /\ run \in [Scheds -> Tasks \cup {NoTask}] /\ dead \in [Scheds -> Tasks \cup {NoTask}]
  /\ amt \in {0, MaxCached + 1}
  /\ \A p \in Pools : ToSet(stacks[p]) \subseteq Mapped
  /\ \A t \in Tasks : used[t] > 0 => used[t] \in Mapped
  /\ \A s \in Scheds : run[s] # NoTask => used[run[s]] > 0

Init ==
  /\ stacks = [p \in Pools |-> <<>>] /\ size = [i \in Ids |-> 0] /\ amt = 0
  /\ used = [t \in Tasks |-> 0] /\ need = [t \in Tasks |-> 0]
  /\ run = [s \in Scheds |-> NoTask] /\ dead = [s \in Scheds |-> NoTask]

-----------------------------------------------------------------------------
(* StackPool.                                                              *)

\* Mutant: everything behind the removed one is lost.
SwapRemoveDrops(q, i) == SubSeq(q, 1, i - 1)

\* Vec::swap_remove: the last element takes the place of the removed one.
SwapRemove(q, i) ==
  IF i = Len(q) THEN Front(q) ELSE [Front(q) EXCEPT ![i] = Last(q)]

\* position(|s| min_size <= s.min_size): the first that is big enough.
\* Mutant: the first stack is taken, whatever its size.
PositionAny(p, n) == IF stacks[p] = <<>> THEN {} ELSE {1}

Position(p, n) ==
  LET fits == {i \in 1..Len(stacks[p]) : n <= size[stacks[p][i]]}
  IN  IF fits = {} THEN {} ELSE {Min(fits)}

\* take_stack: a cached stack, or a new one.
TakeStack(p, t, n) ==
  \/ \E i \in Position(p, n) :
       /\ used' = [used EXCEPT ![t] = stacks[p][i]]
       /\ stacks' = [stacks EXCEPT ![p] = SwapRemove(@, i)]
       /\ UNCHANGED size
  \/ /\ Position(p, n) = {} /\ Mapped # Ids
     /\ LET new == Min(Ids \ Mapped)
        IN  used' = [used EXCEPT ![t] = new] /\ size' = [size EXCEPT ![new] = n]
     /\ UNCHANGED stacks

\* max_cached_stacks: 0 in AMT means that it is not initialised.
\* Mutant: the sentinel is not taken off again.
MaxCachedStacksOff == IF amt = 0 THEN MaxCached ELSE amt

MaxCachedStacks == IF amt = 0 THEN MaxCached ELSE amt - 1

\* give_stack: the stack is cached, or unmapped when the pool is full.
GiveStack(p, i) ==
  /\ amt' = MaxCached + 1
  /\ IF Len(stacks[p]) <= MaxCachedStacks
       THEN stacks' = [stacks EXCEPT ![p] = Append(@, i)] /\ UNCHANGED size
       ELSE size' = [size EXCEPT ![i] = 0] /\ UNCHANGED stacks

-----------------------------------------------------------------------------
(* Tasks.                                                                  *)

\* GreenTask::new_homed, from a task or from outside of the pool.
Spawn(p, t, n) ==
  /\ used[t] = 0 /\ \A s \in Scheds : dead[s] # t
  /\ p # Outside => run[p] # NoTask /\ dead[p] = NoTask
  /\ need' = [need EXCEPT ![t] = n]
  /\ TakeStack(p, t, n)
  /\ UNCHANGED <<run, dead, amt>>

\* A scheduler switches to a task, wherever it was spawned, and back.
Resume(s, t) ==
  /\ run[s] = NoTask /\ dead[s] = NoTask
  /\ used[t] > 0 /\ \A r \in Scheds : t \notin {run[r], dead[r]}
  /\ run' = [run EXCEPT ![s] = t]
  /\ UNCHANGED <<stacks, size, used, need, dead, amt>>

Deschedule(s) ==
  /\ run[s] # NoTask
  /\ run' = [run EXCEPT ![s] = NoTask]
  /\ UNCHANGED <<stacks, size, used, need, dead, amt>>

\* terminate_current_task: the scheduler switches to its own stack ...
\* Mutant: the stack is recycled before the switch.
TerminateEarly(s) ==
  /\ run[s] # NoTask /\ dead[s] = NoTask
  /\ dead' = [dead EXCEPT ![s] = run[s]]
  /\ GiveStack(s, used[run[s]])
  /\ UNCHANGED <<used, need, run>>

Terminate(s) ==
  /\ run[s] # NoTask
  /\ dead' = [dead EXCEPT ![s] = run[s]]
  /\ run' = [run EXCEPT ![s] = NoTask]
  /\ UNCHANGED <<stacks, size, used, need, amt>>

\* ... and runs the cleanup job, which recycles the coroutine.
Recycle(s) ==
  /\ dead[s] # NoTask
  /\ GiveStack(s, used[dead[s]])
  /\ used' = [used EXCEPT ![dead[s]] = 0] /\ need' = [need EXCEPT ![dead[s]] = 0]
  /\ dead' = [dead EXCEPT ![s] = NoTask]
  /\ UNCHANGED run

-----------------------------------------------------------------------------
\* The bound is reached.
Full == Mapped = Ids /\ UNCHANGED vars

Next ==
  \/ \E p \in Pools, t \in Tasks, n \in Sizes : Spawn(p, t, n)
  \/ \E s \in Scheds, t \in Tasks : Resume(s, t)
  \/ \E s \in Scheds : Deschedule(s)
  \/ \E s \in Scheds : Terminate(s)
  \/ \E s \in Scheds : Recycle(s)
  \/ Full

Spec == Init /\ [][Next]_vars

-----------------------------------------------------------------------------
(* Properties.                                                             *)

InUse == {used[t] : t \in Tasks} \ {0}

\* A stack has one user: no two tasks share one, none is cached twice or in two
\* pools, and none is cached while its task lives or a scheduler is still on it.
SingleUse ==
  /\ \A t, u \in Tasks : t # u /\ used[t] > 0 => used[t] # used[u]
  /\ \A p \in Pools : IsInjective(stacks[p]) /\ ToSet(stacks[p]) \cap InUse = {}
  /\ \A p, q \in Pools : p # q => ToSet(stacks[p]) \cap ToSet(stacks[q]) = {}

\* No mapping is lost: a stack that is mapped is in use or in a pool.
NoneLost == Mapped = InUse \cup UNION {ToSet(stacks[p]) : p \in Pools}

\* A task never gets a smaller stack than it was spawned with, from whichever
\* task and scheduler the cached one comes.
BigEnough == \A t \in Tasks : used[t] > 0 => need[t] <= size[used[t]]

\* A pool holds at most one stack more than the limit.
CacheBounded == \A p \in Pools : Len(stacks[p]) <= MaxCached + 1
=============================================================================

----------------------------- MODULE UvRequest ------------------------------
(***************************************************************************)
(* Operations of librustuv that hand a request to libuv and block until    *)
(* its callback: files (fs.rs), address lookups (addrinfo.rs) and, as      *)
(* Direct, every operation that is given its loop instead of borrowing the *)
(* local one.  One event loop, one thread: tasks run one at a time, and    *)
(* libuv's own threads only mark requests as complete.                     *)
(***************************************************************************)
EXTENDS Naturals, FiniteSets

CONSTANTS Tasks,
          None,        \* nobody runs: the thread is in the event loop
          Mixed,       \* tasks also block without borrowing the loop
          MaxOps,      \* bound: operations of a task
          MaxWrites    \* bound: requests of one write_at

BoundAssumption ==
  MaxOps \in Nat /\ MaxWrites \in Nat \ {0} /\ Mixed \in BOOLEAN /\ None \notin Tasks

VARIABLES cur,        \* the task that runs, or None
          borrowed,   \* the flag of LOCAL_LOOP
          op,         \* the operation each task is in
          left,       \* requests the operation still needs: the rest of buf
          req,        \* its request: not made, with libuv, complete, called back
          slot,       \* the tasks whose slot holds a BlockedTask
          cnt,        \* block's local: the count it read
          count,      \* the loop's count of blocked I/O
          file,       \* the tasks that own an open File
          ops,        \* operations each task started
          failed      \* the tasks whose File::drop failed

vars == <<cur, borrowed, op, left, req, slot, cnt, count, file, ops, failed>>

Borrowing == {"open", "file", "write", "path", "lookup", "drop"}
Op == Borrowing \cup {"none", "direct"}
Req == {"none", "queued", "done", "called"}

Blocked == {t \in Tasks : req[t] \in {"queued", "done"}}

\* The state and its types.  The flag of the loop is set exactly while one
\* task is in an operation that borrowed it, and a task without an operation
\* has no request.
TypeOK ==
  /\ cur \in Tasks \cup {None} /\ borrowed \in BOOLEAN
  /\ op \in [Tasks -> Op] /\ left \in [Tasks -> 0..MaxWrites] /\ req \in [Tasks -> Req]
  /\ slot \subseteq Tasks /\ file \subseteq Tasks /\ failed \subseteq Tasks
  /\ cnt \in [Tasks -> Nat] /\ count \in Nat /\ ops \in [Tasks -> 0..MaxOps]
  /\ Cardinality({t \in Tasks : op[t] \in Borrowing}) = IF borrowed THEN 1 ELSE 0
  /\ \A t \in Tasks : op[t] = "none" => req[t] = "none" /\ left[t] = 0

Init ==
  /\ cur = None /\ borrowed = FALSE /\ count = 0
  /\ op = [t \in Tasks |-> "none"] /\ req = [t \in Tasks |-> "none"]
  /\ left = [t \in Tasks |-> 0] /\ cnt = [t \in Tasks |-> 0] /\ ops = [t \in Tasks |-> 0]
  /\ slot = {} /\ file = {} /\ failed = {}

-----------------------------------------------------------------------------
(* The scheduler runs a task from a callback of the loop, and gets the     *)
(* thread back when the task yields between operations.                    *)

Run(t) ==
  /\ cur = None /\ op[t] = "none" /\ ops[t] < MaxOps
  /\ cur' = t
  /\ UNCHANGED <<borrowed, op, left, req, slot, cnt, count, file, ops, failed>>

Yield(t) ==
  /\ cur = t /\ op[t] = "none"
  /\ cur' = None
  /\ UNCHANGED <<borrowed, op, left, req, slot, cnt, count, file, ops, failed>>

-----------------------------------------------------------------------------
(* Starting an operation: EventLoop::borrow, then the requests.            *)

\* An operation that borrows the loop returns the error at once when it is taken.
Begin(t, kind, n) ==
  /\ cur = t /\ op[t] = "none" /\ ops[t] < MaxOps
  /\ ops' = [ops EXCEPT ![t] = @ + 1]
  /\ IF borrowed
       THEN UNCHANGED <<borrowed, op, left>>
       ELSE /\ borrowed' = TRUE
            /\ op' = [op EXCEPT ![t] = kind] /\ left' = [left EXCEPT ![t] = n]
  /\ UNCHANGED <<cur, req, slot, cnt, count>>

Open(t) ==
  /\ t \notin file /\ Begin(t, "open", 1)
  /\ UNCHANGED <<file, failed>>

\* fsync, datasync, truncate, stat, read_at.
FileOp(t) ==
  /\ t \in file /\ Begin(t, "file", 1)
  /\ UNCHANGED <<file, failed>>

\* Each request writes some of what is left of the buffer.
WriteAt(t) ==
  /\ t \in file /\ \E n \in 1..MaxWrites : Begin(t, "write", n)
  /\ UNCHANGED <<file, failed>>

\* unlink, stat, readdir and the other functions on paths.
PathOp(t) ==
  /\ Begin(t, "path", 1)
  /\ UNCHANGED <<file, failed>>

Lookup(t) ==
  /\ Begin(t, "lookup", 1)
  /\ UNCHANGED <<file, failed>>

\* The borrow of the destructor is unwrapped: it fails the task.
DropFile(t) ==
  /\ t \in file /\ Begin(t, "drop", 1)
  /\ file' = file \ {t}
  /\ failed' = IF borrowed THEN failed \cup {t} ELSE failed

Direct(t) ==
  /\ Mixed /\ cur = t /\ op[t] = "none" /\ ops[t] < MaxOps
  /\ ops' = [ops EXCEPT ![t] = @ + 1]
  /\ op' = [op EXCEPT ![t] = "direct"] /\ left' = [left EXCEPT ![t] = 1]
  /\ UNCHANGED <<cur, borrowed, req, slot, cnt, count, file, failed>>

-----------------------------------------------------------------------------
(* execute: one request.                                                   *)

\* The operation returns; the BorrowedEventLoop is dropped with it.
\* Mutant: the loop is only given back when the operation succeeds.
ReturnKeepsBorrow(t, ok) ==
  /\ op' = [op EXCEPT ![t] = "none"] /\ left' = [left EXCEPT ![t] = 0]
  /\ borrowed' = IF ok /\ op[t] \in Borrowing THEN FALSE ELSE borrowed

Return(t, ok) ==
  /\ op' = [op EXCEPT ![t] = "none"] /\ left' = [left EXCEPT ![t] = 0]
  /\ borrowed' = IF op[t] \in Borrowing THEN FALSE ELSE borrowed

\* libuv refuses the request: it is freed, without a cleanup.
ExecuteFails(t) ==
  /\ cur = t /\ op[t] # "none" /\ req[t] = "none"
  /\ Return(t, FALSE)
  /\ UNCHANGED <<cur, req, slot, cnt, count, file, ops, failed>>

\* block: the count goes up and the task is stored in the slot the request
\* points to.
\* Mutant: the operation does not count as blocked I/O.
BlockUncounted(t) ==
  /\ cnt' = [cnt EXCEPT ![t] = count]
  /\ count' = count
  /\ slot' = slot \cup {t} /\ cur' = None

Block(t) ==
  /\ cnt' = [cnt EXCEPT ![t] = count]
  /\ count' = count + 1
  /\ slot' = slot \cup {t} /\ cur' = None

\* Mutant: a request after the first is sent without waiting for it.
ExecuteAhead(t) ==
  /\ cur = t /\ op[t] # "none" /\ req[t] = "none"
  /\ req' = [req EXCEPT ![t] = "queued"]
  /\ IF left[t] = MaxWrites /\ MaxWrites > 1
       THEN cur' = None /\ UNCHANGED <<slot, cnt, count>>
       ELSE Block(t)
  /\ UNCHANGED <<borrowed, op, left, file, ops, failed>>

Execute(t) ==
  /\ cur = t /\ op[t] # "none" /\ req[t] = "none"
  /\ req' = [req EXCEPT ![t] = "queued"]
  /\ Block(t)
  /\ UNCHANGED <<borrowed, op, left, file, ops, failed>>

\* A thread of libuv's pool finishes the work.
Complete(t) ==
  /\ req[t] = "queued"
  /\ req' = [req EXCEPT ![t] = "done"]
  /\ UNCHANGED <<cur, borrowed, op, left, slot, cnt, count, file, ops, failed>>

\* The loop calls back; wakeup switches to the task at once.
FsCb(t) ==
  /\ cur = None /\ req[t] = "done"
  /\ req' = [req EXCEPT ![t] = "called"]
  /\ slot' = slot \ {t}
  /\ cur' = t
  /\ UNCHANGED <<borrowed, op, left, cnt, count, file, ops, failed>>

\* Mutant: write_at goes on from where it was, not from what was written.
FinishRepeats(t, ok) ==
  /\ cur = t /\ req[t] = "called"
  /\ count' = cnt[t]
  /\ req' = [req EXCEPT ![t] = "none"]
  /\ file' = IF ok /\ op[t] = "open" THEN file \cup {t} ELSE file
  /\ IF ok /\ left[t] > 1
       THEN UNCHANGED <<left, op, borrowed>>
       ELSE Return(t, ok)
  /\ UNCHANGED <<cur, slot, cnt, ops, failed>>

\* The rest of block and execute, and what the operation does with the result:
\* the count is the one read before the task blocked; the request is cleaned
\* up and freed; write_at goes on while some of the buffer is left.
Finish(t, ok) ==
  /\ cur = t /\ req[t] = "called"
  /\ count' = cnt[t]
  /\ req' = [req EXCEPT ![t] = "none"]
  /\ file' = IF ok /\ op[t] = "open" THEN file \cup {t} ELSE file
  /\ IF ok /\ left[t] > 1
       THEN left' = [left EXCEPT ![t] = @ - 1] /\ UNCHANGED <<op, borrowed>>
       ELSE Return(t, ok)
  /\ UNCHANGED <<cur, slot, cnt, ops, failed>>

-----------------------------------------------------------------------------
Step(t) ==
  \/ Yield(t)
  \/ Open(t)
  \/ FileOp(t)
  \/ WriteAt(t)
  \/ PathOp(t)
  \/ Lookup(t)
  \/ DropFile(t)
  \/ Direct(t)
  \/ ExecuteFails(t)
  \/ Execute(t)
  \/ \E ok \in BOOLEAN : Finish(t, ok)

Over == (cur = None /\ \A t \in Tasks : ops[t] = MaxOps /\ op[t] = "none") /\ UNCHANGED vars

Next ==
  \/ \E t \in Tasks : Run(t)
  \/ \E t \in Tasks : Step(t)
  \/ \E t \in Tasks : Complete(t)
  \/ \E t \in Tasks : FsCb(t)
  \/ Over

\* Tasks go on, libuv finishes what it is given and calls back.
Fairness == /\ \A t \in Tasks : WF_vars(Step(t)) /\ WF_vars(Complete(t))
            /\ SF_vars(\E t \in Tasks : FsCb(t))

Spec == Init /\ [][Next]_vars /\ Fairness

-----------------------------------------------------------------------------
(* Properties.                                                             *)

\* wakeup asserts that the slot is full, and the slot and the request are on
\* the stack of the operation: whatever libuv may still call back, its
\* operation is blocked and its slot holds the task.
CallbackSafe == \A t \in Blocked : t \in slot /\ op[t] # "none" /\ left[t] > 0 /\ cur # t

\* has_active_io is what the scheduler asks to decide whether it must poll:
\* outside of block the count is the number of tasks that wait for libuv.
ActiveIoExact == cur = None => count = Cardinality(Blocked)

\* Whoever starts an operation gets out of it, and with it the loop is given
\* back: one task that blocks in a file operation must not take the loop from
\* the others forever.
OpsReturn == \A t \in Tasks : (op[t] # "none") ~> (op[t] = "none")
=============================================================================

----------------------------- MODULE BasicLoop -----------------------------
(***************************************************************************)
(* BasicLoop (basic.rs), the event loop libgreen brings along: local work, *)
(* one idle callback, and remote callbacks that other threads fire through *)
(* a locked message list with a condition variable.                        *)
(*                                                                         *)
(* The loop runs on one thread, whose place in run() is `lpc'.  Every      *)
(* section under the lock of the messages is one action.                   *)
(***************************************************************************)
EXTENDS Integers, SequencesExt

CONSTANTS Remotes,   \* the remote callbacks that may be asked for
          MaxFires,  \* bound: fires of one remote callback
          MaxWork    \* bound: pieces of local work

BoundsAssumption == MaxFires \in Nat /\ MaxWork \in Nat

VARIABLES lpc,       \* where the loop's thread is in run()
          calling,   \* that thread is in a callback, or has not called run() yet
          work,      \* the length of the work list
          pushed,    \* how much work was ever pushed
          remotes,   \* the registered remote callbacks
          idle,      \* the idle callback and its idle_active flag
          messages,  \* the shared list of messages
          batch,     \* the messages remote_work took and has not processed
          owner,     \* the BasicRemote of each callback: none, held or dropped
          fires,     \* how often each was fired
          failed     \* unreachable!() was reached

local == <<work, pushed, remotes, idle>>   \* what only the loop's thread touches
vars == <<lpc, calling, local, messages, batch, owner, fires, failed>>

\* work, remote: in the first and in the second half of an iteration.
PC == {"top", "work", "remote", "waiting", "returned"}

Message == [kind : {"RunRemote", "RemoveRemote"}, id : Remotes]

TypeOK ==
  /\ lpc \in PC /\ calling \in BOOLEAN
  /\ work \in 0..MaxWork /\ pushed \in 0..MaxWork
  /\ remotes \in SUBSET Remotes
  /\ idle \in {"none", "active", "paused"}
  /\ messages \in Seq(Message) /\ batch \in Seq(Message)
  /\ owner \in [Remotes -> {"none", "held", "dropped"}]
  /\ fires \in [Remotes -> 0..MaxFires]
  /\ failed \in BOOLEAN

(* BasicLoop::new; whoever made the loop sets it up before it calls run(). *)
Init ==
  /\ lpc = "top" /\ calling = TRUE
  /\ work = 0 /\ pushed = 0 /\ remotes = {} /\ idle = "none"
  /\ messages = <<>> /\ batch = <<>>
  /\ owner = [r \in Remotes |-> "none"]
  /\ fires = [r \in Remotes |-> 0]
  /\ failed = FALSE

-----------------------------------------------------------------------------
(* What code on the loop's thread asks of its loop. *)

(* EventLoop::callback *)
Callback ==
  /\ calling /\ pushed < MaxWork
  /\ work' = work + 1 /\ pushed' = pushed + 1
  /\ UNCHANGED <<lpc, calling, remotes, idle, messages, batch, owner, fires, failed>>

(* EventLoop::remote_callback *)
NewRemote ==
  /\ calling
  /\ \E r \in Remotes : /\ owner[r] = "none"
                        /\ owner' = [owner EXCEPT ![r] = "held"]
                        /\ remotes' = remotes \cup {r}
  /\ UNCHANGED <<lpc, calling, work, pushed, idle, messages, batch, fires, failed>>

(* pausable_idle_callback *)
NewIdle ==
  /\ calling /\ idle = "none" /\ idle' = "active"
  /\ UNCHANGED <<lpc, calling, work, pushed, remotes, messages, batch, owner, fires, failed>>

(* pause, resume and drop of the BasicPausable. *)
Pause ==
  /\ calling /\ idle # "none" /\ idle' \in {"active", "paused"}
  /\ UNCHANGED <<lpc, calling, work, pushed, remotes, messages, batch, owner, fires, failed>>

(* The callback returns to the loop. *)
EndCall ==
  /\ calling /\ calling' = FALSE
  /\ UNCHANGED <<lpc, local, messages, batch, owner, fires, failed>>

-----------------------------------------------------------------------------
(* The loop. *)

HasIdle == idle = "active"

At(l) == lpc = l /\ ~calling

\* Mutant: the loop returns when it has nothing to do right now.
TopQuits ==
  /\ At("top")
  /\ lpc' = IF messages # <<>> \/ work > 0 \/ HasIdle THEN "work" ELSE "returned"
  /\ UNCHANGED <<calling, local, messages, batch, owner, fires, failed>>

(* The condition of the loop. *)
Top ==
  /\ At("top")
  /\ lpc' = IF remotes # {} \/ work > 0 \/ HasIdle THEN "work" ELSE "returned"
  /\ UNCHANGED <<calling, local, messages, batch, owner, fires, failed>>

(* work(): one piece of it. *)
Work ==
  /\ At("work") /\ work > 0
  /\ work' = work - 1
  /\ calling' = TRUE
  /\ UNCHANGED <<lpc, pushed, remotes, idle, messages, batch, owner, fires, failed>>

(* work() is done and remote_work takes the messages. *)
RemoteWork ==
  /\ At("work") /\ work = 0
  /\ lpc' = "remote"
  /\ batch' = messages /\ messages' = <<>>
  /\ UNCHANGED <<calling, local, owner, fires, failed>>

\* Mutant: the list is processed from its end.
NextMessageLast(m) == batch # <<>> /\ m = Last(batch) /\ batch' = Front(batch)

(* remote_work goes through the messages in the order they were sent. *)
NextMessage(m) == batch # <<>> /\ m = Head(batch) /\ batch' = Tail(batch)

(* message() *)
RunRemote ==
  /\ At("remote")
  /\ \E m \in Message : /\ NextMessage(m) /\ m.kind = "RunRemote"
                        /\ calling' = (m.id \in remotes)
                        /\ failed' = (m.id \notin remotes)
  /\ UNCHANGED <<lpc, local, messages, owner, fires>>

RemoveRemote ==
  /\ At("remote")
  /\ \E m \in Message : /\ NextMessage(m) /\ m.kind = "RemoveRemote"
                        /\ remotes' = remotes \ {m.id}
                        /\ failed' = (m.id \notin remotes)
  /\ UNCHANGED <<lpc, calling, work, pushed, idle, messages, owner, fires>>

(* idle(), and back to the condition. *)
Idle ==
  /\ At("remote") /\ batch = <<>> /\ HasIdle
  /\ lpc' = "top"
  /\ calling' = TRUE
  /\ UNCHANGED <<local, messages, batch, owner, fires, failed>>

\* Mutant: local work pushed by a remote callback is forgotten.
WaitIdly ==
  /\ At("remote") /\ batch = <<>> /\ ~HasIdle
  /\ lpc' = IF remotes # {} /\ messages = <<>> THEN "waiting" ELSE "top"
  /\ UNCHANGED <<calling, local, messages, batch, owner, fires, failed>>

\* Mutant: what was sent since remote_work took the list is overlooked.
WaitBlindly ==
  /\ At("remote") /\ batch = <<>> /\ ~HasIdle
  /\ lpc' = IF remotes # {} /\ work = 0 THEN "waiting" ELSE "top"
  /\ UNCHANGED <<calling, local, messages, batch, owner, fires, failed>>

(* Under the lock: wait if there is nothing to do and a message may come.  *)
Wait ==
  /\ At("remote") /\ batch = <<>> /\ ~HasIdle
  /\ lpc' = IF remotes # {} /\ messages = <<>> /\ work = 0 THEN "waiting" ELSE "top"
  /\ UNCHANGED <<calling, local, messages, batch, owner, fires, failed>>

(* A condition variable may return without a signal. *)
SpuriousWake ==
  /\ lpc = "waiting" /\ lpc' = "top"
  /\ UNCHANGED <<calling, local, messages, batch, owner, fires, failed>>

LoopStep == \/ Top \/ Work \/ RemoteWork \/ RunRemote \/ RemoveRemote \/ Idle \/ Wait

-----------------------------------------------------------------------------
(* Other threads, through a BasicRemote. *)

(* Push and signal, under the lock. *)
Send(m) ==
  /\ messages' = Append(messages, m)
  /\ lpc' = IF lpc = "waiting" THEN "top" ELSE lpc

Fire(r) ==
  /\ owner[r] = "held" /\ fires[r] < MaxFires
  /\ Send([kind |-> "RunRemote", id |-> r])
  /\ fires' = [fires EXCEPT ![r] = @ + 1]
  /\ UNCHANGED <<calling, local, batch, owner, failed>>

Drop(r) ==
  /\ owner[r] = "held"
  /\ Send([kind |-> "RemoveRemote", id |-> r])
  /\ owner' = [owner EXCEPT ![r] = "dropped"]
  /\ UNCHANGED <<calling, local, batch, fires, failed>>

-----------------------------------------------------------------------------
Returned == (lpc = "returned" \/ failed) /\ UNCHANGED vars

Next == \/ ~failed /\ (Callback \/ NewRemote \/ NewIdle \/ Pause \/ EndCall)
        \/ ~failed /\ (LoopStep \/ SpuriousWake)
        \/ ~failed /\ \E r \in Remotes : Fire(r) \/ Drop(r)
        \/ Returned

Spec == Init /\ [][Next]_vars

\* The thread of the loop runs and callbacks return; nobody has to fire or to
\* drop, and no wake-up is spurious for sure.
Fairness == WF_vars(~failed /\ LoopStep) /\ WF_vars(~failed /\ EndCall)

FairSpec == Spec /\ Fairness

-----------------------------------------------------------------------------
(* Properties *)

\* message() always finds the callback a message names: the two unreachable!()
\* are, because a BasicRemote sends its RemoveRemote last and the list keeps
\* the order across the batches that remote_work takes.
NoUnreachable == ~failed

\* run() returns only when nobody can reach the loop any more: no BasicRemote is
\* left, and neither messages nor work that would never be looked at.
ReturnsClean ==
  lpc = "returned" => /\ messages = <<>> /\ batch = <<>> /\ work = 0
                      /\ \A r \in Remotes : owner[r] # "held"

\* Work pushed by any callback, one that ran after work() included, is done.
WorkDone == work > 0 ~> work = 0

\* A BasicLoop keeps the promise of RemoteCallback: every fire is answered by a
\* call although the loop sleeps, and a callback is removed after its last fire
\* is answered.
Queued(r, k) == [kind |-> k, id |-> r] \in Range(batch \o messages)

RC == INSTANCE RemoteCallback WITH
        status <- [r \in Remotes |->
                     IF owner[r] = "none" THEN "unmade"
                     ELSE IF owner[r] = "held" THEN "live"
                     ELSE IF r \in remotes THEN "dropped" ELSE "gone"],
        owed <- [r \in Remotes |-> Queued(r, "RunRemote")]

Contract == RC!Spec
=============================================================================

------------------------------ MODULE UvAsync ------------------------------
(***************************************************************************)
(* Async (async.rs), the remote callback of the libuv loop.  Its handle    *)
(* may be fired and dropped by any thread while the loop is in the         *)
(* callback, and the loop destroys it: an exit flag, set under a lock      *)
(* together with the last send, tells the loop when.                       *)
(*                                                                         *)
(* libuv is external: uv_async_send marks the handle pending, and the loop *)
(* clears the mark before it calls back, so sends merge.                   *)
(***************************************************************************)
EXTENDS Naturals

CONSTANTS Remotes,   \* the Async handles that may be created on the loop
          NoCb,      \* not an Async: the loop is in no async callback
          MaxFires   \* bound: fires of one handle

RemotesAssumption == NoCb \notin Remotes /\ MaxFires \in Nat

VARIABLES cb,       \* the Async whose callback the loop is in
          stage,    \* where in async_cb, or in poll, or in user code
          should,   \* should_exit of async_cb
          handle,   \* the libuv handle and its Data
          pend,     \* the libuv handle is marked pending
          flag,     \* Data.exit_flag
          owner,    \* the Async object on the thread that owns it
          fires,    \* how often each was fired
          owed,     \* history: sent since the last call began
          failed    \* memory was touched after close_cb freed it

loopv == <<cb, stage, should>>
vars == <<cb, stage, should, handle, pend, flag, owner, fires, owed, failed>>

\* flag, call, calling, close: the statements of async_cb.
Stage == {"poll", "flag", "call", "calling", "close", "returned"}

\* locked, sent: in drop with the lock, before and after the send.
Owner == {"none", "held", "locked", "sent", "gone"}

\* Every variable is typed, and an object has its handle from new_on to the end.
TypeOK ==
  /\ cb \in Remotes \cup {NoCb} /\ stage \in Stage /\ should \in BOOLEAN
  /\ handle \in [Remotes -> {"none", "open", "closing", "freed"}]
  /\ pend \in [Remotes -> BOOLEAN] /\ flag \in [Remotes -> BOOLEAN] /\ owed \in [Remotes -> BOOLEAN]
  /\ owner \in [Remotes -> Owner]
  /\ fires \in [Remotes -> 0..MaxFires]
  /\ failed \in BOOLEAN
  /\ \A r \in Remotes : handle[r] = "none" <=> owner[r] = "none"

(* The thread that made the loop sets it up before it runs it. *)
Init ==
  /\ cb = NoCb /\ stage = "calling" /\ should = FALSE
  /\ handle = [r \in Remotes |-> "none"]
  /\ owed = [r \in Remotes |-> FALSE]
  /\ pend = [r \in Remotes |-> FALSE] /\ flag = [r \in Remotes |-> FALSE]
  /\ owner = [r \in Remotes |-> "none"]
  /\ fires = [r \in Remotes |-> 0]
  /\ failed = FALSE

-----------------------------------------------------------------------------
(* The thread of the loop. *)

(* Async::new_on, by user code on the loop. *)
New(r) ==
  /\ stage = "calling" /\ owner[r] = "none"
  /\ owner' = [owner EXCEPT ![r] = "held"]
  /\ handle' = [handle EXCEPT ![r] = "open"]
  /\ UNCHANGED <<loopv, pend, flag, fires, owed, failed>>

(* libuv finds a pending handle and enters async_cb. *)
Dispatch(r) ==
  /\ stage = "poll" /\ handle[r] = "open" /\ pend[r]
  /\ pend' = [pend EXCEPT ![r] = FALSE]
  /\ cb' = r /\ stage' = "flag"
  /\ UNCHANGED <<should, handle, flag, owner, fires, owed, failed>>

\* Mutant: the flag is read without the lock.
ReadFlagUnlocked ==
  /\ stage = "flag"
  /\ should' = flag[cb] /\ stage' = "call"
  /\ UNCHANGED <<cb, handle, pend, flag, owner, fires, owed, failed>>

(* The flag is read under the lock, before the callback. *)
ReadFlag ==
  /\ stage = "flag" /\ owner[cb] \notin {"locked", "sent"}
  /\ should' = flag[cb] /\ stage' = "call"
  /\ UNCHANGED <<cb, handle, pend, flag, owner, fires, owed, failed>>

CallBack ==
  /\ stage = "call" /\ stage' = "calling"
  /\ owed' = [owed EXCEPT ![cb] = FALSE]
  /\ UNCHANGED <<cb, should, handle, pend, flag, owner, fires, failed>>

\* Mutant: the flag is read again after the callback.
EndCallRereads ==
  /\ stage = "calling"
  /\ stage' = IF cb = NoCb THEN "poll" ELSE "close"
  /\ should' = IF cb = NoCb THEN FALSE ELSE flag[cb]
  /\ UNCHANGED <<cb, handle, pend, flag, owner, fires, owed, failed>>

(* User code returns. *)
EndCall ==
  /\ stage = "calling"
  /\ stage' = IF cb = NoCb THEN "poll" ELSE "close"
  /\ UNCHANGED <<cb, should, handle, pend, flag, owner, fires, owed, failed>>

(* The end of async_cb. *)
MaybeClose ==
  /\ stage = "close"
  /\ handle' = IF should THEN [handle EXCEPT ![cb] = "closing"] ELSE handle
  /\ cb' = NoCb /\ stage' = "poll" /\ should' = FALSE
  /\ UNCHANGED <<pend, flag, owner, fires, owed, failed>>

(* close_cb, from the loop when it has unlinked the handle. *)
CloseCb(r) ==
  /\ stage = "poll" /\ handle[r] = "closing"
  /\ handle' = [handle EXCEPT ![r] = "freed"]
  /\ UNCHANGED <<loopv, pend, flag, owner, fires, owed, failed>>

(* uv_run returns when no handle is left. *)
Return ==
  /\ stage = "poll" /\ \A r \in Remotes : handle[r] \in {"none", "freed"}
  /\ stage' = "returned"
  /\ UNCHANGED <<cb, should, handle, pend, flag, owner, fires, owed, failed>>

-----------------------------------------------------------------------------
(* The thread that owns the Async. *)

(* uv_async_send *)
Send(r) ==
  /\ pend' = [pend EXCEPT ![r] = TRUE] /\ owed' = [owed EXCEPT ![r] = TRUE]
  /\ failed' = (handle[r] = "freed")

Fire(r) ==
  /\ owner[r] = "held" /\ fires[r] < MaxFires
  /\ Send(r)
  /\ fires' = [fires EXCEPT ![r] = @ + 1]
  /\ UNCHANGED <<loopv, handle, flag, owner>>

(* drop takes the lock and sets the flag, ... *)
DropLock(r) ==
  /\ owner[r] = "held"
  /\ flag' = [flag EXCEPT ![r] = TRUE]
  /\ owner' = [owner EXCEPT ![r] = "locked"]
  /\ UNCHANGED <<loopv, handle, pend, fires, owed, failed>>

(* ... sends, ... *)
DropSend(r) ==
  /\ owner[r] = "locked"
  /\ Send(r)
  /\ owner' = [owner EXCEPT ![r] = "sent"]
  /\ UNCHANGED <<loopv, handle, flag, fires>>

(* ... and releases the lock, which is in the Data. *)
DropUnlock(r) ==
  /\ owner[r] = "sent"
  /\ owner' = [owner EXCEPT ![r] = "gone"]
  /\ failed' = (handle[r] = "freed")
  /\ UNCHANGED <<loopv, handle, pend, flag, fires, owed>>

-----------------------------------------------------------------------------
LoopStep ==
  \/ ReadFlag \/ CallBack \/ EndCall \/ MaybeClose \/ Return
  \/ \E r \in Remotes : Dispatch(r) \/ CloseCb(r)

Dtor(r) == DropSend(r) \/ DropUnlock(r)

Stopped == (stage = "returned" \/ failed) /\ UNCHANGED vars

Next == \/ ~failed /\ LoopStep
        \/ ~failed /\ \E r \in Remotes : New(r) \/ Fire(r) \/ DropLock(r) \/ Dtor(r)
        \/ Stopped

Spec == Init /\ [][Next]_vars

\* The loop runs, its callbacks return, and a drop that has begun goes on;
\* nobody has to fire or to drop.
Fairness == /\ WF_vars(~failed /\ LoopStep)
            /\ \A r \in Remotes : WF_vars(~failed /\ Dtor(r))

FairSpec == Spec /\ Fairness

-----------------------------------------------------------------------------
(* Properties *)

\* The handle and the lock in its Data are not touched after close_cb frees
\* them: the loop learns of the drop only when the drop is over (async.rs 122-125).
NoUseAfterFree == ~failed

\* uv_run returns only when no thread can reach the loop through an Async.
NoneLeft == stage = "returned" => \A r \in Remotes : owner[r] \in {"none", "gone"}

\* Async keeps the promise of RemoteCallback (async.rs 69-90): every fire and the
\* final send of drop are followed by a call, and then only the handle goes.
RC == INSTANCE RemoteCallback WITH
        status <- [r \in Remotes |->
                     IF owner[r] = "none" THEN "unmade"
                     ELSE IF owner[r] = "held" THEN "live"
                     ELSE IF handle[r] # "freed" THEN "dropped" ELSE "gone"],
        owed <- [r \in Remotes |-> owed[r] \/ owner[r] = "locked"]

Contract == RC!Spec
=============================================================================

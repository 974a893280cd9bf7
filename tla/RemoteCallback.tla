--------------------------- MODULE RemoteCallback ---------------------------
(***************************************************************************)
(* What a scheduler relies on when it is handed a RemoteCallback by an     *)
(* event loop (traits EventLoop, RemoteCallback and Callback of libgreen): *)
(* after a fire the callback is called on the loop, several fires may be   *)
(* answered by one call, and the callback is destroyed only after its      *)
(* handle is dropped and every fire before that is answered.  BasicLoop    *)
(* and the libuv Async handle are shown to implement this.                 *)
(***************************************************************************)
CONSTANT Remotes   \* the remote callbacks a loop may be asked for

VARIABLES status,  \* of each remote callback, see Status
          owed     \* a call is owed: there was a fire and no call since

vars == <<status, owed>>

\* dropped: the handle is gone, the callback is not destroyed yet.
Status == {"unmade", "live", "dropped", "gone"}

Init ==
  /\ status = [r \in Remotes |-> "unmade"]
  /\ owed = [r \in Remotes |-> FALSE]

(* EventLoop::remote_callback *)
Make(r) ==
  /\ status[r] = "unmade"
  /\ status' = [status EXCEPT ![r] = "live"]
  /\ UNCHANGED owed

(* RemoteCallback::fire, from any thread. *)
Fire(r) ==
  /\ status[r] = "live"
  /\ owed' = [owed EXCEPT ![r] = TRUE]
  /\ UNCHANGED status

(* The handle is dropped; a loop may or may not call once more for it. *)
Drop(r) ==
  /\ status[r] = "live"
  /\ status' = [status EXCEPT ![r] = "dropped"]
  /\ \E o \in {owed[r], TRUE} : owed' = [owed EXCEPT ![r] = o]

(* Callback::call, on the loop's thread. *)
Call(r) ==
  /\ owed[r]
  /\ owed' = [owed EXCEPT ![r] = FALSE]
  /\ UNCHANGED status

(* The loop destroys the callback. *)
Free(r) ==
  /\ status[r] = "dropped" /\ ~owed[r]
  /\ status' = [status EXCEPT ![r] = "gone"]
  /\ UNCHANGED owed

Next == \E r \in Remotes : Make(r) \/ Fire(r) \/ Drop(r) \/ Call(r) \/ Free(r)

(* The loop calls what it owes and destroys what was dropped. *)
Fairness == \A r \in Remotes : WF_vars(Call(r)) /\ WF_vars(Free(r))

Spec == Init /\ [][Next]_vars /\ Fairness
=============================================================================

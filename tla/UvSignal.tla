------------------------------ MODULE UvSignal ------------------------------
(***************************************************************************)
(* Signal (signal.rs): a callback in a Data that signal_cb calls where it  *)
(* is, while start, stop and drop replace and free it.  As in UvTimer, the *)
(* loop has one thread, the callback may switch to the owner of the object *)
(* and the owner uses the object only on that thread.                      *)
(***************************************************************************)
EXTENDS Naturals, FiniteSets

CONSTANTS Signals,       \* the Signal objects, each with its owner
          None,          \* the loop has the thread, or runs no callback
          MaxStarts      \* bound: calls of start per object

SignalAssumption == None \notin Signals /\ MaxStarts \in Nat

VARIABLES cur,       \* the object whose owner has the thread, or None
          listens,   \* the libuv handle is started
          callback,  \* Data.callback: the number of the start that set it, 0 for none
          starts,    \* how often start succeeded
          pending,   \* libuv caught a signal for the handle
          stack,     \* the object whose signal_cb runs, or None
          running,   \* the number of the callback it runs
          alive,     \* the object is not dropped
          failed     \* the assertion of signal_cb

vars == <<cur, listens, callback, starts, pending, stack, running, alive, failed>>

\* The state and its types; a started handle has a callback.
TypeOK ==
  /\ cur \in Signals \cup {None} /\ stack \in Signals \cup {None} /\ running \in 0..MaxStarts
  /\ listens \subseteq alive /\ pending \subseteq Signals /\ alive \subseteq Signals
  /\ callback \in [Signals -> 0..MaxStarts] /\ starts \in [Signals -> 0..MaxStarts]
  /\ failed \in BOOLEAN /\ \A s \in listens : callback[s] = starts[s] /\ callback[s] > 0

Init ==
  /\ cur = None /\ stack = None /\ running = 0 /\ listens = {} /\ pending = {} /\ alive = Signals
  /\ callback = [s \in Signals |-> 0] /\ starts = [s \in Signals |-> 0] /\ failed = FALSE

\* An owner comes home, or is switched to by a callback.
Enter(s) ==
  /\ cur = None /\ s \in alive
  /\ cur' = s
  /\ UNCHANGED <<listens, callback, starts, pending, stack, running, alive, failed>>

Leave(s) ==
  /\ cur = s
  /\ cur' = None
  /\ UNCHANGED <<listens, callback, starts, pending, stack, running, alive, failed>>

-----------------------------------------------------------------------------
(* The owner.                                                              *)

\* Mutant: the old callback stays.
StartKeeps(s) ==
  /\ cur = s /\ s \in alive /\ starts[s] < MaxStarts
  /\ starts' = [starts EXCEPT ![s] = @ + 1]
  /\ callback' = [callback EXCEPT ![s] = IF @ = 0 THEN starts'[s] ELSE @]
  /\ listens' = listens \cup {s} /\ pending' = pending \ {s}
  /\ UNCHANGED <<cur, stack, running, alive, failed>>

\* libuv forgets a previous registration, and the new callback replaces the old.
Start(s) ==
  /\ cur = s /\ s \in alive /\ starts[s] < MaxStarts
  /\ starts' = [starts EXCEPT ![s] = @ + 1]
  /\ callback' = [callback EXCEPT ![s] = starts'[s]]
  /\ listens' = listens \cup {s} /\ pending' = pending \ {s}
  /\ UNCHANGED <<cur, stack, running, alive, failed>>

\* start fails: the previous registration is gone, its callback is kept.
StartFails(s) ==
  /\ cur = s /\ s \in alive
  /\ listens' = listens \ {s} /\ pending' = pending \ {s}
  /\ UNCHANGED <<cur, callback, starts, stack, running, alive, failed>>

\* Mutant: the callback is taken and the handle left started.
StopTakesOnly(s) ==
  /\ cur = s /\ s \in alive
  /\ callback' = [callback EXCEPT ![s] = 0]
  /\ UNCHANGED <<cur, starts, stack, running, alive, failed, listens, pending>>

Stop(s) ==
  /\ cur = s /\ s \in alive
  /\ listens' = listens \ {s} /\ pending' = pending \ {s}
  /\ callback' = [callback EXCEPT ![s] = 0]
  /\ UNCHANGED <<cur, starts, stack, running, alive, failed>>

\* The handle is stopped and closed; the Data goes with its callback.
Drop(s) ==
  /\ cur = s /\ s \in alive
  /\ listens' = listens \ {s} /\ pending' = pending \ {s} /\ alive' = alive \ {s}
  /\ callback' = [callback EXCEPT ![s] = 0]
  /\ UNCHANGED <<cur, starts, stack, running, failed>>

-----------------------------------------------------------------------------
(* The loop.                                                               *)

Caught(s) ==
  /\ s \in listens
  /\ pending' = pending \cup {s}
  /\ UNCHANGED <<cur, listens, callback, starts, stack, running, alive, failed>>

\* signal_cb asserts that there is a callback and calls it in place.
SignalCb(s) ==
  /\ cur = None /\ stack = None /\ s \in pending
  /\ pending' = pending \ {s}
  /\ failed' = (failed \/ callback[s] = 0)
  /\ stack' = s /\ running' = callback[s]
  /\ UNCHANGED <<cur, listens, callback, starts, alive>>

CbReturns ==
  /\ cur = None /\ stack # None
  /\ stack' = None /\ running' = 0
  /\ UNCHANGED <<cur, listens, callback, starts, pending, alive, failed>>

-----------------------------------------------------------------------------
Over == alive = {} /\ UNCHANGED vars

Next ==
  \/ \E s \in Signals : Enter(s)
  \/ \E s \in Signals : Leave(s)
  \/ \E s \in Signals : Start(s)
  \/ \E s \in Signals : StartFails(s)
  \/ \E s \in Signals : Stop(s)
  \/ \E s \in Signals : Drop(s)
  \/ \E s \in Signals : Caught(s)
  \/ \E s \in Signals : SignalCb(s)
  \/ CbReturns
  \/ Over

Spec == Init /\ [][Next]_vars

-----------------------------------------------------------------------------
(* Properties.                                                             *)

\* signal_cb always finds a callback, also for a signal that was caught before
\* the object was stopped, restarted or dropped.
CallbackPresent == ~failed

\* A callback is called only while it is the registered one: after start has
\* returned the previous callback is not called again, after stop none is.
CallsCurrent ==
  [][\A s \in Signals : stack' = s /\ stack # s => s \in listens /\ running' = starts[s]]_vars
=============================================================================

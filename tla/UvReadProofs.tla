---------------------------- MODULE UvReadProofs ----------------------------
(***************************************************************************)
(* Proofs about UvRead: types for every run, and exclusion of readers when *)
(* no timeout elapses while a task waits for access.                       *)
(***************************************************************************)
EXTENDS UvRead, TLAPS, SequenceTheorems

-----------------------------------------------------------------------------
(* Types *)

\* What Release leaves typed, for any handle.
LEMMA ReleaseType ==
  ASSUME TypeOK, NEW h \in Handles, Release(h)
  PROVE  /\ cur' \in Handles \cup {Loop}
         /\ pc' \in [Handles -> PC]
         /\ held' \in BOOLEAN
         /\ queue' \in Seq(Handles)
         /\ \A g \in Handles : pc'[g] = "absent" => pc[g] = "absent"
<1>1. CASE queue = <<>>
  BY <1>1 DEF TypeOK, Release, PC
<1>2. CASE queue # <<>>
  <2>1. Head(queue) \in Handles /\ Tail(queue) \in Seq(Handles)
    BY <1>2, HeadTailProperties DEF TypeOK
  <2> QED BY <1>2, <2>1 DEF TypeOK, Release, PC
<1> QED BY <1>1, <1>2

\* Flag stays in State.
LEMMA FlagType ==
  ASSUME NEW st \in [Handles -> State], NEW h \in Handles, NEW c \in State
  PROVE  Flag(st, h, c) \in [Handles -> State]
  BY DEF Flag, State

\* What the end of a read leaves typed.
LEMMA FinishType ==
  ASSUME TypeOK, NEW h \in Handles, NEW r \in Result, NEW st \in [Handles -> State],
         Finish(h, r, st), timer' \in [Handles -> {"none", "stopped", "started"}],
         \A g \in Handles : timer[g] = "none" => timer'[g] = "none",
         closed' \in BOOLEAN, active' \in BOOLEAN, patient' \in BOOLEAN
  PROVE  TypeOK'
<1>1. /\ cur' \in Handles \cup {Loop} /\ pc' \in [Handles -> PC]
      /\ held' \in BOOLEAN /\ queue' \in Seq(Handles)
      /\ \A g \in Handles : pc'[g] = "absent" => pc[g] = "absent"
  BY ReleaseType DEF Finish
<1>2. state' \in [Handles -> State]
  BY FlagType DEF Finish, State
<1>3. result' \in Result /\ failed' \in BOOLEAN /\ data' \in Handles \cup {Loop}
  BY DEF Finish, TypeOK
<1> QED BY <1>1, <1>2, <1>3 DEF TypeOK

\* Taking a task out of the queue keeps it a queue.
LEMMA DequeueType ==
  ASSUME queue \in Seq(Handles), NEW h, Dequeue(h)
  PROVE  queue' \in Seq(Handles)
<1>1. CASE h \in Range(queue)
  <2>1. PICK i \in 1..Len(queue) : queue' = SubSeq(queue, 1, i-1) \o SubSeq(queue, i+1, Len(queue))
    BY <1>1 DEF Dequeue, RemoveAt
  <2> QED BY <2>1
<1>2. CASE h \notin Range(queue)
  BY <1>2 DEF Dequeue
<1> QED BY <1>1, <1>2

\* Every step keeps the types.
LEMMA TypeStep == TypeOK /\ [Next]_vars => TypeOK'
<1> SUFFICES ASSUME TypeOK, [Next]_vars PROVE TypeOK'
  OBVIOUS
<1>0. patient' \in BOOLEAN
  BY DEF TypeOK, Next, Stopped, vars
<1> USE <1>0
<1>1. ASSUME NEW h \in Handles, Grant(h) PROVE TypeOK'
  <2>1. state' \in [Handles -> State]
    BY <1>1, FlagType DEF Grant, TypeOK, State
  <2>2. queue' \in Seq(Handles)
    <3>1. queue' = queue \/ queue' = Append(queue, h)
      BY <1>1 DEF Grant
    <3>2. queue \in Seq(Handles)
      BY DEF TypeOK
    <3> QED
      BY <3>1, <3>2, AppendProperties
  <2> QED BY <1>1, <2>1, <2>2 DEF Grant, TypeOK, PC, streamv
<1>2. ASSUME NEW h \in Handles, GrantRefused(h) PROVE TypeOK'
  BY <1>2 DEF GrantRefused, TypeOK, Result, accessv, streamv
<1>3. ASSUME NEW h \in Handles, GrantTimedOut(h) PROVE TypeOK'
  BY <1>3, ReleaseType DEF GrantTimedOut, TypeOK, Result, streamv
<1>4. ASSUME NEW h \in Handles, ReadRefused(h) PROVE TypeOK'
  <2>1. state' \in [Handles -> State]
    BY <1>4, FlagType DEF ReadRefused, TypeOK, State
  <2> QED BY <1>4, <2>1, ReleaseType DEF ReadRefused, TypeOK, Result
<1>5. ASSUME NEW h \in Handles, ReadStart(h) PROVE TypeOK'
  <2>1. state' \in [Handles -> State]
    BY <1>5, FlagType DEF ReadStart, TypeOK, State
  <2> QED BY <1>5, <2>1 DEF ReadStart, TypeOK, PC, accessv
<1>6. ASSUME ReadCb PROVE TypeOK'
  <2>1. CASE data # Loop
    BY <1>6, <2>1, FinishType DEF ReadCb, TypeOK, Result
  <2>2. CASE data = Loop
    BY <1>6, <2>2 DEF ReadCb, TypeOK, accessv
  <2> QED BY <2>1, <2>2
<1>7. ASSUME NEW h \in Handles, TimerIdle(h) PROVE TypeOK'
  BY <1>7 DEF TimerIdle, Fires, TimedOut, TypeOK, State, accessv, streamv
<1>8. ASSUME NEW h \in Handles, TimerQueued(h) PROVE TypeOK'
  <2>1. queue' \in Seq(Handles)
    BY <1>8, DequeueType DEF TimerQueued, TypeOK
  <2> QED BY <1>8, <2>1 DEF TimerQueued, Fires, TimedOut, TypeOK, State, PC, streamv
<1>9. ASSUME NEW h \in Handles, TimerRequest(h) PROVE TypeOK'
  <2>1. TimedOut(h) \in [Handles -> State]
    BY DEF TimedOut, TypeOK, State
  <2>2. /\ timer' \in [Handles -> {"none", "stopped", "started"}]
        /\ \A g \in Handles : timer[g] = "none" => timer'[g] = "none"
        /\ closed' \in BOOLEAN
    BY <1>9 DEF TimerRequest, Fires, TypeOK
  <2>3. CASE CancelRead("ECANCELED", TimedOut(h))
    BY <2>1, <2>2, <2>3, FinishType DEF CancelRead, TypeOK, Result
  <2>4. CASE ~CancelRead("ECANCELED", TimedOut(h))
    BY <1>9, <2>1, <2>2, <2>4 DEF TimerRequest, TypeOK, accessv
  <2> QED BY <2>3, <2>4
<1>10. ASSUME NEW h \in Handles, SetTimeout(h) PROVE TypeOK'
  BY <1>10 DEF SetTimeout, TypeOK, State, accessv, streamv
<1>11. ASSUME NEW h \in Handles, CloseRead(h) PROVE TypeOK'
  <2>1. CASE CancelRead("EOF", state)
    BY <1>11, <2>1, FinishType DEF CloseRead, CancelRead, TypeOK, Result
  <2>2. CASE ~CancelRead("EOF", state)
    BY <1>11, <2>2 DEF CloseRead, TypeOK, accessv
  <2> QED BY <2>1, <2>2
<1>12. ASSUME NEW h \in Handles, NEW g \in Handles, Clone(h, g) PROVE TypeOK'
  BY <1>12 DEF Clone, TypeOK, State, PC, Result, accessv, streamv
<1>13. ASSUME NEW h \in Handles, DropHandle(h) PROVE TypeOK'
  BY <1>13 DEF DropHandle, TypeOK, PC, accessv, streamv
<1>14. CASE UNCHANGED vars
  BY <1>14 DEF vars, TypeOK
<1> QED
  BY <1>1, <1>2, <1>3, <1>4, <1>5, <1>6, <1>7, <1>8, <1>9, <1>10, <1>11, <1>12, <1>13, <1>14
     DEF Next, Resume, TimerCb, UserCall, Stopped

\* Type correctness, with or without patient waiters: the thread, the queue and
\* the stream always name handles, and a dropped object has closed its timer.
THEOREM ReadTypeCorrect == Spec => []TypeOK
<1>1. Init => TypeOK
  <2> SUFFICES ASSUME Init PROVE TypeOK
    OBVIOUS
  <2>1. pc \in [Handles -> PC]
    BY DEF Init, PC
  <2>2. queue \in Seq(Handles)
    BY DEF Init
  <2> QED BY <2>1, <2>2 DEF Init, TypeOK, State, Result
<1> QED BY <1>1, TypeStep, PTL DEF Spec

-----------------------------------------------------------------------------
(* Exclusion *)

\* The first waiter leaves the queue: the others stay, each once.
LEMMA TailQueue ==
  ASSUME NEW q \in Seq(Handles), q # <<>>, IsInjective(q)
  PROVE  /\ Head(q) \in Handles /\ Head(q) \in Range(q)
         /\ IsInjective(Tail(q))
         /\ \A h \in Handles : h \in Range(Tail(q)) <=> h \in Range(q) /\ h # Head(q)
<1>1. /\ Head(q) \in Handles /\ Tail(q) \in Seq(Handles)
      /\ Len(Tail(q)) = Len(q) - 1
      /\ \A i \in 1..Len(Tail(q)) : Tail(q)[i] = q[i+1]
  BY HeadTailProperties
<1>2. Len(q) \in Nat \ {0} /\ Head(q) = q[1] /\ DOMAIN q = 1..Len(q)
  OBVIOUS
<1>3. DOMAIN Tail(q) = 1..(Len(q) - 1)
  BY <1>1
<1>4. Head(q) \in Range(q)
  BY <1>2 DEF Range
<1>5. IsInjective(Tail(q))
  BY <1>1, <1>2, <1>3 DEF IsInjective
<1>6. ASSUME NEW h \in Handles
      PROVE  h \in Range(Tail(q)) <=> h \in Range(q) /\ h # Head(q)
  <2>1. ASSUME h \in Range(Tail(q)) PROVE h \in Range(q) /\ h # Head(q)
    <3>1. PICK i \in 1..(Len(q) - 1) : h = q[i+1]
      BY <1>1, <1>3, <2>1 DEF Range
    <3> QED BY <1>2, <3>1 DEF Range, IsInjective
  <2>2. ASSUME h \in Range(q), h # Head(q) PROVE h \in Range(Tail(q))
    <3>1. PICK i \in 1..Len(q) : h = q[i]
      BY <1>2, <2>2 DEF Range
    <3>2. i # 1 /\ i - 1 \in 1..(Len(q) - 1)
      BY <1>2, <2>2, <3>1
    <3>3. Tail(q)[i - 1] = h
      BY <1>1, <3>1, <3>2
    <3> QED BY <1>3, <3>2, <3>3 DEF Range
  <2> QED BY <2>1, <2>2
<1> QED BY <1>1, <1>4, <1>5, <1>6

\* A new waiter joins the queue.
LEMMA AppendQueue ==
  ASSUME NEW q \in Seq(Handles), IsInjective(q), NEW e \in Handles, e \notin Range(q)
  PROVE  /\ IsInjective(Append(q, e)) /\ Append(q, e) # <<>>
         /\ \A h \in Handles : h \in Range(Append(q, e)) <=> h \in Range(q) \/ h = e
<1>1. /\ Len(q) \in Nat /\ DOMAIN q = 1..Len(q) /\ DOMAIN Append(q, e) = 1..(Len(q) + 1)
      /\ \A i \in 1..Len(q) : Append(q, e)[i] = q[i]
      /\ Append(q, e)[Len(q) + 1] = e
  OBVIOUS
<1>2. \A i \in 1..Len(q) : q[i] # e
  BY <1>1 DEF Range
<1>3. IsInjective(Append(q, e))
  BY <1>1, <1>2 DEF IsInjective
<1>4. ASSUME NEW h \in Handles
      PROVE  h \in Range(Append(q, e)) <=> h \in Range(q) \/ h = e
  BY <1>1 DEF Range
<1> QED BY <1>1, <1>3, <1>4

\* A task that has access and drops its guard hands it to one waiter or to none.
LEMMA ReleaseInv ==
  ASSUME TypeOK, QueueExact, HeldExact, NEW h \in Handles,
         pc[h] \in {"granted", "reading"}, Release(h)
  PROVE  /\ QueueExact' /\ HeldExact'
         /\ pc'[h] = "idle"
         /\ \A g \in Handles \ {h} : pc'[g] = pc[g] \/ (pc[g] = "queued" /\ pc'[g] = "granted")
<1>1. CASE queue = <<>>
  <2>1. /\ \A g \in Handles : pc[g] # "queued"
    BY <1>1 DEF QueueExact, Range
  <2>2. pc' = [pc EXCEPT ![h] = "idle"] /\ held' = FALSE /\ cur' = Loop /\ queue' = queue
    BY <1>1 DEF Release
  <2>3. \A g \in Handles \ {h} : pc[g] \notin {"granted", "reading"}
    BY DEF HeldExact
  <2>4. QueueExact'
    BY <1>1, <2>1, <2>2 DEF QueueExact, TypeOK
  <2>5. HeldExact'
    BY <2>2, <2>3, HandlesAssumption DEF HeldExact, TypeOK
  <2> QED BY <2>2, <2>4, <2>5 DEF TypeOK
<1>2. CASE queue # <<>>
  <2> DEFINE n == Head(queue)
  <2>1. /\ n \in Handles /\ n \in Range(queue) /\ IsInjective(Tail(queue))
        /\ \A g \in Handles : g \in Range(Tail(queue)) <=> g \in Range(queue) /\ g # n
    BY <1>2, TailQueue DEF TypeOK, QueueExact
  <2>2. pc[n] = "queued" /\ n # h
    BY <2>1 DEF QueueExact
  <2>3. /\ pc' = [pc EXCEPT ![h] = "idle", ![n] = "granted"]
        /\ held' = held /\ cur' = n /\ queue' = Tail(queue)
    BY <1>2 DEF Release
  <2> HIDE DEF n
  <2>4. /\ pc'[h] = "idle" /\ pc'[n] = "granted"
        /\ \A g \in Handles \ {h, n} : pc'[g] = pc[g]
    BY <2>1, <2>2, <2>3 DEF TypeOK
  <2>5. \A g \in Handles \ {h} : pc[g] \notin {"granted", "reading"}
    BY DEF HeldExact
  <2>6. held
    BY <1>2 DEF QueueExact
  <2>7. QueueExact'
    BY <2>1, <2>2, <2>3, <2>4, <2>6 DEF QueueExact
  <2>8. HeldExact'
    BY <2>1, <2>2, <2>3, <2>4, <2>5, <2>6 DEF HeldExact
  <2> QED BY <2>2, <2>4, <2>7, <2>8
<1> QED BY <1>1, <1>2

\* The end of a read keeps the invariant: st is the timeout state that the
\* callback or the call that wakes the reader leaves.
LEMMA FinishInv ==
  ASSUME TypeOK, ReadInv, NEW h \in Handles, data = h, NEW r, NEW st \in [Handles -> State],
         \A g \in Handles \ {h} : st[g] = state[g] /\ timer'[g] = timer[g],
         st[h] \in {"NoTimeout", "RequestPending", "TimedOut"},
         timer'[h] = "started" => st[h] = "RequestPending",
         active' = FALSE, Finish(h, r, st)
  PROVE  ReadInv'
<1>1. pc[h] = "reading"
  BY DEF ReadInv, StreamExact
<1>2. /\ QueueExact' /\ HeldExact'
      /\ pc'[h] = "idle"
      /\ \A g \in Handles \ {h} : pc'[g] = pc[g] \/ (pc[g] = "queued" /\ pc'[g] = "granted")
  BY <1>1, ReleaseInv DEF Finish, ReadInv
<1>3. NoPanic'
  BY <1>1 DEF Finish, NoPanic
<1>4. StreamExact'
  BY <1>2, HandlesAssumption DEF Finish, ReadInv, StreamExact
<1>5. /\ \A g \in Handles \ {h} : state'[g] = state[g]
      /\ state'[h] = IF st[h] = "RequestPending" THEN "NoWaiter" ELSE st[h]
  BY DEF Finish, Flag
<1>6. TimeoutExact'
  BY <1>2, <1>5 DEF ReadInv, TimeoutExact
<1> QED BY <1>2, <1>3, <1>4, <1>6 DEF ReadInv

\* Every step keeps the invariant, when no timeout elapses during a wait.
LEMMA ReadStep ==
  ASSUME patient, TypeOK, ReadInv, [Next]_vars
  PROVE  ReadInv'
<1>1. ASSUME NEW h \in Handles, Grant(h) PROVE ReadInv'
  <2>1. /\ \A g \in Handles \ {h} : state'[g] = state[g]
        /\ state'[h] \in {"NoTimeout", "AccessPending"}
        /\ timer'[h] = "started" => state'[h] = "AccessPending"
    BY <1>1 DEF Grant, Flag, TypeOK, State, ReadInv, TimeoutExact
  <2>2. CASE held
    <3>1. pc' = [pc EXCEPT ![h] = "queued"] /\ queue' = Append(queue, h) /\ UNCHANGED <<cur, held>>
      BY <1>1, <2>2 DEF Grant
    <3>2. QueueExact'
      <4>1. h \notin Range(queue)
        BY <1>1 DEF Grant, ReadInv, QueueExact
      <4> QED BY <2>2, <3>1, <4>1, AppendQueue DEF TypeOK, ReadInv, QueueExact
    <3>3. HeldExact' /\ StreamExact' /\ NoPanic'
      BY <1>1, <3>1 DEF Grant, TypeOK, ReadInv, HeldExact, StreamExact, NoPanic, streamv
    <3>4. TimeoutExact'
      BY <1>1, <2>1, <3>1 DEF Grant, TypeOK, ReadInv, TimeoutExact
    <3> QED BY <3>2, <3>3, <3>4 DEF ReadInv
  <2>3. CASE ~held
    <3>1. pc' = [pc EXCEPT ![h] = "granted"] /\ cur' = h /\ held' = TRUE /\ queue' = queue
      BY <1>1, <2>3 DEF Grant
    <3>2. QueueExact'
      BY <1>1, <3>1 DEF Grant, TypeOK, ReadInv, QueueExact
    <3>3. HeldExact'
      BY <1>1, <2>3, <3>1, HandlesAssumption DEF Grant, TypeOK, ReadInv, HeldExact
    <3>4. StreamExact' /\ NoPanic'
      BY <1>1, <3>1 DEF Grant, TypeOK, ReadInv, StreamExact, NoPanic, streamv
    <3>5. TimeoutExact'
      BY <1>1, <2>1, <3>1 DEF Grant, TypeOK, ReadInv, TimeoutExact
    <3> QED BY <3>2, <3>3, <3>4, <3>5 DEF ReadInv
  <2> QED BY <2>2, <2>3
<1>2. ASSUME NEW h \in Handles, GrantRefused(h) PROVE ReadInv'
  BY <1>2 DEF GrantRefused, ReadInv, NoPanic, QueueExact, HeldExact, StreamExact, TimeoutExact,
              accessv, streamv
<1>3. ASSUME NEW h \in Handles, GrantTimedOut(h) PROVE ReadInv'
  BY <1>3 DEF GrantTimedOut, ReadInv, TimeoutExact
<1>4. ASSUME NEW h \in Handles, ReadRefused(h) PROVE ReadInv'
  <2>1. /\ QueueExact' /\ HeldExact'
        /\ pc'[h] = "idle"
        /\ \A g \in Handles \ {h} : pc'[g] = pc[g] \/ (pc[g] = "queued" /\ pc'[g] = "granted")
    BY <1>4, ReleaseInv DEF ReadRefused, ReadInv
  <2>2. /\ \A g \in Handles \ {h} : state'[g] = state[g]
        /\ state'[h] = IF state[h] = "AccessPending" THEN "NoWaiter" ELSE state[h]
    BY <1>4 DEF ReadRefused, Flag, TypeOK, ReadInv, TimeoutExact
  <2>3. TimeoutExact'
    BY <1>4, <2>1, <2>2 DEF ReadRefused, ReadInv, TimeoutExact
  <2>4. data = Loop /\ ~active
    BY <1>4 DEF ReadRefused, TypeOK, ReadInv, HeldExact, StreamExact
  <2>5. \A g \in Handles : pc[g] # "reading"
    BY <2>4, HandlesAssumption DEF ReadInv, StreamExact
  <2>6. StreamExact'
    BY <1>4, <2>1, <2>4, <2>5, HandlesAssumption DEF ReadRefused, StreamExact
  <2>7. NoPanic'
    BY <1>4 DEF ReadRefused, ReadInv, HeldExact, NoPanic
  <2> QED BY <2>1, <2>3, <2>6, <2>7 DEF ReadInv
<1>5. ASSUME NEW h \in Handles, ReadStart(h) PROVE ReadInv'
  <2>1. /\ pc' = [pc EXCEPT ![h] = "reading"] /\ cur' = Loop /\ data' = h /\ active' = TRUE
        /\ UNCHANGED <<timer, held, queue>>
    BY <1>5 DEF ReadStart, accessv
  <2>2. \A g \in Handles \ {h} : pc[g] \notin {"granted", "reading"}
    BY <1>5 DEF ReadStart, ReadInv, HeldExact
  <2>3. QueueExact'
    BY <1>5, <2>1 DEF ReadStart, TypeOK, ReadInv, QueueExact
  <2>4. HeldExact'
    BY <1>5, <2>1, <2>2, HandlesAssumption DEF ReadStart, TypeOK, ReadInv, HeldExact
  <2>5. StreamExact'
    BY <2>1, <2>2, HandlesAssumption DEF TypeOK, StreamExact
  <2>6. NoPanic'
    BY <1>5 DEF ReadStart, ReadInv, HeldExact, NoPanic
  <2>7. /\ \A g \in Handles \ {h} : state'[g] = state[g]
        /\ state'[h] = IF state[h] = "AccessPending" THEN "RequestPending" ELSE state[h]
    BY <1>5 DEF ReadStart, Flag, TypeOK, ReadInv, TimeoutExact
  <2>8. TimeoutExact'
    BY <1>5, <2>1, <2>7 DEF ReadStart, TypeOK, ReadInv, TimeoutExact
  <2> QED BY <2>3, <2>4, <2>5, <2>6, <2>8 DEF ReadInv
<1>6. ASSUME ReadCb PROVE ReadInv'
  <2>1. data \in Handles
    BY <1>6 DEF ReadCb, TypeOK, ReadInv, StreamExact
  <2>2. pc[data] = "reading" /\ state[data] \in {"NoTimeout", "RequestPending"}
    BY <2>1 DEF ReadInv, StreamExact, TimeoutExact
  <2>3. PICK r \in {"data", "error"} : Finish(data, r, state)
    BY <1>6, <2>1, HandlesAssumption DEF ReadCb
  <2>4. /\ active' = FALSE /\ timer' = timer
    BY <1>6 DEF ReadCb
  <2>5. timer[data] = "started" => state[data] = "RequestPending"
    BY <2>1, <2>2 DEF ReadInv, TimeoutExact
  <2> QED BY <2>1, <2>2, <2>3, <2>4, <2>5, FinishInv DEF TypeOK
<1>7. ASSUME NEW h \in Handles, TimerIdle(h) PROVE ReadInv'
  <2>1. state[h] = "NoWaiter"
    BY <1>7 DEF TimerIdle, Fires, ReadInv, TimeoutExact
  <2>2. pc[h] = "idle"
    BY <1>7, <2>1 DEF TimerIdle, Fires, TypeOK, PC, ReadInv, TimeoutExact
  <2>3. TimeoutExact'
    BY <1>7, <2>2 DEF TimerIdle, Fires, TimedOut, TypeOK, ReadInv, TimeoutExact
  <2> QED BY <1>7, <2>1, <2>3 DEF TimerIdle, ReadInv, NoPanic, QueueExact, HeldExact, StreamExact,
                                  accessv, streamv
<1>8. ASSUME NEW h \in Handles, TimerQueued(h) PROVE ReadInv'
  BY <1>8 DEF TimerQueued
<1>9. ASSUME NEW h \in Handles, TimerRequest(h) PROVE ReadInv'
  <2>1. pc[h] = "reading"
    BY <1>9 DEF TimerRequest, Fires, TypeOK, PC, ReadInv, TimeoutExact
  <2>2. data = h
    BY <2>1 DEF ReadInv, StreamExact
  <2>3. active' = FALSE /\ Finish(h, "ECANCELED", TimedOut(h))
    BY <1>9, <2>2, HandlesAssumption DEF TimerRequest, CancelRead
  <2>4. TimedOut(h) \in [Handles -> State] /\ TimedOut(h)[h] = "TimedOut"
        /\ \A g \in Handles \ {h} : TimedOut(h)[g] = state[g]
    BY DEF TimedOut, TypeOK, State
  <2>5. timer'[h] = "stopped" /\ \A g \in Handles \ {h} : timer'[g] = timer[g]
    BY <1>9 DEF TimerRequest, Fires, TypeOK
  <2> QED BY <2>2, <2>3, <2>4, <2>5, FinishInv
<1>10. ASSUME NEW h \in Handles, SetTimeout(h) PROVE ReadInv'
  <2>1. TimeoutExact'
    BY <1>10 DEF SetTimeout, TypeOK, ReadInv, TimeoutExact
  <2> QED BY <1>10, <2>1 DEF SetTimeout, ReadInv, NoPanic, QueueExact, HeldExact, StreamExact,
                             accessv, streamv
<1>11. ASSUME NEW h \in Handles, CloseRead(h) PROVE ReadInv'
  <2>1. CASE CancelRead("EOF", state)
    <3>1. data \in Handles
      BY <2>1 DEF CancelRead, TypeOK
    <3>2. pc[data] = "reading" /\ state[data] \in {"NoTimeout", "RequestPending"}
      BY <3>1 DEF ReadInv, StreamExact, TimeoutExact
    <3>3. timer[data] = "started" => state[data] = "RequestPending"
      BY <3>1, <3>2 DEF ReadInv, TimeoutExact
    <3>4. active' = FALSE /\ timer' = timer /\ Finish(data, "EOF", state)
      BY <1>11, <2>1 DEF CloseRead, CancelRead
    <3> QED BY <3>1, <3>2, <3>3, <3>4, FinishInv DEF TypeOK
  <2>2. CASE ~CancelRead("EOF", state)
    BY <1>11, <2>2 DEF CloseRead, ReadInv, NoPanic, QueueExact, HeldExact, StreamExact, TimeoutExact,
                       accessv
  <2> QED BY <2>1, <2>2
<1>12. ASSUME NEW h \in Handles, NEW g \in Handles, Clone(h, g) PROVE ReadInv'
  <2>1. /\ pc[g] = "absent" /\ timer[g] = "none"
        /\ pc' = [pc EXCEPT ![g] = "idle"] /\ state' = [state EXCEPT ![g] = "NoTimeout"]
        /\ UNCHANGED <<cur, timer, held, queue, data, active, failed>>
    BY <1>12 DEF Clone, TypeOK, accessv, streamv
  <2>2. QueueExact' /\ HeldExact'
    BY <2>1 DEF TypeOK, ReadInv, QueueExact, HeldExact
  <2>3. StreamExact' /\ TimeoutExact' /\ NoPanic'
    BY <2>1 DEF TypeOK, ReadInv, StreamExact, TimeoutExact, NoPanic
  <2> QED BY <2>2, <2>3 DEF ReadInv
<1>13. ASSUME NEW h \in Handles, DropHandle(h) PROVE ReadInv'
  <2>1. /\ pc[h] = "idle"
        /\ pc' = [pc EXCEPT ![h] = "absent"] /\ timer' = [timer EXCEPT ![h] = "none"]
        /\ UNCHANGED <<cur, state, held, queue, data, active>>
    BY <1>13 DEF DropHandle, accessv, streamv
  <2>2. QueueExact' /\ HeldExact'
    BY <2>1 DEF TypeOK, ReadInv, QueueExact, HeldExact
  <2>3. StreamExact' /\ TimeoutExact'
    BY <2>1 DEF TypeOK, ReadInv, StreamExact, TimeoutExact
  <2>4. (\A g \in Handles \ {h} : pc[g] = "absent") => ~held /\ queue = <<>>
    BY <2>1 DEF ReadInv, QueueExact, HeldExact
  <2>5. NoPanic'
    BY <1>13, <2>4 DEF DropHandle, NoPanic
  <2> QED BY <2>2, <2>3, <2>5 DEF ReadInv
<1>14. CASE UNCHANGED vars
  BY <1>14 DEF vars, ReadInv, NoPanic, QueueExact, HeldExact, StreamExact, TimeoutExact
<1> QED
  BY <1>1, <1>2, <1>3, <1>4, <1>5, <1>6, <1>7, <1>8, <1>9, <1>10, <1>11, <1>12, <1>13, <1>14
     DEF Next, Resume, TimerCb, UserCall, Stopped

\* The invariant holds when no object is in use.
LEMMA ReadInitInv == Init => ReadInv
<1> SUFFICES ASSUME Init PROVE ReadInv
  OBVIOUS
<1>1. \A h \in Handles : pc[h] \in {"idle", "absent"}
  BY DEF Init
<1>2. QueueExact
  BY <1>1 DEF Init, QueueExact, Range, IsInjective
<1>3. HeldExact /\ StreamExact
  BY <1>1, HandlesAssumption DEF Init, HeldExact, StreamExact
<1>4. TimeoutExact /\ NoPanic
  BY <1>1 DEF Init, TimeoutExact, NoPanic
<1> QED BY <1>2, <1>3, <1>4 DEF ReadInv

\* The inductive invariant, for any number of clones.
THEOREM ReadInvariant == Spec => [](TypeOK /\ (patient => ReadInv))
<1>1. (patient => ReadInv) /\ TypeOK /\ [Next]_vars => (patient' => ReadInv')
  <2>1. [Next]_vars => patient' = patient
    BY DEF Next, Stopped, vars
  <2> QED BY <2>1, ReadStep
<1>2. Init => (patient => ReadInv)
  BY ReadInitInv
<1> QED BY <1>1, <1>2, ReadTypeCorrect, PTL DEF Spec

\* When no timeout elapses while a task waits for access, two clones of a
\* stream are never both blocked in Stream::read, however many there are and
\* whatever timers, closes and clones do meanwhile.
THEOREM ReadersExclude == Spec => []PatientReadersExclude
<1>1. (patient => ReadInv) => PatientReadersExclude
  BY DEF ReadInv, HeldExact, ExclusiveReaders, PatientReadersExclude
<1> QED BY <1>1, ReadInvariant, PTL

\* Under the same condition no assertion of access.rs and no unreachable!()
\* of timeout.rs is reached.
THEOREM ReadNeverPanics == Spec => []PatientNoPanic
<1>1. (patient => ReadInv) => PatientNoPanic
  BY DEF ReadInv, PatientNoPanic
<1> QED BY <1>1, ReadInvariant, PTL

\* Only one task leaves grant or read in a step, and the steps that cancel it
\* find its own timeout elapsed.
LEMMA CancelStep ==
  ASSUME patient, TypeOK, ReadInv, Next, NEW h \in Handles,
         pc[h] \in {"granted", "reading"}, pc'[h] = "idle", result' = "ECANCELED"
  PROVE  state'[h] = "TimedOut"
<1>1. ASSUME NEW g \in Handles, Grant(g) PROVE FALSE
  BY <1>1 DEF Grant, TypeOK
<1>2. ASSUME NEW g \in Handles, GrantTimedOut(g) PROVE FALSE
  BY <1>2 DEF GrantTimedOut, ReadInv, TimeoutExact
<1>3. ASSUME NEW g \in Handles, ReadRefused(g) PROVE FALSE
  <2>1. g = h
    BY <1>3 DEF ReadRefused, ReadInv, HeldExact
  <2> QED BY <1>3, <2>1 DEF ReadRefused, TypeOK
<1>4. ASSUME NEW g \in Handles, ReadStart(g) PROVE FALSE
  BY <1>4 DEF ReadStart, TypeOK, ReadInv, HeldExact
<1>5. ASSUME NEW r, NEW st, data \in Handles, Finish(data, r, st), r # "ECANCELED" PROVE FALSE
  <2>1. data = h
    BY <1>5 DEF ReadInv, HeldExact, StreamExact
  <2> QED BY <1>5, <2>1 DEF Finish, TypeOK
<1>6. ASSUME ReadCb PROVE FALSE
  <2>1. data \in Handles
    BY <1>6 DEF ReadCb, TypeOK, ReadInv, StreamExact
  <2> QED BY <1>5, <1>6, <2>1, HandlesAssumption DEF ReadCb
<1>7. ASSUME NEW g \in Handles, TimerRequest(g) PROVE state'[h] = "TimedOut"
  <2>1. pc[g] = "reading"
    BY <1>7 DEF TimerRequest, Fires, TypeOK, PC, ReadInv, TimeoutExact
  <2>2. data = g /\ g = h
    BY <2>1 DEF ReadInv, StreamExact, HeldExact
  <2>3. Finish(h, "ECANCELED", TimedOut(h))
    BY <1>7, <2>2, HandlesAssumption DEF TimerRequest, CancelRead
  <2> QED BY <2>3 DEF Finish, Flag, TimedOut, TypeOK
<1>8. ASSUME NEW g \in Handles, CloseRead(g) PROVE FALSE
  <2>1. CASE CancelRead("EOF", state)
    BY <1>5, <2>1 DEF CancelRead, TypeOK
  <2>2. CASE ~CancelRead("EOF", state)
    BY <1>8, <2>2 DEF CloseRead
  <2> QED BY <2>1, <2>2
<1>9. ASSUME NEW g \in Handles, NEW k \in Handles, Clone(g, k) PROVE FALSE
  BY <1>9 DEF Clone, TypeOK
<1>10. ASSUME NEW g \in Handles,
              GrantRefused(g) \/ SetTimeout(g) \/ TimerIdle(g) \/ TimerQueued(g) \/ Stopped
       PROVE  FALSE
  BY <1>10 DEF GrantRefused, SetTimeout, TimerIdle, TimerQueued, Stopped, vars
<1>11. ASSUME NEW g \in Handles, DropHandle(g) PROVE FALSE
  BY <1>11 DEF DropHandle, TypeOK
<1> QED
  BY <1>1, <1>2, <1>3, <1>4, <1>6, <1>7, <1>8, <1>9, <1>10, <1>11
     DEF Next, Resume, TimerCb, UserCall

\* Under the same condition the timer of one clone never cancels the read of
\* another: a read ends with ECANCELED only when its own timeout elapsed.
THEOREM CancelsOwnRead == Spec => CancelMeansTimeout
<1>1. TypeOK /\ (patient => ReadInv) /\ [Next]_vars =>
        [patient => \A h \in Handles :
           pc[h] \in {"granted", "reading"} /\ pc'[h] = "idle" /\ result' = "ECANCELED"
             => state'[h] = "TimedOut"]_vars
  BY CancelStep
<1> QED BY <1>1, ReadInvariant, PTL DEF Spec, CancelMeansTimeout

-------------------------------------------------------------------------------
(* The queue for access when timeouts may elapse during a wait.  Readers no   *)
(* longer exclude each other, but the stream points to a task that is blocked *)
(* in read, and the timeout of a task that waits for access says so.          *)

PointsToReader == data # Loop => pc[data] = "reading"
WaitersFlagged == \A h \in Handles : state[h] = "AccessPending" => pc[h] \in {"queued", "granted"}
WaitInv == QueueExact /\ PointsToReader /\ WaitersFlagged

\* A task is taken from the middle of the queue.
LEMMA RemoveQueue ==
  ASSUME NEW q \in Seq(Handles), IsInjective(q), NEW i \in 1..Len(q)
  PROVE  /\ IsInjective(RemoveAt(q, i))
         /\ \A h \in Handles : h \in Range(RemoveAt(q, i)) <=> h \in Range(q) /\ h # q[i]
<1> DEFINE r == RemoveAt(q, i)
           a == SubSeq(q, 1, i - 1)
           b == SubSeq(q, i + 1, Len(q))
           p(j) == IF j < i THEN j ELSE j + 1
<1>1. Len(q) \in Nat /\ DOMAIN q = 1..Len(q) /\ i \in Nat
  BY LenProperties
<1>2. a \in Seq(Handles) /\ Len(a) = i - 1 /\ \A j \in 1..(i - 1) : a[j] = q[j]
  <2>1. \A j \in 1..(i - 1) : q[j] \in Handles
    BY <1>1, ElementOfSeq
  <2> QED
    BY <1>1, <2>1, SubSeqProperties
<1>3. b \in Seq(Handles) /\ Len(b) = Len(q) - i /\ \A j \in 1..(Len(q) - i) : b[j] = q[i + j]
  <2>1. \A j \in (i + 1)..Len(q) : q[j] \in Handles
    BY <1>1, ElementOfSeq
  <2>2. /\ b \in Seq(Handles) /\ Len(b) = IF i + 1 <= Len(q) THEN Len(q) - (i + 1) + 1 ELSE 0
        /\ \A j \in 1..(Len(q) - (i + 1) + 1) : b[j] = q[(i + 1) + j - 1]
    BY <1>1, <2>1, SubSeqProperties
  <2> HIDE DEF b
  <2>3. Len(q) - (i + 1) + 1 = Len(q) - i /\ (~(i + 1 <= Len(q)) => Len(q) - i = 0)
    <3>1. \A n, k \in Nat : k <= n => n - (k + 1) + 1 = n - k /\ (~(k + 1 <= n) => n - k = 0)
      OBVIOUS
    <3>2. i <= Len(q)
      BY <1>1
    <3> QED
      BY <1>1, <3>1, <3>2
  <2>4. \A j \in 1..(Len(q) - i) : (i + 1) + j - 1 = i + j
    BY <1>1
  <2>5. Len(b) = Len(q) - i
    BY <2>2, <2>3
  <2> QED
    BY <2>2, <2>3, <2>4, <2>5
<1>4. r = a \o b /\ Len(a) \in Nat /\ Len(b) \in Nat
  BY <1>2, <1>3, LenProperties DEF RemoveAt
<1> HIDE DEF a, b
<1>5. /\ DOMAIN r = 1..(Len(q) - 1)
      /\ \A j \in 1..(Len(q) - 1) : r[j] = q[p(j)]
  <2>1. /\ a \o b \in Seq(Handles) /\ Len(a \o b) = Len(a) + Len(b)
        /\ \A j \in 1..(Len(a) + Len(b)) : (a \o b)[j] = IF j <= Len(a) THEN a[j] ELSE b[j - Len(a)]
    BY <1>2, <1>3, ConcatProperties
  <2>2. Len(a) + Len(b) = Len(q) - 1
    BY <1>1, <1>2, <1>3
  <2>3. DOMAIN r = 1..(Len(q) - 1) /\ \A j \in 1..(Len(q) - 1) : r[j] = IF j <= Len(a) THEN a[j] ELSE b[j - Len(a)]
    BY <1>4, <2>1, <2>2, LenProperties
  <2> HIDE DEF r
  <2>4. ASSUME NEW j \in 1..(Len(q) - 1) PROVE r[j] = q[p(j)]
    <3>1. CASE j < i
      BY <1>1, <1>2, <2>3, <3>1
    <3>2. CASE ~(j < i)
      <4>1. ~(j <= Len(a)) /\ j - Len(a) \in 1..(Len(q) - i) /\ i + (j - Len(a)) = j + 1
        BY <1>1, <1>2, <3>2
      <4> QED
        BY <1>3, <2>3, <3>2, <4>1
    <3> QED
      BY <3>1, <3>2
  <2> QED
    BY <2>3, <2>4
<1> HIDE DEF r
<1>6. \A j \in 1..(Len(q) - 1) : p(j) \in 1..Len(q) /\ p(j) # i
  BY <1>1
<1>7. \A j, k \in 1..(Len(q) - 1) : p(j) = p(k) => j = k
  BY <1>1
<1>8. \A m \in 1..Len(q) : m # i => \E j \in 1..(Len(q) - 1) : p(j) = m
  <2> SUFFICES ASSUME NEW m \in 1..Len(q), m # i PROVE \E j \in 1..(Len(q) - 1) : p(j) = m
    OBVIOUS
  <2>1. CASE m < i
    <3>1. m \in 1..(Len(q) - 1) /\ p(m) = m
      BY <1>1, <2>1
    <3> QED
      BY <3>1
  <2>2. CASE ~(m < i)
    <3>1. m - 1 \in 1..(Len(q) - 1) /\ p(m - 1) = m
      BY <1>1, <2>2
    <3> QED
      BY <3>1
  <2> QED
    BY <2>1, <2>2
<1> HIDE DEF p
<1>9. \A j, k \in DOMAIN q : q[j] = q[k] => j = k
  BY DEF IsInjective
<1>10. IsInjective(r)
  <2>1. \A j, k \in DOMAIN r : r[j] = r[k] => j = k
    BY <1>1, <1>5, <1>6, <1>7, <1>9
  <2> QED
    BY <2>1 DEF IsInjective
<1>11. ASSUME NEW h \in Handles PROVE h \in Range(r) <=> h \in Range(q) /\ h # q[i]
  <2>1. ASSUME h \in Range(r) PROVE h \in Range(q) /\ h # q[i]
    <3>1. PICK j \in 1..(Len(q) - 1) : h = q[p(j)]
      BY <1>5, <2>1 DEF Range
    <3> QED
      BY <1>1, <1>6, <1>9, <3>1 DEF Range
  <2>2. ASSUME h \in Range(q), h # q[i] PROVE h \in Range(r)
    <3>1. PICK m \in 1..Len(q) : h = q[m] /\ m # i
      BY <1>1, <2>2 DEF Range
    <3>2. PICK j \in 1..(Len(q) - 1) : p(j) = m
      BY <1>8, <3>1
    <3> QED
      BY <1>5, <3>1, <3>2 DEF Range
  <2> QED
    BY <2>1, <2>2
<1> QED
  BY <1>10, <1>11 DEF r

\* Whoever drops a guard, access goes to the first waiter only.
LEMMA ReleaseWait ==
  ASSUME TypeOK, QueueExact, NEW h \in Handles, pc[h] # "queued", Release(h)
  PROVE  /\ QueueExact' /\ pc'[h] = "idle"
         /\ \A g \in Handles \ {h} : pc'[g] = pc[g] \/ (pc[g] = "queued" /\ pc'[g] = "granted")
<1>1. CASE queue = <<>>
  <2>1. pc' = [pc EXCEPT ![h] = "idle"] /\ queue' = <<>>
    BY <1>1 DEF Release
  <2> QED
    BY <1>1, <2>1 DEF TypeOK, QueueExact
<1>2. CASE queue # <<>>
  <2>1. PICK w \in Handles : w = Head(queue) /\ w \in Range(queue)
    BY <1>2, TailQueue DEF TypeOK, QueueExact
  <2>2. pc' = [pc EXCEPT ![h] = "idle", ![w] = "granted"] /\ queue' = Tail(queue) /\ held' = held
    BY <1>2, <2>1 DEF Release
  <2>3. pc[w] = "queued" /\ w # h
    BY <2>1 DEF QueueExact
  <2>4. pc'[w] = "granted" /\ pc'[h] = "idle" /\ \A g \in Handles \ {h, w} : pc'[g] = pc[g]
    BY <2>2, <2>3 DEF TypeOK
  <2>5. IsInjective(queue') /\ \A g \in Handles : g \in Range(queue') <=> g \in Range(queue) /\ g # w
    BY <1>2, <2>1, <2>2, TailQueue DEF TypeOK, QueueExact
  <2>6. \A g \in Handles : pc'[g] = "queued" <=> g \in Range(queue')
    BY <2>3, <2>4, <2>5 DEF QueueExact
  <2> QED
    BY <1>2, <2>2, <2>3, <2>4, <2>5, <2>6 DEF QueueExact
<1> QED
  BY <1>1, <1>2

\* The rest follows from that.
LEMMA ReleaseKeeps ==
  ASSUME TypeOK, WaitInv, NEW h \in Handles, pc[h] # "queued", Release(h),
         data' = Loop \/ (data' = data /\ data # h),
         state'[h] # "AccessPending",
         \A g \in Handles \ {h} : state'[g] = "AccessPending" => state[g] = "AccessPending"
  PROVE  WaitInv'
<1>1. /\ QueueExact' /\ pc'[h] = "idle"
      /\ \A g \in Handles \ {h} : pc'[g] = pc[g] \/ (pc[g] = "queued" /\ pc'[g] = "granted")
  BY ReleaseWait DEF WaitInv
<1>2. PointsToReader'
  BY <1>1 DEF PointsToReader, WaitInv, TypeOK
<1>3. WaitersFlagged'
  BY <1>1 DEF WaitersFlagged, WaitInv
<1> QED
  BY <1>1, <1>2, <1>3 DEF WaitInv

\* A read that ends is the one that the stream points to.
LEMMA FinishKeeps ==
  ASSUME TypeOK, WaitInv, data # Loop, NEW r, NEW st \in [Handles -> State],
         \A g \in Handles : st[g] = "AccessPending" => state[g] = "AccessPending",
         Finish(data, r, st)
  PROVE  WaitInv'
<1>1. PICK h \in Handles : h = data
  BY DEF TypeOK
<1>2. pc[h] = "reading"
  BY <1>1 DEF WaitInv, PointsToReader
<1>3. Release(h) /\ data' = Loop /\ state' = Flag(st, h, "NoWaiter")
  BY <1>1 DEF Finish
<1>4. /\ state'[h] # "AccessPending"
      /\ \A g \in Handles \ {h} : state'[g] = "AccessPending" => state[g] = "AccessPending"
  BY <1>3 DEF Flag
<1> QED
  BY <1>2, <1>3, <1>4, ReleaseKeeps

\* Every step keeps it, with patient waiters or without.
LEMMA WaitStep == TypeOK /\ WaitInv /\ [Next]_vars => WaitInv'
<1> SUFFICES ASSUME TypeOK, WaitInv, [Next]_vars PROVE WaitInv'
  OBVIOUS
<1>1. ASSUME NEW h \in Handles, Grant(h) PROVE WaitInv'
  <2>1. \A g \in Handles \ {h} : state'[g] = state[g] /\ pc'[g] = pc[g]
    BY <1>1 DEF Grant, Flag, TypeOK
  <2>2. pc[h] = "idle" /\ pc'[h] \in {"queued", "granted"} /\ data' = data
    BY <1>1 DEF Grant, TypeOK, streamv
  <2>3. PointsToReader' /\ WaitersFlagged'
    BY <2>1, <2>2 DEF PointsToReader, WaitersFlagged, WaitInv, TypeOK
  <2>4. CASE held
    <3>1. queue' = Append(queue, h) /\ pc'[h] = "queued" /\ held'
      BY <1>1, <2>4 DEF Grant, TypeOK
    <3>2. h \notin Range(queue)
      BY <2>2 DEF WaitInv, QueueExact
    <3>3. IsInjective(queue') /\ \A g \in Handles : g \in Range(queue') <=> g \in Range(queue) \/ g = h
      BY <3>1, <3>2, AppendQueue DEF TypeOK, WaitInv, QueueExact
    <3> QED
      BY <2>1, <2>3, <3>1, <3>3 DEF WaitInv, QueueExact
  <2>5. CASE ~held
    <3>1. queue' = queue /\ pc'[h] = "granted" /\ held'
      BY <1>1, <2>5 DEF Grant, TypeOK
    <3> QED
      BY <2>1, <2>2, <2>3, <3>1 DEF WaitInv, QueueExact
  <2> QED
    BY <2>4, <2>5
<1>2. ASSUME NEW h \in Handles, GrantTimedOut(h) \/ ReadRefused(h) PROVE WaitInv'
  <2>1. Release(h) /\ pc[h] = "granted" /\ (data' = Loop \/ data' = data)
    BY <1>2 DEF GrantTimedOut, ReadRefused, streamv
  <2>2. data # h
    BY <2>1, HandlesAssumption DEF WaitInv, PointsToReader
  <2>3. /\ state'[h] # "AccessPending"
        /\ \A g \in Handles \ {h} : state'[g] = "AccessPending" => state[g] = "AccessPending"
    BY <1>2 DEF GrantTimedOut, ReadRefused, Flag, TypeOK
  <2> QED
    BY <2>1, <2>2, <2>3, ReleaseKeeps
<1>3. ASSUME NEW h \in Handles, ReadStart(h) PROVE WaitInv'
  <2>1. /\ pc[h] = "granted" /\ pc' = [pc EXCEPT ![h] = "reading"] /\ data' = h
        /\ UNCHANGED <<held, queue>> /\ state' = Flag(state, h, "RequestPending")
    BY <1>3 DEF ReadStart, accessv
  <2>2. state'[h] # "AccessPending" /\ \A g \in Handles \ {h} : state'[g] = state[g]
    BY <2>1 DEF Flag, TypeOK
  <2>3. pc'[h] = "reading" /\ \A g \in Handles \ {h} : pc'[g] = pc[g]
    BY <2>1 DEF TypeOK
  <2> QED
    BY <2>1, <2>2, <2>3 DEF WaitInv, QueueExact, PointsToReader, WaitersFlagged
<1>4. ASSUME NEW h \in Handles, TimerQueued(h) PROVE WaitInv'
  <2>1. /\ state[h] = "AccessPending" /\ state' = [state EXCEPT ![h] = "TimedOut"] /\ Dequeue(h)
        /\ pc' = [pc EXCEPT ![h] = "granted"] /\ UNCHANGED <<held, data>>
    BY <1>4 DEF TimerQueued, TimedOut, streamv
  <2>2. pc[h] \in {"queued", "granted"}
    BY <2>1 DEF WaitInv, WaitersFlagged
  <2>3. pc'[h] = "granted" /\ \A g \in Handles \ {h} : pc'[g] = pc[g]
    BY <2>1 DEF TypeOK
  <2>4. PointsToReader' /\ WaitersFlagged'
    BY <2>1, <2>2, <2>3 DEF PointsToReader, WaitersFlagged, WaitInv, TypeOK
  <2>5. /\ IsInjective(queue') /\ (queue' # <<>> => queue # <<>>)
        /\ \A g \in Handles : g \in Range(queue') <=> g \in Range(queue) /\ g # h
    <3>1. CASE h \in Range(queue)
      <4>1. PICK i \in 1..Len(queue) : queue[i] = h /\ queue' = RemoveAt(queue, i)
        BY <2>1, <3>1 DEF Dequeue
      <4>2. queue # <<>>
        BY <3>1 DEF Range
      <4> QED
        BY <4>1, <4>2, RemoveQueue DEF TypeOK, WaitInv, QueueExact
    <3>2. CASE h \notin Range(queue)
      BY <2>1, <3>2 DEF Dequeue, WaitInv, QueueExact
    <3> QED
      BY <3>1, <3>2
  <2> QED
    BY <2>1, <2>3, <2>4, <2>5 DEF WaitInv, QueueExact
<1>5. ASSUME NEW h \in Handles, TimerIdle(h) \/ GrantRefused(h) \/ SetTimeout(h) PROVE WaitInv'
  <2>1. UNCHANGED <<pc, held, queue, data>>
    BY <1>5 DEF TimerIdle, GrantRefused, SetTimeout, accessv, streamv
  <2>2. \A g \in Handles : state'[g] = "AccessPending" => state[g] = "AccessPending"
    BY <1>5 DEF TimerIdle, GrantRefused, SetTimeout, TimedOut, TypeOK
  <2> QED
    BY <2>1, <2>2 DEF WaitInv, QueueExact, PointsToReader, WaitersFlagged
<1>6. ASSUME NEW r, NEW st \in [Handles -> State], CancelRead(r, st),
             \A g \in Handles : st[g] = "AccessPending" => state[g] = "AccessPending"
      PROVE  WaitInv'
  BY <1>6, FinishKeeps DEF CancelRead
<1>7. ASSUME UNCHANGED <<pc, held, queue, data>>,
             \A g \in Handles : state'[g] = "AccessPending" => state[g] = "AccessPending"
      PROVE  WaitInv'
  BY <1>7 DEF WaitInv, QueueExact, PointsToReader, WaitersFlagged
<1>8. ASSUME NEW h \in Handles, TimerRequest(h) PROVE WaitInv'
  <2>1. /\ TimedOut(h) \in [Handles -> State]
        /\ \A g \in Handles : TimedOut(h)[g] = "AccessPending" => state[g] = "AccessPending"
    BY DEF TimedOut, TypeOK, State
  <2>2. CASE CancelRead("ECANCELED", TimedOut(h))
    BY <1>6, <2>1, <2>2
  <2>3. CASE ~CancelRead("ECANCELED", TimedOut(h))
    <3>1. state' = TimedOut(h) /\ UNCHANGED <<pc, held, queue, data>>
      BY <1>8, <2>3 DEF TimerRequest, accessv
    <3> QED
      BY <1>7, <2>1, <3>1
  <2> QED
    BY <2>2, <2>3
<1>9. ASSUME NEW h \in Handles, CloseRead(h) PROVE WaitInv'
  <2>1. state \in [Handles -> State]
    BY DEF TypeOK
  <2>2. CASE CancelRead("EOF", state)
    BY <1>6, <2>1, <2>2
  <2>3. CASE ~CancelRead("EOF", state)
    <3>1. state' = state /\ UNCHANGED <<pc, held, queue, data>>
      BY <1>9, <2>3 DEF CloseRead, accessv
    <3> QED
      BY <1>7, <3>1
  <2> QED
    BY <2>2, <2>3
<1>10. ASSUME ReadCb PROVE WaitInv'
  <2>1. state \in [Handles -> State]
    BY DEF TypeOK
  <2>2. CASE data # Loop
    <3>1. PICK r : Finish(data, r, state)
      BY <1>10, <2>2 DEF ReadCb
    <3> QED
      BY <2>1, <2>2, <3>1, FinishKeeps
  <2>3. CASE data = Loop
    <3>1. state' = state /\ UNCHANGED <<pc, held, queue, data>>
      BY <1>10, <2>3 DEF ReadCb, accessv
    <3> QED
      BY <1>7, <3>1
  <2> QED
    BY <2>2, <2>3
<1>11. ASSUME NEW h \in Handles, NEW g \in Handles, DropHandle(h) \/ Clone(h, g) PROVE WaitInv'
  <2>1. UNCHANGED <<held, queue, data>>
    BY <1>11 DEF DropHandle, Clone, accessv, streamv
  <2>2. \A k \in Handles : /\ state'[k] = "AccessPending" => state[k] = "AccessPending"
                           /\ pc'[k] = pc[k] \/ (pc[k] \in {"idle", "absent"} /\ pc'[k] \in {"idle", "absent"})
    BY <1>11 DEF DropHandle, Clone, TypeOK
  <2> QED
    BY <2>1, <2>2 DEF WaitInv, QueueExact, PointsToReader, WaitersFlagged, TypeOK
<1>12. CASE UNCHANGED vars
  BY <1>7, <1>12 DEF vars
<1> QED
  BY <1>1, <1>2, <1>3, <1>4, <1>5, <1>8, <1>9, <1>10, <1>11, <1>12
     DEF Next, Resume, TimerCb, UserCall, Stopped

\* The queue of Access is exactly the tasks that wait in grant, each once, and
\* while one waits access is held, also when timers take tasks out of its
\* middle while they wait (timer_cb, Access::dequeue).
THEOREM WaitersAreQueued == Spec => []QueueExact
<1>1. Init => WaitInv
  <2> SUFFICES ASSUME Init PROVE WaitInv
    OBVIOUS
  <2>1. \A h \in Handles : pc[h] \in {"idle", "absent"} /\ state[h] = "NoTimeout"
    BY DEF Init
  <2>2. data = Loop /\ queue = <<>>
    BY DEF Init
  <2>3. QueueExact
    BY <2>1, <2>2 DEF QueueExact, Range, IsInjective
  <2> QED
    BY <2>1, <2>2, <2>3 DEF WaitInv, PointsToReader, WaitersFlagged
<1>2. WaitInv => QueueExact
  BY DEF WaitInv
<1> QED
  BY <1>1, <1>2, WaitStep, ReadTypeCorrect, PTL DEF Spec

===============================================================================

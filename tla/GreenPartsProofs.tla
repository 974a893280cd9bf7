-------------------------- MODULE GreenPartsProofs --------------------------
(***************************************************************************)
(* What libgreen is built on, proved for every value of the constants: the *)
(* invariants of the run of MCGreenParts, and that the steps of the two    *)
(* loops are steps of RemoteCallback and those of the two kinds of task    *)
(* steps of Parking.  One part after another; the last section puts them   *)
(* together, since a step of MCGreenParts is a step of one part.           *)
(***************************************************************************)
EXTENDS MCGreenParts, SequenceTheorems, WellFoundedInduction, TLAPS

-----------------------------------------------------------------------------
(* SimpleTask.                                                             *)

SimpleFlags == s_awoken \in BOOLEAN /\ s_bad \in BOOLEAN

\* Simple!TypeOK without the flags.
SimpleTypes ==
  /\ s_pc \in Simple!PC /\ s_lock \in 0..MaxSimple + 1 /\ s_parks \in 0..MaxSimple
  /\ s_waker \in [1..MaxSimple -> {"none", "has", "locked", "signalling", "done"}]
  /\ (s_lock = MaxSimple + 1) <=> (s_pc \in {"closure", "refused"})
  /\ \A w \in 1..MaxSimple : (s_lock = w) <=> (s_waker[w] \in {"locked", "signalling"})

\* The waker of the current park exists from the end of the closure on, the flag
\* says that it has signalled, and no other waker is at work.
SimpleParked ==
  /\ s_pc # "running" => s_parks > 0
  /\ s_pc \in {"entering", "closure", "refused"} => s_waker[s_parks] = "none"
  /\ s_pc \in {"closure", "waiting"} => ~s_awoken
  /\ s_pc \in {"waiting", "signalled"} =>
       /\ s_waker[s_parks] # "none"
       /\ s_awoken <=> (s_waker[s_parks] \in {"signalling", "done"})
  /\ \A w \in 1..MaxSimple : w > s_parks => s_waker[w] = "none"

SimpleInv == SimpleFlags /\ SimpleTypes /\ Simple!WakersOnly /\ SimpleParked

LEMMA SimpleBound == MaxSimple \in Nat
BY GreenPartsAssumptions DEF Simple!BoundAssumption

\* SimpleInv has the type invariant of SimpleTask in it.
LEMMA SimpleTypeOK == SimpleInv => Simple!TypeOK
BY DEF SimpleInv, SimpleFlags, SimpleTypes, Simple!TypeOK, Simple!Parks, Simple!Task

\* The invariant of SimpleTask holds before the first deschedule.
LEMMA SimpleInit == Simple!Init => SimpleInv
<1>. SUFFICES ASSUME Simple!Init PROVE SimpleInv
  OBVIOUS
<1>. USE SimpleBound DEF Simple!Init, Simple!Parks, Simple!Free
<1>1. SimpleFlags
  BY DEF SimpleFlags
<1>2. SimpleTypes
  BY DEF SimpleTypes, Simple!PC
<1>3. Simple!WakersOnly
  BY DEF Simple!WakersOnly
<1>4. SimpleParked
  BY DEF SimpleParked
<1>. QED
  BY <1>1, <1>2, <1>3, <1>4 DEF SimpleInv

\* A step of the task's thread or of a waker keeps the invariant of SimpleTask.
LEMMA SimpleStep == SimpleInv /\ [Simple!Next]_simpleVars => SimpleInv'
<1>. SUFFICES ASSUME SimpleInv, [Simple!Next]_simpleVars PROVE SimpleInv'
  OBVIOUS
<1>. DEFINE Core == SimpleTypes /\ Simple!WakersOnly /\ SimpleParked
<1>. USE SimpleBound
     DEF Core, SimpleTypes, Simple!WakersOnly, SimpleParked, Simple!Parks,
         Simple!Free, Simple!Task, Simple!PC
<1>0. SimpleFlags /\ Core
  BY DEF SimpleInv
<1>1. ASSUME Simple!Deschedule PROVE Core'
  BY <1>0, <1>1 DEF Simple!Deschedule
<1>2. ASSUME Simple!Lock PROVE Core'
  BY <1>0, <1>2 DEF Simple!Lock
<1>3. ASSUME Simple!ClosureOk PROVE Core'
  BY <1>0, <1>3 DEF Simple!ClosureOk
<1>4. ASSUME Simple!ClosureErr PROVE Core'
  BY <1>0, <1>4 DEF Simple!ClosureErr
<1>5. ASSUME Simple!ReturnRefused PROVE Core'
  BY <1>0, <1>5 DEF Simple!ReturnRefused
<1>6. ASSUME Simple!SpuriousWake PROVE Core'
  BY <1>0, <1>6 DEF Simple!SpuriousWake
<1>7. ASSUME Simple!Relock PROVE Core'
  BY <1>0, <1>7 DEF Simple!Relock
<1>8. ASSUME NEW w \in Simple!Parks, Simple!WakerLock(w) PROVE Core'
  <2>1. ~s_bad /\ w = s_parks /\ s_pc # "running"
    BY <1>0, <1>8 DEF Simple!WakerLock
  <2>2. ~s_bad'
    BY <2>1, <1>8 DEF Simple!WakerLock
  <2>3. s_lock' = w /\ s_waker' = [s_waker EXCEPT ![w] = "locked"] /\ s_waker[w] = "has"
        /\ s_lock = 0 /\ UNCHANGED <<s_pc, s_awoken, s_parks>>
    BY <1>8 DEF Simple!WakerLock
  <2>. QED
    BY <1>0, <2>1, <2>2, <2>3
<1>9. ASSUME NEW w \in Simple!Parks, Simple!Signal(w) PROVE Core'
  BY <1>0, <1>9 DEF Simple!Signal
<1>10. ASSUME NEW w \in Simple!Parks, Simple!WakerUnlock(w) PROVE Core'
  BY <1>0, <1>10 DEF Simple!WakerUnlock
<1>11. ASSUME UNCHANGED simpleVars PROVE Core'
  BY <1>0, <1>11 DEF simpleVars
<1>12. SimpleFlags'
  BY <1>0 DEF SimpleFlags, Simple!Next, Simple!Deschedule, Simple!Lock, Simple!ClosureOk,
     Simple!ClosureErr, Simple!ReturnRefused, Simple!SpuriousWake, Simple!Relock,
     Simple!Waker, Simple!WakerLock, Simple!Signal, Simple!WakerUnlock, Simple!Over,
     Simple!vars, simpleVars
<1>13. Core'
  BY <1>1, <1>2, <1>3, <1>4, <1>5, <1>6, <1>7, <1>8, <1>9, <1>10, <1>11
     DEF Simple!Next, Simple!Waker, Simple!Over, Simple!vars, simpleVars
<1>. QED
  BY <1>12, <1>13 DEF SimpleInv

\* A SimpleTask has not parked when it is made.
LEMMA SimpleParkInit == Simple!Init => Simple!P!Init
BY DEF Simple!Init, Simple!P!Init

\* Every step of a SimpleTask or of its waker is a step of Parking or none: the
\* condition variable and the lock add nothing that deschedule does not promise.
LEMMA SimpleParkStep ==
  SimpleInv /\ [Simple!Next]_simpleVars => [Simple!P!Next]_(Simple!P!vars)
<1>. SUFFICES ASSUME SimpleInv, [Simple!Next]_simpleVars PROVE [Simple!P!Next]_(Simple!P!vars)
  OBVIOUS
<1>. USE DEF SimpleInv, SimpleTypes, Simple!WakersOnly, SimpleParked, Simple!PC, Simple!Parks,
         Simple!P!Next, Simple!P!vars
<1>1. ASSUME Simple!Deschedule PROVE Simple!P!Park
  BY <1>1 DEF Simple!Deschedule, Simple!P!Park
<1>2. ASSUME Simple!Lock PROVE UNCHANGED Simple!P!vars
  BY <1>2 DEF Simple!Lock
<1>3. ASSUME Simple!ClosureOk PROVE Simple!P!ClosureReturns
  BY <1>3 DEF Simple!ClosureOk, Simple!P!ClosureReturns
<1>4. ASSUME Simple!ClosureErr PROVE Simple!P!Refuse
  BY <1>4 DEF Simple!ClosureErr, Simple!P!Refuse
<1>5. ASSUME Simple!ReturnRefused PROVE Simple!P!Return
  BY <1>5 DEF Simple!ReturnRefused, Simple!P!Return
<1>6. ASSUME Simple!SpuriousWake PROVE UNCHANGED Simple!P!vars
  BY <1>6 DEF Simple!SpuriousWake
<1>7. ASSUME Simple!Relock PROVE Simple!P!Return \/ UNCHANGED Simple!P!vars
  BY <1>7 DEF Simple!Relock, Simple!P!Return
<1>8. ASSUME NEW w \in Simple!Parks, Simple!WakerLock(w) PROVE UNCHANGED Simple!P!vars
  BY <1>8 DEF Simple!WakerLock
<1>9. ASSUME NEW w \in Simple!Parks, Simple!Signal(w) PROVE Simple!P!Wake
  BY <1>9 DEF Simple!Signal, Simple!P!Wake
<1>10. ASSUME NEW w \in Simple!Parks, Simple!WakerUnlock(w) PROVE UNCHANGED Simple!P!vars
  BY <1>10 DEF Simple!WakerUnlock
<1>11. ASSUME UNCHANGED simpleVars PROVE UNCHANGED Simple!P!vars
  BY <1>11 DEF simpleVars
<1>. QED
  BY <1>1, <1>2, <1>3, <1>4, <1>5, <1>6, <1>7, <1>8, <1>9, <1>10, <1>11
     DEF Simple!Next, Simple!Waker, Simple!Over, Simple!vars, simpleVars

-----------------------------------------------------------------------------
(* Deschedule.                                                             *)

GreenHandles == (1..MaxParks) \X (1..MaxTimes)

\* Green!TypeOK.
GreenTypes ==
  /\ g_task \in Green!Place /\ g_parks \in 0..MaxParks
  /\ g_times \in 0..MaxTimes /\ g_next \in 0..MaxTimes + 1
  /\ g_lock \in {<<0, 0>>, <<0, 1>>} \cup GreenHandles /\ g_slot \subseteq 1..MaxParks
  /\ g_waker \in [GreenHandles -> Green!Holder] /\ g_wakes \in [1..MaxParks -> Nat]
  /\ \A h \in GreenHandles : g_lock = h <=> g_waker[h] \in {"locked", "sent"}
  /\ g_task = "blocked" <=> g_parks \in g_slot

\* The task is with one waker or none, and only of the current park: the one that
\* took it out of its BlockedTask has it until it is queued or switched to, and is
\* in its lock for no longer than the task can be kept from running.
GreenHeld ==
  /\ g_slot \subseteq {g_parks}
  /\ g_task \notin {"running", "dead"} => g_parks > 0 /\ g_times > 0
  /\ \A h \in GreenHandles :
       /\ g_waker[h] \in {"has", "locked"} => g_task = "taken" /\ h[1] = g_parks
       /\ g_waker[h] = "sent" => g_task \in {"queued", "bouncing"}
       /\ h[1] > g_parks => g_waker[h] = "none"
  /\ \A h, k \in GreenHandles :
       g_waker[h] \in {"has", "locked"} /\ g_waker[k] \in {"has", "locked"} => h = k

\* The closure runs with the lock, while the task does not.
GreenClosure ==
  /\ g_next > 0 <=> g_lock = <<0, 1>>
  /\ g_next > 0 => g_task \notin {"running", "dead"}
  /\ g_next <= g_times + 1

\* The closure offers the first BlockedTask first.
GreenFirst ==
  g_parks > 0 =>
    /\ g_next \in 2..g_times => g_waker[<<g_parks, 1>>] # "none"
    /\ g_next > 1 /\ g_task = "blocked" => g_waker[<<g_parks, 1>>] # "none"
    /\ \A i \in 1..MaxTimes :
         g_waker[<<g_parks, i>>] # "none" => g_waker[<<g_parks, 1>>] # "none"

\* Every park but the current one was ended once, and the current one when the
\* task is no longer in its BlockedTask or with a waker.
GreenWakes ==
  \A p \in 1..MaxParks :
    g_wakes[p] = IF p < g_parks \/ (p = g_parks /\ g_task \notin {"blocked", "taken"})
                   THEN 1 ELSE 0

GreenInv ==
  GreenTypes /\ GreenHeld /\ GreenClosure /\ GreenFirst /\ GreenWakes /\ Green!AloneWhenRunning

LEMMA GreenBound == MaxParks \in Nat /\ MaxTimes \in Nat \ {0}
BY GreenPartsAssumptions DEF Green!BoundAssumption

\* GreenInv says what the run checks of a green task.
LEMMA GreenInvImplies == GreenInv => Green!TypeOK /\ Green!AloneWhenRunning /\ Green!WokenOnce
<1>. SUFFICES ASSUME GreenInv
              PROVE  Green!TypeOK /\ Green!AloneWhenRunning /\ Green!WokenOnce
  OBVIOUS
<1>1. Green!TypeOK
  BY DEF GreenInv, GreenTypes, GreenHandles, Green!TypeOK, Green!Parks, Green!Handles,
     Green!Nobody, Green!Closure
<1>2. Green!WokenOnce
  BY GreenBound DEF GreenInv, GreenTypes, GreenWakes, Green!WokenOnce, Green!Parks
<1>. QED
  BY <1>1, <1>2 DEF GreenInv

\* The invariant of a green task holds before its first deschedule.
LEMMA GreenInit == Green!Init => GreenInv
<1>. SUFFICES ASSUME Green!Init PROVE GreenInv
  OBVIOUS
<1>. USE GreenBound DEF Green!Init, Green!Nobody, Green!Parks, Green!Handles
<1>1. GreenTypes
  BY DEF GreenTypes, GreenHandles, Green!Place, Green!Holder
<1>2. GreenHeld
  BY DEF GreenHeld, GreenHandles
<1>3. GreenClosure /\ GreenFirst
  BY DEF GreenClosure, GreenFirst
<1>4. GreenWakes
  BY DEF GreenWakes
<1>5. Green!AloneWhenRunning
  BY DEF Green!AloneWhenRunning
<1>. QED
  BY <1>1, <1>2, <1>3, <1>4, <1>5 DEF GreenInv

\* The BlockedTasks of a park.
LEMMA GreenPair ==
  \A p \in 1..MaxParks, i \in 1..MaxTimes :
    /\ <<p, i>> \in GreenHandles /\ <<p, i>>[1] = p
    /\ \A q \in 1..MaxParks, j \in 1..MaxTimes : <<p, i>> = <<q, j>> <=> p = q /\ i = j
BY DEF GreenHandles

\* A step that gives out no BlockedTask, nor moves the closure, keeps GreenFirst.
LEMMA GreenFirstKept ==
  ASSUME GreenTypes, GreenFirst, UNCHANGED <<g_parks, g_next, g_times>>,
         g_task' = "blocked" => g_task = "blocked",
         \A k \in GreenHandles : g_waker'[k] = "none" <=> g_waker[k] = "none"
  PROVE  GreenFirst'
<1>1. ASSUME NEW i \in 1..MaxTimes, g_parks > 0
      PROVE  g_waker'[<<g_parks, i>>] = "none" <=> g_waker[<<g_parks, i>>] = "none"
  BY <1>1, GreenBound, GreenPair DEF GreenTypes
<1>2. 1 \in 1..MaxTimes
  BY GreenBound
<1>. QED
  BY <1>1, <1>2 DEF GreenFirst

\* A step of the task, of its closure or of a waker keeps the invariant of a
\* green task.
LEMMA GreenStep == GreenInv /\ [Green!Next]_greenVars => GreenInv'
<1>. SUFFICES ASSUME GreenInv, [Green!Next]_greenVars PROVE GreenInv'
  OBVIOUS
<1>. USE GreenBound
     DEF GreenInv, GreenHandles, Green!Nobody, Green!Closure, Green!Parks, Green!Handles,
         Green!Place, Green!Holder, Green!AloneWhenRunning
<1>1. ASSUME NEW n \in 1..MaxTimes, Green!Switch(n) PROVE GreenInv'
  <2>. USE <1>1 DEF Green!Switch
  <2>1. GreenTypes'
    BY DEF GreenTypes, GreenHeld, GreenClosure
  <2>2. GreenHeld'
    BY DEF GreenTypes, GreenHeld, GreenClosure
  <2>3. GreenClosure'
    BY DEF GreenTypes, GreenHeld, GreenClosure
  <2>4. GreenFirst'
    BY GreenPair DEF GreenTypes, GreenHeld, GreenClosure, GreenFirst
  <2>5. GreenWakes'
    BY DEF GreenTypes, GreenHeld, GreenWakes
  <2>6. Green!AloneWhenRunning'
    BY DEF GreenTypes, GreenHeld, GreenClosure
  <2>. QED
    BY <2>1, <2>2, <2>3, <2>4, <2>5, <2>6
<1>2. ASSUME Green!ClosureLock PROVE GreenInv'
  <2>. USE <1>2 DEF Green!ClosureLock
  <2>1. GreenTypes'
    BY DEF GreenTypes, GreenHeld, GreenClosure
  <2>2. GreenHeld'
    BY DEF GreenTypes, GreenHeld, GreenClosure
  <2>3. GreenClosure'
    BY DEF GreenTypes, GreenHeld, GreenClosure
  <2>4. GreenFirst'
    BY GreenPair DEF GreenTypes, GreenHeld, GreenClosure, GreenFirst
  <2>5. GreenWakes'
    BY DEF GreenTypes, GreenHeld, GreenWakes
  <2>6. Green!AloneWhenRunning'
    BY DEF GreenTypes, GreenHeld, GreenClosure
  <2>. QED
    BY <2>1, <2>2, <2>3, <2>4, <2>5, <2>6
<1>3. ASSUME Green!Offer PROVE GreenInv'
  <2>. USE <1>3 DEF Green!Offer
  <2>1. GreenTypes'
    BY DEF GreenTypes, GreenHeld, GreenClosure
  <2>2. GreenHeld'
    BY DEF GreenTypes, GreenHeld, GreenClosure
  <2>3. GreenClosure'
    BY DEF GreenTypes, GreenHeld, GreenClosure
  <2>4. GreenFirst'
    <3>1. g_parks \in 1..MaxParks /\ g_next \in 1..MaxTimes
      BY DEF GreenTypes, GreenHeld, GreenClosure
    <3>2. g_waker'[<<g_parks, 1>>] # "none"
      BY <3>1, GreenPair DEF GreenTypes, GreenFirst
    <3>. QED
      BY <3>1, <3>2 DEF GreenFirst
  <2>5. GreenWakes'
    BY DEF GreenTypes, GreenHeld, GreenWakes
  <2>6. Green!AloneWhenRunning'
    BY DEF GreenTypes, GreenHeld, GreenClosure
  <2>. QED
    BY <2>1, <2>2, <2>3, <2>4, <2>5, <2>6
<1>4. ASSUME Green!Refuse PROVE GreenInv'
  <2>. USE <1>4 DEF Green!Refuse
  <2>1. GreenTypes'
    <3>1. g_next' \in 0..MaxTimes + 1 /\ UNCHANGED <<g_parks, g_times, g_lock, g_waker>>
      BY DEF GreenTypes
    <3>2. CASE g_parks \in g_slot
      <4>1. /\ g_slot' = g_slot \ {g_parks} /\ g_task' = "queued"
            /\ g_wakes' = [g_wakes EXCEPT ![g_parks] = @ + 1]
        BY <3>2
      <4>2. g_wakes' \in [1..MaxParks -> Nat]
        BY ONLY <3>2, <4>1, GreenTypes DEF GreenTypes
      <4>3. g_slot' \subseteq 1..MaxParks /\ g_parks' \notin g_slot'
        BY ONLY <3>1, <4>1, GreenTypes DEF GreenTypes
      <4>. QED
        BY ONLY <3>1, <4>1, <4>2, <4>3, GreenTypes DEF GreenTypes, Green!Place
    <3>3. CASE g_parks \notin g_slot
      <4>1. UNCHANGED <<g_slot, g_task, g_wakes>>
        BY <3>3
      <4>. QED
        BY ONLY <3>1, <4>1, GreenTypes DEF GreenTypes
    <3>. QED
      BY <3>2, <3>3
  <2>2. GreenHeld'
    BY DEF GreenTypes, GreenHeld, GreenClosure
  <2>3. GreenClosure'
    BY DEF GreenTypes, GreenHeld, GreenClosure
  <2>4. GreenFirst'
    <3>1. g_next' = g_times + 1 /\ UNCHANGED <<g_parks, g_times, g_waker>>
      OBVIOUS
    <3>2. g_task' # "blocked"
      BY DEF GreenTypes
    <3>3. g_times \in Nat
      BY DEF GreenTypes
    <3>. QED
      BY ONLY <3>1, <3>2, <3>3, GreenFirst DEF GreenFirst
  <2>5. GreenWakes'
    BY DEF GreenTypes, GreenHeld, GreenWakes
  <2>6. Green!AloneWhenRunning'
    BY DEF GreenTypes, GreenHeld, GreenClosure
  <2>. QED
    BY <2>1, <2>2, <2>3, <2>4, <2>5, <2>6
<1>5. ASSUME Green!ClosureUnlock PROVE GreenInv'
  <2>. USE <1>5 DEF Green!ClosureUnlock
  <2>1. GreenTypes'
    BY DEF GreenTypes, GreenHeld, GreenClosure
  <2>2. GreenHeld'
    BY DEF GreenTypes, GreenHeld, GreenClosure
  <2>3. GreenClosure'
    BY DEF GreenTypes, GreenHeld, GreenClosure
  <2>4. GreenFirst'
    BY GreenPair DEF GreenTypes, GreenHeld, GreenClosure, GreenFirst
  <2>5. GreenWakes'
    BY DEF GreenTypes, GreenHeld, GreenWakes
  <2>6. Green!AloneWhenRunning'
    BY DEF GreenTypes, GreenHeld, GreenClosure
  <2>. QED
    BY <2>1, <2>2, <2>3, <2>4, <2>5, <2>6
<1>6. ASSUME NEW h \in GreenHandles, Green!Wake(h) PROVE GreenInv'
  <2>. USE <1>6 DEF Green!Wake
  <2>1. GreenTypes'
    BY DEF GreenTypes, GreenHeld, GreenClosure
  <2>2. GreenHeld'
    <3>1. CASE h[1] \in g_slot
      <4>1. /\ g_slot' = g_slot \ {h[1]} /\ g_task' = "taken" /\ UNCHANGED <<g_parks, g_times>>
            /\ g_waker' = [g_waker EXCEPT ![h] = "has"]
        BY <3>1
      <4>2. g_task = "blocked" /\ h[1] = g_parks
        BY <3>1 DEF GreenTypes, GreenHeld
      <4>. QED
        BY ONLY <4>1, <4>2, h \in GreenHandles, GreenTypes, GreenHeld DEF GreenTypes, GreenHeld
    <3>2. CASE h[1] \notin g_slot
      <4>1. /\ UNCHANGED <<g_slot, g_task, g_parks, g_times>>
            /\ g_waker' = [g_waker EXCEPT ![h] = "done"] /\ g_waker[h] = "out"
        BY <3>2
      <4>. QED
        BY ONLY <4>1, h \in GreenHandles, GreenTypes, GreenHeld DEF GreenTypes, GreenHeld
    <3>. QED
      BY <3>1, <3>2
  <2>3. GreenClosure'
    BY DEF GreenTypes, GreenHeld, GreenClosure
  <2>4. GreenFirst'
    <3>1. \A k \in GreenHandles : g_waker'[k] = "none" <=> g_waker[k] = "none"
      BY DEF GreenTypes
    <3>2. UNCHANGED <<g_parks, g_next, g_times>> /\ (g_task' = "blocked" => g_task = "blocked")
      BY DEF GreenTypes, GreenHeld
    <3>. QED
      BY ONLY <3>1, <3>2, GreenFirstKept, GreenInv DEF GreenInv
  <2>5. GreenWakes'
    BY DEF GreenTypes, GreenHeld, GreenWakes
  <2>6. Green!AloneWhenRunning'
    BY DEF GreenTypes, GreenHeld, GreenClosure
  <2>. QED
    BY <2>1, <2>2, <2>3, <2>4, <2>5, <2>6
<1>7. ASSUME NEW h \in GreenHandles, Green!ReawakenHere(h) PROVE GreenInv'
  <2>. USE <1>7 DEF Green!ReawakenHere
  <2>1. GreenTypes'
    BY DEF GreenTypes, GreenHeld, GreenClosure
  <2>2. GreenHeld'
    BY DEF GreenTypes, GreenHeld, GreenClosure
  <2>3. GreenClosure'
    BY DEF GreenTypes, GreenHeld, GreenClosure
  <2>4. GreenFirst'
    <3>1. \A k \in GreenHandles : g_waker'[k] = "none" <=> g_waker[k] = "none"
      BY DEF GreenTypes
    <3>2. UNCHANGED <<g_parks, g_next, g_times>> /\ (g_task' = "blocked" => g_task = "blocked")
      BY DEF GreenTypes, GreenHeld
    <3>. QED
      BY ONLY <3>1, <3>2, GreenFirstKept, GreenInv DEF GreenInv
  <2>5. GreenWakes'
    BY DEF GreenTypes, GreenHeld, GreenWakes
  <2>6. Green!AloneWhenRunning'
    BY DEF GreenTypes, GreenHeld, GreenClosure
  <2>. QED
    BY <2>1, <2>2, <2>3, <2>4, <2>5, <2>6
<1>8. ASSUME NEW h \in GreenHandles, Green!RemoteLock(h) PROVE GreenInv'
  <2>. USE <1>8 DEF Green!RemoteLock
  <2>1. GreenTypes'
    BY DEF GreenTypes, GreenHeld, GreenClosure
  <2>2. GreenHeld'
    BY DEF GreenTypes, GreenHeld, GreenClosure
  <2>3. GreenClosure'
    BY DEF GreenTypes, GreenHeld, GreenClosure
  <2>4. GreenFirst'
    <3>1. \A k \in GreenHandles : g_waker'[k] = "none" <=> g_waker[k] = "none"
      BY DEF GreenTypes
    <3>2. UNCHANGED <<g_parks, g_next, g_times>> /\ (g_task' = "blocked" => g_task = "blocked")
      BY DEF GreenTypes, GreenHeld
    <3>. QED
      BY ONLY <3>1, <3>2, GreenFirstKept, GreenInv DEF GreenInv
  <2>5. GreenWakes'
    BY DEF GreenTypes, GreenHeld, GreenWakes
  <2>6. Green!AloneWhenRunning'
    BY DEF GreenTypes, GreenHeld, GreenClosure
  <2>. QED
    BY <2>1, <2>2, <2>3, <2>4, <2>5, <2>6
<1>9. ASSUME NEW h \in GreenHandles, Green!RemoteSend(h) PROVE GreenInv'
  <2>. USE <1>9 DEF Green!RemoteSend
  <2>1. GreenTypes'
    BY DEF GreenTypes, GreenHeld, GreenClosure
  <2>2. GreenHeld'
    BY DEF GreenTypes, GreenHeld, GreenClosure
  <2>3. GreenClosure'
    BY DEF GreenTypes, GreenHeld, GreenClosure
  <2>4. GreenFirst'
    <3>1. \A k \in GreenHandles : g_waker'[k] = "none" <=> g_waker[k] = "none"
      BY DEF GreenTypes
    <3>2. UNCHANGED <<g_parks, g_next, g_times>> /\ (g_task' = "blocked" => g_task = "blocked")
      BY DEF GreenTypes, GreenHeld
    <3>. QED
      BY ONLY <3>1, <3>2, GreenFirstKept, GreenInv DEF GreenInv
  <2>5. GreenWakes'
    BY DEF GreenTypes, GreenHeld, GreenWakes
  <2>6. Green!AloneWhenRunning'
    BY DEF GreenTypes, GreenHeld, GreenClosure
  <2>. QED
    BY <2>1, <2>2, <2>3, <2>4, <2>5, <2>6
<1>10. ASSUME NEW h \in GreenHandles, Green!RemoteUnlock(h) PROVE GreenInv'
  <2>. USE <1>10 DEF Green!RemoteUnlock
  <2>1. GreenTypes'
    BY DEF GreenTypes, GreenHeld, GreenClosure
  <2>2. GreenHeld'
    BY DEF GreenTypes, GreenHeld, GreenClosure
  <2>3. GreenClosure'
    BY DEF GreenTypes, GreenHeld, GreenClosure
  <2>4. GreenFirst'
    <3>1. \A k \in GreenHandles : g_waker'[k] = "none" <=> g_waker[k] = "none"
      BY DEF GreenTypes
    <3>2. UNCHANGED <<g_parks, g_next, g_times>> /\ (g_task' = "blocked" => g_task = "blocked")
      BY DEF GreenTypes, GreenHeld
    <3>. QED
      BY ONLY <3>1, <3>2, GreenFirstKept, GreenInv DEF GreenInv
  <2>5. GreenWakes'
    BY DEF GreenTypes, GreenHeld, GreenWakes
  <2>6. Green!AloneWhenRunning'
    BY DEF GreenTypes, GreenHeld, GreenClosure
  <2>. QED
    BY <2>1, <2>2, <2>3, <2>4, <2>5, <2>6
<1>11. ASSUME Green!Resume PROVE GreenInv'
  <2>. USE <1>11 DEF Green!Resume
  <2>1. GreenTypes'
    BY DEF GreenTypes, GreenHeld, GreenClosure
  <2>2. GreenHeld'
    BY DEF GreenTypes, GreenHeld, GreenClosure
  <2>3. GreenClosure'
    BY DEF GreenTypes, GreenHeld, GreenClosure
  <2>4. GreenFirst'
    BY GreenPair DEF GreenTypes, GreenHeld, GreenClosure, GreenFirst
  <2>5. GreenWakes'
    BY DEF GreenTypes, GreenHeld, GreenWakes
  <2>6. Green!AloneWhenRunning'
    BY DEF GreenTypes, GreenHeld, GreenClosure
  <2>. QED
    BY <2>1, <2>2, <2>3, <2>4, <2>5, <2>6
<1>12. ASSUME Green!Bounce PROVE GreenInv'
  <2>. USE <1>12 DEF Green!Bounce
  <2>1. GreenTypes'
    BY DEF GreenTypes, GreenHeld, GreenClosure
  <2>2. GreenHeld'
    BY DEF GreenTypes, GreenHeld, GreenClosure
  <2>3. GreenClosure'
    BY DEF GreenTypes, GreenHeld, GreenClosure
  <2>4. GreenFirst'
    BY GreenPair DEF GreenTypes, GreenHeld, GreenClosure, GreenFirst
  <2>5. GreenWakes'
    BY DEF GreenTypes, GreenHeld, GreenWakes
  <2>6. Green!AloneWhenRunning'
    BY DEF GreenTypes, GreenHeld, GreenClosure
  <2>. QED
    BY <2>1, <2>2, <2>3, <2>4, <2>5, <2>6
<1>13. ASSUME Green!Terminate PROVE GreenInv'
  <2>. USE <1>13 DEF Green!Terminate
  <2>1. GreenTypes'
    BY DEF GreenTypes, GreenHeld, GreenClosure
  <2>2. GreenHeld'
    BY DEF GreenTypes, GreenHeld, GreenClosure
  <2>3. GreenClosure'
    BY DEF GreenTypes, GreenHeld, GreenClosure
  <2>4. GreenFirst'
    BY GreenPair DEF GreenTypes, GreenHeld, GreenClosure, GreenFirst
  <2>5. GreenWakes'
    BY DEF GreenTypes, GreenHeld, GreenWakes
  <2>6. Green!AloneWhenRunning'
    BY DEF GreenTypes, GreenHeld, GreenClosure
  <2>. QED
    BY <2>1, <2>2, <2>3, <2>4, <2>5, <2>6
<1>14. ASSUME UNCHANGED greenVars PROVE GreenInv'
  BY <1>14 DEF greenVars, GreenTypes, GreenHeld, GreenClosure, GreenFirst, GreenWakes
<1>. QED
  BY <1>1, <1>2, <1>3, <1>4, <1>5, <1>6, <1>7, <1>8, <1>9, <1>10, <1>11, <1>12, <1>13, <1>14
     DEF Green!Next, Green!CleanupJob, Green!Waker, Green!Over, Green!vars, greenVars

\* A green task has not parked when it is made.
LEMMA GreenParkInit == Green!Init => Green!P!Init
BY DEF Green!Init, Green!P!Init

\* Every step of a green task, of its closure and of its wakers is a step of
\* Parking or none, although the closure, several wakers and the scheduler that
\* resumes the task run at the same time.
LEMMA GreenParkStep ==
  GreenInv /\ [Green!Next]_greenVars => [Green!P!Next]_(Green!P!vars)
<1>. SUFFICES ASSUME GreenInv, [Green!Next]_greenVars PROVE [Green!P!Next]_(Green!P!vars)
  OBVIOUS
<1>. USE GreenBound DEF GreenInv, Green!P!Next, Green!P!vars, Green!Parks, Green!Handles, Green!Nobody
<1>0. g_parks \in Nat /\ g_next \in Nat /\ g_times \in Nat /\ g_task \in Green!Place
  BY DEF GreenTypes
<1>1. ASSUME NEW n \in 1..MaxTimes, Green!Switch(n) PROVE Green!P!Park
  <2>1. g_parks' \in 1..MaxParks /\ g_parks' > g_parks
    BY <1>1, <1>0 DEF Green!Switch
  <2>2. g_waker[<<g_parks', 1>>] = "none"
    BY <2>1, GreenPair DEF GreenHeld
  <2>. QED
    BY <1>1, <2>2 DEF Green!Switch, Green!P!Park
<1>2. ASSUME Green!ClosureLock PROVE UNCHANGED Green!P!vars
  BY <1>2 DEF Green!ClosureLock
<1>3. ASSUME Green!Offer PROVE UNCHANGED Green!P!vars
  BY <1>3, <1>0 DEF Green!Offer
<1>4. ASSUME Green!Refuse PROVE Green!P!Wake \/ UNCHANGED Green!P!vars
  <2>1. g_next > 0 /\ g_next' > 0
    BY <1>4, <1>0 DEF Green!Refuse
  <2>2. CASE g_parks \in g_slot
    BY <2>1, <2>2, <1>4 DEF Green!Refuse, GreenTypes, Green!P!Wake
  <2>3. CASE g_parks \notin g_slot
    BY <2>1, <2>3, <1>4 DEF Green!Refuse
  <2>. QED
    BY <2>2, <2>3
<1>5. ASSUME Green!ClosureUnlock PROVE Green!P!ClosureReturns
  <2>1. g_next > 0 /\ g_next' = 0 /\ UNCHANGED <<g_task, g_parks, g_waker>>
    BY <1>5 DEF Green!ClosureUnlock
  <2>2. g_task = "blocked" => g_waker[<<g_parks, 1>>] # "none"
    BY <1>0, <1>5 DEF Green!ClosureUnlock, GreenFirst, GreenClosure, GreenHeld
  <2>. QED
    BY <2>1, <2>2 DEF Green!P!ClosureReturns
<1>6. ASSUME NEW h \in GreenHandles, Green!Waker(h)
      PROVE  Green!P!Wake \/ UNCHANGED Green!P!vars
  <2>1. UNCHANGED <<g_parks, g_next>>
    BY <1>6 DEF Green!Waker, Green!Wake, Green!ReawakenHere, Green!RemoteLock, Green!RemoteSend, Green!RemoteUnlock
  <2>2. CASE Green!Wake(h) /\ h[1] \in g_slot
    <3>1. g_task = "blocked" /\ g_task' = "taken" /\ h[1] = g_parks /\ g_waker[h] = "out"
      BY <2>2 DEF Green!Wake, GreenHeld, GreenTypes
    <3>2. h = <<g_parks, h[2]>> /\ h[2] \in 1..MaxTimes /\ g_parks > 0
      BY <3>1 DEF GreenHandles
    <3>3. g_waker[<<g_parks, 1>>] # "none"
      BY <3>1, <3>2 DEF GreenFirst
    <3>. QED
      BY <2>1, <3>1, <3>3 DEF Green!P!Wake
  <2>3. CASE Green!Wake(h) /\ h[1] \notin g_slot
    <3>1. g_task' = g_task
      BY <2>3 DEF Green!Wake
    <3>2. \A k \in GreenHandles : g_waker'[k] = "none" <=> g_waker[k] = "none"
      BY <2>3 DEF Green!Wake, GreenTypes
    <3>3. g_task = "blocked" => <<g_parks, 1>> \in GreenHandles
      BY <1>0, GreenPair DEF GreenTypes, GreenHeld
    <3>. QED
      BY <2>1, <3>1, <3>2, <3>3
  <2>4. CASE ~Green!Wake(h)
    <3>1. g_task # "blocked" /\ g_task' # "blocked"
      BY <2>4, <1>6 DEF Green!Waker, Green!ReawakenHere, Green!RemoteLock, Green!RemoteSend,
         Green!RemoteUnlock, GreenHeld
    <3>2. g_task \in {"taken", "queued", "bouncing"} /\ g_task' \in {"taken", "queued", "bouncing"}
      BY <2>4, <1>6 DEF Green!Waker, Green!ReawakenHere, Green!RemoteLock, Green!RemoteSend,
         Green!RemoteUnlock, GreenHeld
    <3>. QED
      BY <2>1, <3>1, <3>2
  <2>. QED
    BY <2>2, <2>3, <2>4
<1>7. ASSUME Green!Resume PROVE UNCHANGED Green!P!vars
  BY <1>7 DEF Green!Resume
<1>8. ASSUME Green!Bounce PROVE Green!P!Return
  BY <1>0, <1>8 DEF Green!Bounce, GreenClosure, Green!P!Return
<1>9. ASSUME Green!Terminate PROVE UNCHANGED Green!P!vars
  BY <1>9 DEF Green!Terminate
<1>10. ASSUME UNCHANGED greenVars PROVE UNCHANGED Green!P!vars
  BY <1>10 DEF greenVars
<1>. QED
  BY <1>1, <1>2, <1>3, <1>4, <1>5, <1>6, <1>7, <1>8, <1>9, <1>10
     DEF Green!Next, Green!CleanupJob, Green!Over, Green!vars, greenVars, GreenHandles

-----------------------------------------------------------------------------
(* UvAsync.                                                                *)

AsyncFlags ==
  /\ a_should \in BOOLEAN /\ a_failed \in BOOLEAN
  /\ a_pend \in [Remotes -> BOOLEAN] /\ a_flag \in [Remotes -> BOOLEAN]
  /\ a_owed \in [Remotes -> BOOLEAN]

\* Async!TypeOK without the flags.
AsyncTypes ==
  /\ a_cb \in Remotes \cup {NoCb} /\ a_stage \in Async!Stage
  /\ a_handle \in [Remotes -> {"none", "open", "closing", "freed"}]
  /\ a_owner \in [Remotes -> Async!Owner]
  /\ a_fires \in [Remotes -> 0..MaxFires]
  /\ \A r \in Remotes : a_handle[r] = "none" <=> a_owner[r] = "none"

\* The handle whose callback the loop is in is open; the exit flag is set as long
\* as drop has begun; the loop decides to close, and closes, a handle only after
\* the drop is over, and then no call is owed.
AsyncClosed ==
  /\ a_stage \in {"poll", "returned"} => a_cb = NoCb
  /\ a_stage \in {"flag", "call", "close"} => a_cb # NoCb
  /\ a_cb # NoCb => a_handle[a_cb] = "open"
  /\ a_should => a_cb # NoCb /\ a_owner[a_cb] = "gone"
  /\ a_should /\ a_stage \in {"calling", "close"} => ~a_owed[a_cb]
  /\ \A r \in Remotes : a_flag[r] <=> a_owner[r] \in {"locked", "sent", "gone"}
  /\ \A r \in Remotes : a_handle[r] \in {"closing", "freed"} => a_owner[r] = "gone" /\ ~a_owed[r]

AsyncInv == AsyncFlags /\ AsyncTypes /\ AsyncClosed /\ Async!NoUseAfterFree /\ Async!NoneLeft

LEMMA AsyncBound == NoCb \notin Remotes /\ MaxFires \in Nat
BY GreenPartsAssumptions DEF Async!RemotesAssumption

\* AsyncInv has the type invariant of UvAsync in it.
LEMMA AsyncTypeOK == AsyncInv => Async!TypeOK
BY DEF AsyncInv, AsyncFlags, AsyncTypes, Async!TypeOK

\* The invariant of UvAsync holds when the loop is made.
LEMMA AsyncInit == Async!Init => AsyncInv
<1>. SUFFICES ASSUME Async!Init PROVE AsyncInv
  OBVIOUS
<1>. USE AsyncBound DEF Async!Init
<1>1. AsyncFlags
  BY DEF AsyncFlags
<1>2. AsyncTypes
  BY DEF AsyncTypes, Async!Stage, Async!Owner
<1>3. AsyncClosed
  BY DEF AsyncClosed
<1>4. Async!NoUseAfterFree /\ Async!NoneLeft
  BY DEF Async!NoUseAfterFree, Async!NoneLeft
<1>. QED
  BY <1>1, <1>2, <1>3, <1>4 DEF AsyncInv

\* Every step of the loop and of the threads that own an Async keeps the
\* invariant of UvAsync.
LEMMA AsyncStep == AsyncInv /\ [Async!Next]_asyncVars => AsyncInv'
<1>. SUFFICES ASSUME AsyncInv, [Async!Next]_asyncVars PROVE AsyncInv'
  OBVIOUS
<1>. DEFINE Core == AsyncTypes /\ AsyncClosed /\ Async!NoUseAfterFree /\ Async!NoneLeft
<1>. USE AsyncBound
     DEF Core, AsyncTypes, AsyncClosed, Async!NoUseAfterFree, Async!NoneLeft, Async!loopv,
         Async!Stage, Async!Owner
<1>0. AsyncFlags /\ Core
  BY DEF AsyncInv
<1>1. ASSUME NEW r \in Remotes, Async!New(r) PROVE Core'
  BY <1>0, <1>1 DEF Async!New
<1>2. ASSUME NEW r \in Remotes, Async!Dispatch(r) PROVE Core'
  BY <1>0, <1>2 DEF Async!Dispatch
<1>3. ASSUME Async!ReadFlag PROVE Core'
  BY <1>0, <1>3 DEF Async!ReadFlag
<1>4. ASSUME Async!CallBack PROVE Core'
  BY <1>0, <1>4 DEF Async!CallBack, AsyncFlags
<1>5. ASSUME Async!EndCall PROVE Core'
  BY <1>0, <1>5 DEF Async!EndCall
<1>6. ASSUME Async!MaybeClose PROVE Core'
  BY <1>0, <1>6 DEF Async!MaybeClose
<1>7. ASSUME NEW r \in Remotes, Async!CloseCb(r) PROVE Core'
  BY <1>0, <1>7 DEF Async!CloseCb
<1>8. ASSUME Async!Return PROVE Core'
  BY <1>0, <1>8 DEF Async!Return
<1>9. ASSUME NEW r \in Remotes, Async!Fire(r) PROVE Core'
  BY <1>0, <1>9 DEF Async!Fire, Async!Send, AsyncFlags
<1>10. ASSUME NEW r \in Remotes, Async!DropLock(r) PROVE Core'
  BY <1>0, <1>10 DEF Async!DropLock, AsyncFlags
<1>11. ASSUME NEW r \in Remotes, Async!DropSend(r) PROVE Core'
  BY <1>0, <1>11 DEF Async!DropSend, Async!Send, AsyncFlags
<1>12. ASSUME NEW r \in Remotes, Async!DropUnlock(r) PROVE Core'
  BY <1>0, <1>12 DEF Async!DropUnlock
<1>13. ASSUME UNCHANGED asyncVars PROVE Core'
  BY <1>0, <1>13 DEF asyncVars
<1>14. AsyncFlags'
  BY <1>0 DEF AsyncFlags, Async!Next, Async!LoopStep, Async!New, Async!Dispatch, Async!ReadFlag, Async!CallBack, Async!EndCall,
     Async!MaybeClose, Async!CloseCb, Async!Return, Async!Fire, Async!Send, Async!Dtor, Async!DropLock, Async!DropSend,
     Async!DropUnlock, Async!Stopped, Async!vars, asyncVars
<1>15. Core'
  BY <1>1, <1>2, <1>3, <1>4, <1>5, <1>6, <1>7, <1>8, <1>9, <1>10, <1>11, <1>12, <1>13
     DEF Async!Next, Async!LoopStep, Async!Dtor, Async!Stopped, Async!vars, asyncVars
<1>. QED
  BY <1>14, <1>15 DEF AsyncInv

\* No remote callback exists when the loop is made.
LEMMA AsyncCallInit == Async!Init => Async!RC!Init
BY DEF Async!Init, Async!RC!Init

\* Every step of Async is a step of RemoteCallback or none: sends that libuv
\* merges are still followed by a call, and the handle goes after the last one.
LEMMA AsyncCallStep ==
  AsyncInv /\ [Async!Next]_asyncVars => [Async!RC!Next]_(Async!RC!vars)
<1>. SUFFICES ASSUME AsyncInv, [Async!Next]_asyncVars PROVE [Async!RC!Next]_(Async!RC!vars)
  OBVIOUS
<1>. USE AsyncBound
     DEF AsyncInv, AsyncFlags, AsyncTypes, AsyncClosed, Async!loopv, Async!Owner, Async!RC!vars
<1>1. ASSUME NEW r \in Remotes, Async!New(r) PROVE Async!RC!Make(r)
  BY <1>1 DEF Async!New, Async!RC!Make
<1>2. ASSUME NEW r \in Remotes, Async!Dispatch(r) PROVE UNCHANGED Async!RC!vars
  BY <1>2 DEF Async!Dispatch
<1>3. ASSUME Async!ReadFlag PROVE UNCHANGED Async!RC!vars
  BY <1>3 DEF Async!ReadFlag
<1>4. ASSUME Async!CallBack
      PROVE  (\E r \in Remotes : Async!RC!Call(r)) \/ UNCHANGED Async!RC!vars
  <2>1. PICK r \in Remotes : r = a_cb
    BY <1>4 DEF Async!CallBack
  <2>2. Async!RC!Call(r) \/ UNCHANGED Async!RC!vars
    BY <1>4, <2>1 DEF Async!CallBack, Async!RC!Call
  <2>. QED
    BY ONLY <2>2
<1>5. ASSUME Async!EndCall PROVE UNCHANGED Async!RC!vars
  BY <1>5 DEF Async!EndCall
<1>6. ASSUME Async!MaybeClose PROVE UNCHANGED Async!RC!vars
  BY <1>6 DEF Async!MaybeClose
<1>7. ASSUME NEW r \in Remotes, Async!CloseCb(r) PROVE Async!RC!Free(r)
  BY <1>7 DEF Async!CloseCb, Async!RC!Free
<1>8. ASSUME Async!Return PROVE UNCHANGED Async!RC!vars
  BY <1>8 DEF Async!Return
<1>9. ASSUME NEW r \in Remotes, Async!Fire(r) PROVE Async!RC!Fire(r)
  BY <1>9 DEF Async!Fire, Async!Send, Async!RC!Fire
<1>10. ASSUME NEW r \in Remotes, Async!DropLock(r) PROVE Async!RC!Drop(r)
  BY <1>10 DEF Async!DropLock, Async!RC!Drop
<1>11. ASSUME NEW r \in Remotes, Async!DropSend(r) PROVE UNCHANGED Async!RC!vars
  BY <1>11 DEF Async!DropSend, Async!Send
<1>12. ASSUME NEW r \in Remotes, Async!DropUnlock(r) PROVE UNCHANGED Async!RC!vars
  BY <1>12 DEF Async!DropUnlock
<1>13. ASSUME UNCHANGED asyncVars PROVE UNCHANGED Async!RC!vars
  BY <1>13 DEF asyncVars
<1>14. \/ UNCHANGED asyncVars
       \/ Async!LoopStep
       \/ \E r \in Remotes : Async!New(r) \/ Async!Fire(r) \/ Async!DropLock(r) \/ Async!Dtor(r)
  BY ONLY [Async!Next]_asyncVars DEF Async!Next, Async!Stopped, Async!vars, asyncVars
<1>. HIDE DEF Async!RC!vars
<1>15. ASSUME Async!LoopStep PROVE Async!RC!Next \/ UNCHANGED Async!RC!vars
  <2>1. CASE Async!CallBack
    BY ONLY <1>4, <2>1 DEF Async!RC!Next
  <2>2. CASE \E r \in Remotes : Async!Dispatch(r) \/ Async!CloseCb(r)
    BY ONLY <1>2, <1>7, <2>2 DEF Async!RC!Next
  <2>. QED
    BY ONLY <1>3, <1>5, <1>6, <1>8, <1>15, <2>1, <2>2 DEF Async!LoopStep
<1>16. ASSUME NEW r \in Remotes,
              Async!New(r) \/ Async!Fire(r) \/ Async!DropLock(r) \/ Async!Dtor(r)
       PROVE  Async!RC!Next \/ UNCHANGED Async!RC!vars
  BY ONLY <1>1, <1>9, <1>10, <1>11, <1>12, <1>16 DEF Async!Dtor, Async!RC!Next
<1>. QED
  BY ONLY <1>13, <1>14, <1>15, <1>16

-----------------------------------------------------------------------------
(* BasicLoop.                                                              *)

\* Basic!TypeOK without its flags.
BasicTypes ==
  /\ b_lpc \in Basic!PC
  /\ b_work \in 0..MaxWork /\ b_pushed \in 0..MaxWork
  /\ b_work <= b_pushed
  /\ b_remotes \in SUBSET Remotes
  /\ b_idle \in {"none", "active", "paused"}
  /\ b_messages \in Seq(Basic!Message) /\ b_batch \in Seq(Basic!Message)
  /\ b_owner \in [Remotes -> {"none", "held", "dropped"}]
  /\ b_fires \in [Remotes -> 0..MaxFires]

BasicFlags == b_calling \in BOOLEAN /\ b_failed \in BOOLEAN

\* What the loop has still to look at, in the order it was sent.
BasicQueue == b_batch \o b_messages

\* In a queue of messages every one finds its callback registered, and what names
\* a callback last is the RemoveRemote of its dropped handle.
QueueOK(q, regs, own) ==
  \A i \in 1..Len(q) :
    /\ q[i].id \in regs
    /\ q[i].kind = "RemoveRemote" =>
         own[q[i].id] = "dropped" /\ \A j \in 1..Len(q) : j > i => q[j].id # q[i].id

\* A callback whose handle is held is registered; the loop has taken messages
\* only while it goes through them, and it returns only without callbacks.
BasicPlaces ==
  /\ \A r \in Remotes : b_owner[r] = "held" => r \in b_remotes
  /\ b_lpc # "remote" => b_batch = <<>>
  /\ b_lpc \in {"waiting", "returned"} => ~b_calling
  /\ b_lpc = "returned" => b_remotes = {} /\ b_work = 0

BasicInv ==
  /\ BasicTypes /\ BasicFlags /\ BasicPlaces
  /\ QueueOK(BasicQueue, b_remotes, b_owner)
  /\ Basic!NoUnreachable

LEMMA BasicBound == MaxFires \in Nat /\ MaxWork \in Nat
BY GreenPartsAssumptions DEF Basic!BoundsAssumption

\* What is appended to a queue, or taken from its front.
LEMMA QueueMoves ==
  ASSUME NEW S, NEW a \in Seq(S), NEW b \in Seq(S), NEW m \in S
  PROVE  /\ a \o b \in Seq(S) /\ Len(a \o b) = Len(a) + Len(b)
         /\ <<>> \o b = b /\ a \o <<>> = a
         /\ a \o Append(b, m) = Append(a \o b, m)
         /\ a # <<>> => /\ a \o b # <<>> /\ Head(a) = Head(a \o b)
                        /\ Tail(a) \in Seq(S) /\ Tail(a) \o b = Tail(a \o b)
OBVIOUS

\* The front of a queue that is in order may be taken off.
LEMMA QueueTail ==
  ASSUME NEW q \in Seq(Basic!Message), NEW regs, NEW own, QueueOK(q, regs, own), q # <<>>
  PROVE  /\ Head(q) \in Basic!Message /\ Head(q).id \in regs
         /\ QueueOK(Tail(q), regs, own)
         /\ Head(q).kind = "RemoveRemote" =>
              /\ own[Head(q).id] = "dropped"
              /\ QueueOK(Tail(q), regs \ {Head(q).id}, own)
              /\ \A i \in 1..Len(Tail(q)) : Tail(q)[i].id # Head(q).id
<1>1. /\ Len(q) \in Nat /\ 1 \in 1..Len(q) /\ Head(q) = q[1] /\ q[1] \in Basic!Message
      /\ Len(Tail(q)) = Len(q) - 1
      /\ \A i \in 1..Len(Tail(q)) : i + 1 \in 1..Len(q) /\ Tail(q)[i] = q[i + 1]
  OBVIOUS
<1>2. Head(q).id \in regs
  BY <1>1 DEF QueueOK
<1>3. QueueOK(Tail(q), regs, own)
  <2>. SUFFICES ASSUME NEW i \in 1..Len(Tail(q))
                PROVE  /\ q[i + 1].id \in regs
                       /\ q[i + 1].kind = "RemoveRemote" =>
                            /\ own[q[i + 1].id] = "dropped"
                            /\ \A j \in 1..Len(Tail(q)) : j > i => q[j + 1].id # q[i + 1].id
    BY <1>1 DEF QueueOK
  <2>1. \A j \in 1..Len(Tail(q)) : j > i => j + 1 > i + 1
    BY <1>1
  <2>. QED
    BY <1>1, <2>1 DEF QueueOK
<1>4. ASSUME Head(q).kind = "RemoveRemote"
      PROVE  /\ own[Head(q).id] = "dropped"
             /\ \A i \in 1..Len(Tail(q)) : Tail(q)[i].id # Head(q).id
  <2>1. \A i \in 1..Len(Tail(q)) : i + 1 > 1
    BY <1>1
  <2>. QED
    BY <1>1, <1>4, <2>1 DEF QueueOK
<1>5. ASSUME Head(q).kind = "RemoveRemote"
      PROVE  QueueOK(Tail(q), regs \ {Head(q).id}, own)
  BY <1>3, <1>4, <1>5 DEF QueueOK
<1>. QED
  BY <1>1, <1>2, <1>3, <1>4, <1>5

\* A message for a callback whose handle is held may be added at its end.
LEMMA QueueAppend ==
  ASSUME NEW q \in Seq(Basic!Message), NEW regs, NEW own, QueueOK(q, regs, own),
         NEW m \in Basic!Message, m.id \in regs, own[m.id] # "dropped", NEW new,
         \A r \in Remotes : own[r] = "dropped" => new[r] = "dropped",
         m.kind = "RemoveRemote" => new[m.id] = "dropped"
  PROVE  QueueOK(Append(q, m), regs, new)
<1>1. /\ Len(q) \in Nat /\ Len(Append(q, m)) = Len(q) + 1 /\ Append(q, m)[Len(q) + 1] = m
      /\ \A i \in 1..Len(q) : Append(q, m)[i] = q[i] /\ q[i] \in Basic!Message
  OBVIOUS
<1>0. \A i \in 1..Len(q) : q[i].id \in Remotes
  BY <1>1 DEF Basic!Message
<1>. SUFFICES ASSUME NEW i \in 1..Len(q) + 1
              PROVE  /\ Append(q, m)[i].id \in regs
                     /\ Append(q, m)[i].kind = "RemoveRemote" =>
                          /\ new[Append(q, m)[i].id] = "dropped"
                          /\ \A j \in 1..Len(q) + 1 : j > i => Append(q, m)[j].id # Append(q, m)[i].id
  BY <1>1 DEF QueueOK
<1>2. CASE i = Len(q) + 1
  BY <1>1, <1>2
<1>3. CASE i # Len(q) + 1
  <2>1. i \in 1..Len(q)
    BY <1>1, <1>3
  <2>2. ASSUME q[i].kind = "RemoveRemote", NEW j \in 1..Len(q) + 1, j > i
        PROVE  Append(q, m)[j].id # q[i].id
    <3>1. CASE j \in 1..Len(q)
      BY <1>1, <2>1, <2>2, <3>1 DEF QueueOK
    <3>2. CASE j = Len(q) + 1
      BY <1>1, <2>1, <2>2, <3>2 DEF QueueOK
    <3>. QED
      BY <1>1, <3>1, <3>2
  <2>. QED
    BY <1>0, <1>1, <2>1, <2>2 DEF QueueOK
<1>. QED
  BY <1>2, <1>3

\* BasicInv says what the run checks of a BasicLoop: with no callback registered
\* there is no message left that names one.
LEMMA BasicInvImplies ==
  BasicInv => Basic!TypeOK /\ Basic!NoUnreachable /\ Basic!ReturnsClean
<1>. SUFFICES ASSUME BasicInv PROVE Basic!TypeOK /\ Basic!ReturnsClean
  BY DEF BasicInv
<1>1. Basic!TypeOK
  BY DEF BasicInv, BasicTypes, BasicFlags, Basic!TypeOK
<1>2. ASSUME b_lpc = "returned"
      PROVE  /\ b_messages = <<>> /\ b_batch = <<>> /\ b_work = 0
             /\ \A r \in Remotes : b_owner[r] # "held"
  <2>1. b_batch = <<>> /\ b_remotes = {} /\ b_work = 0 /\ \A r \in Remotes : b_owner[r] # "held"
    BY <1>2 DEF BasicInv, BasicPlaces
  <2>2. b_messages \in Seq(Basic!Message) /\ BasicQueue = b_messages
    BY <2>1 DEF BasicQueue, BasicInv, BasicTypes
  <2>3. \A i \in 1..Len(b_messages) : FALSE
    BY <2>1, <2>2 DEF BasicInv, QueueOK
  <2>4. b_messages = <<>>
    BY <2>2, <2>3
  <2>. QED
    BY <2>1, <2>4
<1>. QED
  BY <1>1, <1>2 DEF Basic!ReturnsClean

\* The invariant of a BasicLoop holds when it is made.
LEMMA BasicInit == Basic!Init => BasicInv
<1>. SUFFICES ASSUME Basic!Init PROVE BasicInv
  OBVIOUS
<1>. USE BasicBound DEF Basic!Init
<1>1. BasicTypes
  BY DEF BasicTypes, Basic!PC
<1>2. BasicFlags
  BY DEF BasicFlags
<1>3. BasicPlaces
  BY DEF BasicPlaces
<1>4. BasicQueue = <<>>
  BY DEF BasicQueue
<1>5. QueueOK(BasicQueue, b_remotes, b_owner)
  BY <1>4 DEF QueueOK
<1>6. Basic!NoUnreachable
  BY DEF Basic!NoUnreachable
<1>. QED
  BY <1>1, <1>2, <1>3, <1>5, <1>6 DEF BasicInv

\* What remote_work does with the next message of its batch.
LEMMA BasicNext ==
  ASSUME BasicInv, NEW m \in Basic!Message, Basic!NextMessage(m), UNCHANGED b_messages
  PROVE  /\ b_batch' \in Seq(Basic!Message)
         /\ BasicQueue # <<>> /\ m = Head(BasicQueue) /\ BasicQueue' = Tail(BasicQueue)
<1>1. b_batch # <<>> /\ m = Head(b_batch) /\ b_batch' = Tail(b_batch)
  BY DEF Basic!NextMessage
<1>2. b_batch \in Seq(Basic!Message) /\ b_messages \in Seq(Basic!Message)
  BY DEF BasicInv, BasicTypes
<1>3. Tail(b_batch) \o b_messages = Tail(BasicQueue) /\ BasicQueue # <<>>
      /\ Head(b_batch) = Head(BasicQueue) /\ Tail(b_batch) \in Seq(Basic!Message)
  BY ONLY <1>1, <1>2, QueueMoves, m \in Basic!Message DEF BasicQueue
<1>. QED
  BY <1>1, <1>3 DEF BasicQueue

\* A message that another thread sends for a handle that it holds.
LEMMA BasicSend ==
  ASSUME BasicInv, NEW m \in Basic!Message, Basic!Send(m), b_owner[m.id] = "held",
         UNCHANGED <<b_calling, b_work, b_pushed, b_remotes, b_idle, b_batch, b_failed>>,
         b_owner' \in [Remotes -> {"none", "held", "dropped"}],
         b_fires' \in [Remotes -> 0..MaxFires],
         \A r \in Remotes : /\ b_owner[r] = "dropped" => b_owner'[r] = "dropped"
                            /\ b_owner'[r] = "held" => b_owner[r] = "held",
         m.kind = "RemoveRemote" => b_owner'[m.id] = "dropped"
  PROVE  BasicInv' /\ BasicQueue' = Append(BasicQueue, m)
<1>1. /\ b_messages' = Append(b_messages, m)
      /\ b_lpc' = IF b_lpc = "waiting" THEN "top" ELSE b_lpc
  BY DEF Basic!Send
<1>2. b_batch \in Seq(Basic!Message) /\ b_messages \in Seq(Basic!Message)
  BY DEF BasicInv, BasicTypes
<1>3. BasicQueue' = Append(BasicQueue, m) /\ BasicQueue \in Seq(Basic!Message)
      /\ b_messages' \in Seq(Basic!Message)
  <2>1. b_batch' = b_batch
    OBVIOUS
  <2>. QED
    BY ONLY <1>1, <1>2, <2>1, QueueMoves, m \in Basic!Message DEF BasicQueue
<1>4. m.id \in b_remotes /\ m.id \in Remotes
  BY DEF BasicInv, BasicPlaces, Basic!Message
<1>5. QueueOK(BasicQueue', b_remotes', b_owner')
  <2>1. QueueOK(Append(BasicQueue, m), b_remotes, b_owner')
    BY <1>3, <1>4, QueueAppend DEF BasicInv
  <2>. QED
    BY <2>1, <1>3
<1>6. BasicTypes'
  BY <1>1, <1>3 DEF BasicInv, BasicTypes, Basic!PC
<1>7. BasicPlaces'
  BY <1>1 DEF BasicInv, BasicPlaces
<1>8. BasicFlags' /\ Basic!NoUnreachable'
  BY DEF BasicInv, BasicFlags, Basic!NoUnreachable
<1>. QED
  BY <1>3, <1>5, <1>6, <1>7, <1>8 DEF BasicInv, QueueOK

\* Every step of the loop, of its callbacks and of the threads that hold a
\* BasicRemote keeps the invariant of a BasicLoop.
LEMMA BasicStep == BasicInv /\ [Basic!Next]_basicVars => BasicInv'
<1>. SUFFICES ASSUME BasicInv, [Basic!Next]_basicVars PROVE BasicInv'
  OBVIOUS
<1>. USE BasicBound DEF Basic!local
<1>1. ASSUME UNCHANGED <<b_messages, b_batch, b_failed>>,
             b_owner' \in [Remotes -> {"none", "held", "dropped"}], b_remotes \subseteq b_remotes',
             \A r \in Remotes : b_owner[r] = "dropped" => b_owner'[r] = "dropped",
             BasicTypes', BasicFlags', BasicPlaces'
      PROVE  BasicInv'
  <2>1. BasicQueue' = BasicQueue /\ BasicQueue \in Seq(Basic!Message)
    BY <1>1 DEF BasicInv, BasicTypes, BasicQueue
  <2>2. ASSUME NEW i \in 1..Len(BasicQueue) PROVE BasicQueue[i].id \in Remotes
    <3>1. BasicQueue[i] \in Basic!Message
      BY <2>1
    <3>. QED
      BY <3>1 DEF Basic!Message
  <2>3. QueueOK(BasicQueue, b_remotes', b_owner')
    BY <1>1, <2>2 DEF QueueOK, BasicInv
  <2>4. QueueOK(BasicQueue', b_remotes', b_owner')
    BY ONLY <2>1, <2>3
  <2>. QED
    BY <1>1, <2>4 DEF BasicInv, Basic!NoUnreachable, QueueOK
<1>2. ASSUME Basic!Callback PROVE BasicInv'
  <2>. USE <1>2 DEF Basic!Callback
  <2>1. BasicTypes'
    BY DEF BasicInv, BasicTypes
  <2>2. BasicFlags' /\ BasicPlaces'
    BY DEF BasicInv, BasicFlags, BasicPlaces
  <2>. QED
    BY <1>1, <2>1, <2>2 DEF BasicTypes
<1>3. ASSUME Basic!NewRemote PROVE BasicInv'
  <2>. PICK r \in Remotes : /\ b_owner[r] = "none" /\ b_owner' = [b_owner EXCEPT ![r] = "held"]
                            /\ b_remotes' = b_remotes \cup {r}
    BY <1>3 DEF Basic!NewRemote
  <2>. USE <1>3 DEF Basic!NewRemote
  <2>1. BasicTypes'
    BY DEF BasicInv, BasicTypes
  <2>2. BasicFlags' /\ BasicPlaces'
    BY DEF BasicInv, BasicTypes, BasicFlags, BasicPlaces
  <2>. QED
    BY <1>1, <2>1, <2>2 DEF BasicInv, BasicTypes
<1>4. ASSUME Basic!NewIdle \/ Basic!Pause \/ Basic!EndCall \/ Basic!Top \/ Basic!Work
               \/ Basic!Idle \/ Basic!Wait \/ Basic!SpuriousWake \/ UNCHANGED basicVars
      PROVE  BasicInv'
  <2>. USE <1>4 DEF Basic!NewIdle, Basic!Pause, Basic!EndCall, Basic!Top, Basic!Work, Basic!Idle,
                    Basic!Wait, Basic!SpuriousWake, Basic!At, Basic!HasIdle, basicVars
  <2>1. BasicTypes'
    BY DEF BasicInv, BasicTypes, Basic!PC
  <2>2. BasicFlags'
    BY DEF BasicInv, BasicFlags
  <2>3. BasicPlaces'
    BY DEF BasicInv, BasicTypes, BasicPlaces
  <2>4. UNCHANGED <<b_messages, b_batch, b_failed, b_owner, b_remotes>>
    OBVIOUS
  <2>. QED
    BY ONLY <1>1, <2>1, <2>2, <2>3, <2>4 DEF BasicTypes
<1>5. ASSUME Basic!RemoteWork PROVE BasicInv'
  <2>. USE <1>5 DEF Basic!RemoteWork, Basic!At
  <2>1. b_batch = <<>> /\ b_batch' = b_messages /\ b_messages' = <<>>
    BY DEF BasicInv, BasicPlaces
  <2>2. BasicQueue' = BasicQueue
    <3>1. b_messages \in Seq(Basic!Message)
      BY DEF BasicInv, BasicTypes
    <3>. QED
      BY ONLY <2>1, <3>1 DEF BasicQueue
  <2>3. BasicTypes'
    BY <2>1 DEF BasicInv, BasicTypes, Basic!PC
  <2>4. BasicFlags' /\ BasicPlaces'
    BY DEF BasicInv, BasicFlags, BasicPlaces
  <2>. QED
    BY <2>2, <2>3, <2>4 DEF BasicInv, Basic!NoUnreachable, QueueOK

<1>6. ASSUME Basic!RunRemote \/ Basic!RemoveRemote PROVE BasicInv'
  <2>1. PICK m \in Basic!Message :
          /\ Basic!NextMessage(m) /\ b_failed' = (m.id \notin b_remotes)
          /\ \/ m.kind = "RunRemote" /\ b_calling' = (m.id \in b_remotes) /\ b_remotes' = b_remotes
             \/ m.kind = "RemoveRemote" /\ b_calling' = b_calling /\ b_remotes' = b_remotes \ {m.id}
    BY <1>6 DEF Basic!RunRemote, Basic!RemoveRemote
  <2>2. b_lpc = "remote" /\ UNCHANGED <<b_lpc, b_work, b_pushed, b_idle, b_messages, b_owner, b_fires>>
    BY <1>6 DEF Basic!RunRemote, Basic!RemoveRemote, Basic!At
  <2>3. /\ b_batch' \in Seq(Basic!Message)
        /\ BasicQueue # <<>> /\ m = Head(BasicQueue) /\ BasicQueue' = Tail(BasicQueue)
    BY <2>1, <2>2, BasicNext
  <2>4. BasicQueue \in Seq(Basic!Message)
    BY DEF BasicQueue, BasicInv, BasicTypes
  <2>5. /\ m.id \in b_remotes /\ QueueOK(Tail(BasicQueue), b_remotes, b_owner)
        /\ m.kind = "RemoveRemote" =>
             b_owner[m.id] = "dropped" /\ QueueOK(Tail(BasicQueue), b_remotes \ {m.id}, b_owner)
    BY ONLY BasicInv, <2>3, <2>4, QueueTail DEF BasicInv
  <2>6. QueueOK(BasicQueue', b_remotes', b_owner')
    <3>1. QueueOK(Tail(BasicQueue), b_remotes', b_owner)
      BY <2>1, <2>5
    <3>. QED
      BY ONLY <3>1, <2>2, <2>3
  <2>7. BasicTypes'
    BY <2>1, <2>2, <2>3 DEF BasicInv, BasicTypes
  <2>8. BasicFlags'
    <3>1. b_failed' \in BOOLEAN
      BY <2>1
    <3>2. CASE b_calling' = (m.id \in b_remotes)
      BY <3>1, <3>2 DEF BasicFlags
    <3>3. CASE b_calling' = b_calling
      BY <3>1, <3>3 DEF BasicInv, BasicFlags
    <3>. QED
      BY <2>1, <3>2, <3>3
  <2>9. BasicPlaces'
    BY <2>1, <2>2, <2>5 DEF BasicInv, BasicPlaces
  <2>10. Basic!NoUnreachable'
    BY <2>1, <2>5 DEF Basic!NoUnreachable
  <2>. QED
    BY <2>6, <2>7, <2>8, <2>9, <2>10 DEF BasicInv, QueueOK
<1>7. ASSUME NEW r \in Remotes, Basic!Fire(r) PROVE BasicInv'
  <2>1. [kind |-> "RunRemote", id |-> r] \in Basic!Message
    BY DEF Basic!Message
  <2>2. b_fires' \in [Remotes -> 0..MaxFires] /\ b_owner' \in [Remotes -> {"none", "held", "dropped"}]
    BY <1>7 DEF Basic!Fire, BasicInv, BasicTypes
  <2>3. b_owner[r] = "held" /\ b_owner' = b_owner /\ Basic!Send([kind |-> "RunRemote", id |-> r])
        /\ UNCHANGED <<b_calling, b_work, b_pushed, b_remotes, b_idle, b_batch, b_failed>>
    BY <1>7 DEF Basic!Fire
  <2>4. \A s \in Remotes : /\ b_owner[s] = "dropped" => b_owner'[s] = "dropped"
                           /\ b_owner'[s] = "held" => b_owner[s] = "held"
    BY <2>3
  <2>. DEFINE m == [kind |-> "RunRemote", id |-> r]
  <2>5. m \in Basic!Message /\ Basic!Send(m) /\ b_owner[m.id] = "held" /\ m.kind # "RemoveRemote"
    BY <2>1, <2>3
  <2>. HIDE DEF m
  <2>. QED
    BY <2>2, <2>3, <2>4, <2>5, BasicSend
<1>8. ASSUME NEW r \in Remotes, Basic!Drop(r) PROVE BasicInv'
  <2>1. [kind |-> "RemoveRemote", id |-> r] \in Basic!Message
    BY DEF Basic!Message
  <2>2. b_fires' \in [Remotes -> 0..MaxFires] /\ b_owner' \in [Remotes -> {"none", "held", "dropped"}]
        /\ b_owner'[r] = "dropped"
        /\ \A s \in Remotes : /\ b_owner[s] = "dropped" => b_owner'[s] = "dropped"
                              /\ b_owner'[s] = "held" => b_owner[s] = "held"
    BY <1>8 DEF Basic!Drop, BasicInv, BasicTypes
  <2>3. b_owner[r] = "held" /\ Basic!Send([kind |-> "RemoveRemote", id |-> r])
        /\ UNCHANGED <<b_calling, b_work, b_pushed, b_remotes, b_idle, b_batch, b_failed>>
    BY <1>8 DEF Basic!Drop
  <2>. DEFINE m == [kind |-> "RemoveRemote", id |-> r]
  <2>4. m \in Basic!Message /\ Basic!Send(m) /\ b_owner[m.id] = "held" /\ b_owner'[m.id] = "dropped"
    BY <2>1, <2>2, <2>3
  <2>. HIDE DEF m
  <2>. QED
    BY <2>2, <2>3, <2>4, BasicSend
<1>. QED
  BY <1>2, <1>3, <1>4, <1>5, <1>6, <1>7, <1>8
     DEF Basic!Next, Basic!LoopStep, Basic!Returned, Basic!vars, basicVars

\* A call is owed for r: a RunRemote is somewhere in the queue q.
RunIn(q, r) == \E i \in 1..Len(q) : q[i] = [kind |-> "RunRemote", id |-> r]

\* What the mapping of BasicLoop says of a queue.
LEMMA RunInRange ==
  ASSUME NEW q \in Seq(Basic!Message), NEW r
  PROVE  [kind |-> "RunRemote", id |-> r] \in Basic!Range(q) <=> RunIn(q, r)
<1>1. DOMAIN q = 1..Len(q)
  OBVIOUS
<1>. QED
  BY <1>1 DEF Basic!Range, RunIn

\* Sending a message owes a call if it is a RunRemote, and taking the first one
\* leaves the others.
LEMMA RunInMoves ==
  ASSUME NEW q \in Seq(Basic!Message), NEW m \in Basic!Message, NEW r
  PROVE  /\ RunIn(Append(q, m), r) <=> RunIn(q, r) \/ m = [kind |-> "RunRemote", id |-> r]
         /\ q # <<>> =>
              (RunIn(q, r) <=> RunIn(Tail(q), r) \/ Head(q) = [kind |-> "RunRemote", id |-> r])
<1>1. RunIn(Append(q, m), r) <=> RunIn(q, r) \/ m = [kind |-> "RunRemote", id |-> r]
  <2>1. /\ Len(q) \in Nat /\ Len(Append(q, m)) = Len(q) + 1 /\ Append(q, m)[Len(q) + 1] = m
        /\ \A i \in 1..Len(q) : Append(q, m)[i] = q[i]
    OBVIOUS
  <2>2. \A i \in 1..Len(q) + 1 : i \in 1..Len(q) \/ i = Len(q) + 1
    BY <2>1
  <2>3. 1..Len(q) \subseteq 1..Len(q) + 1 /\ Len(q) + 1 \in 1..Len(q) + 1
    BY <2>1
  <2>. QED
    BY ONLY <2>1, <2>2, <2>3 DEF RunIn
<1>2. ASSUME q # <<>>
      PROVE  RunIn(q, r) <=> RunIn(Tail(q), r) \/ Head(q) = [kind |-> "RunRemote", id |-> r]
  <2>1. /\ Len(q) \in Nat /\ Len(Tail(q)) = Len(q) - 1 /\ Head(q) = q[1] /\ 1 \in 1..Len(q)
        /\ \A i \in 1..Len(Tail(q)) : i + 1 \in 1..Len(q) /\ Tail(q)[i] = q[i + 1]
    BY <1>2
  <2>2. \A i \in 1..Len(q) : i = 1 \/ \E j \in 1..Len(Tail(q)) : i = j + 1
    <3>. SUFFICES ASSUME NEW i \in 1..Len(q), i # 1 PROVE i - 1 \in 1..Len(Tail(q)) /\ i = (i - 1) + 1
      OBVIOUS
    <3>. QED
      BY <2>1
  <2>. QED
    BY ONLY <2>1, <2>2 DEF RunIn
<1>. QED
  BY <1>1, <1>2

\* No remote callback exists when the loop is made.
LEMMA BasicCallInit == Basic!Init => Basic!RC!Init
<1>. SUFFICES ASSUME Basic!Init PROVE Basic!RC!Init
  OBVIOUS
<1>1. b_batch \o b_messages = <<>> /\ b_owner = [r \in Remotes |-> "none"]
  BY DEF Basic!Init
<1>2. <<>> \in Seq(Basic!Message) /\ \A r : ~RunIn(<<>>, r)
  BY DEF RunIn
<1>3. \A r \in Remotes : [kind |-> "RunRemote", id |-> r] \notin Basic!Range(b_batch \o b_messages)
  BY <1>1, <1>2, RunInRange
<1>. DEFINE owed == [r \in Remotes |->
                      [kind |-> "RunRemote", id |-> r] \in Basic!Range(b_batch \o b_messages)]
<1>4. owed = [r \in Remotes |-> FALSE]
  <2>1. ASSUME NEW r \in Remotes PROVE ~owed[r] /\ owed[r] \in BOOLEAN
    <3>1. owed[r] \in BOOLEAN
      BY ONLY r \in Remotes
    <3>2. owed[r] <=> [kind |-> "RunRemote", id |-> r] \in Basic!Range(b_batch \o b_messages)
      BY ONLY r \in Remotes
    <3>. QED
      BY ONLY <3>1, <3>2, <1>3, r \in Remotes
  <2>2. owed = [r \in Remotes |-> owed[r]]
    BY ONLY TRUE
  <2>. HIDE DEF owed
  <2>. QED
    BY ONLY <2>1, <2>2
<1>. QED
  BY ONLY <1>1, <1>4 DEF Basic!RC!Init, Basic!Queued

\* Every step of a BasicLoop is a step of RemoteCallback or none: the list under
\* the lock owes a call as long as a RunRemote is in it or in the batch, and the
\* callback is removed after the last one.
LEMMA BasicCallStep ==
  BasicInv /\ [Basic!Next]_basicVars => [Basic!RC!Next]_(Basic!RC!vars)
<1>. SUFFICES ASSUME BasicInv, [Basic!Next]_basicVars PROVE [Basic!RC!Next]_(Basic!RC!vars)
  OBVIOUS
<1>. DEFINE Run(r) == [kind |-> "RunRemote", id |-> r]
            status == [r \in Remotes |-> IF b_owner[r] = "none" THEN "unmade"
                                         ELSE IF b_owner[r] = "held" THEN "live"
                                         ELSE IF r \in b_remotes THEN "dropped" ELSE "gone"]
            owed == [r \in Remotes |-> Run(r) \in Basic!Range(b_batch \o b_messages)]
<1>1. BasicInv' /\ Basic!RC!vars = <<status, owed>>
  BY BasicStep DEF Basic!RC!vars, Basic!Queued
<1>2. BasicQueue \in Seq(Basic!Message) /\ BasicQueue' \in Seq(Basic!Message)
  BY <1>1 DEF BasicInv, BasicTypes, BasicQueue
<1>3. \A r \in Remotes : /\ owed[r] <=> RunIn(BasicQueue, r)
                         /\ owed'[r] <=> RunIn(BasicQueue', r)
  BY <1>2, RunInRange DEF BasicQueue
<1>4. \A r \in Remotes : owed[r] \in BOOLEAN /\ owed'[r] \in BOOLEAN
  OBVIOUS
<1>5. ASSUME UNCHANGED <<b_owner, b_remotes>>, BasicQueue' = BasicQueue
      PROVE  UNCHANGED Basic!RC!vars
  <2>1. status' = status
    BY <1>5
  <2>2. owed' = owed
    BY <1>5 DEF BasicQueue
  <2>. QED
    BY <1>1, <2>1, <2>2 DEF Basic!RC!vars, Basic!Queued
<1>6. ASSUME Basic!NewRemote PROVE Basic!RC!Next
  <2>1. PICK r \in Remotes : /\ b_owner[r] = "none" /\ b_owner' = [b_owner EXCEPT ![r] = "held"]
                            /\ b_remotes' = b_remotes \cup {r}
    BY <1>6 DEF Basic!NewRemote
  <2>2. UNCHANGED <<b_batch, b_messages>>
    BY <1>6 DEF Basic!NewRemote
  <2>3. Basic!RC!Make(r)
    BY <2>1, <2>2 DEF Basic!RC!Make, Basic!Queued, BasicInv, BasicTypes
  <2>. QED
    BY ONLY <2>3 DEF Basic!RC!Next

<1>7. ASSUME Basic!RunRemote \/ Basic!RemoveRemote PROVE Basic!RC!Next \/ UNCHANGED Basic!RC!vars
  <2>1. PICK m \in Basic!Message :
          /\ Basic!NextMessage(m)
          /\ \/ m.kind = "RunRemote" /\ b_remotes' = b_remotes
             \/ m.kind = "RemoveRemote" /\ b_remotes' = b_remotes \ {m.id}
    BY <1>7 DEF Basic!RunRemote, Basic!RemoveRemote, Basic!local
  <2>2. UNCHANGED <<b_messages, b_owner>>
    BY <1>7 DEF Basic!RunRemote, Basic!RemoveRemote
  <2>3. BasicQueue # <<>> /\ m = Head(BasicQueue) /\ BasicQueue' = Tail(BasicQueue)
    BY <2>1, <2>2, BasicNext
  <2>4. PICK r \in Remotes : r = m.id
    BY DEF Basic!Message
  <2>5. \A s \in Remotes : RunIn(BasicQueue, s) <=> RunIn(BasicQueue', s) \/ m = Run(s)
    BY ONLY <1>2, <2>3, RunInMoves, m \in Basic!Message
  <2>6. CASE m.kind = "RunRemote" /\ b_remotes' = b_remotes
    <3>1. \A s \in Remotes : m = Run(s) <=> s = r
      BY <2>4, <2>6 DEF Basic!Message
    <3>2. status' = status
      BY <2>2, <2>6
    <3>3. \A s \in Remotes : s # r => owed'[s] = owed[s]
      BY <1>3, <1>4, <2>5, <3>1
    <3>4. owed[r]
      BY <1>3, <2>5, <3>1
    <3>5. CASE owed'[r]
      <4>1. owed' = owed
        BY <3>3, <3>4, <3>5, <1>4
      <4>. QED
        BY <3>2, <4>1, <1>1 DEF Basic!RC!vars, Basic!Queued
    <3>6. CASE ~owed'[r]
      <4>1. owed' = [owed EXCEPT ![r] = FALSE]
        BY <3>3, <3>6, <1>4
      <4>2. Basic!RC!Call(r)
        BY <3>2, <3>4, <4>1 DEF Basic!RC!Call, Basic!Queued
      <4>. QED
        BY ONLY <4>2 DEF Basic!RC!Next
    <3>. QED
      BY <3>5, <3>6
  <2>7. CASE m.kind = "RemoveRemote" /\ b_remotes' = b_remotes \ {m.id}
    <3>1. /\ r \in b_remotes /\ b_owner[r] = "dropped"
          /\ \A i \in 1..Len(BasicQueue') : BasicQueue'[i].id # r
      BY ONLY BasicInv, <1>2, <2>3, <2>4, <2>7, QueueTail DEF BasicInv
    <3>2. \A s \in Remotes : m # Run(s)
      BY <2>7
    <3>3. ~owed[r]
      BY <1>3, <2>5, <3>1, <3>2 DEF RunIn
    <3>4. owed' = owed
      BY <1>3, <1>4, <2>5, <3>2
    <3>5. status[r] = "dropped" /\ status' = [status EXCEPT ![r] = "gone"]
      BY <2>2, <2>4, <2>7, <3>1
    <3>6. Basic!RC!Free(r)
      BY <3>3, <3>4, <3>5 DEF Basic!RC!Free, Basic!Queued
    <3>. QED
      BY ONLY <3>6 DEF Basic!RC!Next
  <2>. QED
    BY <2>1, <2>6, <2>7
<1>8. ASSUME NEW r \in Remotes, Basic!Fire(r) PROVE Basic!RC!Next
  <2>1. /\ b_owner[r] = "held" /\ UNCHANGED <<b_owner, b_remotes, b_batch>>
        /\ b_messages' = Append(b_messages, Run(r)) /\ Run(r) \in Basic!Message
    BY <1>8 DEF Basic!Fire, Basic!Send, Basic!local, Basic!Message
  <2>2. BasicQueue' = Append(BasicQueue, Run(r))
    BY ONLY <2>1, QueueMoves, BasicInv DEF BasicQueue, BasicInv, BasicTypes
  <2>3. \A s \in Remotes : RunIn(BasicQueue', s) <=> RunIn(BasicQueue, s) \/ s = r
    BY ONLY <1>2, <2>1, <2>2, RunInMoves
  <2>4. status[r] = "live" /\ status' = status
    BY <2>1
  <2>5. owed' = [owed EXCEPT ![r] = TRUE]
    BY <1>3, <1>4, <2>3
  <2>6. Basic!RC!Fire(r)
    BY <2>4, <2>5 DEF Basic!RC!Fire, Basic!Queued
  <2>. QED
    BY ONLY <2>6 DEF Basic!RC!Next
<1>9. ASSUME NEW r \in Remotes, Basic!Drop(r) PROVE Basic!RC!Next
  <2>. DEFINE m == [kind |-> "RemoveRemote", id |-> r]
  <2>1. /\ b_owner[r] = "held" /\ UNCHANGED <<b_remotes, b_batch>>
        /\ b_owner' = [b_owner EXCEPT ![r] = "dropped"]
        /\ b_messages' = Append(b_messages, m) /\ m \in Basic!Message
    BY <1>9 DEF Basic!Drop, Basic!Send, Basic!local, Basic!Message
  <2>2. BasicQueue' = Append(BasicQueue, m)
    BY ONLY <2>1, QueueMoves, BasicInv DEF BasicQueue, BasicInv, BasicTypes
  <2>3. \A s \in Remotes : m # Run(s)
    OBVIOUS
  <2>4. \A s \in Remotes : RunIn(BasicQueue', s) <=> RunIn(BasicQueue, s)
    BY ONLY <1>2, <2>1, <2>2, <2>3, RunInMoves
  <2>5. owed' = owed
    BY <1>3, <1>4, <2>4
  <2>6. status[r] = "live" /\ status' = [status EXCEPT ![r] = "dropped"]
    BY <2>1 DEF BasicInv, BasicPlaces, BasicTypes
  <2>7. Basic!RC!Drop(r)
    BY <2>5, <2>6 DEF Basic!RC!Drop, Basic!Queued
  <2>. QED
    BY ONLY <2>7 DEF Basic!RC!Next
<1>10. ASSUME Basic!RemoteWork PROVE UNCHANGED Basic!RC!vars
  <2>1. b_batch = <<>> /\ b_batch' = b_messages /\ b_messages' = <<>>
    BY <1>10 DEF Basic!RemoteWork, Basic!At, BasicInv, BasicPlaces
  <2>2. b_messages \in Seq(Basic!Message)
    BY DEF BasicInv, BasicTypes
  <2>3. BasicQueue' = BasicQueue
    BY ONLY <2>1, <2>2 DEF BasicQueue
  <2>. QED
    BY <1>5, <1>10, <2>3 DEF Basic!RemoteWork, Basic!local
<1>11. ASSUME Basic!Callback \/ Basic!NewIdle \/ Basic!Pause \/ Basic!EndCall \/ Basic!Top \/ Basic!Work
               \/ Basic!Idle \/ Basic!Wait \/ Basic!SpuriousWake \/ UNCHANGED basicVars
      PROVE  UNCHANGED Basic!RC!vars
  <2>1. UNCHANGED <<b_owner, b_remotes, b_batch, b_messages>>
    BY <1>11 DEF Basic!Callback, Basic!NewIdle, Basic!Pause, Basic!EndCall, Basic!Top, Basic!Work, Basic!Idle,
       Basic!Wait, Basic!SpuriousWake, Basic!local, basicVars
  <2>. QED
    BY <1>5, <2>1 DEF BasicQueue
<1>12. \/ UNCHANGED basicVars \/ Basic!Callback \/ Basic!NewIdle \/ Basic!Pause \/ Basic!EndCall
       \/ Basic!LoopStep \/ Basic!SpuriousWake \/ Basic!NewRemote
       \/ \E r \in Remotes : Basic!Fire(r) \/ Basic!Drop(r)
  BY ONLY [Basic!Next]_basicVars
     DEF Basic!Next, Basic!Returned, Basic!vars, Basic!local, basicVars
<1>. QED
  BY ONLY <1>6, <1>7, <1>8, <1>9, <1>10, <1>11, <1>12 DEF Basic!LoopStep

-----------------------------------------------------------------------------
(* StackPool.                                                              *)

Cached(p) == Stacks!ToSet(k_stacks[p])

\* Stacks!TypeOK, and what a scheduler runs or has just left is a live task, no
\* two of them the same.
StackTypes ==
  /\ k_stacks \in [Stacks!Pools -> Seq(Stacks!Ids)] /\ k_size \in [Stacks!Ids -> Sizes \cup {0}]
  /\ k_used \in [Tasks -> Stacks!Ids \cup {0}] /\ k_need \in [Tasks -> Sizes \cup {0}]
  /\ k_run \in [Scheds -> Tasks \cup {NoTask}] /\ k_dead \in [Scheds -> Tasks \cup {NoTask}]
  /\ k_amt \in {0, MaxCached + 1}

StackRun ==
  \A s \in Scheds :
    /\ k_run[s] # NoTask => k_used[k_run[s]] > 0 /\ k_dead[s] = NoTask
    /\ k_dead[s] # NoTask => k_used[k_dead[s]] > 0
    /\ \A r \in Scheds : /\ k_run[s] # NoTask => k_run[s] # k_dead[r]
                         /\ k_run[s] # NoTask /\ r # s => k_run[s] # k_run[r]
                         /\ k_dead[s] # NoTask /\ r # s => k_dead[s] # k_dead[r]

\* A stack is used by one task or cached once in one pool.
StackOwner ==
  /\ \A t, u \in Tasks : t # u /\ k_used[t] > 0 => k_used[t] # k_used[u]
  /\ \A p \in Stacks!Pools : Stacks!IsInjective(k_stacks[p])
  /\ \A p \in Stacks!Pools : \A t \in Tasks : k_used[t] \notin Cached(p)
  /\ \A p, q \in Stacks!Pools : p # q => \A i \in Cached(p) : i \notin Cached(q)

\* The stacks that are used or cached are the mapped ones, and big enough.
StackMapped ==
  /\ \A p \in Stacks!Pools : \A i \in Cached(p) : k_size[i] > 0
  /\ \A t \in Tasks : k_used[t] > 0 => k_size[k_used[t]] > 0 /\ k_need[t] <= k_size[k_used[t]]
  /\ \A i \in Stacks!Ids :
       k_size[i] > 0 => (\E t \in Tasks : k_used[t] = i) \/ (\E p \in Stacks!Pools : i \in Cached(p))

StackInv == StackTypes /\ StackRun /\ StackOwner /\ StackMapped /\ Stacks!CacheBounded

LEMMA StackBound ==
  /\ Outside \notin Scheds /\ Sizes \subseteq Nat \ {0} /\ MaxCached \in Nat /\ MaxStacks \in Nat
  /\ NoTask \notin Tasks
BY GreenPartsAssumptions DEF Stacks!StackAssumption

\* Min takes a member of a set of numbers.
LEMMA MinMember ==
  ASSUME NEW S, S \subseteq Nat, S # {}
  PROVE  Stacks!Min(S) \in S
<1>. DEFINE R == OpToRel(<, Nat)
<1>1. IsWellFoundedOn(R, Nat)
  BY NatLessThanWellFounded
<1>2. \A x, y \in Nat : y < x => <<y, x>> \in R
  BY DEF OpToRel
<1>. HIDE DEF R
<1>3. PICK x \in S : \A y \in S : <<y, x>> \notin R
  BY <1>1, WFMin
<1>4. ASSUME NEW y \in S PROVE x <= y
  <2>1. x \in Nat /\ y \in Nat
    OBVIOUS
  <2>2. ~(y < x)
    BY <1>2, <1>3, <2>1
  <2>. QED
    BY <2>1, <2>2
<1>. QED
  BY <1>4 DEF Stacks!Min

\* What swap_remove leaves of a Vec.
LEMMA SwapRemoved ==
  ASSUME NEW S, NEW q \in Seq(S), Stacks!IsInjective(q), NEW i \in 1..Len(q)
  PROVE  LET w == Stacks!SwapRemove(q, i)
         IN  /\ w \in Seq(S) /\ Len(w) = Len(q) - 1 /\ Stacks!IsInjective(w)
             /\ Stacks!ToSet(w) = Stacks!ToSet(q) \ {q[i]}
<1>. DEFINE n == Len(q)
            w == Stacks!SwapRemove(q, i)
            f == SubSeq(q, 1, n - 1)
<1>1. /\ n \in Nat /\ n - 1 \in Nat /\ DOMAIN q = 1..n /\ (\A j \in 1..n : q[j] \in S)
      /\ \A j \in 1..n - 1 : j \in 1..n /\ j # n
      /\ i \in 1..n /\ (i # n => i \in 1..n - 1)
  OBVIOUS
<1>. HIDE DEF n, f
<1>2. /\ f \in Seq(S) /\ Len(f) = n - 1 /\ \A j \in 1..n - 1 : f[j] = q[j]
  <2>1. 1 \in Int /\ n - 1 \in Int /\ \A j \in 1..n - 1 : q[j] \in S
    BY <1>1
  <2>2. /\ f \in Seq(S)
        /\ Len(f) = IF 1 <= n - 1 THEN (n - 1) - 1 + 1 ELSE 0
        /\ \A j \in 1..(n - 1) - 1 + 1 : f[j] = q[1 + j - 1]
    BY ONLY <2>1, SubSeqProperties DEF f
  <2>3. (n - 1) - 1 + 1 = n - 1 /\ (~(1 <= n - 1) => n - 1 = 0) /\ \A j \in 1..n - 1 : 1 + j - 1 = j
    BY <1>1
  <2>. QED
    BY ONLY <2>2, <2>3
<1>3. w = IF i = n THEN f ELSE [f EXCEPT ![i] = q[n]]
  BY DEF Stacks!SwapRemove, Stacks!Front, Stacks!Last, f, n
<1>. HIDE DEF w
<1>4. w \in Seq(S) /\ Len(w) = n - 1 /\ \A j \in 1..n - 1 : w[j] = IF j = i THEN q[n] ELSE q[j]
  <2>1. CASE i = n
    BY <1>1, <1>2, <1>3, <2>1
  <2>2. CASE i # n
    <3>1. q[n] \in S /\ i \in 1..Len(f) /\ w = [f EXCEPT ![i] = q[n]]
      BY <1>1, <1>2, <1>3, <2>2
    <3>2. w \in Seq(S) /\ Len(w) = Len(f) /\ \A j \in 1..Len(f) : w[j] = IF j = i THEN q[n] ELSE f[j]
      BY ONLY <3>1, <1>2
    <3>. QED
      BY <1>2, <3>2
  <2>. QED
    BY <2>1, <2>2
<1>5. DOMAIN w = 1..n - 1
  BY <1>4
<1>6. Stacks!IsInjective(w)
  BY <1>1, <1>4, <1>5 DEF Stacks!IsInjective
<1>7. ASSUME NEW x \in Stacks!ToSet(w) PROVE x \in Stacks!ToSet(q) /\ x # q[i]
  BY <1>1, <1>4, <1>5, <1>7 DEF Stacks!ToSet, Stacks!IsInjective
<1>8. ASSUME NEW x \in Stacks!ToSet(q), x # q[i] PROVE x \in Stacks!ToSet(w)
  <2>1. PICK j \in 1..n : x = q[j]
    BY <1>1 DEF Stacks!ToSet
  <2>2. CASE j = n
    <3>1. i \in 1..n - 1
      BY <1>1, <1>8, <2>1, <2>2
    <3>2. w[i] = x
      BY <1>4, <2>1, <2>2, <3>1
    <3>. QED
      BY <1>5, <3>1, <3>2 DEF Stacks!ToSet
  <2>3. CASE j # n
    <3>1. j \in 1..n - 1 /\ j # i
      BY <1>1, <1>8, <2>1, <2>3
    <3>2. w[j] = x
      BY <1>4, <2>1, <3>1
    <3>. QED
      BY <1>5, <3>1, <3>2 DEF Stacks!ToSet
  <2>. QED
    BY <2>2, <2>3
<1>. QED
  BY <1>4, <1>6, <1>7, <1>8 DEF w, n

\* What push adds to a Vec.
LEMMA Pushed ==
  ASSUME NEW S, NEW q \in Seq(S), Stacks!IsInjective(q), NEW x \in S, x \notin Stacks!ToSet(q)
  PROVE  /\ Append(q, x) \in Seq(S) /\ Len(Append(q, x)) = Len(q) + 1
         /\ Stacks!IsInjective(Append(q, x))
         /\ Stacks!ToSet(Append(q, x)) = Stacks!ToSet(q) \cup {x}
<1>. DEFINE n == Len(q)
            w == Append(q, x)
<1>1. /\ n \in Nat /\ DOMAIN q = 1..n /\ w \in Seq(S) /\ Len(w) = n + 1 /\ DOMAIN w = 1..n + 1
      /\ w[n + 1] = x /\ \A j \in 1..n : w[j] = q[j]
  OBVIOUS
<1>2. n + 1 \in 1..n + 1 /\ \A j \in 1..n + 1 : j = n + 1 \/ j \in 1..n
  BY <1>1
<1>3. \A j \in 1..n : j \in 1..n + 1 /\ j # n + 1
  BY <1>1
<1>. HIDE DEF w, n
<1>4. \A j \in 1..n : q[j] # x
  BY <1>1 DEF Stacks!ToSet
<1>5. Stacks!IsInjective(w)
  BY <1>1, <1>2, <1>3, <1>4 DEF Stacks!IsInjective
<1>6. Stacks!ToSet(w) = Stacks!ToSet(q) \cup {x}
  BY <1>1, <1>2, <1>3 DEF Stacks!ToSet
<1>. QED
  BY <1>1, <1>5, <1>6 DEF w, n

\* StackInv says what the run checks of the stacks.
LEMMA StackInvImplies ==
  StackInv => /\ Stacks!TypeOK /\ Stacks!SingleUse /\ Stacks!NoneLost
              /\ Stacks!BigEnough /\ Stacks!CacheBounded
<1>. SUFFICES ASSUME StackInv
              PROVE  Stacks!TypeOK /\ Stacks!SingleUse /\ Stacks!NoneLost /\ Stacks!BigEnough
  BY DEF StackInv
<1>. USE StackBound DEF StackInv, Cached
<1>0. /\ \A p \in Stacks!Pools : Stacks!ToSet(k_stacks[p]) \subseteq Stacks!Ids
      /\ 0 \notin Stacks!Ids /\ \A i \in Stacks!Ids : i > 0
  BY DEF StackTypes, Stacks!ToSet, Stacks!Ids
<1>1. Stacks!TypeOK
  <2>1. \A p \in Stacks!Pools : Stacks!ToSet(k_stacks[p]) \subseteq Stacks!Mapped
    BY <1>0 DEF StackMapped, Stacks!Mapped
  <2>2. \A t \in Tasks : k_used[t] > 0 => k_used[t] \in Stacks!Mapped
    BY DEF StackTypes, StackMapped, Stacks!Mapped, Stacks!Ids
  <2>3. \A s \in Scheds : k_run[s] # NoTask => k_used[k_run[s]] > 0
    BY DEF StackRun
  <2>. QED
    BY <2>1, <2>2, <2>3 DEF StackTypes, Stacks!TypeOK
<1>2. Stacks!SingleUse
  BY <1>0 DEF StackOwner, Stacks!SingleUse, Stacks!InUse
<1>3. Stacks!NoneLost
  <2>1. ASSUME NEW i \in Stacks!Mapped
        PROVE  i \in Stacks!InUse \cup UNION {Stacks!ToSet(k_stacks[p]) : p \in Stacks!Pools}
    BY <1>0, <2>1 DEF StackMapped, Stacks!Mapped, Stacks!InUse
  <2>2. ASSUME NEW i \in Stacks!InUse PROVE i \in Stacks!Mapped
    BY <2>2 DEF StackTypes, StackMapped, Stacks!Mapped, Stacks!InUse, Stacks!Ids
  <2>3. ASSUME NEW p \in Stacks!Pools, NEW i \in Stacks!ToSet(k_stacks[p]) PROVE i \in Stacks!Mapped
    BY <1>0, <2>3 DEF StackMapped, Stacks!Mapped
  <2>. QED
    BY <2>1, <2>2, <2>3 DEF Stacks!NoneLost
<1>4. Stacks!BigEnough
  BY DEF StackMapped, Stacks!BigEnough
<1>. QED
  BY <1>1, <1>2, <1>3, <1>4

\* The invariant of the stacks holds before the first spawn.
LEMMA StackInit == Stacks!Init => StackInv
<1>. SUFFICES ASSUME Stacks!Init PROVE StackInv
  OBVIOUS
<1>. USE StackBound DEF Stacks!Init
<1>1. StackTypes
  BY DEF StackTypes, Stacks!Ids
<1>2. StackRun
  BY DEF StackRun
<1>3. \A p \in Stacks!Pools : k_stacks[p] = <<>> /\ Cached(p) = {}
  BY DEF Cached, Stacks!ToSet
<1>4. StackOwner
  BY <1>3 DEF StackOwner, Stacks!IsInjective
<1>5. StackMapped
  BY <1>3 DEF StackMapped, Stacks!Ids
<1>6. Stacks!CacheBounded
  BY <1>3 DEF Stacks!CacheBounded
<1>. QED
  BY <1>1, <1>2, <1>4, <1>5, <1>6 DEF StackInv

\* What the pools cache is a subset of the ids.
LEMMA CachedIds ==
  StackTypes => /\ \A p \in Stacks!Pools : Cached(p) \subseteq Stacks!Ids
                /\ \A i \in Stacks!Ids : i \in Nat /\ i > 0
BY StackBound DEF StackTypes, Cached, Stacks!ToSet, Stacks!Ids

\* A spawn that takes a cached stack, from wherever in the pool it is.
LEMMA TakeCached ==
  ASSUME StackInv, NEW p \in Stacks!Pools, NEW t \in Tasks, NEW n \in Sizes, k_used[t] = 0,
         \A s \in Scheds : k_dead[s] # t,
         NEW i \in Stacks!Position(p, n),
         k_used' = [k_used EXCEPT ![t] = k_stacks[p][i]],
         k_stacks' = [k_stacks EXCEPT ![p] = Stacks!SwapRemove(@, i)],
         k_need' = [k_need EXCEPT ![t] = n], UNCHANGED <<k_size, k_run, k_dead, k_amt>>
  PROVE  StackInv'
<1>. DEFINE x == k_stacks[p][i]
<1>. USE StackBound DEF StackInv
<1>1. i \in 1..Len(k_stacks[p]) /\ n <= k_size[x]
  <2>. DEFINE fits == {j \in 1..Len(k_stacks[p]) : n <= k_size[k_stacks[p][j]]}
  <2>1. fits # {} /\ i = Stacks!Min(fits)
    BY DEF Stacks!Position
  <2>2. fits \subseteq Nat
    OBVIOUS
  <2>3. i \in fits
    BY <2>1, <2>2, MinMember
  <2>. QED
    BY <2>3
<1>2. k_stacks[p] \in Seq(Stacks!Ids) /\ Stacks!IsInjective(k_stacks[p])
  BY DEF StackTypes, StackOwner
<1>3. x \in Stacks!Ids /\ x \in Cached(p) /\ x > 0 /\ k_size[x] > 0
  <2>1. x \in Stacks!Ids /\ x \in Cached(p)
    BY <1>1, <1>2 DEF Cached, Stacks!ToSet
  <2>. QED
    BY <2>1, CachedIds DEF StackMapped
<1>4. /\ k_stacks'[p] \in Seq(Stacks!Ids) /\ Len(k_stacks'[p]) = Len(k_stacks[p]) - 1
      /\ Stacks!IsInjective(k_stacks'[p]) /\ Cached(p)' = Cached(p) \ {x}
  <2>1. k_stacks'[p] = Stacks!SwapRemove(k_stacks[p], i)
    BY DEF StackTypes
  <2>. QED
    BY <1>1, <1>2, <2>1, SwapRemoved DEF Cached
<1>5. \A q \in Stacks!Pools : q # p => k_stacks'[q] = k_stacks[q] /\ Cached(q)' = Cached(q)
  BY DEF StackTypes, Cached
<1>6. k_used'[t] = x /\ k_need'[t] = n
      /\ \A u \in Tasks : u # t => k_used'[u] = k_used[u] /\ k_need'[u] = k_need[u]
  BY DEF StackTypes
<1>. HIDE DEF x
<1>7. StackTypes'
  <2>1. k_stacks' \in [Stacks!Pools -> Seq(Stacks!Ids)]
    BY <1>4, <1>5 DEF StackTypes
  <2>2. k_used' \in [Tasks -> Stacks!Ids \cup {0}] /\ k_need' \in [Tasks -> Sizes \cup {0}]
    BY <1>3 DEF StackTypes, x
  <2>. QED
    BY <2>1, <2>2 DEF StackTypes
<1>8. StackRun'
  BY <1>3, <1>6 DEF StackTypes, StackRun
<1>9. StackOwner'
  <2>1. \A u \in Tasks : k_used[u] # x
    BY <1>3 DEF StackOwner
  <2>2. \A q \in Stacks!Pools : /\ Cached(q)' \subseteq Cached(q) /\ x \notin Cached(q)'
                                /\ Stacks!IsInjective(k_stacks'[q])
    BY <1>3, <1>4, <1>5 DEF StackOwner
  <2>3. \A u, v \in Tasks : u # v /\ k_used'[u] > 0 => k_used'[u] # k_used'[v]
    BY <1>6, <2>1 DEF StackOwner
  <2>4. \A q \in Stacks!Pools : \A u \in Tasks : k_used'[u] \notin Cached(q)'
    BY <1>6, <2>2 DEF StackOwner
  <2>5. \A q, r \in Stacks!Pools : q # r => \A j \in Cached(q)' : j \notin Cached(r)'
    BY <2>2 DEF StackOwner
  <2>. QED
    BY <2>2, <2>3, <2>4, <2>5 DEF StackOwner
<1>10. StackMapped'
  <2>1. \A q \in Stacks!Pools : Cached(q)' \subseteq Cached(q)
    BY <1>4, <1>5
  <2>2. \A q \in Stacks!Pools : \A j \in Cached(q)' : k_size'[j] > 0
    BY <2>1 DEF StackMapped
  <2>3. \A u \in Tasks : k_used'[u] > 0 => k_size'[k_used'[u]] > 0 /\ k_need'[u] <= k_size'[k_used'[u]]
    BY <1>1, <1>3, <1>6 DEF StackMapped, x
  <2>4. ASSUME NEW j \in Stacks!Ids, k_size'[j] > 0
        PROVE  (\E u \in Tasks : k_used'[u] = j) \/ (\E q \in Stacks!Pools : j \in Cached(q)')
    <3>1. CASE j = x
      BY <1>6, <3>1
    <3>2. CASE j # x /\ \E u \in Tasks : k_used[u] = j
      BY <1>6, <2>4, <3>2, CachedIds
    <3>3. CASE j # x /\ \E q \in Stacks!Pools : j \in Cached(q)
      BY <1>4, <1>5, <3>3
    <3>. QED
      BY <2>4, <3>1, <3>2, <3>3 DEF StackMapped
  <2>. QED
    BY <2>2, <2>3, <2>4 DEF StackMapped
<1>11. Stacks!CacheBounded'
  BY <1>4, <1>5 DEF Stacks!CacheBounded, StackTypes
<1>. QED
  BY <1>7, <1>8, <1>9, <1>10, <1>11

\* A spawn that maps a new stack.
LEMMA TakeNew ==
  ASSUME StackInv, NEW t \in Tasks, NEW n \in Sizes, k_used[t] = 0,
         NEW x \in Stacks!Ids, ~(k_size[x] > 0),
         k_used' = [k_used EXCEPT ![t] = x], k_size' = [k_size EXCEPT ![x] = n],
         k_need' = [k_need EXCEPT ![t] = n], UNCHANGED <<k_stacks, k_run, k_dead, k_amt>>
  PROVE  StackInv'
<1>. USE StackBound DEF StackInv
<1>1. \A q \in Stacks!Pools : Cached(q)' = Cached(q) /\ x \notin Cached(q)
  BY DEF Cached, StackMapped
<1>2. /\ k_used'[t] = x /\ k_need'[t] = n /\ x > 0 /\ n > 0
      /\ \A u \in Tasks : u # t => k_used'[u] = k_used[u] /\ k_need'[u] = k_need[u]
  BY CachedIds DEF StackTypes
<1>3. \A u \in Tasks : k_used[u] # x
  BY <1>2 DEF StackMapped
<1>4. k_size'[x] = n /\ \A j \in Stacks!Ids : j # x => k_size'[j] = k_size[j]
  BY DEF StackTypes
<1>5. StackTypes'
  BY DEF StackTypes
<1>6. StackRun'
  BY <1>2 DEF StackTypes, StackRun
<1>7. StackOwner'
  BY <1>1, <1>2, <1>3 DEF StackOwner
<1>8. StackMapped'
  <2>1. \A q \in Stacks!Pools : \A j \in Cached(q)' : k_size'[j] > 0
    BY <1>1, <1>4, CachedIds DEF StackMapped
  <2>2. ASSUME NEW u \in Tasks, k_used'[u] > 0
        PROVE  k_size'[k_used'[u]] > 0 /\ k_need'[u] <= k_size'[k_used'[u]]
    <3>1. CASE u = t
      BY <1>2, <1>4, <3>1
    <3>2. CASE u # t
      <4>1. k_used[u] \in Stacks!Ids /\ k_used[u] > 0 /\ k_used[u] # x
        BY <1>2, <1>3, <2>2, <3>2 DEF StackTypes
      <4>. QED
        BY <1>2, <1>4, <3>2, <4>1 DEF StackMapped
    <3>. QED
      BY <3>1, <3>2
  <2>3. ASSUME NEW j \in Stacks!Ids, k_size'[j] > 0
        PROVE  (\E u \in Tasks : k_used'[u] = j) \/ (\E q \in Stacks!Pools : j \in Cached(q)')
    <3>1. CASE j = x
      BY <1>2, <3>1
    <3>2. CASE j # x /\ \E u \in Tasks : k_used[u] = j
      BY <1>2, <3>2, CachedIds
    <3>3. CASE \E q \in Stacks!Pools : j \in Cached(q)
      BY <1>1, <3>3
    <3>. QED
      BY <1>4, <2>3, <3>1, <3>2, <3>3 DEF StackMapped
  <2>. QED
    BY <2>1, <2>2, <2>3 DEF StackMapped
<1>9. Stacks!CacheBounded'
  BY DEF Stacks!CacheBounded
<1>. QED
  BY <1>5, <1>6, <1>7, <1>8, <1>9

\* The cleanup job of a dead task: its stack is cached, or unmapped if the pool
\* has more than the limit.
LEMMA RecycleStep ==
  ASSUME StackInv, NEW s \in Scheds, Stacks!Recycle(s)
  PROVE  StackInv'
<1>. DEFINE d == k_dead[s]
            x == k_used[d]
<1>. USE StackBound DEF StackInv
<1>1. /\ d \in Tasks /\ x \in Stacks!Ids /\ x > 0 /\ k_run' = k_run
      /\ k_used' = [k_used EXCEPT ![d] = 0] /\ k_need' = [k_need EXCEPT ![d] = 0]
      /\ k_dead' = [k_dead EXCEPT ![s] = NoTask] /\ Stacks!GiveStack(s, x)
  BY DEF Stacks!Recycle, StackTypes, StackRun
<1>2. s \in Stacks!Pools /\ k_amt' = MaxCached + 1 /\ Stacks!MaxCachedStacks = MaxCached
  BY <1>1 DEF Stacks!Pools, Stacks!GiveStack, Stacks!MaxCachedStacks, StackTypes
<1>3. k_used'[d] = 0 /\ \A u \in Tasks : u # d => k_used'[u] = k_used[u] /\ k_need'[u] = k_need[u]
  BY <1>1 DEF StackTypes
<1>4. \A u \in Tasks : k_used'[u] # x /\ (u # d => k_used[u] # x)
  BY <1>1, <1>3 DEF StackOwner
<1>5. \A q \in Stacks!Pools : x \notin Cached(q)
  BY <1>1 DEF StackOwner
<1>6. /\ k_used' \in [Tasks -> Stacks!Ids \cup {0}] /\ k_need' \in [Tasks -> Sizes \cup {0}]
      /\ k_dead' \in [Scheds -> Tasks \cup {NoTask}] /\ k_amt' \in {0, MaxCached + 1}
  BY <1>1, <1>2 DEF StackTypes
<1>7. StackRun'
  BY <1>1, <1>3 DEF StackTypes, StackRun
<1>. HIDE DEF x, d
<1>8. CASE Len(k_stacks[s]) <= MaxCached
  <2>1. k_stacks' = [k_stacks EXCEPT ![s] = Append(@, x)] /\ k_size' = k_size
    BY <1>1, <1>2, <1>8 DEF Stacks!GiveStack
  <2>2. k_stacks[s] \in Seq(Stacks!Ids) /\ Stacks!IsInjective(k_stacks[s])
        /\ k_stacks'[s] = Append(k_stacks[s], x)
    BY <1>2, <2>1 DEF StackTypes, StackOwner
  <2>3. /\ k_stacks'[s] \in Seq(Stacks!Ids) /\ Len(k_stacks'[s]) = Len(k_stacks[s]) + 1
        /\ Stacks!IsInjective(k_stacks'[s]) /\ Cached(s)' = Cached(s) \cup {x}
    <3>1. x \notin Stacks!ToSet(k_stacks[s])
      BY <1>2, <1>5 DEF Cached
    <3>. QED
      BY <1>1, <2>2, <3>1, Pushed DEF Cached
  <2>4. \A q \in Stacks!Pools : q # s => k_stacks'[q] = k_stacks[q] /\ Cached(q)' = Cached(q)
    BY <2>1 DEF StackTypes, Cached
  <2>5. StackTypes'
    <3>1. k_stacks' \in [Stacks!Pools -> Seq(Stacks!Ids)]
      BY <2>1, <2>3, <2>4 DEF StackTypes
    <3>. QED
      BY <1>1, <1>6, <2>1, <3>1 DEF StackTypes
  <2>6. StackOwner'
    <3>1. \A u, v \in Tasks : u # v /\ k_used'[u] > 0 => k_used'[u] # k_used'[v]
      BY <1>3 DEF StackOwner
    <3>2. \A q \in Stacks!Pools : Stacks!IsInjective(k_stacks'[q])
      BY <2>3, <2>4 DEF StackOwner
    <3>3. ASSUME NEW q \in Stacks!Pools, NEW u \in Tasks PROVE k_used'[u] \notin Cached(q)'
      <4>1. k_used'[u] \notin Cached(q)
        BY <1>3, CachedIds DEF StackOwner
      <4>. QED
        BY <1>4, <2>3, <2>4, <4>1
    <3>4. ASSUME NEW q \in Stacks!Pools, NEW r \in Stacks!Pools, q # r, NEW j \in Cached(q)'
          PROVE  j \notin Cached(r)'
      BY <1>5, <2>3, <2>4, <3>4 DEF StackOwner
    <3>. QED
      BY <3>1, <3>2, <3>3, <3>4 DEF StackOwner
  <2>7. StackMapped'
    <3>1. \A q \in Stacks!Pools : \A j \in Cached(q)' : k_size'[j] > 0
      BY <1>1, <2>1, <2>3, <2>4 DEF StackMapped, x
    <3>2. \A u \in Tasks : k_used'[u] > 0 => k_size'[k_used'[u]] > 0 /\ k_need'[u] <= k_size'[k_used'[u]]
      BY <1>3, <2>1 DEF StackMapped
    <3>3. ASSUME NEW j \in Stacks!Ids, k_size'[j] > 0
          PROVE  (\E u \in Tasks : k_used'[u] = j) \/ (\E q \in Stacks!Pools : j \in Cached(q)')
      <4>1. CASE j = x
        BY <1>2, <2>3, <4>1
      <4>2. CASE j # x /\ \E u \in Tasks : k_used[u] = j
        BY <1>3, <4>2 DEF x
      <4>3. CASE \E q \in Stacks!Pools : j \in Cached(q)
        BY <2>3, <2>4, <4>3
      <4>. QED
        BY <2>1, <3>3, <4>1, <4>2, <4>3 DEF StackMapped
    <3>. QED
      BY <3>1, <3>2, <3>3 DEF StackMapped
  <2>8. Stacks!CacheBounded'
    <3>1. Len(k_stacks[s]) \in Nat
      BY <2>2
    <3>. QED
      BY <1>8, <2>3, <2>4, <3>1 DEF Stacks!CacheBounded
  <2>. QED
    BY <1>7, <2>5, <2>6, <2>7, <2>8
<1>9. CASE ~(Len(k_stacks[s]) <= MaxCached)
  <2>1. k_size' = [k_size EXCEPT ![x] = 0] /\ k_stacks' = k_stacks
    BY <1>1, <1>2, <1>9 DEF Stacks!GiveStack
  <2>2. \A q \in Stacks!Pools : Cached(q)' = Cached(q)
    BY <2>1 DEF Cached
  <2>3. k_size'[x] = 0 /\ \A j \in Stacks!Ids : j # x => k_size'[j] = k_size[j]
    BY <1>1, <2>1 DEF StackTypes
  <2>4. StackTypes'
    BY <1>1, <1>6, <2>1 DEF StackTypes
  <2>5. StackOwner'
    <3>1. \A u, v \in Tasks : u # v /\ k_used'[u] > 0 => k_used'[u] # k_used'[v]
      BY <1>3 DEF StackOwner
    <3>2. ASSUME NEW q \in Stacks!Pools, NEW u \in Tasks PROVE k_used'[u] \notin Cached(q)'
      BY <1>3, <2>2, CachedIds DEF StackOwner
    <3>. QED
      BY <2>1, <2>2, <3>1, <3>2 DEF StackOwner
  <2>6. StackMapped'
    <3>1. \A q \in Stacks!Pools : \A j \in Cached(q)' : k_size'[j] > 0
      BY <1>5, <2>2, <2>3, CachedIds DEF StackMapped
    <3>2. ASSUME NEW u \in Tasks, k_used'[u] > 0
          PROVE  k_size'[k_used'[u]] > 0 /\ k_need'[u] <= k_size'[k_used'[u]]
      <4>1. u # d /\ k_used'[u] = k_used[u] /\ k_used[u] # x /\ k_used[u] \in Stacks!Ids
        BY <1>3, <1>4, <3>2 DEF StackTypes
      <4>. QED
        BY <1>3, <2>3, <3>2, <4>1 DEF StackMapped
    <3>3. ASSUME NEW j \in Stacks!Ids, k_size'[j] > 0
          PROVE  (\E u \in Tasks : k_used'[u] = j) \/ (\E q \in Stacks!Pools : j \in Cached(q)')
      <4>1. j # x /\ k_size[j] > 0
        BY <2>3, <3>3
      <4>2. CASE \E u \in Tasks : k_used[u] = j
        BY <1>3, <4>1, <4>2 DEF x
      <4>3. CASE \E q \in Stacks!Pools : j \in Cached(q)
        BY <2>2, <4>3
      <4>. QED
        BY <4>1, <4>2, <4>3 DEF StackMapped
    <3>. QED
      BY <3>1, <3>2, <3>3 DEF StackMapped
  <2>7. Stacks!CacheBounded'
    BY <2>1 DEF Stacks!CacheBounded
  <2>. QED
    BY <1>7, <2>4, <2>5, <2>6, <2>7
<1>. QED
  BY <1>8, <1>9

\* Every step of spawning, running and ending tasks keeps the invariant of the
\* stacks.
LEMMA StackStep == StackInv /\ [Stacks!Next]_stacksVars => StackInv'
<1>. SUFFICES ASSUME StackInv, [Stacks!Next]_stacksVars PROVE StackInv'
  OBVIOUS
<1>1. ASSUME NEW p \in Stacks!Pools, NEW t \in Tasks, NEW n \in Sizes, Stacks!Spawn(p, t, n)
      PROVE  StackInv'
  <2>1. /\ k_used[t] = 0 /\ (\A s \in Scheds : k_dead[s] # t)
        /\ k_need' = [k_need EXCEPT ![t] = n] /\ UNCHANGED <<k_run, k_dead, k_amt>>
        /\ Stacks!TakeStack(p, t, n)
    BY <1>1 DEF Stacks!Spawn
  <2>2. CASE \E i \in Stacks!Position(p, n) :
               /\ k_used' = [k_used EXCEPT ![t] = k_stacks[p][i]]
               /\ k_stacks' = [k_stacks EXCEPT ![p] = Stacks!SwapRemove(@, i)]
               /\ UNCHANGED k_size
    BY <2>1, <2>2, TakeCached
  <2>3. CASE /\ Stacks!Mapped # Stacks!Ids
             /\ k_used' = [k_used EXCEPT ![t] = Stacks!Min(Stacks!Ids \ Stacks!Mapped)]
             /\ k_size' = [k_size EXCEPT ![Stacks!Min(Stacks!Ids \ Stacks!Mapped)] = n]
             /\ UNCHANGED k_stacks
    <3>. DEFINE free == Stacks!Ids \ Stacks!Mapped
    <3>1. free # {} /\ free \subseteq Nat
      BY <2>3, CachedIds DEF StackInv, Stacks!Mapped
    <3>2. Stacks!Min(free) \in free
      BY <3>1, MinMember
    <3>3. PICK x \in Stacks!Ids : x = Stacks!Min(free) /\ ~(k_size[x] > 0)
      BY <3>2 DEF Stacks!Mapped
    <3>. QED
      BY <2>1, <2>3, <3>3, TakeNew
  <2>. QED
    BY <2>1, <2>2, <2>3 DEF Stacks!TakeStack
<1>2. ASSUME NEW s \in Scheds, NEW t \in Tasks, Stacks!Resume(s, t) PROVE StackRun' /\ StackTypes'
  BY <1>2, StackBound DEF Stacks!Resume, StackInv, StackTypes, StackRun
<1>3. ASSUME NEW s \in Scheds, Stacks!Deschedule(s) PROVE StackRun' /\ StackTypes'
  BY <1>3, StackBound DEF Stacks!Deschedule, StackInv, StackTypes, StackRun
<1>4. ASSUME NEW s \in Scheds, Stacks!Terminate(s) PROVE StackRun' /\ StackTypes'
  BY <1>4, StackBound DEF Stacks!Terminate, StackInv, StackTypes, StackRun
<1>5. ASSUME UNCHANGED stacksVars PROVE StackRun' /\ StackTypes'
  BY <1>5 DEF stacksVars, StackInv, StackTypes, StackRun
<1>6. ASSUME UNCHANGED <<k_stacks, k_size, k_used, k_need>>, StackRun', StackTypes' PROVE StackInv'
  <2>1. \A p \in Stacks!Pools : Cached(p)' = Cached(p)
    BY <1>6 DEF Cached
  <2>. QED
    BY <1>6, <2>1 DEF StackInv, StackOwner, StackMapped, Stacks!CacheBounded
<1>7. ASSUME NEW s \in Scheds,
             Stacks!Deschedule(s) \/ Stacks!Terminate(s) \/ \E t \in Tasks : Stacks!Resume(s, t)
      PROVE  StackInv'
  <2>1. UNCHANGED <<k_stacks, k_size, k_used, k_need>>
    BY <1>7 DEF Stacks!Resume, Stacks!Deschedule, Stacks!Terminate
  <2>. QED
    BY <1>2, <1>3, <1>4, <1>6, <1>7, <2>1
<1>8. ASSUME UNCHANGED stacksVars PROVE StackInv'
  BY <1>5, <1>6, <1>8 DEF stacksVars
<1>. QED
  BY <1>1, <1>7, <1>8, RecycleStep DEF Stacks!Next, Stacks!Full, Stacks!vars, stacksVars

-----------------------------------------------------------------------------
(* All parts.                                                              *)

PartsInv == BasicInv /\ AsyncInv /\ SimpleInv /\ GreenInv /\ StackInv

\* A step of MCGreenParts is a step of each part or leaves it alone.
LEMMA PartsSteps ==
  [Next]_vars => /\ [Basic!Next]_basicVars /\ [Async!Next]_asyncVars
                 /\ [Simple!Next]_simpleVars /\ [Green!Next]_greenVars
                 /\ [Stacks!Next]_stacksVars
BY DEF Next, vars

\* The invariants of the parts hold together.
LEMMA PartsInvariant == Spec => []PartsInv
<1>1. Init => PartsInv
  BY BasicInit, AsyncInit, SimpleInit, GreenInit, StackInit DEF Init, PartsInv
<1>2. PartsInv /\ [Next]_vars => PartsInv'
  BY PartsSteps, BasicStep, AsyncStep, SimpleStep, GreenStep, StackStep DEF PartsInv
<1>. QED
  BY <1>1, <1>2, PTL DEF Spec

\* message() of BasicLoop never reaches an unreachable!(), run() returns only when
\* no message, no work and no handle is left; nobody touches an Async after
\* close_cb freed it, and uv_run returns only when no thread can reach the loop.
\* This holds for any number of remote callbacks, fires and pieces of work.
THEOREM LoopsEndCleanly == Spec => []LoopsEndClean
<1>1. PartsInv => LoopsEndClean
  BY BasicInvImplies, AsyncTypeOK DEF PartsInv, AsyncInv, LoopsEndClean
<1>. QED
  BY <1>1, PartsInvariant, PTL

\* A task that runs is in the hands of no waker and of no closure, and every park
\* is ended by exactly one of its BlockedTasks, for any number of parks and of
\* BlockedTasks (simple.rs, task.rs).
THEOREM TasksAreWokenAlone == Spec => []WokenAlone
<1>1. PartsInv => WokenAlone
  BY SimpleTypeOK, GreenInvImplies DEF PartsInv, SimpleInv, WokenAlone
<1>. QED
  BY <1>1, PartsInvariant, PTL

\* Stacks are neither shared nor lost, big enough for their task, and a pool is
\* bounded, for any schedulers, tasks, sizes and limit (stack.rs).
THEOREM StacksAreKept == Spec => []StacksKept
<1>1. PartsInv => StacksKept
  BY StackInvImplies DEF PartsInv, StacksKept
<1>. QED
  BY <1>1, PartsInvariant, PTL

\* The safety part of the contract of both loops: what a scheduler sees of a
\* BasicLoop or of a libuv Async are steps of RemoteCallback, so that a call is
\* made only if it is owed and a callback goes only when nothing is.
THEOREM LoopsImplementRemoteCallback ==
  Spec => /\ Basic!RC!Init /\ [][Basic!RC!Next]_(Basic!RC!vars)
          /\ Async!RC!Init /\ [][Async!RC!Next]_(Async!RC!vars)
<1>1. Init => Basic!RC!Init /\ Async!RC!Init
  BY BasicCallInit, AsyncCallInit DEF Init
<1>2. PartsInv /\ [Next]_vars => [Basic!RC!Next]_(Basic!RC!vars) /\ [Async!RC!Next]_(Async!RC!vars)
  BY PartsSteps, BasicCallStep, AsyncCallStep DEF PartsInv
<1>. QED
  BY <1>1, <1>2, PartsInvariant, PTL DEF Spec

\* The safety part of the contract of both kinds of task: what the caller of
\* deschedule sees of a SimpleTask or of a green task are steps of Parking, so
\* that it goes on only when it was woken once, or refused, and its closure has
\* returned.
THEOREM TasksImplementParking ==
  Spec => /\ Simple!P!Init /\ [][Simple!P!Next]_(Simple!P!vars)
          /\ Green!P!Init /\ [][Green!P!Next]_(Green!P!vars)
<1>1. Init => Simple!P!Init /\ Green!P!Init
  BY SimpleParkInit, GreenParkInit DEF Init
<1>2. PartsInv /\ [Next]_vars => [Simple!P!Next]_(Simple!P!vars) /\ [Green!P!Next]_(Green!P!vars)
  BY PartsSteps, SimpleParkStep, GreenParkStep DEF PartsInv
<1>. QED
  BY <1>1, <1>2, PartsInvariant, PTL DEF Spec

===============================================================================

---------------------------- MODULE UvLoopProofs ----------------------------
(***************************************************************************)
(* What lives on one loop of librustuv, proved for every value of the      *)
(* constants: invariants and action properties of the run of MCUvLoop.     *)
(* One part after another; a step of MCUvLoop is a step of one part, and   *)
(* each part starts where it stays while another one moves.                *)
(***************************************************************************)
EXTENDS MCUvLoop, SequenceTheorems, FiniteSetTheorems, TLAPS

-----------------------------------------------------------------------------
(* UvTimer.                                                                *)

TimerFlags == t_failed \in BOOLEAN /\ ~t_failed

\* Timer!TypeOK without the flag; an action is there or is Nothing, and the one
\* that is there is the newest.
TimerTypes ==
  /\ t_cur \in {"loop", "owner"} /\ t_pc \in {"idle", "emptied", "sleeping", "gone"}
  /\ t_armed \in {"no", "once", "repeat"}
  /\ t_action \in Timer!Action /\ t_stack \in Timer!Action
  /\ t_id \in Nat /\ t_last \in 0..MaxActions /\ t_data \in {"used", "closing", "freed"}
  /\ t_action.kind = "none" => t_action = Timer!Nothing
  /\ t_stack.kind = "none" => t_stack = Timer!Nothing
  /\ t_action.kind # "none" => t_action.n = t_last

\* The action that timer_cb runs will be put back.
PutsBack == t_stack.kind = "CallMany" /\ t_stack.id = t_id

\* What the owner is doing, what is armed and what is in Data fit together: an
\* armed timer finds its action, or timer_cb is about to put it back; and it is
\* put back only while Data is empty, in use, and not on its way to sleep.
TimerCore ==
  /\ t_pc = "sleeping" <=> t_action.kind = "WakeTask"
  /\ t_pc = "sleeping" => t_armed = "once" /\ t_cur = "loop"
  /\ t_pc = "emptied" => t_armed = "no" /\ t_action.kind = "none" /\ t_last < MaxActions
  /\ t_pc = "gone" <=> t_data # "used"
  /\ t_pc = "gone" => t_armed = "no" /\ t_action.kind = "none"
  /\ t_data = "freed" => t_stack.kind = "none"
  /\ t_armed = "once" => t_action.kind \in {"WakeTask", "CallOnce"}
  /\ t_armed = "repeat" => t_action.kind = "CallMany" \/ PutsBack
  /\ t_action.kind = "CallMany" => t_action.id = t_id
  /\ t_stack.kind # "WakeTask"
  /\ t_stack.kind = "CallMany" => t_stack.id <= t_id
  /\ PutsBack =>
       /\ t_action.kind = "none" /\ t_stack.n = t_last
       /\ \/ t_pc = "emptied" /\ t_cur = "owner"
          \/ t_pc = "idle" /\ t_armed = "repeat"

TimerInv == TimerFlags /\ TimerTypes /\ TimerCore

LEMMA TimerBound == MaxActions \in Nat
BY UvLoopAssumptions DEF Timer!BoundAssumption

\* TimerInv implies what the run checks of UvTimer.
LEMMA TimerInvImplies == TimerInv => Timer!TypeOK /\ Timer!NoStaleAction /\ Timer!PeriodicKept
<1>. SUFFICES ASSUME TimerInv PROVE Timer!TypeOK /\ Timer!NoStaleAction /\ Timer!PeriodicKept
  OBVIOUS
<1>1. Timer!TypeOK
  BY DEF TimerInv, TimerFlags, TimerTypes, TimerCore, Timer!TypeOK
<1>2. Timer!NoStaleAction
  BY DEF TimerInv, TimerFlags, Timer!NoStaleAction
<1>3. Timer!PeriodicKept
  BY DEF TimerInv, TimerTypes, TimerCore, PutsBack, Timer!PeriodicKept, Timer!Nothing
<1>. QED
  BY <1>1, <1>2, <1>3

\* The invariant of UvTimer holds before the timer is used.
LEMMA TimerInit == Timer!Init => TimerInv
<1>. SUFFICES ASSUME Timer!Init PROVE TimerInv
  OBVIOUS
<1>. USE TimerBound DEF Timer!Init
<1>1. TimerFlags
  BY DEF TimerFlags
<1>2. TimerTypes
  BY DEF TimerTypes, Timer!Nothing, Timer!Action, Timer!Kind
<1>3. TimerCore
  BY DEF TimerCore, PutsBack, Timer!Nothing
<1>. QED
  BY <1>1, <1>2, <1>3 DEF TimerInv

\* Every step of the owner and of the loop keeps the invariant of UvTimer.
LEMMA TimerStep == TimerInv /\ (Timer!Next \/ UNCHANGED timerVars) => TimerInv'
<1>. SUFFICES ASSUME TimerInv, Timer!Next \/ UNCHANGED timerVars PROVE TimerInv'
  OBVIOUS
<1>0. TimerFlags /\ TimerTypes /\ TimerCore
  BY DEF TimerInv
<1>. USE TimerBound, <1>0
<1>. USE DEF TimerTypes, TimerCore, PutsBack, Timer!Nothing, Timer!Action, Timer!Kind,
             Timer!HasTimer, Timer!InLoop
<1>1. ASSUME Timer!Enter PROVE TimerTypes' /\ TimerCore' /\ TimerFlags'
  BY <1>1 DEF Timer!Enter, TimerFlags
<1>2. ASSUME Timer!Leave PROVE TimerTypes' /\ TimerCore' /\ TimerFlags'
  BY <1>2 DEF Timer!Leave, TimerFlags
<1>3. ASSUME Timer!SleepEmpties PROVE TimerTypes' /\ TimerCore' /\ TimerFlags'
  BY <1>3 DEF Timer!SleepEmpties, TimerFlags
<1>4. ASSUME Timer!Sleep PROVE TimerTypes' /\ TimerCore' /\ TimerFlags'
  <2>. USE <1>4 DEF Timer!Sleep
  <2>1. TimerTypes'
    OBVIOUS
  <2>2. TimerCore'
    OBVIOUS
  <2>3. TimerFlags'
    BY DEF TimerFlags
  <2>. QED
    BY <2>1, <2>2, <2>3
<1>5. ASSUME Timer!Oneshot PROVE TimerTypes' /\ TimerCore' /\ TimerFlags'
  BY <1>5 DEF Timer!Oneshot, TimerFlags
<1>6. ASSUME Timer!Periodic PROVE TimerTypes' /\ TimerCore' /\ TimerFlags'
  BY <1>6 DEF Timer!Periodic, TimerFlags
<1>7. ASSUME Timer!Drop PROVE TimerTypes' /\ TimerCore' /\ TimerFlags'
  BY <1>7 DEF Timer!Drop, TimerFlags
<1>8. ASSUME Timer!TimerCb PROVE TimerTypes' /\ TimerCore' /\ TimerFlags'
  <2>. USE <1>8 DEF Timer!TimerCb
  <2>1. TimerTypes'
    OBVIOUS
  <2>2. TimerCore'
    OBVIOUS
  <2>3. TimerFlags'
    BY DEF TimerFlags
  <2>. QED
    BY <2>1, <2>2, <2>3
<1>9. ASSUME Timer!CbReturns PROVE TimerTypes' /\ TimerCore' /\ TimerFlags'
  <2>. USE <1>9 DEF Timer!CbReturns
  <2>1. TimerTypes'
    OBVIOUS
  <2>2. TimerCore'
    OBVIOUS
  <2>3. TimerFlags'
    BY DEF TimerFlags
  <2>. QED
    BY <2>1, <2>2, <2>3
<1>10. ASSUME Timer!CloseCb PROVE TimerTypes' /\ TimerCore' /\ TimerFlags'
  <2>. USE <1>10 DEF Timer!CloseCb
  <2>1. TimerTypes' /\ TimerCore'
    OBVIOUS
  <2>2. TimerFlags'
    BY DEF TimerFlags
  <2>. QED
    BY <2>1, <2>2
<1>11. ASSUME UNCHANGED timerVars PROVE TimerTypes' /\ TimerCore' /\ TimerFlags'
  BY <1>11 DEF timerVars, TimerFlags
<1>. HIDE DEF TimerTypes, TimerCore
<1>. QED
  BY <1>1, <1>2, <1>3, <1>4, <1>5, <1>6, <1>7, <1>8, <1>9, <1>10, <1>11
  DEF TimerInv, Timer!Next, Timer!Waits, Timer!vars, timerVars

\* What timer_cb calls is what was installed last.
LEMMA TimerCallsNewest ==
  TimerInv /\ Timer!Next
    => (t_stack = Timer!Nothing /\ t_stack' # Timer!Nothing => t_stack'.n = t_last)
<1>. SUFFICES ASSUME TimerInv, Timer!Next, t_stack = Timer!Nothing, t_stack' # Timer!Nothing
              PROVE  t_stack'.n = t_last
  OBVIOUS
<1>1. Timer!TimerCb
  BY DEF Timer!Next, Timer!Enter, Timer!Leave, Timer!SleepEmpties, Timer!Sleep, Timer!Oneshot,
         Timer!Periodic, Timer!Drop, Timer!CbReturns, Timer!CloseCb, Timer!Waits, Timer!vars
<1>2. t_armed # "no" /\ t_stack' = t_action
  BY <1>1 DEF Timer!TimerCb
<1>. QED
  BY <1>2 DEF TimerInv, TimerTypes, TimerCore, PutsBack, Timer!Nothing

-----------------------------------------------------------------------------
(* UvSignal.                                                               *)

\* A signal that libuv caught is one whose handle is still started: what was
\* caught before a stop, a restart or a drop is forgotten with it.
SignalInv == Signal!TypeOK /\ s_pending \subseteq s_listens /\ ~s_failed

LEMMA SignalBound == None \notin Signals /\ MaxStarts \in Nat
BY UvLoopAssumptions DEF Signal!SignalAssumption

\* The invariant of UvSignal holds before the first start.
LEMMA SignalInit == Signal!Init => SignalInv
<1>. SUFFICES ASSUME Signal!Init PROVE SignalInv
  OBVIOUS
<1>1. 0 \in 0..MaxStarts
  BY SignalBound
<1>2. s_failed \in BOOLEAN /\ ~s_failed
  BY DEF Signal!Init
<1>. QED
  BY <1>1, <1>2 DEF Signal!Init, SignalInv, Signal!TypeOK

\* Every step of the owners and of the loop keeps the invariant of UvSignal.
LEMMA SignalStep == SignalInv /\ (Signal!Next \/ UNCHANGED signalVars) => SignalInv'
<1>. SUFFICES ASSUME SignalInv, Signal!Next \/ UNCHANGED signalVars PROVE SignalInv'
  OBVIOUS
<1>. USE SignalBound DEF SignalInv, Signal!TypeOK
<1>1. ASSUME NEW s \in Signals, Signal!Enter(s) PROVE SignalInv'
  BY <1>1 DEF Signal!Enter
<1>2. ASSUME NEW s \in Signals, Signal!Leave(s) PROVE SignalInv'
  BY <1>2 DEF Signal!Leave
<1>3. ASSUME NEW s \in Signals, Signal!Start(s) PROVE SignalInv'
  BY <1>3 DEF Signal!Start
<1>4. ASSUME NEW s \in Signals, Signal!StartFails(s) PROVE SignalInv'
  BY <1>4 DEF Signal!StartFails
<1>5. ASSUME NEW s \in Signals, Signal!Stop(s) PROVE SignalInv'
  BY <1>5 DEF Signal!Stop
<1>6. ASSUME NEW s \in Signals, Signal!Drop(s) PROVE SignalInv'
  BY <1>6 DEF Signal!Drop
<1>7. ASSUME NEW s \in Signals, Signal!Caught(s) PROVE SignalInv'
  BY <1>7 DEF Signal!Caught
<1>8. ASSUME NEW s \in Signals, Signal!SignalCb(s) PROVE SignalInv'
  BY <1>8 DEF Signal!SignalCb
<1>9. ASSUME Signal!CbReturns PROVE SignalInv'
  BY <1>9 DEF Signal!CbReturns
<1>10. ASSUME UNCHANGED signalVars PROVE SignalInv'
  BY <1>10 DEF signalVars
<1>. HIDE DEF SignalInv
<1>. QED
  BY <1>1, <1>2, <1>3, <1>4, <1>5, <1>6, <1>7, <1>8, <1>9, <1>10
  DEF Signal!Next, Signal!Over, Signal!vars, signalVars

\* What signal_cb calls is the callback of the last start, and the handle is
\* started.
LEMMA SignalCallsCurrent ==
  ASSUME SignalInv, Signal!Next, NEW s \in Signals, s_stack' = s, s_stack # s
  PROVE  s \in s_listens /\ s_running' = s_starts[s]
<1>1. PICK r \in Signals : Signal!SignalCb(r)
  BY SignalBound DEF Signal!Next, Signal!Enter, Signal!Leave, Signal!Start, Signal!StartFails,
     Signal!Stop, Signal!Drop, Signal!Caught, Signal!CbReturns, Signal!Over, Signal!vars
<1>2. r = s
  BY <1>1 DEF Signal!SignalCb
<1>. QED
  BY <1>1, <1>2 DEF Signal!SignalCb, SignalInv, Signal!TypeOK

-----------------------------------------------------------------------------
(* Homing.                                                                 *)

HomingFlags == h_held \in BOOLEAN /\ h_failed \in BOOLEAN /\ ~h_failed

HomingTypes ==
  /\ h_run \in [Scheds -> Wanderers \cup {None}]
  /\ h_st \in [Wanderers -> Home!St] /\ h_loc \in [Wanderers -> Scheds]
  /\ h_ph \in [Wanderers -> Home!Phase] /\ h_queue \in Seq(Wanderers)

RunsItsTask ==
  \A s \in Scheds, t \in Wanderers : h_run[s] = t <=> (h_st[t] = "running" /\ h_loc[t] = s)

\* How a task is kept in each phase, and that from the moment it is sent to the
\* home of the object until its missile is dropped, it is kept there.
HomingPlace(t) ==
  /\ h_ph[t] = "user" => h_st[t] \in {"running", "queued", "mail", "friendMail"}
  /\ h_ph[t] = "going" => h_st[t] \in {"running", "homing"}
  /\ h_ph[t] = "armed" => h_st[t] \in {"running", "waiting"}
  /\ h_ph[t] = "holder" => h_st[t] \in {"running", "io"}
  /\ h_ph[t] # "user" => h_loc[t] = IoHome

\* The members of q are in W, each at one place.
Lined(q, W) ==
  /\ \A i, j \in 1..Len(q) : q[i] = q[j] => i = j
  /\ \A i \in 1..Len(q) : q[i] \in W

Patient == {t \in Wanderers : h_st[t] = "waiting"}

HomingCore ==
  HomingTypes /\ RunsItsTask /\ (\A t \in Wanderers : HomingPlace(t)) /\ Lined(h_queue, Patient)

HomingInv == HomingFlags /\ HomingCore

LEMMA HomingBound ==
  /\ None \notin Scheds \cup Wanderers /\ IoHome \in Scheds /\ Regular \subseteq Scheds
  /\ Friend \in [Scheds -> Regular]
  /\ HomeOf \in [Wanderers -> Scheds \cup {None}] /\ StartOf \in [Wanderers -> Scheds]
  /\ \A t \in Wanderers : /\ PoolOf[StartOf[t]] = PoolOf[IoHome]
                          /\ HomeOf[t] = IoHome \/ (HomeOf[t] = None /\ IoHome \in Regular)
BY UvLoopAssumptions DEF Home!TopologyAssumption, Home!ReachesHome

\* HomingInv implies what the run checks of Homing.
LEMMA HomingInvImplies == HomingInv => HomingSafe
<1>. SUFFICES ASSUME HomingInv PROVE HomingSafe
  OBVIOUS
<1>1. Home!TypeOK
  BY DEF HomingInv, HomingFlags, HomingCore, HomingTypes, RunsItsTask, Home!TypeOK
<1>2. Home!HomingSucceeds
  BY DEF HomingInv, HomingFlags, Home!HomingSucceeds
<1>3. Home!MissileAtHome
  BY DEF HomingInv, HomingCore, HomingPlace, Home!MissileAtHome
<1>. QED
  BY <1>1, <1>2, <1>3 DEF HomingSafe

\* The invariant of Homing holds while all tasks are on their work queues.
LEMMA HomingInit == Home!Init => HomingInv
<1>. SUFFICES ASSUME Home!Init PROVE HomingInv
  OBVIOUS
<1>. USE HomingBound DEF Home!Init
<1>1. HomingFlags
  BY DEF HomingFlags
<1>2. HomingTypes /\ RunsItsTask
  BY DEF HomingTypes, RunsItsTask, Home!St, Home!Phase
<1>3. \A t \in Wanderers : HomingPlace(t)
  BY DEF HomingPlace
<1>4. Lined(h_queue, Patient)
  BY DEF Lined
<1>. QED
  BY <1>1, <1>2, <1>3, <1>4 DEF HomingInv, HomingCore

\* Access::grant appends a task to the queue, and Guard::drop takes the first
\* one from it.
LEMMA LineAppend ==
  ASSUME NEW S, NEW q \in Seq(S), NEW W, Lined(q, W), NEW e \in S, e \notin W
  PROVE  Append(q, e) \in Seq(S) /\ Lined(Append(q, e), W \cup {e})
<1>1. /\ Append(q, e) \in Seq(S) /\ Len(Append(q, e)) = Len(q) + 1 /\ Len(q) \in Nat
      /\ \A i \in 1..Len(q) : Append(q, e)[i] = q[i]
      /\ Append(q, e)[Len(q) + 1] = e
  OBVIOUS
<1>. QED
  BY <1>1 DEF Lined

LEMMA LineTail ==
  ASSUME NEW S, NEW q \in Seq(S), q # <<>>, NEW W, Lined(q, W)
  PROVE  /\ Head(q) \in W /\ Head(q) \in S /\ Tail(q) \in Seq(S)
         /\ Lined(Tail(q), W \ {Head(q)})
<1>1. /\ Tail(q) \in Seq(S) /\ Len(Tail(q)) = Len(q) - 1 /\ Head(q) = q[1] /\ Len(q) \in Nat \ {0}
      /\ \A i \in 1..Len(q) - 1 : Tail(q)[i] = q[i + 1]
  OBVIOUS
<1>2. Head(q) \in W /\ Head(q) \in S
  BY <1>1 DEF Lined
<1>3. ASSUME NEW i \in 1..Len(Tail(q)) PROVE Tail(q)[i] \in W \ {Head(q)}
  <2>1. Tail(q)[i] = q[i + 1] /\ i + 1 \in 1..Len(q) /\ 1 \in 1..Len(q) /\ i + 1 # 1
    BY <1>1
  <2>. QED
    BY <1>1, <2>1 DEF Lined
<1>4. ASSUME NEW i \in 1..Len(Tail(q)), NEW j \in 1..Len(Tail(q)), Tail(q)[i] = Tail(q)[j]
      PROVE  i = j
  <2>1. q[i + 1] = q[j + 1] /\ i + 1 \in 1..Len(q) /\ j + 1 \in 1..Len(q)
    BY <1>1, <1>4
  <2>2. i + 1 = j + 1
    BY <2>1 DEF Lined
  <2>. QED
    BY <1>1, <2>2
<1>. QED
  BY <1>1, <1>2, <1>3, <1>4 DEF Lined

\* A task that process_task moves outside of I/O leaves the invariant alone,
\* wherever it goes.
LEMMA RouteKeeps ==
  ASSUME HomingCore, NEW s \in Scheds, NEW t \in Wanderers, h_run[s] = None,
         h_ph[t] = "user", h_st[t] # "running", Home!Route(s, t), UNCHANGED <<h_ph, h_queue>>
  PROVE  HomingCore'
<1>. USE HomingBound DEF HomingCore
<1>1. PICK how \in {"running", "mail", "friendMail"}, d \in Scheds :
        /\ h_st' = [h_st EXCEPT ![t] = how] /\ h_loc' = [h_loc EXCEPT ![t] = d]
        /\ \/ how = "running" /\ d = s /\ h_run' = [h_run EXCEPT ![s] = t]
           \/ how # "running" /\ h_run' = h_run
  <2>1. CASE HomeOf[t] = s \/ (HomeOf[t] = None /\ s \in Regular)
    BY <2>1 DEF Home!Route, Home!Put
  <2>2. CASE HomeOf[t] \notin {None, s}
    BY <2>2 DEF Home!Route, Home!Put
  <2>3. CASE HomeOf[t] = None /\ s \notin Regular
    BY <2>3 DEF Home!Route, Home!Put
  <2>. QED
    BY <2>1, <2>2, <2>3
<1>2. HomingTypes'
  BY <1>1 DEF HomingTypes, Home!St
<1>3. RunsItsTask'
  BY <1>1 DEF HomingTypes, RunsItsTask
<1>4. \A u \in Wanderers : HomingPlace(u)'
  BY <1>1 DEF HomingTypes, HomingPlace
<1>5. Lined(h_queue, Patient)'
  <2>1. h_st[t] # "waiting"
    BY DEF HomingPlace
  <2>2. Patient' = Patient
    BY <1>1, <2>1 DEF Patient, HomingTypes
  <2>. QED
    BY <2>2 DEF Lined
<1>. QED
  BY <1>2, <1>3, <1>4, <1>5

\* A task that a callback of the home wakes runs there: it is of the pool, and
\* process_task finds no other place for it.
LEMMA WokenAtHome ==
  ASSUME NEW t \in Wanderers, Home!Reawaken(IoHome, t)
  PROVE  /\ h_run' = [h_run EXCEPT ![IoHome] = t] /\ h_st' = [h_st EXCEPT ![t] = "running"]
         /\ h_loc' = [h_loc EXCEPT ![t] = IoHome]
BY HomingBound DEF Home!Reawaken, Home!Route, Home!Put

\* Every step of the tasks, the schedulers and the loop of the object keeps the
\* invariant of Homing.
LEMMA HomingStep == HomingInv /\ (Home!Next \/ UNCHANGED homeVars) => HomingInv'
<1>. SUFFICES ASSUME HomingInv, Home!Next \/ UNCHANGED homeVars PROVE HomingInv'
  OBVIOUS
<1>0. HomingFlags /\ HomingCore
  BY DEF HomingInv
<1>1. ASSUME NEW t \in Wanderers, Home!FireMissile(t) PROVE HomingInv'
  <2>. USE <1>0, <1>1, HomingBound DEF HomingCore
  <2>1. HomingTypes'
    <3>1. h_run' \in [Scheds -> Wanderers \cup {None}] /\ h_queue' \in Seq(Wanderers)
      BY DEF Home!FireMissile, Home!Leave, HomingTypes
    <3>2. h_st' \in [Wanderers -> Home!St] /\ h_loc' \in [Wanderers -> Scheds]
      BY DEF Home!FireMissile, Home!Put, HomingTypes, Home!St
    <3>3. h_ph' \in [Wanderers -> Home!Phase]
      BY DEF Home!FireMissile, HomingTypes, Home!Phase
    <3>. QED
      BY <3>1, <3>2, <3>3 DEF HomingTypes
  <2>2. RunsItsTask'
    BY DEF Home!FireMissile, Home!Leave, Home!Put, HomingTypes, RunsItsTask
  <2>3. \A u \in Wanderers : HomingPlace(u)'
    BY DEF Home!FireMissile, Home!Leave, Home!Put, HomingTypes, HomingPlace
  <2>4. h_queue' = h_queue /\ Patient' = Patient
    BY DEF Home!FireMissile, Home!Leave, Home!Put, HomingTypes, Patient
  <2>5. HomingFlags'
    BY DEF HomingFlags, Home!FireMissile
  <2>. QED
    BY <2>1, <2>2, <2>3, <2>4, <2>5 DEF HomingInv, Lined
<1>2. ASSUME NEW t \in Wanderers, Home!GoneHome(t) PROVE HomingInv'
  <2>. USE <1>0, <1>2, HomingBound DEF HomingCore
  <2>1. HomingTypes'
    BY DEF Home!GoneHome, HomingTypes, Home!Phase
  <2>2. RunsItsTask'
    BY DEF Home!GoneHome, HomingTypes, RunsItsTask
  <2>3. \A u \in Wanderers : HomingPlace(u)'
    BY DEF Home!GoneHome, HomingTypes, HomingPlace
  <2>4. h_queue' = h_queue /\ Patient' = Patient
    BY DEF Home!GoneHome, Patient
  <2>5. h_loc[t] = IoHome
    BY DEF HomingPlace, Home!GoneHome
  <2>6. HomingFlags'
    BY <2>5 DEF HomingFlags, Home!GoneHome
  <2>. QED
    BY <2>1, <2>2, <2>3, <2>4, <2>6 DEF HomingInv, Lined
<1>3. ASSUME NEW t \in Wanderers, Home!Grant(t) PROVE HomingInv'
  <2>. USE <1>0, <1>3, HomingBound DEF HomingCore
  <2>1. t \notin Patient /\ h_queue \in Seq(Wanderers)
    BY DEF Home!Grant, Patient, HomingTypes
  <2>2. Append(h_queue, t) \in Seq(Wanderers) /\ Lined(Append(h_queue, t), Patient \cup {t})
    BY <2>1, LineAppend
  <2>3. ASSUME h_held PROVE HomingTypes' /\ Lined(h_queue, Patient)'
    <3>1. /\ h_queue' = Append(h_queue, t) /\ h_st' = [h_st EXCEPT ![t] = "waiting"]
          /\ h_loc' = [h_loc EXCEPT ![t] = h_loc[t]] /\ h_run' = [h_run EXCEPT ![h_loc[t]] = None]
          /\ h_ph' = h_ph
      BY <2>3 DEF Home!Grant, Home!Leave, Home!Put
    <3>2. HomingTypes'
      BY <2>2, <3>1 DEF HomingTypes, Home!St
    <3>3. Patient' = Patient \cup {t}
      BY <3>1 DEF HomingTypes, Patient
    <3>. QED
      BY <2>2, <3>1, <3>2, <3>3 DEF Lined
  <2>4. ASSUME ~h_held PROVE HomingTypes' /\ Lined(h_queue, Patient)'
    <3>1. Patient' = Patient /\ h_queue' = h_queue
      BY <2>4 DEF Home!Grant, Patient
    <3>2. HomingTypes'
      BY <2>4 DEF Home!Grant, HomingTypes, Home!Phase
    <3>. QED
      BY <3>1, <3>2 DEF Lined
  <2>5. RunsItsTask'
    BY DEF Home!Grant, Home!Leave, Home!Put, HomingTypes, RunsItsTask
  <2>6. \A u \in Wanderers : HomingPlace(u)'
    BY DEF Home!Grant, Home!Leave, Home!Put, HomingTypes, HomingPlace
  <2>7. HomingFlags'
    BY DEF HomingFlags, Home!Grant
  <2>. QED
    BY <2>3, <2>4, <2>5, <2>6, <2>7 DEF HomingInv
<1>4. ASSUME NEW t \in Wanderers, Home!Block(t) PROVE HomingInv'
  <2>. USE <1>0, <1>4, HomingBound DEF HomingCore, Home!Block, Home!Leave, Home!Put
  <2>1. HomingTypes' /\ RunsItsTask'
    BY DEF HomingTypes, RunsItsTask, Home!St
  <2>2. \A u \in Wanderers : HomingPlace(u)'
    BY DEF HomingTypes, HomingPlace
  <2>3. h_queue' = h_queue /\ Patient' = Patient
    BY DEF HomingTypes, Patient
  <2>4. HomingFlags'
    BY DEF HomingFlags
  <2>. QED
    BY <2>1, <2>2, <2>3, <2>4 DEF HomingInv, Lined
<1>5. ASSUME NEW t \in Wanderers, h_st[t] \in {"io", "homing"}, h_run[IoHome] = None,
             Home!Reawaken(IoHome, t), UNCHANGED <<h_ph, h_held, h_queue, h_failed>>
      PROVE  HomingInv'
  <2>. USE <1>0, <1>5, HomingBound DEF HomingCore
  <2>0. /\ h_run' = [h_run EXCEPT ![IoHome] = t] /\ h_st' = [h_st EXCEPT ![t] = "running"]
        /\ h_loc' = [h_loc EXCEPT ![t] = IoHome]
    BY WokenAtHome
  <2>1. HomingTypes' /\ RunsItsTask'
    BY <2>0 DEF HomingTypes, RunsItsTask, Home!St
  <2>2. \A u \in Wanderers : HomingPlace(u)'
    BY <2>0 DEF HomingTypes, HomingPlace
  <2>3. h_queue' = h_queue /\ Patient' = Patient
    BY <2>0 DEF HomingTypes, Patient
  <2>4. HomingFlags'
    BY DEF HomingFlags
  <2>. QED
    BY <2>1, <2>2, <2>3, <2>4 DEF HomingInv, Lined
<1>6. ASSUME NEW t \in Wanderers, Home!Release(t) PROVE HomingInv'
  <2>. USE <1>0, <1>6, HomingBound DEF HomingCore, Home!Release, Home!Disarm
  <2>1. HomingTypes' /\ RunsItsTask'
    BY DEF HomingTypes, RunsItsTask, Home!Phase
  <2>2. \A u \in Wanderers : HomingPlace(u)'
    BY DEF HomingTypes, HomingPlace
  <2>3. h_queue' = h_queue /\ Patient' = Patient
    BY DEF Patient
  <2>4. h_loc[t] = IoHome
    BY DEF HomingPlace
  <2>5. HomingFlags'
    BY <2>4 DEF HomingFlags
  <2>. QED
    BY <2>1, <2>2, <2>3, <2>5 DEF HomingInv, Lined
<1>7. ASSUME NEW t \in Wanderers, Home!PassOn(t) PROVE HomingInv'
  <2>. USE <1>0, <1>7, HomingBound DEF HomingCore
  <2>1. h_st[t] = "running" /\ h_ph[t] = "holder" /\ h_queue # <<>> /\ h_loc[t] = IoHome
    BY DEF Home!PassOn, HomingPlace
  <2>2. PICK w : w = Head(h_queue)
    OBVIOUS
  <2>3. /\ w \in Patient /\ w \in Wanderers /\ Tail(h_queue) \in Seq(Wanderers)
        /\ Lined(Tail(h_queue), Patient \ {w})
    BY <2>1, <2>2, LineTail DEF HomingTypes
  <2>4. h_st[w] = "waiting" /\ h_ph[w] = "armed" /\ w # t
    BY <2>1, <2>3 DEF Patient, HomingTypes, HomingPlace, Home!Phase
  <2>5. /\ h_queue' = Tail(h_queue) /\ h_failed' = (h_loc[t] # IoHome) /\ h_held' = h_held
        /\ h_ph' = [h_ph EXCEPT ![t] = "user", ![w] = "holder"]
        /\ h_run' = [h_run EXCEPT ![IoHome] = w]
        /\ h_st' = [h_st EXCEPT ![t] = "queued", ![w] = "running"]
        /\ h_loc' = [h_loc EXCEPT ![w] = IoHome]
    BY <2>1, <2>2, <2>3 DEF Home!PassOn, Home!Disarm
  <2>6. HomingTypes'
    BY <2>3, <2>5 DEF HomingTypes, Home!St, Home!Phase
  <2>7. RunsItsTask'
    BY <2>1, <2>3, <2>4, <2>5 DEF HomingTypes, RunsItsTask
  <2>8. \A u \in Wanderers : HomingPlace(u)'
    BY <2>1, <2>3, <2>4, <2>5 DEF HomingTypes, HomingPlace
  <2>9. Patient' = Patient \ {w}
    BY <2>1, <2>3, <2>4, <2>5 DEF HomingTypes, Patient
  <2>10. HomingFlags'
    BY <2>1, <2>5 DEF HomingFlags
  <2>. QED
    BY <2>3, <2>5, <2>6, <2>7, <2>8, <2>9, <2>10 DEF HomingInv, Lined
<1>8. ASSUME NEW t \in Wanderers, Home!Yield(t) PROVE HomingInv'
  <2>. USE <1>0, <1>8, HomingBound DEF HomingCore, Home!Yield, Home!Leave, Home!Put
  <2>1. HomingTypes' /\ RunsItsTask'
    BY DEF HomingTypes, RunsItsTask, Home!St
  <2>2. \A u \in Wanderers : HomingPlace(u)'
    BY DEF HomingTypes, HomingPlace
  <2>3. h_queue' = h_queue /\ Patient' = Patient
    BY DEF HomingTypes, Patient
  <2>4. HomingFlags'
    BY DEF HomingFlags
  <2>. QED
    BY <2>1, <2>2, <2>3, <2>4 DEF HomingInv, Lined
<1>9. ASSUME NEW t \in Wanderers, Home!Mail(t) PROVE HomingInv'
  <2>. USE <1>0, <1>9, HomingBound DEF HomingCore, Home!Mail, Home!InLoop, Home!Put
  <2>1. HomingTypes' /\ RunsItsTask'
    BY DEF HomingTypes, RunsItsTask, Home!St
  <2>2. \A u \in Wanderers : HomingPlace(u)'
    BY DEF HomingTypes, HomingPlace
  <2>3. h_queue' = h_queue /\ Patient' = Patient
    BY DEF HomingTypes, Patient
  <2>4. HomingFlags'
    BY DEF HomingFlags
  <2>. QED
    BY <2>1, <2>2, <2>3, <2>4 DEF HomingInv, Lined
<1>10. ASSUME NEW s \in Scheds, NEW t \in Wanderers, h_st[t] \in {"queued", "friendMail"},
              h_run[s] = None, Home!Route(s, t), UNCHANGED <<h_ph, h_held, h_queue, h_failed>>
       PROVE  HomingInv'
  <2>1. h_ph[t] = "user"
    BY <1>0, <1>10 DEF HomingCore, HomingTypes, HomingPlace, Home!Phase
  <2>2. HomingCore'
    BY <1>0, <1>10, <2>1, RouteKeeps
  <2>3. HomingFlags'
    BY <1>0, <1>10 DEF HomingFlags
  <2>. QED
    BY <2>2, <2>3 DEF HomingInv
<1>11. ASSUME NEW t \in Wanderers, Home!FriendMail(t) PROVE HomingInv'
  <2>1. h_loc[t] \in Scheds
    BY <1>0 DEF HomingCore, HomingTypes
  <2>. QED
    BY <1>10, <1>11, <2>1 DEF Home!FriendMail, Home!InLoop
<1>12. ASSUME NEW s \in Scheds, NEW t \in Wanderers, Home!Dequeue(s, t) PROVE HomingInv'
  BY <1>10, <1>12 DEF Home!Dequeue, Home!InLoop
<1>13. ASSUME NEW t \in Wanderers, Home!AsyncCb(t) \/ Home!IoCb(t) PROVE HomingInv'
  BY <1>5, <1>13 DEF Home!AsyncCb, Home!IoCb, Home!InLoop
<1>14. ASSUME UNCHANGED homeVars PROVE HomingInv'
  <2>1. HomingFlags'
    BY <1>0, <1>14 DEF homeVars, HomingFlags
  <2>2. HomingCore'
    BY <1>0, <1>14 DEF homeVars, HomingCore, HomingTypes, RunsItsTask, HomingPlace, Patient, Lined
  <2>. QED
    BY <2>1, <2>2 DEF HomingInv
<1>. QED
  BY <1>1, <1>2, <1>3, <1>4, <1>6, <1>7, <1>8, <1>9, <1>11, <1>12, <1>13, <1>14
  DEF Home!Next, Home!TaskStep, Home!Stopped, Home!vars, homeVars

-----------------------------------------------------------------------------
(* UvRequest.                                                              *)

RequestFlag == r_borrowed \in BOOLEAN

\* Request!TypeOK without the flag and who it belongs to.
RequestTypes ==
  /\ r_cur \in Callers \cup {None}
  /\ r_op \in [Callers -> Request!Op] /\ r_left \in [Callers -> 0..MaxWrites]
  /\ r_req \in [Callers -> Request!Req]
  /\ r_slot \subseteq Callers /\ r_file \subseteq Callers /\ r_failed \subseteq Callers
  /\ r_cnt \in [Callers -> Nat] /\ r_count \in Nat /\ r_ops \in [Callers -> 0..MaxOps]

\* The loop is borrowed by one operation, which is the reason for the flag.
Borrower ==
  /\ r_borrowed <=> \E t \in Callers : r_op[t] \in Request!Borrowing
  /\ \A t, u \in Callers :
       r_op[t] \in Request!Borrowing /\ r_op[u] \in Request!Borrowing => t = u

\* A request belongs to an operation that needs it; while libuv has it the task
\* is off the thread and in the slot, and when it was called back the task has
\* the thread.
RequestCall(t) ==
  /\ r_op[t] = "none" => r_req[t] = "none" /\ r_left[t] = 0
  /\ r_op[t] # "none" => r_left[t] > 0
  /\ r_req[t] \in {"queued", "done"} => t \in r_slot /\ r_cur # t
  /\ r_req[t] = "called" => r_cur = t

\* If every operation borrows the loop, the one that blocks counts from 0 to 1.
SerialCount ==
  /\ \A t \in Callers : r_op[t] # "direct"
  /\ \A t \in Callers : r_req[t] # "none" => r_cnt[t] = 0 /\ r_count = 1
  /\ (\A t \in Callers : r_req[t] = "none") => r_count = 0

RequestCore ==
  /\ RequestTypes /\ Borrower /\ \A t \in Callers : RequestCall(t)
  /\ part = "UvRequest serial" => SerialCount

RequestInv == RequestFlag /\ RequestCore

LEMMA RequestBound == MaxOps \in Nat /\ MaxWrites \in Nat \ {0} /\ None \notin Callers
BY UvLoopAssumptions DEF Request!BoundAssumption

\* RequestInv implies what the run checks of UvRequest.
LEMMA RequestInvImplies == RequestInv => RequestsSafe
<1>. SUFFICES ASSUME RequestInv PROVE RequestsSafe
  OBVIOUS
<1>. USE RequestBound DEF RequestInv, RequestCore
<1>1. Request!TypeOK
  <2>. DEFINE B == {t \in Callers : r_op[t] \in Request!Borrowing}
  <2>1. Request!Cardinality(B) = IF r_borrowed THEN 1 ELSE 0
    <3>1. CASE r_borrowed
      <4>1. PICK t \in Callers : r_op[t] \in Request!Borrowing
        BY <3>1 DEF Borrower
      <4>2. B = {t}
        BY <4>1 DEF Borrower
      <4>. HIDE DEF B
      <4>3. Cardinality(B) = 1
        BY <4>2, FS_Singleton
      <4>. QED
        BY <3>1, <4>3 DEF Cardinality, Request!Cardinality, IsFiniteSet, Request!IsFiniteSet
    <3>2. CASE ~r_borrowed
      <4>1. B = {}
        BY <3>2 DEF Borrower
      <4>. HIDE DEF B
      <4>2. Cardinality(B) = 0
        BY <4>1, FS_EmptySet
      <4>. QED
        BY <3>2, <4>2 DEF Cardinality, Request!Cardinality, IsFiniteSet, Request!IsFiniteSet
    <3>. QED
      BY <3>1, <3>2
  <2>2. RequestFlag /\ RequestTypes /\ \A t \in Callers : RequestCall(t)
    OBVIOUS
  <2>. QED
    BY <2>1, <2>2 DEF Request!TypeOK, RequestFlag, RequestTypes, RequestCall
<1>2. Request!CallbackSafe
  BY DEF RequestTypes, RequestCall, Request!CallbackSafe, Request!Blocked
<1>3. ASSUME part = "UvRequest serial", r_cur = None PROVE r_count = Request!Cardinality(Request!Blocked)
  <2>1. CASE \A t \in Callers : r_req[t] = "none"
    <3>1. Request!Blocked = {} /\ r_count = 0
      BY <1>3, <2>1 DEF Request!Blocked, SerialCount
    <3>2. Cardinality(Request!Blocked) = 0
      BY <3>1, FS_EmptySet
    <3>. QED
      BY <3>1, <3>2 DEF Cardinality, Request!Cardinality, IsFiniteSet, Request!IsFiniteSet
  <2>2. ASSUME NEW t \in Callers, r_req[t] # "none"
        PROVE  r_count = Request!Cardinality(Request!Blocked)
    <3>1. r_count = 1 /\ r_req[t] \in {"queued", "done"}
      BY <1>3, <2>2 DEF SerialCount, RequestTypes, RequestCall, Request!Req
    <3>2. ASSUME NEW u \in Callers, r_req[u] # "none" PROVE u = t
      BY <1>3, <2>2, <3>2
      DEF SerialCount, RequestTypes, RequestCall, Borrower, Request!Op, Request!Borrowing
    <3>3. Request!Blocked = {t}
      BY <3>1, <3>2 DEF Request!Blocked
    <3>4. Cardinality(Request!Blocked) = 1
      BY <3>3, FS_Singleton
    <3>. QED
      BY <3>1, <3>4 DEF Cardinality, Request!Cardinality, IsFiniteSet, Request!IsFiniteSet
  <2>. QED
    BY <2>1, <2>2
<1>. QED
  BY <1>1, <1>2, <1>3 DEF RequestsSafe, Request!ActiveIoExact

\* The invariant of UvRequest holds before the first operation.
LEMMA RequestInit == Request!Init => RequestInv
<1>. SUFFICES ASSUME Request!Init PROVE RequestInv
  OBVIOUS
<1>. USE RequestBound DEF Request!Init
<1>1. RequestFlag
  BY DEF RequestFlag
<1>2. RequestTypes
  BY DEF RequestTypes, Request!Op, Request!Req
<1>3. Borrower
  BY DEF Borrower, Request!Borrowing
<1>4. SerialCount /\ \A t \in Callers : RequestCall(t)
  BY DEF SerialCount, RequestCall
<1>. QED
  BY <1>1, <1>2, <1>3, <1>4 DEF RequestInv, RequestCore

\* An operation begins: if the loop is borrowed it is over at once, else it has
\* the loop.
LEMMA BeginKeeps ==
  ASSUME RequestInv, UNCHANGED part, NEW t \in Callers, NEW kind \in Request!Borrowing,
         NEW n \in 1..MaxWrites, Request!Begin(t, kind, n),
         r_file' \subseteq Callers, r_failed' \subseteq Callers
  PROVE  RequestInv'
<1>. USE RequestBound DEF RequestCore
<1>0. RequestFlag /\ RequestCore
  BY DEF RequestInv
<1>1. /\ r_ops[t] < MaxOps /\ r_ops' = [r_ops EXCEPT ![t] = @ + 1] /\ r_cur = t /\ r_op[t] = "none"
      /\ UNCHANGED <<r_cur, r_req, r_slot, r_cnt, r_count>>
  BY DEF Request!Begin
<1>3. n \in 0..MaxWrites /\ n > 0 /\ kind \in Request!Op /\ kind # "none"
  BY DEF Request!Op, Request!Borrowing
<1>2. r_ops' \in [Callers -> 0..MaxOps]
  <2>1. r_ops \in [Callers -> 0..MaxOps]
    BY <1>0 DEF RequestTypes
  <2>2. r_ops[t] \in 0..MaxOps
    BY <2>1
  <2>3. r_ops[t] + 1 \in 0..MaxOps
    BY <1>1, <2>2
  <2>. QED
    BY <1>1, <2>1, <2>3
<1>4. CASE r_borrowed
  <2>1. UNCHANGED <<r_borrowed, r_op, r_left>>
    BY <1>4 DEF Request!Begin
  <2>2. RequestTypes'
    BY <1>0, <1>1, <1>2, <2>1 DEF RequestTypes
  <2>3. Borrower' /\ (\A u \in Callers : RequestCall(u)')
    BY <1>0, <1>1, <2>1 DEF Borrower, RequestCall
  <2>4. (part = "UvRequest serial" => SerialCount)'
    BY <1>0, <1>1, <2>1 DEF SerialCount
  <2>5. RequestFlag'
    BY <1>0, <2>1 DEF RequestFlag
  <2>. QED
    BY <2>2, <2>3, <2>4, <2>5 DEF RequestInv
<1>5. CASE ~r_borrowed
  <2>1. /\ r_borrowed' = TRUE
        /\ r_op' = [r_op EXCEPT ![t] = kind] /\ r_left' = [r_left EXCEPT ![t] = n]
    BY <1>5 DEF Request!Begin
  <2>2. RequestTypes'
    BY <1>0, <1>1, <1>2, <1>3, <2>1 DEF RequestTypes
  <2>3. Borrower'
    BY <1>0, <1>1, <1>5, <2>1 DEF RequestTypes, Borrower
  <2>4. \A u \in Callers : RequestCall(u)'
    BY <1>0, <1>1, <1>3, <2>1 DEF RequestTypes, RequestCall
  <2>5. (part = "UvRequest serial" => SerialCount)'
    BY <1>0, <1>1, <2>1 DEF RequestTypes, SerialCount, Request!Borrowing
  <2>6. RequestFlag'
    BY <2>1 DEF RequestFlag
  <2>. QED
    BY <2>2, <2>3, <2>4, <2>5, <2>6 DEF RequestInv
<1>. QED
  BY <1>0, <1>4, <1>5 DEF RequestFlag

\* What only an operation that begins changes.
LEMMA OperationsBegin ==
  ASSUME RequestInv, UNCHANGED part, NEW t \in Callers,
         \/ Request!Open(t) \/ Request!FileOp(t) \/ Request!WriteAt(t)
         \/ Request!PathOp(t) \/ Request!Lookup(t) \/ Request!DropFile(t)
  PROVE  RequestInv'
<1>0. 1 \in 1..MaxWrites
  BY RequestBound
<1>1. PICK kind \in Request!Borrowing, n \in 1..MaxWrites : Request!Begin(t, kind, n)
  BY <1>0
  DEF Request!Open, Request!FileOp, Request!WriteAt, Request!PathOp, Request!Lookup,
      Request!DropFile, Request!Borrowing
<1>2. r_file' \subseteq Callers /\ r_failed' \subseteq Callers
  BY DEF RequestInv, RequestCore, RequestTypes, Request!Open,
         Request!FileOp, Request!WriteAt, Request!PathOp, Request!Lookup, Request!DropFile
<1>. QED
  BY <1>1, <1>2, BeginKeeps

\* An operation returns, and gives back the loop if it borrowed it.
LEMMA ReturnKeeps ==
  ASSUME RequestInv, UNCHANGED part, NEW t \in Callers, NEW ok, r_op[t] # "none", r_cur = t,
         Request!Return(t, ok), r_req' = [r_req EXCEPT ![t] = "none"],
         \/ r_req[t] = "none" /\ r_count' = r_count
         \/ r_req[t] # "none" /\ r_count' = r_cnt[t],
         UNCHANGED <<r_cur, r_slot, r_cnt, r_ops>>,
         r_file' \subseteq Callers, r_failed' \subseteq Callers
  PROVE  RequestInv'
<1>. USE RequestBound DEF RequestCore
<1>0. RequestFlag /\ RequestCore
  BY DEF RequestInv
<1>1. /\ r_op' = [r_op EXCEPT ![t] = "none"] /\ r_left' = [r_left EXCEPT ![t] = 0]
      /\ r_borrowed' = IF r_op[t] \in Request!Borrowing THEN FALSE ELSE r_borrowed
  BY DEF Request!Return
<1>2. RequestTypes'
  <2>1. r_cnt[t] \in Nat /\ r_count \in Nat
    BY <1>0 DEF RequestTypes
  <2>2. r_count' \in Nat
    BY <2>1
  <2>3. 0 \in 0..MaxWrites /\ "none" \in Request!Op /\ "none" \in Request!Req
    BY DEF Request!Op, Request!Req
  <2>. QED
    BY <1>0, <1>1, <2>2, <2>3 DEF RequestTypes
<1>3. Borrower'
  <2>1. \A u \in Callers : r_op'[u] \in Request!Borrowing <=> r_op[u] \in Request!Borrowing /\ u # t
    BY <1>0, <1>1 DEF RequestTypes, Request!Borrowing
  <2>2. CASE r_op[t] \in Request!Borrowing
    <3>1. ~r_borrowed'
      BY <1>1, <2>2
    <3>. QED
      BY <1>0, <2>1, <2>2, <3>1 DEF Borrower
  <2>3. CASE r_op[t] \notin Request!Borrowing
    <3>1. r_borrowed' = r_borrowed
      BY <1>1, <2>3
    <3>. QED
      BY <1>0, <2>1, <2>3, <3>1 DEF Borrower
  <2>. QED
    BY <2>2, <2>3
<1>4. \A u \in Callers : RequestCall(u)'
  BY <1>0, <1>1 DEF RequestTypes, RequestCall
<1>5. ASSUME part = "UvRequest serial" PROVE SerialCount'
  <2>1. SerialCount /\ \A u \in Callers : r_op[u] # "none" => u = t
    BY <1>0, <1>5
    DEF SerialCount, RequestTypes, Borrower, Request!Op, Request!Borrowing
  <2>2. \A u \in Callers : r_req'[u] = "none"
    BY <1>0, <2>1 DEF RequestTypes, RequestCall
  <2>3. r_count' = 0
    <3>1. CASE r_req[t] = "none"
      <4>1. \A u \in Callers : r_req[u] = "none"
        BY <1>0, <2>1, <3>1 DEF RequestCall
      <4>. QED
        BY <2>1, <3>1, <4>1 DEF SerialCount
    <3>2. CASE r_req[t] # "none"
      BY <2>1, <3>2 DEF SerialCount
    <3>. QED
      BY <3>1, <3>2
  <2>. QED
    BY <1>0, <1>1, <2>1, <2>2, <2>3 DEF SerialCount, RequestTypes
<1>6. RequestFlag'
  <2>1. CASE r_op[t] \in Request!Borrowing
    BY <1>1, <2>1 DEF RequestFlag
  <2>2. CASE r_op[t] \notin Request!Borrowing
    BY <1>0, <1>1, <2>2 DEF RequestFlag
  <2>. QED
    BY <2>1, <2>2
<1>. QED
  BY <1>2, <1>3, <1>4, <1>5, <1>6 DEF RequestInv

\* The steps of an operation between its beginning and its end, and the steps
\* of libuv.
LEMMA OperationsProceed ==
  ASSUME RequestInv, UNCHANGED part, NEW t \in Callers,
         \/ Request!Run(t) \/ Request!Yield(t) \/ Request!ExecuteFails(t) \/ Request!Execute(t)
         \/ Request!Complete(t) \/ Request!FsCb(t) \/ \E ok \in BOOLEAN : Request!Finish(t, ok)
         \/ part # "UvRequest serial" /\ Request!Direct(t)
  PROVE  RequestInv'
<1>. USE RequestBound DEF RequestCore
<1>0. RequestFlag /\ RequestCore
  BY DEF RequestInv
<1>1. ASSUME Request!Run(t) \/ Request!Yield(t) PROVE RequestInv'
  <2>1. /\ r_op[t] = "none" /\ r_cur' \in Callers \cup {None}
        /\ \/ r_cur = None /\ r_cur' = t
           \/ r_cur = t /\ r_cur' = None
        /\ UNCHANGED <<r_borrowed, r_op, r_left, r_req, r_slot, r_cnt, r_count, r_file, r_ops, r_failed>>
    BY <1>1 DEF Request!Run, Request!Yield
  <2>2. RequestTypes' /\ Borrower' /\ (part = "UvRequest serial" => SerialCount)'
    BY <1>0, <2>1 DEF RequestTypes, Borrower, SerialCount
  <2>3. \A u \in Callers : RequestCall(u)'
    BY <1>0, <2>1 DEF RequestCall
  <2>4. RequestFlag'
    BY <1>0, <2>1 DEF RequestFlag
  <2>. QED
    BY <2>2, <2>3, <2>4 DEF RequestInv
<1>2. ASSUME Request!ExecuteFails(t) PROVE RequestInv'
  <2>1. r_req' = [r_req EXCEPT ![t] = "none"]
    BY <1>0, <1>2 DEF Request!ExecuteFails, RequestTypes
  <2>2. r_file \subseteq Callers /\ r_failed \subseteq Callers
    BY <1>0 DEF RequestTypes
  <2>. QED
    BY <1>2, <2>1, <2>2, ReturnKeeps DEF Request!ExecuteFails
<1>3. ASSUME Request!Execute(t) PROVE RequestInv'
  <2>1. /\ r_cur = t /\ r_op[t] # "none" /\ r_req[t] = "none"
        /\ r_req' = [r_req EXCEPT ![t] = "queued"] /\ r_cnt' = [r_cnt EXCEPT ![t] = r_count]
        /\ r_count' = r_count + 1 /\ r_slot' = r_slot \cup {t} /\ r_cur' = None
        /\ UNCHANGED <<r_borrowed, r_op, r_left, r_file, r_ops, r_failed>>
    BY <1>3 DEF Request!Execute, Request!Block
  <2>2. Borrower' /\ RequestTypes'
    <3>1. r_count \in Nat
      BY <1>0 DEF RequestTypes
    <3>2. r_count + 1 \in Nat
      BY ONLY <3>1
    <3>3. "queued" \in Request!Req
      BY DEF Request!Req
    <3>. QED
      BY <1>0, <2>1, <3>1, <3>2, <3>3 DEF RequestTypes, Borrower
  <2>3. \A u \in Callers : RequestCall(u)'
    BY <1>0, <2>1 DEF RequestTypes, RequestCall
  <2>4. ASSUME part = "UvRequest serial" PROVE SerialCount'
    <3>1. SerialCount /\ \A u \in Callers : r_op[u] # "none" => u = t
      BY <1>0, <2>1, <2>4
      DEF SerialCount, RequestTypes, Borrower, Request!Op, Request!Borrowing
    <3>2. \A u \in Callers : r_req[u] = "none"
      BY <1>0, <2>1, <3>1 DEF RequestCall
    <3>3. r_count = 0 /\ r_count' = 1
      <4>1. r_count = 0 /\ r_count' = r_count + 1
        BY <2>1, <3>1, <3>2 DEF SerialCount
      <4>. QED
        BY ONLY <4>1
    <3>4. r_req'[t] = "queued" /\ r_cnt'[t] = 0 /\ \A u \in Callers \ {t} : r_req'[u] = "none"
      BY <1>0, <2>1, <3>2, <3>3 DEF RequestTypes
    <3>. QED
      BY <2>1, <3>1, <3>3, <3>4 DEF SerialCount
  <2>5. RequestFlag'
    BY <1>0, <2>1 DEF RequestFlag
  <2>. QED
    BY <2>2, <2>3, <2>4, <2>5 DEF RequestInv
<1>4. ASSUME Request!Complete(t) \/ Request!FsCb(t) PROVE RequestInv'
  <2>1. /\ \/ /\ r_req[t] = "queued" /\ r_req' = [r_req EXCEPT ![t] = "done"]
              /\ UNCHANGED <<r_cur, r_slot>>
           \/ /\ r_req[t] = "done" /\ r_req' = [r_req EXCEPT ![t] = "called"]
              /\ r_cur = None /\ r_cur' = t /\ r_slot' = r_slot \ {t}
        /\ UNCHANGED <<r_borrowed, r_op, r_left, r_cnt, r_count, r_file, r_ops, r_failed>>
    BY <1>4 DEF Request!Complete, Request!FsCb
  <2>2. RequestTypes' /\ Borrower'
    BY <1>0, <2>1 DEF RequestTypes, Borrower, Request!Req
  <2>3. \A u \in Callers : RequestCall(u)'
    BY <1>0, <2>1 DEF RequestTypes, RequestCall
  <2>4. (part = "UvRequest serial" => SerialCount)'
    <3>1. \A u \in Callers : r_req'[u] = "none" <=> r_req[u] = "none"
      BY <1>0, <2>1 DEF RequestTypes
    <3>. QED
      BY <1>0, <2>1, <3>1 DEF SerialCount
  <2>5. RequestFlag'
    BY <1>0, <2>1 DEF RequestFlag
  <2>. QED
    BY <2>2, <2>3, <2>4, <2>5 DEF RequestInv
<1>5. ASSUME NEW ok \in BOOLEAN, Request!Finish(t, ok) PROVE RequestInv'
  <2>1. /\ r_cur = t /\ r_req[t] = "called" /\ r_count' = r_cnt[t]
        /\ r_req' = [r_req EXCEPT ![t] = "none"] /\ r_file' \subseteq Callers
        /\ UNCHANGED <<r_cur, r_slot, r_cnt, r_ops, r_failed>>
    BY <1>0, <1>5 DEF Request!Finish, RequestTypes
  <2>2. r_op[t] # "none" /\ r_failed' \subseteq Callers
    BY <1>0, <2>1 DEF RequestCall, RequestTypes
  <2>3. CASE ok /\ r_left[t] > 1
    <3>1. r_left' = [r_left EXCEPT ![t] = @ - 1] /\ UNCHANGED <<r_op, r_borrowed>>
      BY <1>5, <2>3 DEF Request!Finish
    <3>0. /\ r_left[t] \in 0..MaxWrites /\ r_left[t] - 1 \in 0..MaxWrites /\ r_left[t] - 1 > 0
          /\ r_cnt[t] \in Nat /\ "none" \in Request!Req
      <4>1. r_left[t] \in 0..MaxWrites /\ r_cnt[t] \in Nat /\ "none" \in Request!Req
        BY <1>0 DEF RequestTypes, Request!Req
      <4>2. r_left[t] > 1
        BY <2>3
      <4>3. r_left[t] - 1 \in 0..MaxWrites /\ r_left[t] - 1 > 0
        BY ONLY <4>1, <4>2, RequestBound
      <4>. QED
        BY <4>1, <4>3
    <3>2. RequestTypes' /\ Borrower'
      BY <1>0, <2>1, <2>2, <3>0, <3>1 DEF RequestTypes, Borrower
    <3>3. \A u \in Callers : RequestCall(u)'
      BY <1>0, <2>1, <2>2, <3>0, <3>1 DEF RequestTypes, RequestCall
    <3>4. ASSUME part = "UvRequest serial" PROVE SerialCount'
      <4>1. SerialCount /\ \A u \in Callers : r_op[u] # "none" => u = t
        BY <1>0, <2>2, <3>4
        DEF SerialCount, RequestTypes, Borrower, Request!Op, Request!Borrowing
      <4>2. \A u \in Callers : r_req'[u] = "none"
        BY <1>0, <2>1, <4>1 DEF RequestTypes, RequestCall
      <4>. QED
        BY <1>0, <2>1, <3>1, <4>1, <4>2 DEF SerialCount, RequestTypes
    <3>5. RequestFlag'
      BY <1>0, <3>1 DEF RequestFlag
    <3>. QED
      BY <3>2, <3>3, <3>4, <3>5 DEF RequestInv
  <2>4. CASE ~(ok /\ r_left[t] > 1)
    <3>1. Request!Return(t, ok)
      BY <1>5, <2>4 DEF Request!Finish
    <3>. QED
      BY <2>1, <2>2, <3>1, ReturnKeeps
  <2>. QED
    BY <2>3, <2>4
<1>6. ASSUME part # "UvRequest serial", Request!Direct(t) PROVE RequestInv'
  <2>1. /\ r_cur = t /\ r_op[t] = "none" /\ r_ops[t] < MaxOps
        /\ r_ops' = [r_ops EXCEPT ![t] = @ + 1]
        /\ r_op' = [r_op EXCEPT ![t] = "direct"] /\ r_left' = [r_left EXCEPT ![t] = 1]
        /\ UNCHANGED <<r_cur, r_borrowed, r_req, r_slot, r_cnt, r_count, r_file, r_failed>>
    BY <1>6 DEF Request!Direct
  <2>2. RequestTypes'
    <3>1. r_ops \in [Callers -> 0..MaxOps]
      BY <1>0 DEF RequestTypes
    <3>2. r_ops[t] \in 0..MaxOps
      BY <3>1
    <3>3. r_ops[t] < MaxOps
      BY <2>1
    <3>4. r_ops[t] + 1 \in 0..MaxOps
      BY ONLY <3>2, <3>3, RequestBound
    <3>5. 1 \in 0..MaxWrites
      BY ONLY RequestBound
    <3>6. "direct" \in Request!Op
      BY DEF Request!Op
    <3>7. r_ops' \in [Callers -> 0..MaxOps]
      BY <2>1, <3>1, <3>4
    <3>. QED
      BY <1>0, <2>1, <3>5, <3>6, <3>7 DEF RequestTypes
  <2>3. Borrower'
    <3>1. \A u \in Callers : r_op'[u] \in Request!Borrowing <=> r_op[u] \in Request!Borrowing
      BY <1>0, <2>1 DEF RequestTypes, Request!Borrowing
    <3>. QED
      BY <1>0, <2>1, <3>1 DEF Borrower
  <2>4. \A u \in Callers : RequestCall(u)'
    <3>1. r_op'[t] # "none" /\ r_left'[t] = 1 /\ r_req[t] = "none"
      BY <1>0, <2>1 DEF RequestTypes, RequestCall
    <3>2. r_left'[t] > 0
      BY ONLY <3>1
    <3>3. RequestCall(t)'
      BY <2>1, <3>1, <3>2 DEF RequestCall
    <3>4. ASSUME NEW u \in Callers \ {t} PROVE RequestCall(u)'
      BY <1>0, <2>1 DEF RequestTypes, RequestCall
    <3>. QED
      BY <3>3, <3>4
  <2>5. RequestFlag'
    BY <1>0, <2>1 DEF RequestFlag
  <2>. QED
    BY <1>6, <2>2, <2>3, <2>4, <2>5 DEF RequestInv
<1>. QED
  BY <1>1, <1>2, <1>3, <1>4, <1>5, <1>6

\* Tasks that block without borrowing the loop do nothing else differently.
LEMMA SerialActions ==
  ASSUME NEW t \in Callers, Serial!Step(t)
  PROVE  \/ Request!Open(t) \/ Request!FileOp(t) \/ Request!WriteAt(t)
         \/ Request!PathOp(t) \/ Request!Lookup(t) \/ Request!DropFile(t)
         \/ Request!Yield(t) \/ Request!ExecuteFails(t) \/ Request!Execute(t)
         \/ \E ok \in BOOLEAN : Request!Finish(t, ok)
<1>1. ASSUME NEW kind, NEW n, Serial!Begin(t, kind, n) PROVE Request!Begin(t, kind, n)
  BY <1>1 DEF Serial!Begin, Request!Begin
<1>2. /\ Serial!Open(t) => Request!Open(t)
      /\ Serial!FileOp(t) => Request!FileOp(t)
      /\ Serial!WriteAt(t) => Request!WriteAt(t)
      /\ Serial!PathOp(t) => Request!PathOp(t)
      /\ Serial!Lookup(t) => Request!Lookup(t)
      /\ Serial!DropFile(t) => Request!DropFile(t)
  BY <1>1
  DEF Serial!Open, Serial!FileOp, Serial!WriteAt, Serial!PathOp, Serial!Lookup, Serial!DropFile,
      Request!Open, Request!FileOp, Request!WriteAt, Request!PathOp, Request!Lookup,
      Request!DropFile
<1>3. ASSUME NEW ok, Serial!Return(t, ok) PROVE Request!Return(t, ok)
  BY <1>3 DEF Serial!Return, Request!Return, Serial!Borrowing, Request!Borrowing
<1>4. Serial!Yield(t) => Request!Yield(t)
  BY DEF Serial!Yield, Request!Yield
<1>5. Serial!ExecuteFails(t) => Request!ExecuteFails(t)
  BY <1>3 DEF Serial!ExecuteFails, Request!ExecuteFails
<1>6. Serial!Execute(t) => Request!Execute(t)
  BY DEF Serial!Execute, Request!Execute, Serial!Block, Request!Block
<1>7. ASSUME NEW ok, Serial!Finish(t, ok) PROVE Request!Finish(t, ok)
  BY <1>3, <1>7 DEF Serial!Finish, Request!Finish
<1>8. ~Serial!Direct(t)
  BY DEF Serial!Direct
<1>9. \/ Serial!Yield(t) \/ Serial!Open(t) \/ Serial!FileOp(t) \/ Serial!WriteAt(t)
      \/ Serial!PathOp(t) \/ Serial!Lookup(t) \/ Serial!DropFile(t)
      \/ Serial!ExecuteFails(t) \/ Serial!Execute(t) \/ \E ok \in BOOLEAN : Serial!Finish(t, ok)
  BY <1>8, Zenon DEF Serial!Step
<1>10. (\E ok \in BOOLEAN : Serial!Finish(t, ok)) => \E ok \in BOOLEAN : Request!Finish(t, ok)
  BY <1>7, Zenon
<1>. QED
  BY ONLY <1>2, <1>4, <1>5, <1>6, <1>9, <1>10, Zenon

\* Every step of the tasks and of libuv keeps the invariant of UvRequest.
LEMMA RequestStep ==
  ASSUME RequestInv, UNCHANGED part,
         \/ part # "UvRequest serial" /\ Request!Next
         \/ part = "UvRequest serial" /\ Serial!Next
         \/ UNCHANGED requestVars
  PROVE  RequestInv'
<1>1. ASSUME UNCHANGED requestVars PROVE RequestInv'
  <2>1. RequestFlag'
    BY <1>1 DEF requestVars, RequestInv, RequestFlag
  <2>2. RequestTypes' /\ (\A t \in Callers : RequestCall(t)')
    BY <1>1 DEF requestVars, RequestInv, RequestCore, RequestTypes, RequestCall
  <2>3. Borrower' /\ (part = "UvRequest serial" => SerialCount)'
    BY <1>1 DEF requestVars, RequestInv, RequestCore, Borrower, SerialCount
  <2>. QED
    BY <2>1, <2>2, <2>3 DEF RequestInv, RequestCore
<1>2. ASSUME part # "UvRequest serial", Request!Next PROVE RequestInv'
  <2>1. ASSUME NEW t \in Callers, Request!Step(t) PROVE RequestInv'
    BY <1>2, <2>1, OperationsBegin, OperationsProceed DEF Request!Step
  <2>2. ASSUME NEW t \in Callers, Request!Run(t) \/ Request!Complete(t) \/ Request!FsCb(t)
        PROVE  RequestInv'
    BY <2>2, OperationsProceed
  <2>. QED
    BY <1>1, <1>2, <2>1, <2>2 DEF Request!Next, Request!Over, Request!vars, requestVars
<1>3. ASSUME part = "UvRequest serial", Serial!Next PROVE RequestInv'
  <2>1. ASSUME NEW t \in Callers, Serial!Step(t) PROVE RequestInv'
    BY <2>1, SerialActions, OperationsBegin, OperationsProceed
  <2>2. ASSUME NEW t \in Callers, Serial!Run(t) \/ Serial!Complete(t) \/ Serial!FsCb(t)
        PROVE  RequestInv'
    <3>1. Request!Run(t) \/ Request!Complete(t) \/ Request!FsCb(t)
      BY <2>2
      DEF Serial!Run, Serial!Complete, Serial!FsCb, Request!Run, Request!Complete, Request!FsCb
    <3>. QED
      BY <3>1, OperationsProceed
  <2>. QED
    BY <1>1, <1>3, <2>1, <2>2 DEF Serial!Next, Serial!Over, Serial!vars, requestVars
<1>. QED
  BY <1>1, <1>2, <1>3

-----------------------------------------------------------------------------
(* UvQueue.                                                                *)

Places(q, k, m) == {i \in 1..k : q[i].msg = m}

\* How many of the first k messages of q are m.
Num(q, k, m) == Cardinality(Places(q, k, m))

LEMMA PlacesFinite ==
  ASSUME NEW q, NEW k \in Nat, NEW m
  PROVE  IsFiniteSet(Places(q, k, m)) /\ Num(q, k, m) \in Nat
<1>1. IsFiniteSet(1..k)
  BY FS_Interval
<1>2. Places(q, k, m) \in SUBSET (1..k)
  BY DEF Places
<1>3. IsFiniteSet(Places(q, k, m))
  BY ONLY <1>1, <1>2, FS_Subset
<1>. QED
  BY <1>3, FS_CardinalityType DEF Num

\* No message is among the first 0.
LEMMA NumNone ==
  ASSUME NEW q, NEW m
  PROVE  Num(q, 0, m) = 0
<1>1. Places(q, 0, m) = {}
  BY DEF Places
<1>. QED
  BY ONLY <1>1, FS_EmptySet DEF Num

\* Appending a message counts it, behind the others.
LEMMA NumAppend ==
  ASSUME NEW S, NEW q \in Seq(S), NEW e \in S, NEW m
  PROVE  /\ \A k \in 0..Len(q) : Num(Append(q, e), k, m) = Num(q, k, m)
         /\ Num(Append(q, e), Len(q) + 1, m) = Num(q, Len(q), m) + IF e.msg = m THEN 1 ELSE 0
<1>. DEFINE p == Append(q, e)
            n == Len(q) + 1
<1>1. /\ Len(q) \in Nat /\ \A i \in 1..Len(q) : p[i] = q[i]
      /\ p[n] = e /\ n \in Nat /\ n \notin 1..Len(q) /\ 1..n = 1..Len(q) \cup {n}
  OBVIOUS
<1>. HIDE DEF p, n
<1>2. ASSUME NEW k \in 0..Len(q) PROVE Num(p, k, m) = Num(q, k, m)
  <2>1. Places(p, k, m) = Places(q, k, m)
    BY <1>1 DEF Places
  <2>. QED
    BY ONLY <2>1 DEF Num
<1>3. CASE e.msg = m
  <2>1. Places(p, n, m) = Places(q, Len(q), m) \cup {n} /\ n \notin Places(q, Len(q), m)
    BY <1>1, <1>3 DEF Places
  <2>2. IsFiniteSet(Places(q, Len(q), m))
    BY <1>1, PlacesFinite
  <2>3. Num(p, n, m) = Num(q, Len(q), m) + 1
    BY ONLY <2>1, <2>2, FS_AddElement DEF Num
  <2>. QED
    BY <1>2, <1>3, <2>3 DEF p, n
<1>4. CASE e.msg # m
  <2>1. Places(p, n, m) = Places(q, Len(q), m)
    BY <1>1, <1>4 DEF Places
  <2>2. Num(p, n, m) = Num(q, Len(q), m)
    BY ONLY <2>1 DEF Num
  <2>3. Num(q, Len(q), m) \in Nat
    BY <1>1, PlacesFinite
  <2>. QED
    BY <1>2, <1>4, <2>2, <2>3 DEF p, n
<1>. QED
  BY <1>3, <1>4

\* Popping a message counts it no more.
LEMMA NumTail ==
  ASSUME NEW S, NEW q \in Seq(S), q # <<>>, NEW k \in 0..(Len(q) - 1), NEW m
  PROVE  Num(q, k + 1, m) = Num(Tail(q), k, m) + IF Head(q).msg = m THEN 1 ELSE 0
<1>. DEFINE p == Tail(q)
            M == Places(p, k, m)
            B == Places(q, k + 1, m) \ {1}
            f == [i \in M |-> i + 1]
<1>1. /\ Len(q) \in Nat \ {0} /\ Head(q) = q[1] /\ k \in Nat /\ k + 1 \in Nat
      /\ \A i \in 1..k : p[i] = q[i + 1]
  OBVIOUS
<1>2. M \subseteq Nat /\ f \in [M -> B]
  BY <1>1 DEF Places
<1>3. ASSUME NEW b \in B PROVE \E a \in M : f[a] = b
  <2>1. b \in 2..(k + 1) /\ q[b].msg = m
    BY <1>1 DEF Places
  <2>2. b - 1 \in 1..k /\ p[b - 1] = q[b]
    BY ONLY <1>1, <2>1
  <2>3. b - 1 \in M /\ f[b - 1] = b
    BY ONLY <2>1, <2>2 DEF Places
  <2>. QED
    BY <2>3
<1>4. \A a, b \in M : f[a] = f[b] => a = b
  BY <1>2
<1>5. f \in Bijection(M, B)
  BY ONLY <1>2, <1>3, <1>4 DEF Bijection, Injection, Surjection, IsInjective
<1>6. IsFiniteSet(M)
  BY <1>1, PlacesFinite
<1>. HIDE DEF f, M, B
<1>7. ExistsBijection(M, B)
  BY ONLY <1>5 DEF ExistsBijection
<1>8. IsFiniteSet(B) /\ Cardinality(B) = Cardinality(M) /\ Cardinality(M) \in Nat
  BY ONLY <1>6, <1>7, FS_Bijection, FS_CardinalityType
<1>9. CASE Head(q).msg = m
  <2>1. Places(q, k + 1, m) = B \cup {1} /\ 1 \notin B
    BY <1>1, <1>9 DEF B, Places
  <2>2. Num(q, k + 1, m) = Num(p, k, m) + 1
    BY ONLY <1>8, <2>1, FS_AddElement DEF Num, M
  <2>. QED
    BY <1>9, <2>2
<1>10. CASE Head(q).msg # m
  <2>1. Places(q, k + 1, m) = B
    BY <1>1, <1>10 DEF B, Places
  <2>2. Num(q, k + 1, m) = Num(p, k, m) /\ Num(p, k, m) \in Nat
    BY ONLY <1>8, <2>1 DEF Num, M
  <2>. QED
    BY <1>10, <2>2
<1>. QED
  BY <1>9, <1>10

\* The count r with the first k messages of q.
Net(q, r, k) == (r + Num(q, k, "Increment")) - Num(q, k, "Decrement")

\* The count r with all messages of q is the number of the Queues in L, and
\* until the last of them it is not 0: what was counted down to 0 has nobody
\* left who could send a message.
Counted(q, r, L) ==
  /\ IsFiniteSet(L) /\ Net(q, r, Len(q)) = Cardinality(L)
  /\ \A k \in 0..(Len(q) - 1) : Net(q, r, k) > 0

\* Whoever counts appends a message; what it says is done to L.
LEMMA CountedAppend ==
  ASSUME NEW q \in Seq(Queue!Node), NEW r \in Nat, NEW L, Counted(q, r, L), L # {},
         NEW e \in Queue!Node, NEW L2, NEW c,
         \/ e.msg = "Task" /\ L2 = L
         \/ e.msg = "Increment" /\ c \notin L /\ L2 = L \cup {c}
         \/ e.msg = "Decrement" /\ c \in L /\ L2 = L \ {c}
  PROVE  Append(q, e) \in Seq(Queue!Node) /\ Counted(Append(q, e), r, L2)
<1>. DEFINE p == Append(q, e)
            n == Len(q)
<1>1. p \in Seq(Queue!Node) /\ Len(p) = n + 1 /\ n \in Nat
  OBVIOUS
<1>. HIDE DEF p, n
<1>2. IsFiniteSet(L) /\ Cardinality(L) \in Nat /\ Cardinality(L) # 0
  BY FS_CardinalityType, FS_EmptySet DEF Counted
<1>3. /\ Num(p, n + 1, "Increment") = Num(q, n, "Increment") + (IF e.msg = "Increment" THEN 1 ELSE 0)
      /\ Num(p, n + 1, "Decrement") = Num(q, n, "Decrement") + (IF e.msg = "Decrement" THEN 1 ELSE 0)
      /\ \A k \in 0..n : /\ Num(p, k, "Increment") = Num(q, k, "Increment")
                         /\ Num(p, k, "Decrement") = Num(q, k, "Decrement")
  <2>1. ASSUME NEW m
        PROVE  /\ \A k \in 0..n : Num(p, k, m) = Num(q, k, m)
               /\ Num(p, n + 1, m) = Num(q, n, m) + IF e.msg = m THEN 1 ELSE 0
    BY NumAppend DEF p, n
  <2>. QED
    BY <2>1
<1>4. Num(q, n, "Increment") \in Nat /\ Num(q, n, "Decrement") \in Nat
  BY <1>1, PlacesFinite
<1>5. Net(q, r, n) = Cardinality(L) /\ \A k \in 0..(n - 1) : Net(q, r, k) > 0
  BY DEF Counted, n
<1>6. ASSUME NEW k \in 0..n PROVE Net(p, r, k) > 0
  <2>1. Net(p, r, k) = Net(q, r, k)
    BY <1>3 DEF Net
  <2>. QED
    BY ONLY <1>1, <1>2, <1>5, <2>1
<1>7. IsFiniteSet(L2) /\ Net(p, r, n + 1) = Cardinality(L2)
  <2>1. CASE e.msg = "Task" /\ L2 = L
    <3>1. Net(p, r, n + 1) = Net(q, r, n)
      BY <1>3, <1>4, <2>1 DEF Net
    <3>. QED
      BY <1>2, <1>5, <2>1, <3>1
  <2>2. CASE e.msg = "Increment" /\ c \notin L /\ L2 = L \cup {c}
    <3>1. Net(p, r, n + 1) = Net(q, r, n) + 1
      BY <1>3, <1>4, <2>2 DEF Net
    <3>2. IsFiniteSet(L2) /\ Cardinality(L2) = Cardinality(L) + 1
      BY <1>2, <2>2, FS_AddElement
    <3>. QED
      BY <1>5, <3>1, <3>2
  <2>3. CASE e.msg = "Decrement" /\ c \in L /\ L2 = L \ {c}
    <3>1. Net(p, r, n + 1) = Net(q, r, n) - 1
      BY <1>3, <1>4, <2>3 DEF Net
    <3>2. IsFiniteSet(L2) /\ Cardinality(L2) = Cardinality(L) - 1
      BY <1>2, <2>3, FS_RemoveElement
    <3>. QED
      BY <1>5, <3>1, <3>2
  <2>. QED
    BY <2>1, <2>2, <2>3
<1>8. \A k \in 0..(Len(p) - 1) : Net(p, r, k) > 0
  BY <1>1, <1>6
<1>9. Counted(p, r, L2)
  BY ONLY <1>1, <1>7, <1>8 DEF Counted
<1>. QED
  BY <1>1, <1>9 DEF p

\* async_cb pops the first message and does what it says to the count, which
\* was not 0.
LEMMA CountedTail ==
  ASSUME NEW q \in Seq(Queue!Node), NEW r \in Nat, NEW L, Counted(q, r, L), q # <<>>,
         NEW r2,
         \/ Head(q).msg = "Task" /\ r2 = r
         \/ Head(q).msg = "Increment" /\ r2 = r + 1
         \/ Head(q).msg = "Decrement" /\ r2 = r - 1
  PROVE  Tail(q) \in Seq(Queue!Node) /\ r2 \in Nat /\ Counted(Tail(q), r2, L)
<1>. DEFINE p == Tail(q)
            n == Len(q)
<1>1. p \in Seq(Queue!Node) /\ Len(p) = n - 1 /\ n \in Nat \ {0}
  OBVIOUS
<1>2. PICK m : m = Head(q).msg
  OBVIOUS
<1>. HIDE DEF p, n
<1>3. r > 0
  <2>1. Net(q, r, 0) > 0
    BY <1>1 DEF Counted, n
  <2>. QED
    BY <2>1, NumNone DEF Net
<1>4. ASSUME NEW k \in 0..(n - 1) PROVE Net(p, r2, k) = Net(q, r, k + 1)
  <2>1. /\ Num(q, k + 1, "Increment") = Num(p, k, "Increment") + (IF m = "Increment" THEN 1 ELSE 0)
        /\ Num(q, k + 1, "Decrement") = Num(p, k, "Decrement") + (IF m = "Decrement" THEN 1 ELSE 0)
    BY <1>2, NumTail DEF p, n
  <2>2. Num(p, k, "Increment") \in Nat /\ Num(p, k, "Decrement") \in Nat
    BY <1>1, PlacesFinite
  <2>3. CASE m = "Task" /\ r2 = r
    BY <2>1, <2>2, <2>3 DEF Net
  <2>4. CASE m = "Increment" /\ r2 = r + 1
    BY <2>1, <2>2, <2>4 DEF Net
  <2>5. CASE m = "Decrement" /\ r2 = r - 1
    BY <2>1, <2>2, <2>5 DEF Net
  <2>. QED
    BY <1>2, <2>3, <2>4, <2>5
<1>5. IsFiniteSet(L) /\ Net(p, r2, Len(p)) = Cardinality(L)
  <2>1. Net(p, r2, n - 1) = Net(q, r, (n - 1) + 1)
    BY <1>1, <1>4
  <2>2. (n - 1) + 1 = n
    BY <1>1
  <2>. QED
    BY <1>1, <2>1, <2>2 DEF Counted, n
<1>6. ASSUME NEW k \in 0..(Len(p) - 1) PROVE Net(p, r2, k) > 0
  <2>1. k \in 0..(n - 1) /\ k + 1 \in 0..(n - 1)
    BY <1>1
  <2>2. Net(q, r, k + 1) > 0
    BY <2>1 DEF Counted, n
  <2>. QED
    BY <1>4, <2>1, <2>2
<1>7. Counted(p, r2, L)
  BY ONLY <1>5, <1>6 DEF Counted
<1>8. r2 \in Nat
  BY <1>3
<1>. QED
  BY <1>1, <1>7, <1>8 DEF p

\* Linking a node changes no message.
LEMMA CountedLink ==
  ASSUME NEW q \in Seq(Queue!Node), NEW r, NEW L, Counted(q, r, L), NEW p \in Seq(Queue!Node),
         Len(p) = Len(q), \A i \in 1..Len(q) : p[i].msg = q[i].msg
  PROVE  Counted(p, r, L)
<1>1. ASSUME NEW k \in 0..Len(q) PROVE Net(p, r, k) = Net(q, r, k)
  <2>1. \A m : Places(p, k, m) = Places(q, k, m)
    BY DEF Places
  <2>. QED
    BY ONLY <2>1 DEF Net, Num
<1>2. Len(q) \in 0..Len(q) /\ 0..(Len(q) - 1) \subseteq 0..Len(q)
  OBVIOUS
<1>. QED
  BY <1>1, <1>2 DEF Counted

\* QueuePool::queue counts a Queue without a message.
LEMMA CountedNew ==
  ASSUME NEW q \in Seq(Queue!Node), NEW r \in Nat, NEW L, Counted(q, r, L), NEW c, c \notin L
  PROVE  Counted(q, r + 1, L \cup {c})
<1>1. ASSUME NEW k \in 0..Len(q) PROVE Net(q, r + 1, k) = Net(q, r, k) + 1 /\ Net(q, r, k) \in Int
  <2>1. Num(q, k, "Increment") \in Nat /\ Num(q, k, "Decrement") \in Nat
    BY PlacesFinite
  <2>. QED
    BY <2>1 DEF Net
<1>2. Len(q) \in 0..Len(q) /\ 0..(Len(q) - 1) \subseteq 0..Len(q)
  OBVIOUS
<1>3. IsFiniteSet(L \cup {c}) /\ Cardinality(L \cup {c}) = Cardinality(L) + 1
  BY FS_AddElement DEF Counted
<1>4. Net(q, r + 1, Len(q)) = Cardinality(L \cup {c})
  BY <1>1, <1>2, <1>3 DEF Counted
<1>5. \A k \in 0..(Len(q) - 1) : Net(q, r + 1, k) > 0
  BY <1>1, <1>2 DEF Counted
<1>. QED
  BY <1>3, <1>4, <1>5 DEF Counted

\* With the count at 0 there is no Queue left and no message.
LEMMA CountedOut ==
  ASSUME NEW q \in Seq(Queue!Node), NEW L, Counted(q, 0, L)
  PROVE  q = <<>> /\ L = {}
<1>1. q = <<>>
  <2>1. SUFFICES ASSUME q # <<>> PROVE FALSE
    OBVIOUS
  <2>2. 0 \in 0..(Len(q) - 1)
    BY <2>1
  <2>3. Net(q, 0, 0) > 0
    BY <2>2 DEF Counted
  <2>. QED
    BY <2>3, NumNone DEF Net
<1>2. Net(q, 0, 0) = Cardinality(L)
  BY <1>1 DEF Counted
<1>3. Cardinality(L) = 0
  BY <1>2, NumNone DEF Net
<1>. QED
  BY <1>1, <1>3, FS_EmptySet DEF Counted

\* The Queues that count.
Counting == {q \in Queues : q_qpc[q] \in Queue!Live}

\* A drop between its Decrement and the end of its hold on the lock.
Unlocking == {"dropReserved", "dropLinked", "dropSent"}

\* Queue!TypeOK without the flags.
QueueTypes ==
  /\ q_qpc \in [Queues -> Queue!QPC] /\ q_cloned \in [Queues -> Queues]
  /\ q_queue \in Seq(Queue!Node) /\ q_refcnt \in Nat /\ q_stage \in Queue!Stage
  /\ q_waking \in Queues \cup {None} /\ q_handle \in {"open", "closing", "closed", "freed"}

\* async_cb resumes the task of a Queue; a clone in progress has a new Queue of
\* its own; while the loop polls, a drop that has not unlocked sees a count that
\* is not 0, for async_cb waited for the lock when it was; and an ended loop has
\* neither Queues nor drops that still have to unlock.
QueuePlaces ==
  /\ q_stage = "resume" => q_waking \in Queues
  /\ \A q \in Queues : q_qpc[q] = "cloneReserved" => q_qpc[q_cloned[q]] = "cloning"
  /\ \A p, q \in Queues :
       q_qpc[p] = "cloneReserved" /\ q_qpc[q] = "cloneReserved" /\ q_cloned[p] = q_cloned[q] => p = q
  /\ q_stage = "poll" => ((\E q \in Queues : q_qpc[q] \in Unlocking) => q_refcnt > 0)
  /\ Queue!Ended => \A q \in Queues : q_qpc[q] \notin Queue!Live \cup Unlocking

QueueCore == QueueTypes /\ QueuePlaces /\ Counted(q_queue, q_refcnt, Counting)

\* The drop of a Queue still has its Arc when it has unlocked.
Late == \E q \in Queues : q_qpc[q] = "dropUnlocked"

\* The handle is open until the pool goes, and afterwards as long as somebody is
\* late; it is freed with the loop; and the loop cannot be closed when the handle
\* was open at the moment of the pump.
QueueEnd ==
  /\ q_stage \in {"poll", "cb", "resume", "lock", "exited"} => q_handle = "open"
  /\ q_stage \in {"dropped", "pumped"} => q_handle # "freed"
  /\ q_stage = "freed" => q_handle = "freed"
  /\ Queue!Ended /\ q_stage # "exited" /\ q_handle = "open" => Late
  /\ q_failed => q_stage = "pumped" /\ q_handle # "closed"

QueueFlags == q_pend \in BOOLEAN /\ q_failed \in BOOLEAN

QueueInv == QueueFlags /\ QueueCore /\ QueueEnd

LEMMA QueueBound == None \notin Queues
BY UvLoopAssumptions DEF Queue!QueuesAssumption

\* QueueInv implies what the run checks of UvQueue.
LEMMA QueueInvImplies == QueueInv => QueueKeepsLoop
<1>. SUFFICES ASSUME QueueInv PROVE QueueKeepsLoop
  OBVIOUS
<1>. USE DEF QueueInv, QueueCore
<1>1. Queue!TypeOK
  BY DEF QueueFlags, QueueTypes, Queue!TypeOK
<1>2. Queue!CountExact
  <2>1. /\ Queue!Count("Increment") = Num(q_queue, Len(q_queue), "Increment")
        /\ Queue!Count("Decrement") = Num(q_queue, Len(q_queue), "Decrement")
    <3>1. DOMAIN q_queue = 1..Len(q_queue)
      BY DEF QueueTypes
    <3>2. ASSUME NEW m PROVE Queue!Count(m) = Num(q_queue, Len(q_queue), m)
      BY ONLY <3>1
      DEF Queue!Count, Num, Places, Cardinality, Queue!Cardinality, IsFiniteSet, Queue!IsFiniteSet
    <3>. QED
      BY <3>2
  <2>2. Queue!Cardinality(Counting) = Cardinality(Counting)
    BY ONLY TRUE DEF Cardinality, Queue!Cardinality, IsFiniteSet, Queue!IsFiniteSet
  <2>3. Net(q_queue, q_refcnt, Len(q_queue)) = Cardinality(Counting)
    BY DEF Counted
  <2>4. /\ Num(q_queue, Len(q_queue), "Increment") \in Nat
        /\ Num(q_queue, Len(q_queue), "Decrement") \in Nat /\ q_refcnt \in Nat
    BY PlacesFinite DEF QueueTypes
  <2>. QED
    BY ONLY <2>1, <2>2, <2>3, <2>4 DEF Queue!CountExact, Net, Counting
<1>3. Queue!LoopAlive /\ Queue!SignalledBeforeExit
  BY DEF QueuePlaces, Unlocking, Queue!LoopAlive, Queue!SignalledBeforeExit
<1>4. Queue!TeardownFailsLate
  <2>1. SUFFICES ASSUME q_failed = TRUE PROVE q_handle = "closing" \/ Late
    BY DEF Queue!TeardownFailsLate, QueueFlags, Late
  <2>2. q_stage = "pumped" /\ q_handle \notin {"closed", "freed"}
    BY <2>1 DEF QueueEnd
  <2>. QED
    BY <2>2 DEF QueueEnd, QueueTypes, Queue!Ended
<1>. QED
  BY <1>1, <1>2, <1>3, <1>4 DEF QueueKeepsLoop

\* The invariant of UvQueue holds for the pool without Queues.
LEMMA QueueInit == Queue!Init => QueueInv
<1>. SUFFICES ASSUME Queue!Init PROVE QueueInv
  OBVIOUS
<1>. USE DEF Queue!Init
<1>1. QueueFlags
  BY DEF QueueFlags
<1>2. QueueTypes
  BY DEF QueueTypes, Queue!QPC, Queue!Stage
<1>3. QueuePlaces
  BY DEF QueuePlaces, Unlocking, Queue!Ended
<1>4. Counted(q_queue, q_refcnt, Counting)
  <2>1. Counting = {} /\ q_queue = <<>> /\ q_refcnt = 0
    BY DEF Counting, Queue!Live
  <2>2. IsFiniteSet(Counting) /\ Cardinality(Counting) = 0
    BY <2>1, FS_EmptySet
  <2>3. Net(q_queue, 0, 0) = 0 /\ Len(q_queue) = 0
    BY <2>1, NumNone DEF Net
  <2>. QED
    BY <2>1, <2>2, <2>3 DEF Counted
<1>5. QueueEnd
  <2>1. ~q_failed
    OBVIOUS
  <2>. QED
    BY <2>1 DEF QueueEnd, Queue!Ended
<1>. QED
  BY <1>1, <1>2, <1>3, <1>4, <1>5 DEF QueueInv, QueueCore

\* Linking the node of q changes no message.
LEMMA LinkKeeps ==
  ASSUME QueueCore, NEW q \in Queues, q_queue' = q_queue \/ Queue!Link(q)
  PROVE  q_queue' \in Seq(Queue!Node) /\ Counted(q_queue', q_refcnt, Counting)
<1>. USE DEF QueueCore
<1>1. /\ q_queue' \in Seq(Queue!Node) /\ Len(q_queue') = Len(q_queue)
      /\ \A i \in 1..Len(q_queue) : q_queue'[i].msg = q_queue[i].msg
  <2>1. CASE q_queue' = q_queue
    BY <2>1 DEF QueueTypes
  <2>2. CASE Queue!Link(q)
    <3>1. q_queue \in Seq(Queue!Node) /\ DOMAIN q_queue = 1..Len(q_queue) /\ Len(q_queue) \in Nat
      BY DEF QueueTypes
    <3>2. ASSUME NEW i \in 1..Len(q_queue)
          PROVE  /\ q_queue'[i] \in Queue!Node /\ q_queue'[i].msg = q_queue[i].msg
      <4>1. q_queue[i] \in Queue!Node
        BY <3>1
      <4>2. q_queue'[i] = IF q_queue[i].by = q THEN [q_queue[i] EXCEPT !.linked = TRUE] ELSE q_queue[i]
        BY <2>2, <3>1 DEF Queue!Link
      <4>. QED
        BY <4>1, <4>2 DEF Queue!Node
    <3>3. q_queue' = [i \in 1..Len(q_queue) |-> q_queue'[i]]
      BY <2>2, <3>1 DEF Queue!Link
    <3>. QED
      BY <3>1, <3>2, <3>3
  <2>. QED
    BY <2>1, <2>2
<1>. QED
  BY <1>1, CountedLink DEF QueueTypes

\* A step of the task that has q, which neither counts nor uncounts, and links
\* at most the node it appended.
LEMMA LocalKeeps ==
  ASSUME QueueCore, NEW q \in Queues, NEW to \in Queue!QPC \ {"cloning", "cloneReserved"},
         q_qpc' = [q_qpc EXCEPT ![q] = to], q_qpc[q] # "cloning",
         q_qpc[q] \in Queue!Live <=> to \in Queue!Live,
         to \in Unlocking => q_qpc[q] \in Unlocking,
         q_queue' = q_queue \/ Queue!Link(q),
         q_handle' \in {"open", "closing", "closed", "freed"},
         UNCHANGED <<q_cloned, q_refcnt, q_stage, q_waking>>
  PROVE  QueueCore'
<1>. USE DEF QueueCore
<1>1. q_queue' \in Seq(Queue!Node) /\ Counted(q_queue', q_refcnt, Counting)
  BY LinkKeeps
<1>2. QueueTypes'
  BY <1>1 DEF QueueTypes
<1>3. QueuePlaces'
  BY DEF QueueTypes, QueuePlaces, Queue!Ended
<1>4. Counting' = Counting
  BY DEF QueueTypes, Counting
<1>. QED
  BY <1>1, <1>2, <1>3, <1>4

\* The steps that append a message, and NewQueue, which counts without one.
LEMMA CountingKeeps ==
  ASSUME QueueCore, NEW q \in Queues,
         \/ Queue!NewQueue(q) \/ Queue!PushReserve(q) \/ Queue!DropReserve(q)
         \/ \E c \in Queues : Remote!CloneReserve(q, c) \/ Queue!CloneHere(q, c)
  PROVE  QueueCore'
<1>0. QueueTypes /\ QueuePlaces /\ Counted(q_queue, q_refcnt, Counting)
  BY DEF QueueCore
<1>. DEFINE Msg(m, linked) == [msg |-> m, by |-> q, linked |-> linked]
<1>1. ASSUME NEW m \in {"Task", "Increment", "Decrement"}, NEW linked \in BOOLEAN
      PROVE  Msg(m, linked) \in Queue!Node
  BY DEF Queue!Node
<1>2. ASSUME Queue!NewQueue(q) PROVE QueueCore'
  <2>1. /\ q_stage = "poll" /\ q_qpc[q] = "none" /\ q_qpc' = [q_qpc EXCEPT ![q] = "idle"]
        /\ q_refcnt' = q_refcnt + 1 /\ UNCHANGED <<q_cloned, q_queue, q_stage, q_waking, q_handle>>
    BY <1>2 DEF Queue!NewQueue, Queue!Step
  <2>2. q_refcnt \in Nat /\ q_queue \in Seq(Queue!Node)
    BY <1>0 DEF QueueTypes
  <2>3. q_refcnt' \in Nat /\ q_refcnt' > 0
    BY ONLY <2>1, <2>2
  <2>4. QueueTypes'
    BY <1>0, <2>1, <2>3 DEF QueueTypes, Queue!QPC
  <2>5. QueuePlaces'
    BY <1>0, <2>1, <2>3 DEF QueueTypes, QueuePlaces, Queue!Ended
  <2>6. q \notin Counting /\ Counting' = Counting \cup {q}
    BY <1>0, <2>1 DEF QueueTypes, Counting, Queue!Live
  <2>7. Counted(q_queue, q_refcnt + 1, Counting \cup {q})
    BY ONLY <1>0, <2>2, <2>6, CountedNew
  <2>. QED
    BY <2>1, <2>4, <2>5, <2>6, <2>7 DEF QueueCore
<1>3. ASSUME NEW e \in Queue!Node, NEW c, Counting # {},
             \/ e.msg = "Task" /\ Counting' = Counting
             \/ e.msg = "Increment" /\ c \notin Counting /\ Counting' = Counting \cup {c}
             \/ e.msg = "Decrement" /\ c \in Counting /\ Counting' = Counting \ {c},
             q_queue' = Append(q_queue, e), q_refcnt' = q_refcnt
      PROVE  q_queue' \in Seq(Queue!Node) /\ Counted(q_queue, q_refcnt, Counting)' /\ q_refcnt > 0
  <2>1. q_queue \in Seq(Queue!Node) /\ q_refcnt \in Nat
    BY <1>0 DEF QueueTypes
  <2>2. PICK L2 : L2 = Counting'
    OBVIOUS
  <2>3. Append(q_queue, e) \in Seq(Queue!Node) /\ Counted(Append(q_queue, e), q_refcnt, L2)
    BY ONLY <1>0, <1>3, <2>1, <2>2, CountedAppend
  <2>4. q_refcnt # 0
    BY <1>0, <1>3, <2>1, CountedOut
  <2>. QED
    BY <1>3, <2>1, <2>2, <2>3, <2>4
<1>4. ASSUME Queue!PushReserve(q) PROVE QueueCore'
  <2>1. /\ q_qpc[q] = "idle" /\ q_qpc' = [q_qpc EXCEPT ![q] = "pushReserved"]
        /\ q_queue' = Append(q_queue, Msg("Task", FALSE))
        /\ UNCHANGED <<q_cloned, q_refcnt, q_stage, q_waking, q_handle>>
    BY <1>4 DEF Queue!PushReserve, Queue!Step, Queue!Reserve, Queue!loopv
  <2>2. Counting # {} /\ Counting' = Counting
    BY <1>0, <2>1 DEF QueueTypes, Counting, Queue!Live
  <2>3. q_queue' \in Seq(Queue!Node) /\ Counted(q_queue, q_refcnt, Counting)'
    BY <1>1, <1>3, <2>1, <2>2
  <2>4. QueueTypes'
    BY <1>0, <2>1, <2>3 DEF QueueTypes, Queue!QPC
  <2>5. QueuePlaces'
    BY <1>0, <2>1 DEF QueueTypes, QueuePlaces, Queue!Ended, Queue!Live, Unlocking
  <2>. QED
    BY <2>3, <2>4, <2>5 DEF QueueCore
<1>5. ASSUME Queue!DropReserve(q) PROVE QueueCore'
  <2>1. /\ q_qpc[q] = "dropLocked" /\ q_qpc' = [q_qpc EXCEPT ![q] = "dropReserved"]
        /\ q_queue' = Append(q_queue, Msg("Decrement", FALSE))
        /\ UNCHANGED <<q_cloned, q_refcnt, q_stage, q_waking, q_handle>>
    BY <1>5 DEF Queue!DropReserve, Queue!Step, Queue!Reserve, Queue!loopv
  <2>2. q \in Counting /\ Counting' = Counting \ {q}
    BY <1>0, <2>1 DEF QueueTypes, Counting, Queue!Live
  <2>3. q_queue' \in Seq(Queue!Node) /\ Counted(q_queue, q_refcnt, Counting)' /\ q_refcnt > 0
    BY <1>1, <1>3, <2>1, <2>2
  <2>4. QueueTypes'
    BY <1>0, <2>1, <2>3 DEF QueueTypes, Queue!QPC
  <2>5. QueuePlaces'
    BY <1>0, <2>1, <2>3 DEF QueueTypes, QueuePlaces, Queue!Ended, Queue!Live, Unlocking
  <2>. QED
    BY <2>3, <2>4, <2>5 DEF QueueCore
<1>6. ASSUME NEW c \in Queues, Remote!CloneReserve(q, c) PROVE QueueCore'
  <2>1. /\ q_qpc[q] = "idle" /\ q_qpc[c] = "none"
        /\ q_qpc' = [q_qpc EXCEPT ![q] = "cloneReserved", ![c] = "cloning"]
        /\ q_queue' = Append(q_queue, Msg("Increment", FALSE))
        /\ q_cloned' = [q_cloned EXCEPT ![q] = c]
        /\ UNCHANGED <<q_refcnt, q_stage, q_waking, q_handle>>
    BY <1>6 DEF Remote!CloneReserve, Remote!Reserve, Remote!loopv
  <2>2. Counting # {} /\ c \notin Counting /\ Counting' = Counting \cup {c}
    BY <1>0, <2>1 DEF QueueTypes, Counting, Queue!Live
  <2>3. q_queue' \in Seq(Queue!Node) /\ Counted(q_queue, q_refcnt, Counting)'
    BY <1>1, <1>3, <2>1, <2>2
  <2>4. QueueTypes'
    BY <1>0, <2>1, <2>3 DEF QueueTypes, Queue!QPC
  <2>5. QueuePlaces'
    BY <1>0, <2>1 DEF QueueTypes, QueuePlaces, Queue!Ended, Queue!Live, Unlocking
  <2>. QED
    BY <2>3, <2>4, <2>5 DEF QueueCore
<1>7. ASSUME NEW c \in Queues, Queue!CloneHere(q, c) PROVE QueueCore'
  <2>1. /\ q_stage = "poll" /\ q_qpc[q] = "idle" /\ q_qpc[c] = "none"
        /\ q_qpc' = [q_qpc EXCEPT ![c] = "idle"]
        /\ q_queue' = Append(q_queue, Msg("Increment", TRUE))
        /\ UNCHANGED <<q_cloned, q_refcnt, q_stage, q_waking, q_handle>>
    BY <1>7 DEF Queue!CloneHere, Queue!loopv
  <2>2. Counting # {} /\ c \notin Counting /\ Counting' = Counting \cup {c}
    BY <1>0, <2>1 DEF QueueTypes, Counting, Queue!Live
  <2>3. q_queue' \in Seq(Queue!Node) /\ Counted(q_queue, q_refcnt, Counting)'
    BY <1>1, <1>3, <2>1, <2>2
  <2>4. QueueTypes'
    BY <1>0, <2>1, <2>3 DEF QueueTypes, Queue!QPC
  <2>5. QueuePlaces'
    BY <1>0, <2>1 DEF QueueTypes, QueuePlaces, Queue!Ended, Unlocking
  <2>. QED
    BY <2>3, <2>4, <2>5 DEF QueueCore
<1>. QED
  BY <1>2, <1>4, <1>5, <1>6, <1>7

\* The other steps of the task that has q.
LEMMA OtherLocalKeeps ==
  ASSUME QueueCore, NEW q \in Queues,
         \/ Queue!PushLink(q) \/ Queue!PushSend(q) \/ Queue!CloneLink(q) \/ Queue!DropLock(q)
         \/ Queue!DropLink(q) \/ Queue!DropSend(q)
         \/ Queue!DropUnlock(q) \/ Queue!DropArc(q)
  PROVE  QueueCore'
<1>0. QueueTypes /\ QueuePlaces /\ Counted(q_queue, q_refcnt, Counting)
  BY DEF QueueCore
<1>1. ASSUME NEW from, NEW to \in Queue!QPC \ {"cloning", "cloneReserved"},
             q_qpc[q] = from, from # "cloning", q_qpc' = [q_qpc EXCEPT ![q] = to],
             from \in Queue!Live <=> to \in Queue!Live, to \in Unlocking => from \in Unlocking,
             q_queue' = q_queue \/ Queue!Link(q),
             q_handle' = q_handle \/ q_handle' = "closing",
             UNCHANGED <<q_cloned, q_refcnt, q_stage, q_waking>>
      PROVE  QueueCore'
  <2>1. q_handle' \in {"open", "closing", "closed", "freed"}
    BY <1>0, <1>1 DEF QueueTypes
  <2>. QED
    BY ONLY QueueCore, <1>1, <2>1, LocalKeeps
<1>. USE DEF Queue!QPC, Queue!Live, Unlocking, Queue!Step, Queue!loopv
<1>2. ASSUME Queue!PushLink(q) PROVE QueueCore'
  BY <1>1, <1>2 DEF Queue!PushLink
<1>3. ASSUME Queue!PushSend(q) PROVE QueueCore'
  BY <1>1, <1>3 DEF Queue!PushSend
<1>4. ASSUME Queue!DropLock(q) PROVE QueueCore'
  BY <1>1, <1>4 DEF Queue!DropLock
<1>5. ASSUME Queue!DropLink(q) PROVE QueueCore'
  BY <1>1, <1>5 DEF Queue!DropLink
<1>6. ASSUME Queue!DropSend(q) PROVE QueueCore'
  BY <1>1, <1>6 DEF Queue!DropSend
<1>7. ASSUME Queue!DropUnlock(q) PROVE QueueCore'
  BY <1>1, <1>7 DEF Queue!DropUnlock
<1>8. ASSUME Queue!DropArc(q) PROVE QueueCore'
  BY <1>1, <1>8 DEF Queue!DropArc, Queue!Closing
<1>9. ASSUME Queue!CloneLink(q) PROVE QueueCore'
  <2>1. PICK c : c = q_cloned[q]
    OBVIOUS
  <2>2. /\ q_qpc[q] = "cloneReserved" /\ q_qpc' = [q_qpc EXCEPT ![q] = "idle", ![c] = "idle"]
        /\ Queue!Link(q) /\ UNCHANGED <<q_cloned, q_refcnt, q_stage, q_waking, q_handle>>
    BY <1>9, <2>1 DEF Queue!CloneLink
  <2>3. c \in Queues /\ q_qpc[c] = "cloning" /\ c # q
    BY <1>0, <2>1, <2>2 DEF QueueTypes, QueuePlaces
  <2>4. QueuePlaces'
    BY <1>0, <2>1, <2>2, <2>3 DEF QueueTypes, QueuePlaces, Queue!Ended
  <2>5. Counting' = Counting
    BY <1>0, <2>2, <2>3 DEF QueueTypes, Counting
  <2>6. q_queue' \in Seq(Queue!Node) /\ Counted(q_queue', q_refcnt, Counting)
    BY <2>2, LinkKeeps
  <2>7. QueueTypes'
    BY <1>0, <2>2, <2>3, <2>6 DEF QueueTypes
  <2>. QED
    BY <2>2, <2>4, <2>5, <2>6, <2>7 DEF QueueCore
<1>. QED
  BY <1>2, <1>3, <1>4, <1>5, <1>6, <1>7, <1>8, <1>9

\* The steps of the loop.
LEMMA LoopKeeps ==
  ASSUME QueueCore, Queue!LoopStep \/ Queue!Exit
  PROVE  QueueCore'
<1>0. QueueTypes /\ QueuePlaces /\ Counted(q_queue, q_refcnt, Counting)
  BY DEF QueueCore
<1>. USE <1>0
<1>1. ASSUME Queue!Dispatch PROVE QueueCore'
  <2>. USE <1>1 DEF Queue!Dispatch
  <2>1. QueueTypes' /\ QueuePlaces'
    BY DEF QueueTypes, QueuePlaces, Queue!Stage, Queue!Ended
  <2>. QED
    BY <2>1 DEF QueueCore, Counting
<1>2. ASSUME Queue!Pop PROVE QueueCore'
  <2>1. /\ q_stage = "cb" /\ q_queue # <<>> /\ q_queue' = Tail(q_queue)
        /\ UNCHANGED <<q_qpc, q_cloned, q_handle>>
    BY <1>2 DEF Queue!Pop
  <2>2. Head(q_queue) \in Queue!Node
    BY <2>1 DEF QueueTypes
  <2>3. \/ /\ Head(q_queue).msg = "Task" /\ q_refcnt' = q_refcnt
           /\ q_stage' = "resume" /\ q_waking' = Head(q_queue).by
        \/ /\ Head(q_queue).msg = "Increment" /\ q_refcnt' = q_refcnt + 1
           /\ UNCHANGED <<q_stage, q_waking>>
        \/ /\ Head(q_queue).msg = "Decrement" /\ q_refcnt' = q_refcnt - 1
           /\ UNCHANGED <<q_stage, q_waking>>
    BY <1>2, <2>2 DEF Queue!Pop, Queue!Node
  <2>4. q_queue' \in Seq(Queue!Node) /\ q_refcnt' \in Nat /\ Counted(q_queue', q_refcnt', Counting)
    <3>1. q_queue \in Seq(Queue!Node) /\ q_refcnt \in Nat
      BY DEF QueueTypes
    <3>2. PICK r2 : r2 = q_refcnt'
      OBVIOUS
    <3>3. \/ Head(q_queue).msg = "Task" /\ r2 = q_refcnt
          \/ Head(q_queue).msg = "Increment" /\ r2 = q_refcnt + 1
          \/ Head(q_queue).msg = "Decrement" /\ r2 = q_refcnt - 1
      BY ONLY <2>3, <3>2
    <3>4. /\ Tail(q_queue) \in Seq(Queue!Node) /\ r2 \in Nat
          /\ Counted(Tail(q_queue), r2, Counting)
      BY ONLY <1>0, <2>1, <3>1, <3>3, CountedTail
    <3>. QED
      BY ONLY <2>1, <3>2, <3>4
  <2>5. Head(q_queue).by \in Queues
    BY <2>2 DEF Queue!Node
  <2>6. /\ q_stage' \in {"cb", "resume"} /\ q_waking' \in Queues \cup {None}
        /\ q_stage' = "resume" => q_waking' \in Queues
    BY <2>1, <2>3, <2>5 DEF QueueTypes
  <2>7. QueueTypes'
    BY <2>1, <2>4, <2>6 DEF QueueTypes, Queue!Stage
  <2>8. QueuePlaces'
    BY <2>1, <2>6 DEF QueuePlaces, Queue!Ended
  <2>. QED
    BY <2>1, <2>4, <2>7, <2>8 DEF QueueCore, Counting
<1>3. ASSUME Queue!Resume PROVE QueueCore'
  <2>1. PICK q \in Queues : q = q_waking
    BY <1>3 DEF Queue!Resume, QueuePlaces
  <2>2. /\ q_qpc[q] = "away" /\ q_qpc' = [q_qpc EXCEPT ![q] = "idle"]
        /\ q_stage' = "cb" /\ q_waking' = None
        /\ UNCHANGED <<q_cloned, q_queue, q_refcnt, q_handle>>
    BY <1>3, <2>1 DEF Queue!Resume, Queue!Step
  <2>3. QueueTypes'
    BY <2>2 DEF QueueTypes, Queue!QPC, Queue!Stage
  <2>4. QueuePlaces'
    BY <2>2 DEF QueueTypes, QueuePlaces, Queue!Ended
  <2>5. Counting' = Counting
    BY <2>2 DEF QueueTypes, Counting, Queue!Live
  <2>. QED
    BY <2>2, <2>3, <2>4, <2>5 DEF QueueCore
<1>4. ASSUME Queue!PopNothing PROVE QueueCore'
  <2>. USE <1>4 DEF Queue!PopNothing
  <2>1. q_refcnt # 0 => q_refcnt > 0
    BY DEF QueueTypes
  <2>2. QueueTypes' /\ QueuePlaces'
    BY <2>1 DEF QueueTypes, QueuePlaces, Queue!Stage, Queue!Ended
  <2>. QED
    BY <2>2 DEF QueueCore, Counting
<1>5. ASSUME Queue!TakeLock PROVE QueueCore'
  <2>. USE <1>5 DEF Queue!TakeLock
  <2>1. \A q \in Queues : q_qpc[q] \notin Unlocking
    BY DEF Queue!LockFree, Unlocking
  <2>2. QueueTypes' /\ QueuePlaces'
    BY <2>1 DEF QueueTypes, QueuePlaces, Queue!Stage, Queue!Ended
  <2>. QED
    BY <2>2 DEF QueueCore, Counting
<1>6. ASSUME Queue!Exit PROVE QueueCore'
  <2>. USE <1>6 DEF Queue!Exit
  <2>1. Counting = {}
    BY CountedOut DEF QueueTypes
  <2>2. \A q \in Queues : q_qpc[q] \notin Queue!Live \cup Unlocking
    BY <2>1 DEF Counting, QueuePlaces
  <2>3. QueueTypes' /\ QueuePlaces'
    BY <2>2 DEF QueueTypes, QueuePlaces, Queue!Stage, Queue!Ended
  <2>. QED
    BY <2>3 DEF QueueCore, Counting
<1>7. ASSUME q_stage \in {"exited", "dropped", "pumped"},
             q_stage' \in {"exited", "dropped", "pumped", "freed"},
             q_handle' \in {"open", "closing", "closed", "freed"},
             UNCHANGED <<q_qpc, q_cloned, q_queue, q_refcnt, q_waking>>
      PROVE  QueueCore'
  <2>1. QueueTypes' /\ QueuePlaces'
    BY <1>7 DEF QueueTypes, QueuePlaces, Queue!Stage, Queue!Ended
  <2>. QED
    BY <1>7, <2>1 DEF QueueCore, Counting
<1>8. ASSUME Queue!DropPool \/ Queue!Pump \/ Queue!CloseLoop PROVE QueueCore'
  <2>1. q_handle' \in {"open", "closing", "closed", "freed"}
    BY <1>8 DEF Queue!DropPool, Queue!Closing, Queue!Pump, Queue!CloseLoop, QueueTypes
  <2>. QED
    BY <1>7, <1>8, <2>1 DEF Queue!DropPool, Queue!Pump, Queue!CloseLoop
<1>. QED
  BY <1>1, <1>2, <1>3, <1>4, <1>5, <1>6, <1>8 DEF Queue!LoopStep

\* Who is late when the pool goes keeps the handle open, and nobody else does.
LEMMA QueueEndStep ==
  ASSUME QueueFlags, QueueCore, QueueEnd,
         ~q_failed,
         \/ Queue!LoopStep \/ Queue!Exit
         \/ \E q \in Queues :
              \/ Queue!GoOn(q) \/ Queue!Begin(q)
              \/ \E c \in Queues : Remote!CloneReserve(q, c)
  PROVE  QueueEnd'
<1>0. /\ QueueTypes /\ QueuePlaces
      /\ q_stage \in {"poll", "cb", "resume", "lock", "exited"} => q_handle = "open"
  BY DEF QueueCore, QueueEnd
<1>1. ASSUME NEW q \in Queues, Queue!DropArc(q) PROVE QueueEnd'
  <2>1. /\ q_qpc[q] = "dropUnlocked" /\ q_qpc' = [q_qpc EXCEPT ![q] = "gone"]
        /\ UNCHANGED <<q_stage, q_failed>>
    BY <1>1 DEF Queue!DropArc, Queue!Step, Queue!loopv
  <2>2. CASE Queue!Ended /\ q_stage # "exited" /\ q_handle = "open"
    <3>1. CASE \A p \in Queues : q_qpc'[p] \in {"none", "gone"}
      <4>1. q_handle' = "closing"
        BY <1>1, <2>2, <3>1 DEF Queue!DropArc, Queue!Closing, Queue!Ended
      <4>. QED
        BY <2>1, <2>2, <4>1 DEF QueueEnd, Queue!Ended
    <3>2. CASE \E p \in Queues : q_qpc'[p] \notin {"none", "gone"}
      <4>1. PICK p \in Queues : q_qpc'[p] \notin {"none", "gone"}
        BY <3>2
      <4>2. q_qpc'[p] = q_qpc[p] /\ q_qpc[p] \in Queue!QPC
        BY <1>0, <2>1, <4>1 DEF QueueTypes
      <4>3. q_qpc'[p] = "dropUnlocked"
        BY <1>0, <2>2, <4>1, <4>2 DEF QueuePlaces, Queue!Live, Unlocking, Queue!QPC
      <4>4. Late'
        BY <4>3 DEF Late
      <4>5. q_handle' = q_handle
        BY <1>1, <3>2 DEF Queue!DropArc, Queue!Closing
      <4>. QED
        BY <2>1, <4>4, <4>5 DEF QueueEnd, Queue!Ended
    <3>. QED
      BY <3>1, <3>2
  <2>3. CASE ~(Queue!Ended /\ q_stage # "exited" /\ q_handle = "open")
    <3>1. q_handle' = q_handle
      BY <1>1, <2>3 DEF Queue!DropArc, Queue!Closing, Queue!Ended
    <3>. QED
      BY <2>1, <2>3, <3>1 DEF QueueEnd, Queue!Ended
  <2>. QED
    BY <2>2, <2>3
<1>2. ASSUME NEW q \in Queues, NEW c \in Queues,
             \/ Queue!GoOn(q) /\ ~Queue!DropArc(q)
             \/ Queue!Begin(q) \/ Remote!CloneReserve(q, c)
      PROVE  QueueEnd'
  <2>1. UNCHANGED <<q_stage, q_failed, q_handle>>
    BY <1>2
    DEF Queue!GoOn, Queue!Begin, Queue!PushLink, Queue!PushSend, Queue!CloneLink,
        Queue!DropReserve, Queue!DropLink, Queue!DropSend, Queue!DropUnlock,
        Queue!NewQueue, Queue!PushReserve, Queue!DropLock, Queue!CloneReserve, Queue!CloneHere,
        Queue!loopv, Remote!CloneReserve, Remote!loopv
  <2>2. ASSUME NEW p \in Queues, q_qpc[p] = "dropUnlocked" PROVE q_qpc'[p] = "dropUnlocked"
    <3>1. q_qpc[p] \notin {"none", "idle", "cloning", "cloneReserved"}
      BY <2>2
    <3>2. ASSUME NEW from, NEW to, from # "dropUnlocked",
                 q_qpc[q] = from, q_qpc' = [q_qpc EXCEPT ![q] = to]
          PROVE  q_qpc'[p] = "dropUnlocked"
      BY <1>0, <2>2, <3>2 DEF QueueTypes
    <3>3. ASSUME Queue!CloneLink(q) PROVE q_qpc'[p] = "dropUnlocked"
      <4>1. p # q /\ p # q_cloned[q]
        BY <1>0, <2>2, <3>3 DEF Queue!CloneLink, QueuePlaces
      <4>. QED
        BY <1>0, <2>2, <3>3, <4>1 DEF Queue!CloneLink, QueueTypes
    <3>4. ASSUME NEW d \in Queues, Remote!CloneReserve(q, d) PROVE q_qpc'[p] = "dropUnlocked"
      BY <1>0, <2>2, <3>4 DEF Remote!CloneReserve, QueueTypes
    <3>5. ASSUME NEW d \in Queues, Queue!CloneHere(q, d) PROVE q_qpc'[p] = "dropUnlocked"
      BY <1>0, <2>2, <3>5 DEF Queue!CloneHere, QueueTypes
    <3>6. ASSUME NEW d \in Queues PROVE ~Queue!CloneReserve(q, d)
      BY DEF Queue!CloneReserve
    <3>7. CASE \/ Queue!PushLink(q) \/ Queue!PushSend(q) \/ Queue!DropReserve(q)
               \/ Queue!DropLink(q) \/ Queue!DropSend(q) \/ Queue!DropUnlock(q)
               \/ Queue!NewQueue(q) \/ Queue!PushReserve(q) \/ Queue!DropLock(q)
      BY <3>2, <3>7
      DEF Queue!PushLink, Queue!PushSend, Queue!DropReserve, Queue!DropLink, Queue!DropSend,
          Queue!DropUnlock, Queue!NewQueue, Queue!PushReserve, Queue!DropLock, Queue!Step
    <3>. QED
      BY <1>2, <3>3, <3>4, <3>5, <3>6, <3>7 DEF Queue!GoOn, Queue!Begin
  <2>3. Late => Late'
    BY <2>2 DEF Late
  <2>. QED
    BY <2>1, <2>3 DEF QueueEnd, Queue!Ended
<1>3. ASSUME Queue!Dispatch \/ Queue!Pop \/ Queue!PopNothing \/ Queue!TakeLock \/ Queue!Exit
      PROVE  QueueEnd'
  <2>1. /\ q_failed' = q_failed /\ q_handle' = q_handle
        /\ q_stage \in {"poll", "cb", "lock"} /\ q_stage' \in {"poll", "cb", "resume", "lock", "exited"}
    <3>1. ASSUME Queue!Pop PROVE q_stage' \in {"cb", "resume"}
      <4>1. Head(q_queue) \in Queue!Node
        BY <1>0, <3>1 DEF Queue!Pop, QueueTypes
      <4>. QED
        BY <3>1, <4>1 DEF Queue!Pop, Queue!Node
    <3>. QED
      BY <1>3, <3>1
      DEF Queue!Dispatch, Queue!Pop, Queue!PopNothing, Queue!TakeLock, Queue!Exit
  <2>. QED
    BY <1>0, <2>1 DEF QueueEnd, Queue!Ended
<1>4. ASSUME Queue!Resume PROVE QueueEnd'
  <2>1. UNCHANGED <<q_failed, q_handle>> /\ q_stage = "resume" /\ q_stage' = "cb"
    BY <1>4 DEF Queue!Resume
  <2>. QED
    BY <1>0, <2>1 DEF QueueEnd, Queue!Ended
<1>5. ASSUME Queue!DropPool PROVE QueueEnd'
  <2>1. /\ q_stage = "exited" /\ q_stage' = "dropped" /\ q_handle = "open"
        /\ UNCHANGED <<q_qpc, q_failed>>
        /\ q_handle' = IF Queue!ArcHeld THEN "open" ELSE "closing"
    BY <1>0, <1>5 DEF Queue!DropPool, Queue!Closing
  <2>2. Queue!ArcHeld => Late'
    BY <1>0, <2>1
    DEF QueuePlaces, QueueTypes, Unlocking, Queue!Ended, Queue!ArcHeld, Queue!Live, Queue!QPC, Late
  <2>. QED
    BY <2>1, <2>2 DEF QueueEnd, Queue!Ended
<1>6. ASSUME Queue!Pump PROVE QueueEnd'
  <2>1. /\ q_stage = "dropped" /\ q_stage' = "pumped" /\ UNCHANGED <<q_qpc, q_failed>>
        /\ q_handle' = IF q_handle = "closing" THEN "closed" ELSE q_handle
    BY <1>6 DEF Queue!Pump
  <2>2. Late' = Late
    BY <2>1 DEF Late
  <2>. QED
    BY <2>1, <2>2 DEF QueueEnd, Queue!Ended
<1>7. ASSUME Queue!CloseLoop PROVE QueueEnd'
  <2>1. CASE q_handle = "closed"
    BY <1>7, <2>1 DEF Queue!CloseLoop, QueueEnd, Queue!Ended
  <2>2. CASE q_handle # "closed"
    <3>1. UNCHANGED <<q_stage, q_handle, q_qpc>> /\ q_stage = "pumped"
      BY <1>7, <2>2 DEF Queue!CloseLoop
    <3>2. Late' = Late
      BY <3>1 DEF Late
    <3>. QED
      BY <2>2, <3>1, <3>2 DEF QueueEnd, Queue!Ended
  <2>. QED
    BY <2>1, <2>2
<1>. QED
  BY <1>1, <1>2, <1>3, <1>4, <1>5, <1>6, <1>7 DEF Queue!LoopStep

\* The clone that is made on another thread is the one step that the two
\* instances of UvQueue do not share.
QueueAct(q) ==
  \/ Queue!PushLink(q) \/ Queue!PushSend(q) \/ Queue!CloneLink(q) \/ Queue!DropLock(q)
  \/ Queue!DropLink(q) \/ Queue!DropSend(q) \/ Queue!DropUnlock(q) \/ Queue!DropArc(q)
  \/ Queue!NewQueue(q) \/ Queue!PushReserve(q) \/ Queue!DropReserve(q)
  \/ \E c \in Queues : Remote!CloneReserve(q, c) \/ Queue!CloneHere(q, c)

LEMMA RemoteActions ==
  ASSUME Remote!Next
  PROVE  \/ UNCHANGED queueVars
         \/ ~q_failed /\ (Queue!LoopStep \/ Queue!Exit \/ \E q \in Queues : QueueAct(q))
<1>1. ASSUME NEW q \in Queues, Remote!GoOn(q)
      PROVE  \/ Queue!PushLink(q) \/ Queue!PushSend(q) \/ Queue!CloneLink(q)
             \/ Queue!DropLink(q) \/ Queue!DropSend(q) \/ Queue!DropUnlock(q) \/ Queue!DropArc(q)
             \/ Queue!DropReserve(q)
  <2>. USE DEF Queue!Step, Remote!Step, Queue!Link, Remote!Link, Queue!Reserve, Remote!Reserve,
               Queue!Send, Remote!Send, Queue!loopv, Remote!loopv
  <2>1. Remote!PushLink(q) => Queue!PushLink(q)
    BY DEF Queue!PushLink, Remote!PushLink
  <2>2. Remote!PushSend(q) => Queue!PushSend(q)
    BY DEF Queue!PushSend, Remote!PushSend
  <2>3. Remote!CloneLink(q) => Queue!CloneLink(q)
    BY DEF Queue!CloneLink, Remote!CloneLink
  <2>4. Remote!DropReserve(q) => Queue!DropReserve(q)
    BY DEF Queue!DropReserve, Remote!DropReserve
  <2>5. Remote!DropLink(q) => Queue!DropLink(q)
    BY DEF Queue!DropLink, Remote!DropLink
  <2>6. Remote!DropSend(q) => Queue!DropSend(q)
    BY DEF Queue!DropSend, Remote!DropSend
  <2>7. Remote!DropUnlock(q) => Queue!DropUnlock(q)
    BY DEF Queue!DropUnlock, Remote!DropUnlock
  <2>8. Remote!DropArc(q) => Queue!DropArc(q)
    BY DEF Queue!DropArc, Remote!DropArc, Queue!Closing, Remote!Closing
  <2>. QED
    BY ONLY <1>1, <2>1, <2>2, <2>3, <2>4, <2>5, <2>6, <2>7, <2>8 DEF Remote!GoOn
<1>2. ASSUME NEW q \in Queues, Remote!Begin(q)
      PROVE  \/ Queue!DropLock(q) \/ Queue!NewQueue(q) \/ Queue!PushReserve(q)
             \/ \E c \in Queues : Remote!CloneReserve(q, c) \/ Queue!CloneHere(q, c)
  <2>. USE DEF Queue!Step, Remote!Step, Queue!Reserve, Remote!Reserve, Queue!LockFree,
               Remote!LockFree, Queue!loopv, Remote!loopv
  <2>1. Remote!DropLock(q) => Queue!DropLock(q)
    BY DEF Queue!DropLock, Remote!DropLock
  <2>2. Remote!NewQueue(q) => Queue!NewQueue(q)
    BY DEF Queue!NewQueue, Remote!NewQueue
  <2>3. Remote!PushReserve(q) => Queue!PushReserve(q)
    BY DEF Queue!PushReserve, Remote!PushReserve
  <2>4. ASSUME NEW c \in Queues, Remote!CloneHere(q, c) PROVE Queue!CloneHere(q, c)
    BY <2>4 DEF Queue!CloneHere, Remote!CloneHere
  <2>. QED
    BY ONLY <1>2, <2>1, <2>2, <2>3, <2>4 DEF Remote!Begin
<1>3. ASSUME Remote!LoopStep \/ Remote!Exit PROVE Queue!LoopStep \/ Queue!Exit
  <2>1. Remote!Dispatch => Queue!Dispatch
    BY DEF Queue!Dispatch, Remote!Dispatch
  <2>2. Remote!Pop => Queue!Pop
    BY DEF Queue!Pop, Remote!Pop
  <2>3. Remote!Resume => Queue!Resume
    BY DEF Queue!Resume, Remote!Resume, Queue!Step, Remote!Step
  <2>4. Remote!PopNothing => Queue!PopNothing
    BY DEF Queue!PopNothing, Remote!PopNothing
  <2>5. Remote!TakeLock => Queue!TakeLock
    BY DEF Queue!TakeLock, Remote!TakeLock, Queue!LockFree, Remote!LockFree
  <2>6. Remote!DropPool => Queue!DropPool
    BY DEF Queue!DropPool, Remote!DropPool, Queue!Closing, Remote!Closing, Queue!ArcHeld,
       Remote!ArcHeld
  <2>7. Remote!Pump => Queue!Pump
    BY DEF Queue!Pump, Remote!Pump
  <2>8. Remote!CloseLoop => Queue!CloseLoop
    BY DEF Queue!CloseLoop, Remote!CloseLoop
  <2>9. Remote!Exit => Queue!Exit
    BY DEF Queue!Exit, Remote!Exit
  <2>. QED
    BY ONLY <1>3, <2>1, <2>2, <2>3, <2>4, <2>5, <2>6, <2>7, <2>8, <2>9
       DEF Queue!LoopStep, Remote!LoopStep
<1>4. Remote!Over => UNCHANGED queueVars
  BY DEF Remote!Over, Remote!vars, Remote!loopv, queueVars
<1>. QED
  BY <1>1, <1>2, <1>3, <1>4 DEF Remote!Next, QueueAct

\* Every step of the tasks and of the loop keeps the invariant of UvQueue.
LEMMA QueueStep ==
  ASSUME QueueInv, UNCHANGED part,
         \/ part # "UvQueue remote" /\ Queue!Next
         \/ part = "UvQueue remote" /\ Remote!Next
         \/ UNCHANGED queueVars
  PROVE  QueueInv'
<1>0. QueueFlags /\ QueueCore /\ QueueEnd
  BY DEF QueueInv
<1>1. \/ UNCHANGED queueVars
      \/ ~q_failed /\ (Queue!LoopStep \/ Queue!Exit \/ \E q \in Queues : QueueAct(q))
  <2>1. CASE Queue!Next
    <3>1. ASSUME NEW q \in Queues, NEW c \in Queues
          PROVE  ~Queue!CloneReserve(q, c)
      BY DEF Queue!CloneReserve
    <3>2. Queue!Over => UNCHANGED queueVars
      BY DEF Queue!Over, Queue!vars, Queue!loopv, queueVars
    <3>. QED
      BY <2>1, <3>1, <3>2 DEF Queue!Next, Queue!GoOn, Queue!Begin, QueueAct
  <2>2. CASE Remote!Next
    BY <2>2, RemoteActions
  <2>. QED
    BY <2>1, <2>2
<1>2. QueueCore'
  <2>1. CASE UNCHANGED queueVars
    <3>1. QueueTypes' /\ QueuePlaces'
      BY <1>0, <2>1 DEF queueVars, QueueCore, QueueTypes, QueuePlaces, Queue!Ended
    <3>2. Counted(q_queue, q_refcnt, Counting)'
      BY <1>0, <2>1 DEF queueVars, QueueCore, Counting
    <3>. QED
      BY <3>1, <3>2 DEF QueueCore
  <2>2. CASE ~UNCHANGED queueVars
    BY <1>0, <1>1, <2>2, LoopKeeps, CountingKeeps, OtherLocalKeeps DEF QueueAct
  <2>. QED
    BY <2>1, <2>2
<1>3. QueueEnd'
  <2>1. CASE UNCHANGED queueVars
    BY <1>0, <2>1 DEF queueVars, QueueEnd, Late, Queue!Ended
  <2>2. CASE ~UNCHANGED queueVars
    BY <1>0, <1>1, <2>2, QueueEndStep DEF QueueAct, Queue!GoOn, Queue!Begin
  <2>. QED
    BY <2>1, <2>2
<1>4. QueueFlags'
  <2>1. CASE UNCHANGED queueVars
    BY <1>0, <2>1 DEF queueVars, QueueFlags
  <2>2. CASE Queue!LoopStep \/ Queue!Exit
    BY <1>0, <2>2
    DEF QueueFlags, Queue!LoopStep, Queue!Dispatch, Queue!Pop, Queue!Resume, Queue!PopNothing,
        Queue!TakeLock, Queue!Exit, Queue!DropPool, Queue!Pump, Queue!CloseLoop
  <2>3. ASSUME NEW q \in Queues, QueueAct(q)
        PROVE  QueueFlags'
    BY <1>0, <2>3
    DEF QueueAct, QueueFlags, Queue!PushLink, Queue!PushSend, Queue!CloneLink, Queue!DropLock, Queue!DropLink,
        Queue!DropSend, Queue!DropArc, Queue!DropUnlock, Queue!NewQueue,
        Queue!PushReserve, Queue!DropReserve, Remote!CloneReserve, Queue!CloneHere, Queue!Send
  <2>. QED
    BY <1>1, <2>1, <2>2, <2>3
<1>. QED
  BY <1>2, <1>3, <1>4 DEF QueueInv

-----------------------------------------------------------------------------
(* FsTree.                                                                 *)

LEMMA FsBound ==
  /\ Depth \in Nat
  /\ \A p \in Plans :
       /\ p.tree \in [Fs!Paths -> Fs!Kind]
       /\ p.makes \in [Movers -> SUBSET Fs!Paths]
       /\ p.removes \in [Movers -> SUBSET (Fs!Paths \ {<<>>})]
       /\ \A t \in Movers : p.makes[t] = {} \/ p.removes[t] = {}
       /\ p.others \subseteq Fs!Change \X (Fs!Paths \ {<<>>}) /\ p.most \in Nat
BY UvLoopAssumptions DEF Fs!FsAssumption, Fs!IsPlan

\* The first k elements of a sequence.
LEMMA FirstOnes ==
  ASSUME NEW S, NEW s, NEW k \in Nat, \A i \in 1..k : s[i] \in S
  PROVE  /\ SubSeq(s, 1, k) \in Seq(S) /\ Len(SubSeq(s, 1, k)) = k
         /\ \A i \in 1..k : SubSeq(s, 1, k)[i] = s[i]
<1>1. 1 \in Int /\ k \in Int /\ k - 1 + 1 = k /\ (1 <= k \/ k = 0) /\ \A i \in 1..k : 1 + i - 1 = i
  OBVIOUS
<1>. QED
  BY ONLY <1>1, \A i \in 1..k : s[i] \in S, SubSeqProperties

\* The beginnings of a path are paths.
LEMMA PathPrefix ==
  ASSUME NEW p \in Fs!Paths
  PROVE  /\ p \in Seq(Names) /\ Len(p) \in 0..Depth /\ Len(p) \in Nat
         /\ SubSeq(p, 1, Len(p)) = p
         /\ \A n \in 0..Len(p) : SubSeq(p, 1, n) \in Fs!Paths /\ Len(SubSeq(p, 1, n)) = n
         /\ \A n \in 0..Len(p) : \A m \in 0..n : SubSeq(SubSeq(p, 1, n), 1, m) = SubSeq(p, 1, m)
<1>1. PICK d \in 0..Depth : p \in [1..d -> Names]
  BY DEF Fs!Paths
<1>2. d \in Nat /\ Len(p) = d /\ p \in Seq(Names)
  BY <1>1, FsBound
<1>. HIDE DEF Fs!Paths
<1>3. ASSUME NEW n \in 0..Len(p)
      PROVE  /\ SubSeq(p, 1, n) \in Seq(Names) /\ Len(SubSeq(p, 1, n)) = n /\ n \in 0..Depth
             /\ \A i \in 1..n : SubSeq(p, 1, n)[i] = p[i]
  <2>1. \A i \in 1..n : p[i] \in Names
    BY <1>1, <1>2
  <2>2. n \in Nat /\ n \in 0..Depth
    BY <1>2, FsBound
  <2>. QED
    BY ONLY <2>1, <2>2, FirstOnes
<1>4. SubSeq(p, 1, Len(p)) = p
  BY ONLY <1>2, SubSeqFull
<1>5. ASSUME NEW n \in 0..Len(p) PROVE SubSeq(p, 1, n) \in Fs!Paths
  <2>1. SubSeq(p, 1, n) \in [1..n -> Names]
    BY <1>3, LenProperties
  <2>. QED
    BY <1>3, <2>1 DEF Fs!Paths
<1>6. ASSUME NEW n \in 0..Len(p), NEW m \in 0..n
      PROVE  SubSeq(SubSeq(p, 1, n), 1, m) = SubSeq(p, 1, m)
  <2>1. /\ SubSeq(p, 1, n) \in Seq(Names) /\ Len(SubSeq(p, 1, n)) = n
        /\ \A i \in 1..n : SubSeq(p, 1, n)[i] = p[i]
    BY <1>3
  <2>2. m \in 0..Len(p) /\ m \in Nat /\ \A i \in 1..m : i \in 1..n
    BY <1>2
  <2>3. /\ SubSeq(p, 1, m) \in Seq(Names) /\ Len(SubSeq(p, 1, m)) = m
        /\ \A i \in 1..m : SubSeq(p, 1, m)[i] = p[i]
    BY <1>3, <2>2
  <2>4. \A i \in 1..m : SubSeq(p, 1, n)[i] \in Names
    BY <1>2, <2>1, <2>2, ElementOfSeq
  <2>5. /\ SubSeq(SubSeq(p, 1, n), 1, m) \in Seq(Names) /\ Len(SubSeq(SubSeq(p, 1, n), 1, m)) = m
        /\ \A i \in 1..m : SubSeq(SubSeq(p, 1, n), 1, m)[i] = SubSeq(p, 1, n)[i]
    BY ONLY <2>2, <2>4, FirstOnes
  <2>6. Len(SubSeq(SubSeq(p, 1, n), 1, m)) = Len(SubSeq(p, 1, m))
    BY <2>3, <2>5
  <2>7. \A i \in 1..Len(SubSeq(p, 1, m)) : SubSeq(SubSeq(p, 1, n), 1, m)[i] = SubSeq(p, 1, m)[i]
    BY ONLY <2>1, <2>2, <2>3, <2>5
  <2>. QED
    BY ONLY <2>3, <2>5, <2>6, <2>7, SeqEqual
<1>. QED
  BY <1>1, <1>2, <1>3, <1>4, <1>5, <1>6, FsBound

\* A path that is not empty is in its parent.
LEMMA PathParent ==
  ASSUME NEW p \in Fs!Paths, p # <<>>
  PROVE  Len(p) > 0 /\ Fs!Parent(p) = SubSeq(p, 1, Len(p) - 1) /\ Fs!Parent(p) \in Fs!Paths
<1>1. Len(p) > 0
  BY PathPrefix, EmptySeq
<1>. QED
  BY <1>1, PathPrefix DEF Fs!Parent, Fs!Front

LEMMA PathRoot == <<>> \in Fs!Paths
BY FsBound, EmptySeq DEF Fs!Paths

Within(p, d) == Len(d) <= Len(p) /\ SubSeq(p, 1, Len(d)) = d

\* What is directly below a path.
LEMMA BelowIsWithin ==
  ASSUME NEW d \in Fs!Paths, NEW c \in Fs!Below(d)
  PROVE  /\ c \in Fs!Paths \ {<<>>} /\ Fs!Parent(c) = d /\ ~Within(d, c)
         /\ \A p \in Fs!Paths : Within(p, c) => Within(p, d)
         /\ \A p \in Fs!Below(d) : Within(p, c) => p = c
<1>1. c \in Fs!Paths /\ Len(c) = Len(d) + 1 /\ SubSeq(c, 1, Len(d)) = d
  BY DEF Fs!Below
<1>2. Len(d) \in Nat /\ Len(c) \in Nat
  BY <1>1, PathPrefix
<1>3. c # <<>> /\ ~Within(d, c)
  BY <1>1, <1>2, EmptySeq DEF Within
<1>4. Fs!Parent(c) = d
  <2>1. Len(c) - 1 = Len(d)
    BY <1>1, <1>2
  <2>. QED
    BY <1>1, <1>3, <2>1, PathParent
<1>5. ASSUME NEW p \in Fs!Paths, Within(p, c) PROVE Within(p, d)
  <2>1. Len(c) <= Len(p) /\ SubSeq(p, 1, Len(c)) = c /\ Len(p) \in Nat
    BY <1>5, PathPrefix DEF Within
  <2>2. Len(c) \in 0..Len(p) /\ Len(d) \in 0..Len(c) /\ Len(d) <= Len(p)
    BY ONLY <1>1, <1>2, <2>1
  <2>3. SubSeq(SubSeq(p, 1, Len(c)), 1, Len(d)) = SubSeq(p, 1, Len(d))
    BY <2>2, PathPrefix
  <2>. QED
    BY <1>1, <2>1, <2>2, <2>3 DEF Within
<1>6. ASSUME NEW p \in Fs!Below(d), Within(p, c) PROVE p = c
  <2>1. p \in Fs!Paths /\ Len(p) = Len(c)
    BY <1>1, <1>2 DEF Fs!Below
  <2>. QED
    BY <1>6, <2>1, PathPrefix DEF Within
<1>. QED
  BY <1>1, <1>3, <1>4, <1>5, <1>6

\* What rm_stack and the children still to be looked at are like: each directory
\* is below an earlier one, none is above or at an earlier one, and the children
\* and what is on top of it are in the directory that was read last.
Descends(s, c) ==
  /\ s \in Seq(Fs!Paths \ {<<>>})
  /\ \A i \in 2..Len(s) : \E j \in 1..(i - 1) : s[j] = Fs!Parent(s[i])
  /\ \A i, j \in 1..Len(s) : i < j => ~Within(s[i], s[j])
  /\ s # <<>> =>
       \E b \in 1..Len(s) : /\ c \subseteq Fs!Below(s[b])
                            /\ \A i \in (b + 1)..Len(s) : s[i] \in Fs!Below(s[b]) \ c

\* The argument of rmdir_recursive.
LEMMA DescendsFirst ==
  ASSUME NEW p \in Fs!Paths \ {<<>>}
  PROVE  Descends(<<p>>, {})
<1>1. <<p>> \in Seq(Fs!Paths \ {<<>>}) /\ Len(<<p>>) = 1 /\ <<p>>[1] = p
  OBVIOUS
<1>2. 1 \in 1..1 /\ 2..1 = {} /\ (1 + 1)..1 = {} /\ \A i, j \in 1..1 : ~(i < j)
  OBVIOUS
<1>. QED
  BY ONLY <1>1, <1>2 DEF Descends

\* readdir of the directory on top.
LEMMA DescendsRead ==
  ASSUME NEW s, Descends(s, {}), s # <<>>, NEW c \in SUBSET Fs!Below(s[Len(s)])
  PROVE  Descends(s, c)
<1>1. Len(s) \in Nat \ {0}
  BY EmptySeq DEF Descends
<1>2. Len(s) \in 1..Len(s) /\ (Len(s) + 1)..Len(s) = {}
  BY ONLY <1>1
<1>. QED
  BY <1>2 DEF Descends

\* A child was looked at.
LEMMA DescendsLess ==
  ASSUME NEW s, NEW c, Descends(s, c), NEW d \in SUBSET c
  PROVE  Descends(s, d)
BY DEF Descends

\* A child is a directory and goes on top.
LEMMA DescendsPush ==
  ASSUME NEW s, NEW c, Descends(s, c), s # <<>>, NEW e \in c
  PROVE  Descends(Append(s, e), c \ {e})
<1>. DEFINE r == Append(s, e)
            n == Len(s)
<1>1. PICK b \in 1..n : /\ c \subseteq Fs!Below(s[b])
                        /\ \A i \in (b + 1)..n : s[i] \in Fs!Below(s[b]) \ c
  BY DEF Descends
<1>2. /\ s \in Seq(Fs!Paths \ {<<>>}) /\ n \in Nat \ {0} /\ s[b] \in Fs!Paths
      /\ \A i \in 1..n : s[i] \in Fs!Paths
  BY EmptySeq DEF Descends
<1>3. e \in Fs!Below(s[b])
  BY <1>1
<1>4. /\ e \in Fs!Paths \ {<<>>} /\ Fs!Parent(e) = s[b] /\ ~Within(s[b], e)
      /\ \A p \in Fs!Paths : Within(p, e) => Within(p, s[b])
      /\ \A p \in Fs!Below(s[b]) : Within(p, e) => p = e
  BY <1>2, <1>3, BelowIsWithin
<1>5. /\ r \in Seq(Fs!Paths \ {<<>>}) /\ Len(r) = n + 1 /\ r[n + 1] = e
      /\ \A i \in 1..n : r[i] = s[i]
  BY <1>2, <1>4, AppendProperties
<1>. HIDE DEF r
<1>6. ASSUME NEW i \in 1..n PROVE ~Within(s[i], e)
  <2>1. CASE i < b
    BY <1>2, <1>4, <2>1 DEF Descends
  <2>2. CASE i = b
    BY <1>4, <2>2
  <2>3. CASE i > b
    <3>1. i \in (b + 1)..n
      BY <1>2, <2>3
    <3>. QED
      BY <1>1, <1>4, <3>1
  <2>. QED
    BY <1>2, <2>1, <2>2, <2>3
<1>7. \A i \in 2..Len(r) : \E j \in 1..(i - 1) : r[j] = Fs!Parent(r[i])
  <2>1. ASSUME NEW i \in 2..Len(r) PROVE \E j \in 1..(i - 1) : r[j] = Fs!Parent(r[i])
    <3>1. CASE i = n + 1
      <4>1. b \in 1..(i - 1) /\ r[b] = s[b]
        BY <1>2, <1>5, <3>1
      <4>. QED
        BY <1>4, <1>5, <3>1, <4>1
    <3>2. CASE i # n + 1
      <4>1. i \in 2..n /\ r[i] = s[i] /\ \A j \in 1..(i - 1) : r[j] = s[j]
        BY <1>2, <1>5, <3>2
      <4>2. PICK j \in 1..(i - 1) : s[j] = Fs!Parent(s[i])
        BY <4>1 DEF Descends
      <4>. QED
        BY <4>1, <4>2
    <3>. QED
      BY <3>1, <3>2
  <2>. QED
    BY <2>1
<1>8. ASSUME NEW i \in 1..Len(r), NEW j \in 1..Len(r), i < j PROVE ~Within(r[i], r[j])
  <2>1. i \in 1..n /\ r[i] = s[i]
    BY <1>2, <1>5, <1>8
  <2>2. CASE j = n + 1
    BY <1>5, <1>6, <2>1, <2>2
  <2>3. CASE j # n + 1
    <3>1. j \in 1..n /\ r[j] = s[j]
      BY <1>2, <1>5, <2>3
    <3>. QED
      BY <1>8, <2>1, <3>1 DEF Descends
  <2>. QED
    BY <2>2, <2>3
<1>9. b \in 1..Len(r) /\ r[b] = s[b] /\ c \ {e} \subseteq Fs!Below(r[b])
  BY <1>1, <1>2, <1>5
<1>10. ASSUME NEW i \in (b + 1)..Len(r) PROVE r[i] \in Fs!Below(r[b]) \ (c \ {e})
  <2>1. CASE i = n + 1
    BY <1>3, <1>5, <1>9, <2>1
  <2>2. CASE i # n + 1
    <3>1. i \in (b + 1)..n /\ r[i] = s[i]
      BY <1>2, <1>5, <2>2
    <3>. QED
      BY <1>1, <1>9, <3>1
  <2>. QED
    BY <2>1, <2>2
<1>11. \E a \in 1..Len(r) : /\ c \ {e} \subseteq Fs!Below(r[a])
                            /\ \A i \in (a + 1)..Len(r) : r[i] \in Fs!Below(r[a]) \ (c \ {e})
  BY ONLY <1>9, <1>10
<1>12. \A i, j \in 1..Len(r) : i < j => ~Within(r[i], r[j])
  BY ONLY <1>8
<1>. QED
  BY ONLY <1>5, <1>7, <1>11, <1>12 DEF Descends, r

\* The directory on top is gone.
LEMMA DescendsPop ==
  ASSUME NEW s, Descends(s, {}), s # <<>>
  PROVE  /\ Descends(SubSeq(s, 1, Len(s) - 1), {})
         /\ Len(SubSeq(s, 1, Len(s) - 1)) = Len(s) - 1
         /\ \A i \in 1..(Len(s) - 1) : SubSeq(s, 1, Len(s) - 1)[i] = s[i]
<1>. DEFINE r == SubSeq(s, 1, Len(s) - 1)
            n == Len(s) - 1
<1>1. s \in Seq(Fs!Paths \ {<<>>}) /\ Len(s) \in Nat \ {0}
  BY EmptySeq DEF Descends
<1>2. n \in Nat /\ \A i \in 1..n : i \in 1..Len(s)
  BY ONLY <1>1
<1>3. \A i \in 1..n : s[i] \in Fs!Paths \ {<<>>}
  BY <1>1, <1>2, ElementOfSeq
<1>4. /\ r \in Seq(Fs!Paths \ {<<>>}) /\ Len(r) = n
      /\ \A i \in 1..n : r[i] = s[i]
  <2>1. PICK k : k = n
    OBVIOUS
  <2>2. k \in Nat /\ \A i \in 1..k : s[i] \in Fs!Paths \ {<<>>}
    BY ONLY <1>2, <1>3, <2>1
  <2>3. /\ SubSeq(s, 1, k) \in Seq(Fs!Paths \ {<<>>}) /\ Len(SubSeq(s, 1, k)) = k
        /\ \A i \in 1..k : SubSeq(s, 1, k)[i] = s[i]
    BY ONLY <2>2, FirstOnes
  <2>. QED
    BY ONLY <2>1, <2>3
<1>. HIDE DEF r
<1>5. ASSUME NEW i \in 2..Len(r) PROVE \E j \in 1..(i - 1) : r[j] = Fs!Parent(r[i])
  <2>1. i \in 2..Len(s) /\ r[i] = s[i] /\ \A j \in 1..(i - 1) : r[j] = s[j]
    BY <1>1, <1>4
  <2>. QED
    BY <2>1 DEF Descends
<1>6. \A i, j \in 1..Len(r) : i < j => ~Within(r[i], r[j])
  BY <1>2, <1>4 DEF Descends
<1>7. r # <<>> => \E b \in 1..Len(r) : \A i \in (b + 1)..Len(r) : r[i] \in Fs!Below(r[b]) \ {}
  <2>1. ASSUME r # <<>> PROVE Len(r) \in 1..Len(r) /\ (Len(r) + 1)..Len(r) = {}
    <3>1. Len(r) \in Nat \ {0}
      BY <1>4, <2>1, EmptySeq
    <3>. QED
      BY ONLY <3>1
  <2>. QED
    BY <2>1
<1>8. Descends(r, {})
  BY <1>4, <1>5, <1>6, <1>7 DEF Descends
<1>. QED
  BY <1>4, <1>8 DEF r

\* A file or a directory appears where there is nothing, in a directory.
LEMMA TreeGrows ==
  ASSUME NEW t \in [Fs!Paths -> Fs!Kind], Fs!IsTree(t),
         NEW p \in Fs!Paths, p # <<>>, t[p] = "none", t[Fs!Parent(p)] = "dir",
         NEW k \in Fs!Kind
  PROVE  Fs!IsTree([t EXCEPT ![p] = k])
<1>. DEFINE r == [t EXCEPT ![p] = k]
<1>1. r[p] = k /\ \A q \in Fs!Paths : q # p => r[q] = t[q]
  OBVIOUS
<1>2. r[<<>>] = "dir"
  BY <1>1, PathRoot DEF Fs!IsTree
<1>3. ASSUME NEW q \in Fs!Paths, NEW n \in 0..(Len(q) - 1), r[q] # "none"
      PROVE  r[SubSeq(q, 1, n)] = "dir"
  <2>1. /\ n \in 0..Len(q) /\ SubSeq(q, 1, n) \in Fs!Paths /\ Len(SubSeq(q, 1, n)) = n
        /\ Len(q) \in Nat /\ n < Len(q)
    <3>1. Len(q) \in Nat /\ n \in 0..(Len(q) - 1)
      BY PathPrefix
    <3>2. n \in 0..Len(q) /\ n < Len(q)
      BY ONLY <3>1
    <3>. QED
      BY <3>1, <3>2, PathPrefix
  <2>2. CASE q = p
    <3>1. Len(p) > 0 /\ Fs!Parent(p) = SubSeq(p, 1, Len(p) - 1) /\ Fs!Parent(p) \in Fs!Paths
      BY PathParent
    <3>2. t[SubSeq(p, 1, n)] = "dir"
      <4>1. CASE n = Len(p) - 1
        BY <3>1, <4>1
      <4>2. CASE n # Len(p) - 1
        <5>1. PICK m : m = Len(p) - 1
          OBVIOUS
        <5>2. m \in 0..Len(p) /\ n \in 0..m /\ n \in 0..(m - 1)
          BY <2>1, <2>2, <4>2, <5>1
        <5>3. Len(SubSeq(p, 1, m)) = m /\ SubSeq(SubSeq(p, 1, m), 1, n) = SubSeq(p, 1, n)
          BY <5>2, PathPrefix
        <5>4. Fs!Parent(p) = SubSeq(p, 1, m)
          BY <3>1, <5>1
        <5>. QED
          BY <3>1, <5>2, <5>3, <5>4 DEF Fs!IsTree
      <4>. QED
        BY <4>1, <4>2
    <3>3. SubSeq(p, 1, n) # p
      BY <2>1, <2>2
    <3>. QED
      BY <1>1, <2>1, <2>2, <3>2, <3>3
  <2>3. CASE q # p
    <3>1. t[SubSeq(q, 1, n)] = "dir"
      BY <1>1, <1>3, <2>3 DEF Fs!IsTree
    <3>. QED
      BY <1>1, <2>1, <3>1
  <2>. QED
    BY <2>2, <2>3
<1>. QED
  BY <1>2, <1>3 DEF Fs!IsTree

\* What has nothing in it goes.
LEMMA TreeShrinks ==
  ASSUME NEW t \in [Fs!Paths -> Fs!Kind], Fs!IsTree(t),
         NEW p \in Fs!Paths, p # <<>>,
         t[p] = "file" \/ \A q \in Fs!Below(p) : t[q] = "none"
  PROVE  Fs!IsTree([t EXCEPT ![p] = "none"])
<1>. DEFINE r == [t EXCEPT ![p] = "none"]
<1>1. r[p] = "none" /\ \A q \in Fs!Paths : q # p => r[q] = t[q]
  OBVIOUS
<1>2. r[<<>>] = "dir"
  BY <1>1, PathRoot DEF Fs!IsTree
<1>3. ASSUME NEW q \in Fs!Paths, NEW n \in 0..(Len(q) - 1), r[q] # "none"
      PROVE  r[SubSeq(q, 1, n)] = "dir"
  <2>1. /\ n \in 0..Len(q) /\ n + 1 \in 0..Len(q) /\ n \in 0..(n + 1) /\ n \in Nat
        /\ Len(q) \in Nat /\ (n + 1 = Len(q) \/ n + 1 \in 0..(Len(q) - 1))
    BY PathPrefix
  <2>2. /\ SubSeq(q, 1, n) \in Fs!Paths /\ Len(SubSeq(q, 1, n)) = n
        /\ SubSeq(q, 1, n + 1) \in Fs!Paths /\ Len(SubSeq(q, 1, n + 1)) = n + 1
        /\ SubSeq(SubSeq(q, 1, n + 1), 1, n) = SubSeq(q, 1, n)
        /\ SubSeq(q, 1, Len(q)) = q
    BY <2>1, PathPrefix
  <2>3. q # p /\ t[q] # "none"
    BY <1>1, <1>3
  <2>4. t[SubSeq(q, 1, n)] = "dir"
    BY <2>3 DEF Fs!IsTree
  <2>5. SubSeq(q, 1, n + 1) \in Fs!Below(SubSeq(q, 1, n))
    BY <2>2 DEF Fs!Below
  <2>6. t[SubSeq(q, 1, n + 1)] # "none"
    BY <2>1, <2>2, <2>3 DEF Fs!IsTree
  <2>7. SubSeq(q, 1, n) # p
    BY <2>4, <2>5, <2>6
  <2>. QED
    BY <1>1, <2>2, <2>4, <2>7
<1>. QED
  BY <1>2, <1>3 DEF Fs!IsTree

\* The errors of the file system calls.
LEMMA CallErrors ==
  ASSUME Fs!IsTree(f_fs), f_fs \in [Fs!Paths -> Fs!Kind], NEW p \in Fs!Paths
  PROVE  /\ Fs!LookupError(p) \in {"ENOENT", "ENOTDIR", "none"}
         /\ Fs!LookupError(p) = "none" <=> f_fs[p] # "none"
         /\ Fs!MkdirError(p) \in {"ENOENT", "ENOTDIR", "EEXIST", "none"}
         /\ Fs!MkdirError(p) = "none" => p # <<>> /\ f_fs[p] = "none" /\ f_fs[Fs!Parent(p)] = "dir"
         /\ Fs!ReaddirError(p) \in {"ENOENT", "ENOTDIR", "none"}
         /\ f_fs[p] = "dir" => Fs!ReaddirError(p) = "none"
         /\ Fs!UnlinkError(p) \in {"ENOENT", "ENOTDIR", "EISDIR", "none"}
         /\ Fs!UnlinkError(p) = "none" <=> f_fs[p] = "file"
         /\ Fs!RmdirError(p) \in {"ENOENT", "ENOTDIR", "ENOTEMPTY", "none"}
         /\ Fs!RmdirError(p) = "none" <=> f_fs[p] = "dir" /\ Fs!Children(p) = {}
         /\ Fs!RmdirError(p) = "ENOENT" => f_fs[p] = "none"
<1>1. f_fs[p] \in {"none", "file", "dir"} /\ f_fs[<<>>] = "dir"
  BY DEF Fs!Kind, Fs!IsTree
<1>2. Fs!LookupError(p) \in {"ENOENT", "ENOTDIR", "none"}
  BY DEF Fs!LookupError
<1>3. Fs!LookupError(p) = "none" <=> f_fs[p] # "none"
  <2>1. ASSUME f_fs[p] # "none" PROVE ~\E n \in 0..(Len(p) - 1) : f_fs[SubSeq(p, 1, n)] = "file"
    BY <2>1 DEF Fs!IsTree
  <2>2. ASSUME f_fs[p] # "none" PROVE Fs!LookupError(p) = "none"
    BY <2>1, <2>2 DEF Fs!LookupError
  <2>3. ASSUME f_fs[p] = "none" PROVE Fs!LookupError(p) # "none"
    BY <2>3 DEF Fs!LookupError
  <2>. QED
    BY <2>2, <2>3
<1>4. Fs!LookupError(p) = "ENOENT" => f_fs[p] = "none"
  BY <1>3
<1>. QED
  BY <1>1, <1>2, <1>3, <1>4
  DEF Fs!MkdirError, Fs!ReaddirError, Fs!UnlinkError, Fs!RmdirError

-----------------------------------------------------------------------------

USE DEF Fs!Answered

\* Everything but who has borrowed which loop.
callVars == <<f_plan, f_fs, f_pc, f_path, f_at, f_err, f_stack, f_todo, f_child, f_subdir,
              f_result, f_others>>

\* Calls are started and other tasks make calls: only the loops change.
LEMMA LoopsChange ==
  ASSUME UNCHANGED f_plan, Fs!OtherCall \/ \E t \in Movers : Fs!Borrow(t)
  PROVE  UNCHANGED callVars
BY DEF callVars, Fs!OtherCall, Fs!Borrow, Fs!local

Climbing == {"stat", "mkdir", "check"}
Clearing == {"readdir", "lstat", "unlink", "rmdir"}

FsTypes ==
  /\ f_plan \in Plans /\ f_fs \in [Fs!Paths -> Fs!Kind] /\ Fs!IsTree(f_fs)
  /\ f_pc \in [Movers -> Fs!PC] /\ f_path \in [Movers -> Fs!Paths]
  /\ f_at \in [Movers -> 0..Depth] /\ f_err \in [Movers -> Fs!Error \cup {"none"}]
  /\ f_stack \in [Movers -> Seq(Fs!Paths)] /\ f_todo \in [Movers -> SUBSET Fs!Paths]
  /\ f_child \in [Movers -> Fs!Paths] /\ f_result \in [Movers -> Fs!Error \cup {"none", "Ok"}]
  /\ f_others \in 0..f_plan.most

FsFlags == f_subdir \in [Movers -> BOOLEAN]

\* Where a call is: at a component of its path, or with a stack that leads down
\* from its argument.
CallAt(t) ==
  /\ Descends(f_stack[t], f_todo[t])
  /\ f_pc[t] = "start" => f_at[t] = 0 /\ f_todo[t] = {} /\ f_path[t] = <<>>
  /\ f_pc[t] # "done" => f_result[t] = "none"
  /\ f_pc[t] = "stat" => f_at[t] = 0
  /\ f_pc[t] \in {"mkdir", "check"} => f_at[t] \in 1..Len(f_path[t])
  /\ f_pc[t] = "check" => f_err[t] # "none"
  /\ f_pc[t] \in Climbing => f_plan.makes[t] # {}
  /\ f_pc[t] \in Clearing =>
       f_plan.removes[t] # {} /\ f_stack[t] # <<>> /\ f_stack[t][1] = f_path[t]
  /\ f_pc[t] \in {"readdir", "rmdir"} => f_todo[t] = {}
  /\ f_pc[t] = "rmdir" => ~f_subdir[t]
  /\ f_pc[t] = "unlink" => f_child[t] \in f_todo[t]

FsPlaces == FsTypes /\ FsFlags /\ \A t \in Movers : CallAt(t)

LEMMA FsPlacesInit == Fs!Init => FsPlaces
<1>. SUFFICES ASSUME Fs!Init PROVE FsPlaces
  OBVIOUS
<1>1. FsTypes
  BY FsBound, PathRoot DEF Fs!Init, FsTypes, Fs!PC, Fs!Error
<1>2. FsFlags
  BY DEF Fs!Init, FsFlags
<1>3. Descends(<<>>, {})
  BY DEF Descends
<1>4. ASSUME NEW t \in Movers PROVE CallAt(t)
  BY <1>3 DEF Fs!Init, CallAt, Climbing, Clearing
<1>. QED
  BY <1>1, <1>2, <1>4 DEF FsPlaces

\* A call that does not move is where it was, whatever happens to the tree.
LEMMA CallStays ==
  ASSUME NEW u \in Movers, CallAt(u), f_plan' = f_plan,
         f_pc'[u] = f_pc[u], f_path'[u] = f_path[u], f_at'[u] = f_at[u], f_err'[u] = f_err[u],
         f_stack'[u] = f_stack[u], f_todo'[u] = f_todo[u], f_child'[u] = f_child[u],
         f_subdir'[u] = f_subdir[u], f_result'[u] = f_result[u]
  PROVE  CallAt(u)'
<1>1. Descends(f_stack[u], f_todo[u])'
  BY DEF CallAt
<1>. QED
  BY <1>1 DEF CallAt

\* Only t moves.
Moves(t) ==
  /\ f_plan' = f_plan
  /\ \A u \in Movers \ {t} :
       /\ f_pc'[u] = f_pc[u] /\ f_path'[u] = f_path[u] /\ f_at'[u] = f_at[u] /\ f_err'[u] = f_err[u]
       /\ f_stack'[u] = f_stack[u] /\ f_todo'[u] = f_todo[u] /\ f_child'[u] = f_child[u]
       /\ f_subdir'[u] = f_subdir[u] /\ f_result'[u] = f_result[u]

LEMMA PlacesKeep ==
  ASSUME FsPlaces, NEW t \in Movers, Moves(t), FsTypes', FsFlags', CallAt(t)'
  PROVE  FsPlaces'
<1>1. ASSUME NEW u \in Movers, u # t PROVE CallAt(u)'
  BY <1>1, CallStays DEF FsPlaces, Moves
<1>. QED
  BY <1>1 DEF FsPlaces

\* A call moves only its own variables.
LEMMA StepMoves ==
  ASSUME FsTypes, FsFlags, f_plan' = f_plan, NEW t \in Movers, Fs!Begin(t) \/ Fs!Step(t)
  PROVE  Moves(t)
<1>1. CASE Fs!Begin(t)
  BY <1>1 DEF Moves, FsTypes, FsFlags, Fs!Begin, Fs!MkdirRecursive, Fs!RmdirRecursive, Fs!Goto
<1>2. CASE Fs!Stat(t) \/ Fs!Mkdir(t) \/ Fs!Check(t)
  BY <1>2 DEF Moves, FsTypes, FsFlags, Fs!Stat, Fs!Mkdir, Fs!Check, Fs!NextComponent, Fs!Return, Fs!Goto
<1>3. CASE Fs!Readdir(t) \/ Fs!Unlink(t)
  BY <1>3 DEF Moves, FsTypes, FsFlags, Fs!Readdir, Fs!Unlink, Fs!AfterChild, Fs!Return, Fs!Goto
<1>4. CASE Fs!Lstat(t)
  BY <1>4 DEF Moves, FsTypes, FsFlags, Fs!Lstat, Fs!AfterChild, Fs!Return, Fs!Goto
<1>5. CASE Fs!Rmdir(t)
  BY <1>5 DEF Moves, FsTypes, FsFlags, Fs!Rmdir, Fs!Return, Fs!Goto
<1>6. CASE Fs!Borrow(t)
  BY <1>6 DEF Moves, Fs!Borrow, Fs!local
<1>. QED
  BY <1>1, <1>2, <1>3, <1>4, <1>5, <1>6 DEF Fs!Step

\* mkdir_recursive and rmdir_recursive are called.
LEMMA BeginPlaces ==
  ASSUME FsPlaces, f_plan' = f_plan, NEW t \in Movers, Fs!Begin(t)
  PROVE  FsPlaces'
<1>0. FsTypes /\ FsFlags /\ CallAt(t) /\ Moves(t)
  BY StepMoves DEF FsPlaces
<1>1. CASE Fs!MkdirRecursive(t)
  <2>1. FsTypes'
    <3>1. f_plan \in Plans /\ f_plan.makes[t] \subseteq Fs!Paths
      BY <1>0, FsBound DEF FsTypes
    <3>. QED
      BY <1>0, <1>1, <3>1 DEF FsTypes, Fs!MkdirRecursive, Fs!Goto, Fs!PC
  <2>2. FsFlags'
    BY <1>0, <1>1 DEF FsFlags, Fs!MkdirRecursive
  <2>3. CallAt(t)'
    <3>1. /\ f_pc[t] = "start" /\ f_pc'[t] = "stat" /\ f_plan.makes[t] # {}
          /\ UNCHANGED <<f_at, f_stack, f_todo, f_result>>
      BY <1>0, <1>1 DEF FsTypes, Fs!MkdirRecursive, Fs!Goto
    <3>2. Descends(f_stack[t], f_todo[t])'
      BY <1>0, <3>1 DEF CallAt
    <3>. QED
      BY <1>0, <3>1, <3>2 DEF CallAt, Climbing, Clearing
  <2>. QED
    BY <1>0, <2>1, <2>2, <2>3, PlacesKeep
<1>2. CASE Fs!RmdirRecursive(t)
  <2>1. PICK p \in f_plan.removes[t] :
          /\ f_path' = [f_path EXCEPT ![t] = p] /\ f_stack' = [f_stack EXCEPT ![t] = <<p>>]
    BY <1>2 DEF Fs!RmdirRecursive
  <2>2. p \in Fs!Paths \ {<<>>} /\ <<p>> \in Seq(Fs!Paths) /\ <<p>> # <<>> /\ <<p>>[1] = p
    BY <1>0, <2>1, FsBound DEF FsTypes
  <2>3. FsTypes'
    BY <1>0, <1>2, <2>1, <2>2 DEF FsTypes, Fs!RmdirRecursive, Fs!Goto, Fs!PC
  <2>4. FsFlags'
    BY <1>0, <1>2 DEF FsFlags, Fs!RmdirRecursive
  <2>5. CallAt(t)'
    <3>1. /\ f_pc[t] = "start" /\ f_pc'[t] = "readdir" /\ f_plan.removes[t] # {}
          /\ UNCHANGED <<f_at, f_todo, f_result>> /\ f_stack'[t] = <<p>> /\ f_path'[t] = p
      BY <1>0, <1>2, <2>1 DEF FsTypes, Fs!RmdirRecursive, Fs!Goto
    <3>2. f_todo'[t] = {}
      BY <1>0, <3>1 DEF CallAt
    <3>3. Descends(f_stack[t], f_todo[t])'
      BY <2>2, <3>1, <3>2, DescendsFirst
    <3>. QED
      BY <1>0, <2>2, <3>1, <3>2, <3>3 DEF CallAt, Climbing, Clearing
  <2>. QED
    BY <1>0, <2>3, <2>4, <2>5, PlacesKeep
<1>. QED
  BY <1>1, <1>2 DEF Fs!Begin

\* The calls of mkdir_recursive.
LEMMA ClimbPlaces ==
  ASSUME FsPlaces, f_plan' = f_plan, NEW t \in Movers, Fs!Stat(t) \/ Fs!Mkdir(t) \/ Fs!Check(t)
  PROVE  FsPlaces'
<1>0. FsTypes /\ FsFlags /\ CallAt(t) /\ Moves(t)
  BY StepMoves DEF FsPlaces, Fs!Step
<1>1. /\ f_pc[t] \in Climbing /\ UNCHANGED <<f_path, f_stack, f_todo, f_child, f_subdir, f_others>>
      /\ f_path[t] \in Fs!Paths /\ f_at[t] \in 0..Len(f_path[t])
      /\ Len(f_path[t]) \in 0..Depth /\ Depth \in Nat
  <2>1. /\ f_pc[t] \in Climbing /\ UNCHANGED <<f_path, f_stack, f_todo, f_child, f_subdir, f_others>>
        /\ f_path[t] \in Fs!Paths
    BY <1>0 DEF FsTypes, Climbing, Fs!Stat, Fs!Mkdir, Fs!Check
  <2>2. Len(f_path[t]) \in 0..Depth /\ Depth \in Nat
    BY <2>1, PathPrefix, FsBound
  <2>3. f_at[t] \in 0..Len(f_path[t])
    BY <1>0, <2>1, <2>2 DEF CallAt, Climbing
  <2>. QED
    BY <2>1, <2>2, <2>3
<1>2. Fs!CurPath(t) \in Fs!Paths /\ Fs!CurPath(t) = SubSeq(f_path[t], 1, f_at[t])
  BY <1>1, PathPrefix DEF Fs!CurPath
<1>3. f_fs' \in [Fs!Paths -> Fs!Kind] /\ Fs!IsTree(f_fs')
  <2>1. CASE UNCHANGED f_fs
    BY <1>0, <2>1 DEF FsTypes
  <2>2. CASE Fs!Mkdir(t) /\ Fs!Outcome(t, Fs!MkdirError(Fs!CurPath(t))) = "none"
    <3>0. Fs!MkdirError(Fs!CurPath(t)) = "none"
      BY <2>2 DEF Fs!Outcome
    <3>1. f_fs' = [f_fs EXCEPT ![Fs!CurPath(t)] = "dir"]
      BY <2>2 DEF Fs!Mkdir
    <3>2. Fs!IsTree(f_fs')
      BY <1>0, <1>2, <3>0, <3>1, CallErrors, TreeGrows DEF FsTypes, Fs!Kind
    <3>. QED
      BY <1>0, <3>1, <3>2 DEF FsTypes, Fs!Kind
  <2>. QED
    BY <2>1, <2>2 DEF Fs!Stat, Fs!Mkdir, Fs!Check
<1>4. /\ f_at' \in [Movers -> 0..Depth] /\ f_pc' \in [Movers -> Fs!PC]
      /\ f_err' \in [Movers -> Fs!Error \cup {"none"}]
      /\ f_result' \in [Movers -> Fs!Error \cup {"none", "Ok"}]
      /\ f_pc'[t] \in {"mkdir", "check", "done"}
      /\ f_pc'[t] = "mkdir" => f_at'[t] = f_at[t] + 1 /\ f_at[t] < Len(f_path[t])
      /\ f_pc'[t] = "check" => f_at'[t] = f_at[t] /\ f_pc[t] = "mkdir" /\ f_err'[t] # "none"
      /\ f_pc'[t] # "done" => f_result'[t] = f_result[t]
  <2>. DEFINE On == /\ f_at' \in [Movers -> 0..Depth] /\ f_pc' \in [Movers -> Fs!PC]
                    /\ f_result' \in [Movers -> Fs!Error \cup {"none", "Ok"}]
                    /\ f_pc'[t] \in {"mkdir", "done"}
                    /\ f_pc'[t] = "mkdir" => f_at'[t] = f_at[t] + 1 /\ f_at[t] < Len(f_path[t])
                    /\ f_pc'[t] # "done" => f_result'[t] = f_result[t]
  <2>1. /\ f_pc \in [Movers -> Fs!PC] /\ f_at \in [Movers -> 0..Depth]
        /\ f_err \in [Movers -> Fs!Error \cup {"none"}]
        /\ f_result \in [Movers -> Fs!Error \cup {"none", "Ok"}]
    BY <1>0 DEF FsTypes
  <2>2. ASSUME NEW r \in Fs!Error \cup {"none", "Ok"}, Fs!Return(t, r), UNCHANGED f_at PROVE On
    BY ONLY <2>1, <2>2, t \in Movers DEF Fs!Return, Fs!PC
  <2>3. ASSUME Fs!NextComponent(t) PROVE On
    <3>1. CASE f_at[t] < Len(f_path[t])
      <4>1. /\ f_at' = [f_at EXCEPT ![t] = @ + 1] /\ f_pc' = [f_pc EXCEPT ![t] = "mkdir"]
            /\ f_result' = f_result
        BY <2>3, <3>1 DEF Fs!NextComponent, Fs!Goto
      <4>2. f_at[t] + 1 \in 0..Depth
        BY <1>1, <3>1
      <4>3. f_at' \in [Movers -> 0..Depth] /\ f_at'[t] = f_at[t] + 1
        BY ONLY <2>1, <4>1, <4>2, t \in Movers
      <4>. QED
        BY ONLY <2>1, <3>1, <4>1, <4>3, t \in Movers DEF Fs!PC
    <3>2. CASE ~(f_at[t] < Len(f_path[t]))
      BY <2>2, <2>3, <3>2 DEF Fs!NextComponent
    <3>. QED
      BY <3>1, <3>2
  <2>. HIDE DEF On
  <2>4. CASE Fs!Stat(t)
    <3>1. On
      BY <2>2, <2>3, <2>4 DEF Fs!Stat
    <3>. QED
      BY <2>1, <2>4, <3>1 DEF Fs!Stat, On
  <2>5. CASE Fs!Mkdir(t)
    <3>1. PICK e \in {"UNKNOWN", "ENOENT", "ENOTDIR", "EEXIST", "none"} :
            e = Fs!Outcome(t, Fs!MkdirError(Fs!CurPath(t)))
      BY <1>0, <1>2, CallErrors DEF FsTypes, Fs!Outcome
    <3>2. CASE e = "none"
      <4>1. On /\ UNCHANGED f_err
        BY <2>3, <2>5, <3>1, <3>2 DEF Fs!Mkdir
      <4>. QED
        BY <2>1, <4>1 DEF On
    <3>3. CASE e # "none"
      <4>1. /\ f_pc[t] = "mkdir" /\ f_err' = [f_err EXCEPT ![t] = e]
            /\ f_pc' = [f_pc EXCEPT ![t] = "check"] /\ UNCHANGED <<f_result, f_at>>
        BY <2>5, <3>1, <3>3 DEF Fs!Mkdir, Fs!Goto
      <4>2. e \in Fs!Error
        BY <3>3 DEF Fs!Error
      <4>. QED
        BY ONLY <2>1, <3>3, <4>1, <4>2, t \in Movers DEF Fs!PC
    <3>. QED
      BY <3>2, <3>3
  <2>6. CASE Fs!Check(t)
    <3>1. PICK e \in {"UNKNOWN", "ENOENT", "ENOTDIR", "none"} :
            e = Fs!Outcome(t, Fs!LookupError(Fs!CurPath(t)))
      BY <1>0, <1>2, CallErrors DEF FsTypes, Fs!Outcome
    <3>2. e \in Fs!Error \cup {"none"} /\ f_err[t] \in Fs!Error \cup {"none"}
      BY <2>1 DEF Fs!Error
    <3>3. \/ Fs!Return(t, e) /\ UNCHANGED f_at
          \/ Fs!NextComponent(t)
          \/ Fs!Return(t, f_err[t]) /\ UNCHANGED f_at
      BY <2>6, <3>1 DEF Fs!Check
    <3>4. On /\ UNCHANGED f_err
      BY <2>2, <2>3, <2>6, <3>2, <3>3 DEF Fs!Check
    <3>. QED
      BY <2>1, <3>4 DEF On
  <2>. QED
    BY <2>4, <2>5, <2>6
<1>5. FsTypes'
  BY <1>0, <1>1, <1>3, <1>4 DEF FsTypes
<1>6. FsFlags'
  BY <1>0, <1>1 DEF FsFlags
<1>7. CallAt(t)'
  <2>1. Descends(f_stack[t], f_todo[t])'
    BY <1>0, <1>1 DEF CallAt
  <2>2. f_plan.makes[t] # {} /\ f_result[t] = "none"
    BY <1>0, <1>1 DEF CallAt, Climbing
  <2>3. f_pc'[t] \in {"mkdir", "check"} => f_at'[t] \in 1..Len(f_path'[t])
    BY <1>0, <1>1, <1>4 DEF CallAt
  <2>. QED
    BY <1>0, <1>1, <1>4, <2>1, <2>2, <2>3 DEF CallAt, Climbing, Clearing
<1>. QED
  BY <1>0, <1>5, <1>6, <1>7, PlacesKeep

\* readdir.
LEMMA ReaddirPlaces ==
  ASSUME FsPlaces, f_plan' = f_plan, NEW t \in Movers, Fs!Readdir(t)
  PROVE  FsPlaces'
<1>0. FsTypes /\ FsFlags /\ CallAt(t) /\ Moves(t)
  BY StepMoves DEF FsPlaces, Fs!Step
<1>1. /\ f_pc[t] = "readdir" /\ f_subdir' = [f_subdir EXCEPT ![t] = FALSE]
      /\ UNCHANGED <<f_fs, f_path, f_at, f_err, f_stack, f_child, f_others>>
  BY DEF Fs!Readdir
<1>2. /\ f_stack[t] # <<>> /\ f_todo[t] = {} /\ f_result[t] = "none" /\ f_plan.removes[t] # {}
      /\ f_stack[t][1] = f_path[t] /\ Descends(f_stack[t], {})
  BY <1>0, <1>1 DEF CallAt, Clearing
<1>3. PICK d, e : d = Fs!Last(f_stack[t]) /\ e = Fs!Outcome(t, Fs!ReaddirError(d))
  OBVIOUS
<1>4. d \in Fs!Paths /\ d = f_stack[t][Len(f_stack[t])]
  <2>1. Len(f_stack[t]) \in 1..Len(f_stack[t]) /\ f_stack[t] \in Seq(Fs!Paths)
    BY <1>0, <1>2, EmptySeq DEF FsTypes
  <2>. QED
    BY <1>3, <2>1, ElementOfSeq DEF Fs!Last
<1>5. Fs!Children(d) \subseteq Fs!Below(d) /\ Fs!Below(d) \subseteq Fs!Paths
  BY DEF Fs!Children, Fs!Below
<1>6. CASE e # "none"
  <2>1. e \in Fs!Error
    BY <1>0, <1>3, <1>4, <1>6, CallErrors DEF FsTypes, Fs!Error, Fs!Outcome
  <2>2. /\ f_pc' = [f_pc EXCEPT ![t] = "done"] /\ UNCHANGED f_todo
        /\ f_result' = [f_result EXCEPT ![t] = e]
    BY <1>3, <1>6 DEF Fs!Readdir, Fs!Return
  <2>3. FsTypes'
    BY <1>0, <1>1, <2>1, <2>2 DEF FsTypes, Fs!PC
  <2>4. FsFlags'
    BY <1>0, <1>1 DEF FsFlags
  <2>5. Descends(f_stack[t], f_todo[t])' /\ f_pc'[t] = "done"
    BY <1>0, <1>1, <2>2 DEF CallAt, FsTypes
  <2>6. CallAt(t)'
    BY <2>5 DEF CallAt, Climbing, Clearing
  <2>. QED
    BY <1>0, <2>3, <2>4, <2>6, PlacesKeep
<1>7. CASE e = "none"
  <2>1. PICK c : c = Fs!Children(d)
    OBVIOUS
  <2>2. /\ f_todo' = [f_todo EXCEPT ![t] = c] /\ UNCHANGED f_result
        /\ f_pc' = [f_pc EXCEPT ![t] = IF c # {} THEN "lstat" ELSE "rmdir"]
    BY <1>3, <1>7, <2>1 DEF Fs!Readdir, Fs!AfterChild, Fs!Goto
  <2>3. FsTypes'
    BY <1>0, <1>1, <1>5, <2>1, <2>2 DEF FsTypes, Fs!PC
  <2>4. FsFlags'
    BY <1>0, <1>1 DEF FsFlags
  <2>5. Descends(f_stack[t], c)
    BY <1>2, <1>4, <1>5, <2>1, DescendsRead
  <2>6. /\ f_todo'[t] = c /\ ~f_subdir'[t] /\ f_pc'[t] \in {"lstat", "rmdir"}
        /\ f_pc'[t] = "rmdir" => c = {}
    BY <1>0, <1>1, <2>2 DEF FsTypes, FsFlags
  <2>7. CallAt(t)'
    BY <1>1, <1>2, <2>2, <2>5, <2>6 DEF CallAt, Climbing, Clearing
  <2>. QED
    BY <1>0, <2>3, <2>4, <2>7, PlacesKeep
<1>. QED
  BY <1>6, <1>7

\* lstat of a child.
LEMMA LstatPlaces ==
  ASSUME FsPlaces, f_plan' = f_plan, NEW t \in Movers, Fs!Lstat(t)
  PROVE  FsPlaces'
<1>0. FsTypes /\ FsFlags /\ CallAt(t) /\ Moves(t)
  BY StepMoves DEF FsPlaces, Fs!Step
<1>1. /\ f_pc[t] = "lstat"
      /\ UNCHANGED <<f_fs, f_path, f_at, f_err, f_others>>
  BY DEF Fs!Lstat
<1>2. /\ f_stack[t] # <<>> /\ f_result[t] = "none" /\ f_plan.removes[t] # {}
      /\ f_stack[t][1] = f_path[t] /\ Descends(f_stack[t], f_todo[t])
      /\ f_stack[t] \in Seq(Fs!Paths) /\ f_todo[t] \subseteq Fs!Paths
  BY <1>0, <1>1 DEF CallAt, Clearing, FsTypes
<1>3. PICK c \in f_todo[t] :
        \/ /\ Fs!Outcome(t, Fs!LookupError(c)) # "none" /\ Fs!Return(t, Fs!Outcome(t, Fs!LookupError(c)))
           /\ UNCHANGED <<f_stack, f_todo, f_child, f_subdir>>
        \/ /\ f_stack' = [f_stack EXCEPT ![t] = Append(@, c)]
           /\ f_subdir' = [f_subdir EXCEPT ![t] = TRUE]
           /\ Fs!AfterChild(t, f_todo[t] \ {c}, TRUE) /\ UNCHANGED f_child
        \/ /\ f_child' = [f_child EXCEPT ![t] = c] /\ Fs!Goto(t, "unlink")
           /\ UNCHANGED <<f_stack, f_todo, f_subdir>>
  BY DEF Fs!Lstat
<1>4. c \in Fs!Paths
  BY <1>2
<1>5. CASE /\ Fs!Outcome(t, Fs!LookupError(c)) # "none" /\ Fs!Return(t, Fs!Outcome(t, Fs!LookupError(c)))
           /\ UNCHANGED <<f_stack, f_todo, f_child, f_subdir>>
  <2>1. Fs!Outcome(t, Fs!LookupError(c)) \in Fs!Error
    BY <1>0, <1>4, <1>5, CallErrors DEF FsTypes, Fs!Error, Fs!Outcome
  <2>2. /\ f_pc' = [f_pc EXCEPT ![t] = "done"]
        /\ f_result' = [f_result EXCEPT ![t] = Fs!Outcome(t, Fs!LookupError(c))]
    BY <1>5 DEF Fs!Return
  <2>3. FsTypes'
    BY <1>0, <1>1, <1>5, <2>1, <2>2 DEF FsTypes, Fs!PC
  <2>4. FsFlags'
    BY <1>0, <1>5 DEF FsFlags
  <2>5. Descends(f_stack[t], f_todo[t])' /\ f_pc'[t] = "done"
    BY <1>0, <1>2, <1>5, <2>2 DEF FsTypes
  <2>6. CallAt(t)'
    BY <2>5 DEF CallAt, Climbing, Clearing
  <2>. QED
    BY <1>0, <2>3, <2>4, <2>6, PlacesKeep
<1>6. CASE /\ f_stack' = [f_stack EXCEPT ![t] = Append(@, c)]
           /\ f_subdir' = [f_subdir EXCEPT ![t] = TRUE]
           /\ Fs!AfterChild(t, f_todo[t] \ {c}, TRUE) /\ UNCHANGED f_child
  <2>1. PICK s : s = Append(f_stack[t], c)
    OBVIOUS
  <2>2. /\ Descends(s, f_todo[t] \ {c}) /\ s \in Seq(Fs!Paths) /\ s # <<>> /\ s[1] = f_path[t]
    <3>1. Descends(s, f_todo[t] \ {c})
      BY <1>2, <2>1, DescendsPush
    <3>2. Len(f_stack[t]) \in Nat /\ 1 \in 1..Len(f_stack[t])
      BY <1>2, EmptySeq
    <3>. QED
      BY <1>2, <1>4, <2>1, <3>1, <3>2, AppendProperties
  <2>3. /\ f_todo' = [f_todo EXCEPT ![t] = f_todo[t] \ {c}] /\ UNCHANGED f_result
        /\ f_pc' = [f_pc EXCEPT ![t] = IF f_todo[t] \ {c} # {} THEN "lstat" ELSE "readdir"]
        /\ f_stack' = [f_stack EXCEPT ![t] = s]
    BY <1>6, <2>1 DEF Fs!AfterChild, Fs!Goto
  <2>4. FsTypes'
    BY <1>0, <1>1, <1>2, <1>6, <2>2, <2>3 DEF FsTypes, Fs!PC
  <2>5. FsFlags'
    BY <1>0, <1>6 DEF FsFlags
  <2>6. /\ f_todo'[t] = f_todo[t] \ {c} /\ f_stack'[t] = s /\ f_pc'[t] \in {"lstat", "readdir"}
        /\ f_pc'[t] = "readdir" => f_todo'[t] = {}
    BY <1>0, <2>3 DEF FsTypes
  <2>7. CallAt(t)'
    BY <1>1, <1>2, <2>2, <2>3, <2>6 DEF CallAt, Climbing, Clearing
  <2>. QED
    BY <1>0, <2>4, <2>5, <2>7, PlacesKeep
<1>7. CASE /\ f_child' = [f_child EXCEPT ![t] = c] /\ Fs!Goto(t, "unlink")
           /\ UNCHANGED <<f_stack, f_todo, f_subdir>>
  <2>1. f_pc' = [f_pc EXCEPT ![t] = "unlink"] /\ UNCHANGED f_result
    BY <1>7 DEF Fs!Goto
  <2>2. FsTypes'
    BY <1>0, <1>1, <1>4, <1>7, <2>1 DEF FsTypes, Fs!PC
  <2>3. FsFlags'
    BY <1>0, <1>7 DEF FsFlags
  <2>4. f_pc'[t] = "unlink" /\ f_child'[t] = c
    BY <1>0, <1>7, <2>1 DEF FsTypes
  <2>5. CallAt(t)'
    BY <1>1, <1>2, <1>3, <1>7, <2>1, <2>4 DEF CallAt, Climbing, Clearing
  <2>. QED
    BY <1>0, <2>2, <2>3, <2>5, PlacesKeep
<1>. QED
  BY <1>3, <1>5, <1>6, <1>7

\* unlink of a child.
LEMMA UnlinkPlaces ==
  ASSUME FsPlaces, f_plan' = f_plan, NEW t \in Movers, Fs!Unlink(t)
  PROVE  FsPlaces'
<1>0. FsTypes /\ FsFlags /\ CallAt(t) /\ Moves(t)
  BY StepMoves DEF FsPlaces, Fs!Step
<1>1. f_pc[t] = "unlink" /\ UNCHANGED <<f_path, f_at, f_err, f_stack, f_child, f_subdir, f_others>>
  BY DEF Fs!Unlink
<1>2. /\ f_stack[t] # <<>> /\ f_result[t] = "none" /\ f_plan.removes[t] # {}
      /\ f_stack[t][1] = f_path[t] /\ Descends(f_stack[t], f_todo[t])
      /\ f_child[t] \in f_todo[t] /\ f_todo[t] \subseteq Fs!Paths
  BY <1>0, <1>1 DEF CallAt, Clearing, FsTypes
<1>3. PICK c \in f_todo[t] : c = f_child[t]
  BY <1>2
<1>4. PICK e \in {"UNKNOWN", "ENOENT", "ENOTDIR", "EISDIR", "none"} : e = Fs!Outcome(t, Fs!UnlinkError(c))
  BY <1>0, <1>2, CallErrors DEF FsTypes, Fs!Outcome
<1>5. f_fs' \in [Fs!Paths -> Fs!Kind] /\ Fs!IsTree(f_fs')
  <2>1. CASE e = "none"
    <3>1. f_fs' = [f_fs EXCEPT ![c] = "none"]
      BY <1>3, <1>4, <2>1 DEF Fs!Unlink
    <3>2. f_fs[c] = "file" /\ c # <<>> /\ c \in Fs!Paths
      <4>1. f_fs[c] = "file" /\ c \in Fs!Paths
        BY <1>0, <1>2, <1>4, <2>1, CallErrors DEF FsTypes, Fs!Outcome
      <4>2. f_fs[<<>>] = "dir"
        BY <1>0 DEF FsTypes, Fs!IsTree
      <4>. QED
        BY <4>1, <4>2
    <3>3. Fs!IsTree(f_fs')
      BY <1>0, <3>1, <3>2, TreeShrinks DEF FsTypes
    <3>. QED
      BY <1>0, <3>1, <3>3 DEF FsTypes, Fs!Kind
  <2>2. CASE e # "none"
    <3>1. f_fs' = f_fs
      BY <1>3, <1>4, <2>2 DEF Fs!Unlink
    <3>. QED
      BY <1>0, <3>1 DEF FsTypes
  <2>. QED
    BY <2>1, <2>2
<1>6. FsFlags'
  BY <1>0, <1>1 DEF FsFlags
<1>7. CASE e \in {"none", "ENOENT"}
  <2>1. PICK k : k = f_todo[t] \ {c}
    OBVIOUS
  <2>2. /\ f_todo' = [f_todo EXCEPT ![t] = k] /\ UNCHANGED f_result
        /\ f_pc' = [f_pc EXCEPT ![t] = IF k # {} THEN "lstat" ELSE IF f_subdir[t] THEN "readdir" ELSE "rmdir"]
    BY <1>3, <1>4, <1>7, <2>1 DEF Fs!Unlink, Fs!AfterChild, Fs!Goto
  <2>3. FsTypes'
    BY <1>0, <1>1, <1>2, <1>5, <2>1, <2>2 DEF FsTypes, Fs!PC
  <2>4. Descends(f_stack[t], k)
    BY <1>2, <2>1, DescendsLess
  <2>5. f_todo'[t] = k /\ f_pc'[t] \in {"lstat", "readdir", "rmdir"}
    BY <1>0, <2>2 DEF FsTypes
  <2>6. f_pc'[t] \in {"readdir", "rmdir"} => k = {}
    BY <1>0, <2>2 DEF FsTypes
  <2>7. f_pc'[t] = "rmdir" => ~f_subdir[t]
    BY <1>0, <2>2 DEF FsTypes
  <2>8. CallAt(t)'
    BY <1>1, <1>2, <2>2, <2>4, <2>5, <2>6, <2>7 DEF CallAt, Climbing, Clearing
  <2>. QED
    BY <1>0, <1>6, <2>3, <2>8, PlacesKeep
<1>8. CASE e \notin {"none", "ENOENT"}
  <2>1. e \in Fs!Error
    BY <1>8 DEF Fs!Error
  <2>2. /\ f_pc' = [f_pc EXCEPT ![t] = "done"] /\ UNCHANGED f_todo
        /\ f_result' = [f_result EXCEPT ![t] = e]
    BY <1>3, <1>4, <1>8 DEF Fs!Unlink, Fs!Return
  <2>3. FsTypes'
    BY <1>0, <1>1, <1>5, <2>1, <2>2 DEF FsTypes, Fs!PC
  <2>4. Descends(f_stack[t], f_todo[t])' /\ f_pc'[t] = "done"
    BY <1>0, <1>1, <1>2, <2>2 DEF FsTypes
  <2>5. CallAt(t)'
    BY <2>4 DEF CallAt, Climbing, Clearing
  <2>. QED
    BY <1>0, <1>6, <2>3, <2>5, PlacesKeep
<1>. QED
  BY <1>7, <1>8

\* rmdir of the directory on top.
LEMMA RmdirPlaces ==
  ASSUME FsPlaces, f_plan' = f_plan, NEW t \in Movers, Fs!Rmdir(t)
  PROVE  FsPlaces'
<1>0. FsTypes /\ FsFlags /\ CallAt(t) /\ Moves(t)
  BY StepMoves DEF FsPlaces, Fs!Step
<1>1. f_pc[t] = "rmdir" /\ UNCHANGED <<f_path, f_at, f_err, f_todo, f_child, f_subdir, f_others>>
  BY DEF Fs!Rmdir
<1>2. /\ f_stack[t] # <<>> /\ f_result[t] = "none" /\ f_plan.removes[t] # {} /\ f_todo[t] = {}
      /\ f_stack[t][1] = f_path[t] /\ Descends(f_stack[t], {})
  BY <1>0, <1>1 DEF CallAt, Clearing
<1>3. PICK d, s : d = Fs!Last(f_stack[t]) /\ s = SubSeq(f_stack[t], 1, Len(f_stack[t]) - 1)
  OBVIOUS
<1>4. d \in Fs!Paths \ {<<>>} /\ Len(f_stack[t]) \in Nat \ {0}
  <2>1. Len(f_stack[t]) \in Nat \ {0} /\ f_stack[t] \in Seq(Fs!Paths \ {<<>>})
    BY <1>2, EmptySeq DEF Descends
  <2>. QED
    BY <1>3, <2>1, ElementOfSeq DEF Fs!Last
<1>5. /\ Descends(s, {}) /\ Len(s) = Len(f_stack[t]) - 1
      /\ \A i \in 1..(Len(f_stack[t]) - 1) : s[i] = f_stack[t][i]
  BY <1>2, <1>3, DescendsPop
<1>6. ASSUME Len(f_stack[t]) > 1 PROVE 1 \in 1..(Len(f_stack[t]) - 1) /\ s # <<>>
  <2>1. 1 \in 1..(Len(f_stack[t]) - 1)
    BY <1>4, <1>6
  <2>2. Len(s) # 0
    BY <1>4, <1>5, <1>6
  <2>. QED
    BY <2>1, <2>2
<1>7. PICK e \in {"UNKNOWN", "ENOENT", "ENOTDIR", "ENOTEMPTY", "none"} :
         e = Fs!Outcome(t, Fs!RmdirError(d))
  BY <1>0, <1>4, CallErrors DEF FsTypes, Fs!Outcome
<1>8. f_fs' \in [Fs!Paths -> Fs!Kind] /\ Fs!IsTree(f_fs')
  <2>1. CASE e = "none"
    <3>1. f_fs' = [f_fs EXCEPT ![d] = "none"]
      BY <1>3, <1>7, <2>1 DEF Fs!Rmdir
    <3>2. \A q \in Fs!Below(d) : f_fs[q] = "none"
      BY <1>0, <1>4, <1>7, <2>1, CallErrors DEF FsTypes, Fs!Children, Fs!Outcome
    <3>3. Fs!IsTree(f_fs')
      BY <1>0, <1>4, <3>1, <3>2, TreeShrinks DEF FsTypes
    <3>. QED
      BY <1>0, <3>1, <3>3 DEF FsTypes, Fs!Kind
  <2>2. CASE e # "none"
    <3>1. f_fs' = f_fs
      BY <1>3, <1>7, <2>2 DEF Fs!Rmdir
    <3>. QED
      BY <1>0, <3>1 DEF FsTypes
  <2>. QED
    BY <2>1, <2>2
<1>9. f_stack' = [f_stack EXCEPT ![t] = s]
  BY <1>3 DEF Fs!Rmdir, Fs!Front
<1>10. /\ f_pc' \in [Movers -> Fs!PC] /\ f_result' \in [Movers -> Fs!Error \cup {"none", "Ok"}]
       /\ f_pc'[t] \in {"readdir", "done"}
       /\ f_pc'[t] = "readdir" => Len(f_stack[t]) > 1 /\ f_result'[t] = f_result[t]
  <2>1. CASE e \notin {"none", "ENOENT"}
    <3>1. e \in Fs!Error
      BY <2>1 DEF Fs!Error
    <3>2. Fs!Return(t, e)
      BY <1>3, <1>7, <2>1 DEF Fs!Rmdir
    <3>. QED
      BY <1>0, <3>1, <3>2 DEF FsTypes, Fs!Return, Fs!PC
  <2>2. CASE e \in {"none", "ENOENT"} /\ Len(f_stack[t]) > 1
    BY <1>0, <1>3, <1>7, <2>2 DEF FsTypes, Fs!Rmdir, Fs!Goto, Fs!PC
  <2>3. CASE e \in {"none", "ENOENT"} /\ ~(Len(f_stack[t]) > 1)
    <3>1. Fs!Return(t, "Ok")
      BY <1>3, <1>7, <2>3 DEF Fs!Rmdir
    <3>. QED
      BY <1>0, <3>1 DEF FsTypes, Fs!Return, Fs!PC
  <2>. QED
    BY <2>1, <2>2, <2>3
<1>11. FsTypes'
  <2>1. s \in Seq(Fs!Paths)
    BY <1>5 DEF Descends
  <2>2. f_stack' \in [Movers -> Seq(Fs!Paths)]
    BY <1>0, <1>9, <2>1 DEF FsTypes
  <2>3. f_pc' \in [Movers -> Fs!PC] /\ f_result' \in [Movers -> Fs!Error \cup {"none", "Ok"}]
    BY <1>10
  <2>. QED
    BY <1>0, <1>1, <1>8, <2>2, <2>3 DEF FsTypes
<1>12. FsFlags'
  BY <1>0, <1>1 DEF FsFlags
<1>13. CallAt(t)'
  <2>1. f_stack'[t] = s /\ f_todo'[t] = {}
    BY <1>0, <1>1, <1>2, <1>9 DEF FsTypes
  <2>2. f_pc'[t] = "readdir" => s # <<>> /\ s[1] = f_path[t] /\ f_result'[t] = "none"
    BY <1>2, <1>5, <1>6, <1>10
  <2>3. f_pc'[t] \in {"readdir", "done"} /\ Descends(s, {})
    BY <1>5, <1>10
  <2>. QED
    BY <1>1, <1>2, <2>1, <2>2, <2>3 DEF CallAt, Climbing, Clearing
<1>. QED
  BY <1>0, <1>11, <1>12, <1>13, PlacesKeep

\* Others change the tree.
LEMMA OtherPlaces ==
  ASSUME FsPlaces, f_plan' = f_plan, Fs!Other
  PROVE  FsPlaces'
<1>0. FsTypes /\ FsFlags /\ \A t \in Movers : CallAt(t)
  BY DEF FsPlaces
<1>1. /\ UNCHANGED <<f_pc, f_path, f_at, f_err, f_stack, f_todo, f_child, f_subdir, f_result>>
      /\ f_others < f_plan.most /\ f_others' = f_others + 1
  BY DEF Fs!Other, Fs!local
<1>2. PICK change \in f_plan.others :
        \/ /\ change[1] \in {"create", "mkdir"} /\ Fs!MkdirError(change[2]) = "none"
           /\ \E k \in {"file", "dir"} : f_fs' = [f_fs EXCEPT ![change[2]] = k]
        \/ /\ f_fs[change[2]] # "none" /\ Fs!Children(change[2]) = {}
           /\ f_fs' = [f_fs EXCEPT ![change[2]] = "none"]
  BY DEF Fs!Other
<1>3. change[2] \in Fs!Paths /\ change[2] # <<>> /\ f_plan.most \in Nat
  BY <1>0, FsBound DEF FsTypes
<1>4. f_fs' \in [Fs!Paths -> Fs!Kind] /\ Fs!IsTree(f_fs')
  <2>1. CASE Fs!MkdirError(change[2]) = "none" /\ \E k \in {"file", "dir"} : f_fs' = [f_fs EXCEPT ![change[2]] = k]
    <3>1. PICK k \in {"file", "dir"} : f_fs' = [f_fs EXCEPT ![change[2]] = k]
      BY <2>1
    <3>2. f_fs[change[2]] = "none" /\ f_fs[Fs!Parent(change[2])] = "dir"
      BY <1>0, <1>3, <2>1, CallErrors DEF FsTypes
    <3>3. Fs!IsTree(f_fs')
      BY <1>0, <1>3, <3>1, <3>2, TreeGrows DEF FsTypes, Fs!Kind
    <3>. QED
      BY <1>0, <3>1, <3>3 DEF FsTypes, Fs!Kind
  <2>2. CASE Fs!Children(change[2]) = {} /\ f_fs' = [f_fs EXCEPT ![change[2]] = "none"]
    <3>1. \A q \in Fs!Below(change[2]) : f_fs[q] = "none"
      BY <2>2 DEF Fs!Children
    <3>2. Fs!IsTree(f_fs')
      BY <1>0, <1>3, <2>2, <3>1, TreeShrinks DEF FsTypes
    <3>. QED
      BY <1>0, <2>2, <3>2 DEF FsTypes, Fs!Kind
  <2>. QED
    BY <1>2, <2>1, <2>2
<1>5. f_others' \in 0..f_plan'.most
  BY <1>0, <1>1, <1>3 DEF FsTypes
<1>6. FsTypes'
  BY <1>0, <1>1, <1>4, <1>5 DEF FsTypes
<1>7. FsFlags'
  BY <1>0, <1>1 DEF FsFlags
<1>8. ASSUME NEW u \in Movers PROVE CallAt(u)'
  BY <1>0, <1>1, CallStays
<1>. QED
  BY <1>6, <1>7, <1>8 DEF FsPlaces

\* Every step keeps the types and the places of the calls.
LEMMA FsPlacesStep == FsPlaces /\ (Fs!Next \/ UNCHANGED fsVars) => FsPlaces'
<1>1. ASSUME FsPlaces, UNCHANGED callVars PROVE FsPlaces'
  <2>1. ASSUME NEW u \in Movers PROVE CallAt(u)'
    BY <1>1, CallStays DEF FsPlaces, callVars
  <2>2. FsTypes'
    BY <1>1 DEF FsPlaces, FsTypes, callVars
  <2>3. FsFlags'
    BY <1>1 DEF FsPlaces, FsFlags, callVars
  <2>. QED
    BY <2>1, <2>2, <2>3 DEF FsPlaces
<1>2. ASSUME FsPlaces, f_plan' = f_plan, NEW t \in Movers, Fs!Step(t), ~Fs!Borrow(t) PROVE FsPlaces'
  BY <1>2, ClimbPlaces, ReaddirPlaces, LstatPlaces, UnlinkPlaces, RmdirPlaces DEF Fs!Step
<1>3. UNCHANGED fsVars \/ (UNCHANGED f_plan /\ Fs!Over) => UNCHANGED callVars
  BY DEF Fs!Over, Fs!local, fsVars, callVars
<1>. QED
  BY <1>1, <1>2, <1>3, BeginPlaces, OtherPlaces, LoopsChange DEF Fs!Next

\* A loop is borrowed by a task in a call, and once at a time.
FsLoops ==
  /\ f_using \subseteq Movers /\ f_taken \subseteq f_plan.busy
  /\ \A t \in f_using : f_pc[t] \notin {"start", "done"} /\ ~Fs!Borrowed(t)

\* Nobody borrows the loop of a task that has its thread for itself.
LEMMA PrivateIsFree ==
  ASSUME FsLoops, NEW t \in Movers, Fs!Borrowed(t)
  PROVE  ~Fs!Private(t)
BY DEF FsLoops, Fs!Borrowed, Fs!Private

LEMMA LoopsStep == FsPlaces /\ FsLoops /\ (Fs!Next \/ UNCHANGED fsVars) => FsLoops'
<1>1. ASSUME FsLoops, UNCHANGED <<f_plan, f_pc, f_using, f_taken>> PROVE FsLoops'
  BY <1>1 DEF FsLoops, Fs!Borrowed
<1>2. ASSUME FsPlaces, FsLoops, UNCHANGED f_plan, NEW t \in Movers, Fs!Begin(t) \/ Fs!Step(t)
      PROVE  FsLoops'
  <2>1. Moves(t)
    BY <1>2, StepMoves DEF FsPlaces
  <2>2. CASE Fs!Borrow(t)
    BY <1>2, <2>2 DEF FsLoops, Fs!Borrow, Fs!Borrowed
  <2>3. CASE Fs!Begin(t)
    <3>1. f_pc[t] = "start" /\ UNCHANGED <<f_using, f_taken>>
      BY <2>3 DEF Fs!Begin, Fs!MkdirRecursive, Fs!RmdirRecursive
    <3>. QED
      BY <1>2, <2>1, <3>1 DEF FsLoops, Fs!Borrowed, Moves
  <2>4. CASE ~Fs!Borrow(t) /\ ~Fs!Begin(t)
    <3>1. f_using' = f_using \ {t} /\ UNCHANGED f_taken
      BY <1>2, <2>4
      DEF Fs!Step, Fs!Stat, Fs!Mkdir, Fs!Check, Fs!Readdir, Fs!Lstat, Fs!Unlink, Fs!Rmdir
    <3>. QED
      BY <1>2, <2>1, <3>1 DEF FsLoops, Fs!Borrowed, Moves
  <2>. QED
    BY <2>2, <2>3, <2>4
<1>3. ASSUME FsLoops, UNCHANGED f_plan, Fs!OtherCall PROVE FsLoops'
  BY <1>3 DEF FsLoops, Fs!OtherCall, Fs!Borrowed
<1>4. UNCHANGED fsVars \/ (UNCHANGED f_plan /\ (Fs!Other \/ Fs!Over))
        => UNCHANGED <<f_plan, f_pc, f_using, f_taken>>
  BY DEF fsVars, Fs!Other, Fs!Over
<1>. QED
  BY <1>1, <1>2, <1>3, <1>4 DEF Fs!Next

LEMMA LoopsInit == Fs!Init => FsLoops
BY DEF Fs!Init, FsLoops

LEMMA AtMostOne ==
  ASSUME NEW n \in Nat \ {0}, ~(n > 1)
  PROVE  n = 1
OBVIOUS

\* A rmdir_recursive returns Ok from the rmdir of its argument, which is gone.
LEMMA RemovesGone ==
  ASSUME FsPlaces, Fs!Next, NEW t \in Movers,
         f_plan.removes[t] # {}, f_pc[t] # "done", f_pc'[t] = "done", f_result'[t] = "Ok"
  PROVE  f_fs'[f_path[t]] = "none"
<1>0. FsTypes /\ FsFlags /\ CallAt(t) /\ f_plan' = f_plan
  BY DEF FsPlaces, Fs!Next
<1>1. Fs!Begin(t) \/ Fs!Step(t)
  <2>1. ASSUME NEW u \in Movers, u # t, Fs!Begin(u) \/ Fs!Step(u) PROVE FALSE
    <3>1. Moves(u)
      BY <1>0, <2>1, StepMoves
    <3>. QED
      BY <2>1, <3>1 DEF Moves
  <2>2. ~Fs!Other /\ ~Fs!Over /\ ~Fs!OtherCall
    BY DEF Fs!Other, Fs!Over, Fs!OtherCall
  <2>. QED
    BY <2>1, <2>2 DEF Fs!Next
<1>2. ~Fs!Begin(t) /\ ~Fs!Borrow(t)
  BY <1>0 DEF FsTypes, Fs!Begin, Fs!Borrow, Fs!MkdirRecursive, Fs!RmdirRecursive, Fs!Goto
<1>3. ~(Fs!Stat(t) \/ Fs!Mkdir(t) \/ Fs!Check(t))
  <2>1. f_plan.makes[t] = {}
    BY <1>0, FsBound DEF FsTypes
  <2>. QED
    BY <1>0, <2>1 DEF CallAt, Climbing, Fs!Stat, Fs!Mkdir, Fs!Check
<1>4. ~Fs!Readdir(t)
  <2>1. ASSUME Fs!Readdir(t) PROVE FALSE
    <3>1. PICK d : d = Fs!Last(f_stack[t])
      OBVIOUS
    <3>2. f_result' = [f_result EXCEPT ![t] = Fs!Outcome(t, Fs!ReaddirError(d))]
      BY <1>0, <2>1, <3>1 DEF FsTypes, Fs!Readdir, Fs!AfterChild, Fs!Goto, Fs!Return
    <3>3. Fs!Outcome(t, Fs!ReaddirError(d)) # "Ok"
      BY DEF Fs!Outcome, Fs!ReaddirError, Fs!LookupError
    <3>. QED
      BY <1>0, <3>2, <3>3 DEF FsTypes
  <2>. QED
    BY <2>1
<1>5. ~Fs!Lstat(t)
  <2>1. ASSUME Fs!Lstat(t) PROVE FALSE
    <3>1. PICK c \in f_todo[t] : f_result' = [f_result EXCEPT ![t] = Fs!Outcome(t, Fs!LookupError(c))]
      BY <1>0, <2>1 DEF FsTypes, Fs!Lstat, Fs!AfterChild, Fs!Goto, Fs!Return
    <3>2. Fs!Outcome(t, Fs!LookupError(c)) # "Ok"
      BY DEF Fs!Outcome, Fs!LookupError
    <3>. QED
      BY <1>0, <3>1, <3>2 DEF FsTypes
  <2>. QED
    BY <2>1
<1>6. ~Fs!Unlink(t)
  <2>1. ASSUME Fs!Unlink(t) PROVE FALSE
    <3>1. PICK c : c = f_child[t]
      OBVIOUS
    <3>2. f_result' = [f_result EXCEPT ![t] = Fs!Outcome(t, Fs!UnlinkError(c))]
      BY <1>0, <2>1, <3>1 DEF FsTypes, Fs!Unlink, Fs!AfterChild, Fs!Goto, Fs!Return
    <3>3. Fs!Outcome(t, Fs!UnlinkError(c)) # "Ok"
      BY DEF Fs!Outcome, Fs!UnlinkError, Fs!LookupError
    <3>. QED
      BY <1>0, <3>2, <3>3 DEF FsTypes
  <2>. QED
    BY <2>1
<1>7. Fs!Rmdir(t)
  BY <1>1, <1>2, <1>3, <1>4, <1>5, <1>6 DEF Fs!Step
<1>8. f_pc[t] = "rmdir" /\ f_stack[t][1] = f_path[t] /\ f_stack[t] # <<>>
      /\ Descends(f_stack[t], f_todo[t])
  BY <1>0, <1>7 DEF CallAt, Clearing, Fs!Rmdir
<1>9. PICK d : d = Fs!Last(f_stack[t])
  OBVIOUS
<1>10. PICK e : e = Fs!Outcome(t, Fs!RmdirError(d))
  OBVIOUS
<1>11. e \in {"none", "ENOENT"} /\ ~(Len(f_stack[t]) > 1)
  <2>1. e # "Ok"
    BY <1>10 DEF Fs!Outcome, Fs!RmdirError, Fs!LookupError
  <2>2. e \in {"none", "ENOENT"}
    <3>1. ASSUME e \notin {"none", "ENOENT"} PROVE FALSE
      <4>1. f_result' = [f_result EXCEPT ![t] = e]
        BY <1>7, <1>9, <1>10, <3>1 DEF Fs!Rmdir, Fs!Return
      <4>. QED
        BY <1>0, <2>1, <4>1 DEF FsTypes
    <3>. QED
      BY <3>1
  <2>3. ASSUME Len(f_stack[t]) > 1 PROVE FALSE
    <3>1. f_pc' = [f_pc EXCEPT ![t] = "readdir"]
      BY <1>7, <1>9, <1>10, <2>2, <2>3 DEF Fs!Rmdir, Fs!Goto
    <3>. QED
      BY <1>0, <3>1 DEF FsTypes
  <2>. QED
    BY <2>2, <2>3
<1>12. d = f_path[t] /\ f_path[t] \in Fs!Paths
  <2>1. Len(f_stack[t]) = 1
    <3>1. Len(f_stack[t]) \in Nat \ {0}
      BY <1>8, EmptySeq DEF Descends
    <3>2. ~(Len(f_stack[t]) > 1)
      BY <1>11
    <3>. QED
      BY ONLY <3>1, <3>2, AtMostOne
  <2>. QED
    BY <1>0, <1>8, <1>9, <2>1 DEF Fs!Last, FsTypes
<1>13. f_fs' = IF e = "none" THEN [f_fs EXCEPT ![d] = "none"] ELSE f_fs
  BY <1>7, <1>9, <1>10 DEF Fs!Rmdir
<1>14. e = "ENOENT" => f_fs[d] = "none"
  BY <1>0, <1>10, <1>12, CallErrors DEF FsTypes, Fs!Outcome
<1>. QED
  BY <1>0, <1>11, <1>12, <1>13, <1>14 DEF FsTypes

\* While nothing is removed: mkdir_recursive has made what it has behind it, or
\* found it; what it finds in its way is there, unless the loop was taken; and it
\* returns Ok at a directory, something else because of a file or of the loop.
Climbs(t) ==
  /\ f_pc[t] \notin Clearing
  /\ f_pc[t] \in {"mkdir", "check"} =>
       \A n \in 0..(f_at[t] - 1) : f_fs[SubSeq(f_path[t], 1, n)] = "dir"
  /\ f_pc[t] = "check" => f_fs[SubSeq(f_path[t], 1, f_at[t])] # "none" \/ f_err[t] = "UNKNOWN"
  /\ f_err[t] = "UNKNOWN" => ~Fs!Private(t)
  /\ f_pc[t] = "done" /\ f_result[t] = "Ok" => f_fs[f_path[t]] = "dir"
  /\ f_pc[t] = "done" /\ f_result[t] # "Ok" =>
       \/ \E n \in 1..Len(f_path[t]) : f_fs[SubSeq(f_path[t], 1, n)] = "file"
       \/ ~Fs!Private(t) /\ "UNKNOWN" \in {f_err[t], f_result[t]}

MakeInv == Fs!Growing => \A t \in Movers : Climbs(t)

\* What is there stays.
TreeStays == \A p \in Fs!Paths : f_fs[p] # "none" => f_fs'[p] = f_fs[p]

\* Nobody removes anything.
LEMMA GrowingStays ==
  ASSUME FsPlaces, MakeInv, Fs!Growing, Fs!Next
  PROVE  TreeStays
<1>0. FsTypes /\ f_plan' = f_plan /\ \A t \in Movers : CallAt(t) /\ f_pc[t] \notin Clearing
  BY DEF FsPlaces, MakeInv, Climbs, Fs!Next
<1>1. CASE UNCHANGED f_fs
  BY <1>1 DEF TreeStays
<1>2. ASSUME NEW t \in Movers, Fs!Mkdir(t), f_fs' # f_fs PROVE TreeStays
  <2>1. PICK p : p = Fs!CurPath(t)
    OBVIOUS
  <2>2. Fs!MkdirError(p) = "none" /\ f_fs' = [f_fs EXCEPT ![p] = "dir"]
    BY <1>2, <2>1 DEF Fs!Mkdir, Fs!Outcome
  <2>3. p \in Fs!Paths
    <3>1. f_at[t] \in 0..Len(f_path[t]) /\ f_path[t] \in Fs!Paths
      <4>1. f_path[t] \in Fs!Paths /\ f_at[t] \in 1..Len(f_path[t])
        BY <1>0, <1>2 DEF FsTypes, CallAt, Fs!Mkdir
      <4>. QED
        BY <4>1
    <3>. QED
      BY <2>1, <3>1, PathPrefix DEF Fs!CurPath
  <2>4. f_fs[p] = "none"
    BY <1>0, <2>2, <2>3, CallErrors DEF FsTypes
  <2>. QED
    BY <1>0, <2>2, <2>4 DEF FsTypes, TreeStays
<1>3. ASSUME Fs!Other PROVE TreeStays
  <2>1. PICK change \in f_plan.others, k \in {"file", "dir"} :
          Fs!MkdirError(change[2]) = "none" /\ f_fs' = [f_fs EXCEPT ![change[2]] = k]
    BY <1>3 DEF Fs!Other, Fs!Growing
  <2>2. change[2] \in Fs!Paths
    BY <1>0, FsBound DEF FsTypes
  <2>3. f_fs[change[2]] = "none"
    BY <1>0, <2>1, <2>2, CallErrors DEF FsTypes
  <2>. QED
    BY <1>0, <2>1, <2>3 DEF FsTypes, TreeStays
<1>4. ASSUME NEW t \in Movers, Fs!Begin(t) \/ Fs!Borrow(t) \/ Fs!Stat(t) \/ Fs!Check(t)
      PROVE  UNCHANGED f_fs
  BY <1>4 DEF Fs!Begin, Fs!Borrow, Fs!MkdirRecursive, Fs!RmdirRecursive, Fs!Stat, Fs!Check
<1>5. ASSUME NEW t \in Movers, Fs!Readdir(t) \/ Fs!Lstat(t) \/ Fs!Unlink(t) \/ Fs!Rmdir(t) PROVE FALSE
  BY <1>0, <1>5 DEF Clearing, Fs!Readdir, Fs!Lstat, Fs!Unlink, Fs!Rmdir
<1>6. Fs!Over \/ Fs!OtherCall => UNCHANGED f_fs
  BY DEF Fs!Over, Fs!OtherCall
<1>. QED
  BY <1>1, <1>2, <1>3, <1>4, <1>5, <1>6 DEF Fs!Next, Fs!Step

\* A call that does not move, while the tree grows.
LEMMA ClimbsStays ==
  ASSUME FsTypes, NEW u \in Movers, CallAt(u), Climbs(u), TreeStays,
         f_pc'[u] = f_pc[u], f_path'[u] = f_path[u], f_at'[u] = f_at[u], f_result'[u] = f_result[u],
         f_err'[u] = f_err[u], f_plan' = f_plan
  PROVE  Climbs(u)'
<1>1. f_path[u] \in Fs!Paths /\ \A n \in 0..Len(f_path[u]) : SubSeq(f_path[u], 1, n) \in Fs!Paths
  BY PathPrefix DEF FsTypes
<1>2. Len(f_path[u]) \in Nat
  BY <1>1, PathPrefix
<1>3. \A n \in 0..Len(f_path[u]) :
        f_fs[SubSeq(f_path[u], 1, n)] # "none"
          => f_fs'[SubSeq(f_path[u], 1, n)] = f_fs[SubSeq(f_path[u], 1, n)]
  BY <1>1 DEF TreeStays
<1>4. f_fs[f_path[u]] # "none" => f_fs'[f_path[u]] = f_fs[f_path[u]]
  BY <1>1 DEF TreeStays
<1>5. ASSUME f_pc[u] \in {"mkdir", "check"}
      PROVE  /\ f_at[u] \in 0..Len(f_path[u]) /\ \A n \in 0..(f_at[u] - 1) : n \in 0..Len(f_path[u])
  <2>1. f_at[u] \in 1..Len(f_path[u])
    BY <1>5 DEF CallAt
  <2>. QED
    BY ONLY <1>2, <2>1
<1>6. f_pc'[u] \notin Clearing
  BY DEF Climbs
<1>7. f_pc'[u] \in {"mkdir", "check"} =>
        \A n \in 0..(f_at'[u] - 1) : f_fs'[SubSeq(f_path'[u], 1, n)] = "dir"
  BY <1>3, <1>5 DEF Climbs
<1>8. f_pc'[u] = "check" => f_fs'[SubSeq(f_path'[u], 1, f_at'[u])] # "none" \/ f_err'[u] = "UNKNOWN"
  BY <1>3, <1>5 DEF Climbs
<1>9. f_pc'[u] = "done" /\ f_result'[u] = "Ok" => f_fs'[f_path'[u]] = "dir"
  BY <1>4 DEF Climbs
<1>11. Fs!Private(u)' <=> Fs!Private(u)
  BY DEF Fs!Private
<1>10. ASSUME f_pc'[u] = "done" /\ f_result'[u] # "Ok"
       PROVE  \/ \E n \in 1..Len(f_path'[u]) : f_fs'[SubSeq(f_path'[u], 1, n)] = "file"
              \/ ~Fs!Private(u)' /\ "UNKNOWN" \in {f_err'[u], f_result'[u]}
  <2>0. SUFFICES ASSUME ~(~Fs!Private(u) /\ "UNKNOWN" \in {f_err[u], f_result[u]})
                 PROVE  \E n \in 1..Len(f_path'[u]) : f_fs'[SubSeq(f_path'[u], 1, n)] = "file"
    BY <1>11
  <2>1. PICK n \in 1..Len(f_path[u]) : f_fs[SubSeq(f_path[u], 1, n)] = "file"
    BY <1>10, <2>0 DEF Climbs
  <2>2. n \in 0..Len(f_path[u])
    BY <1>2
  <2>3. f_fs'[SubSeq(f_path[u], 1, n)] = "file"
    BY <1>3, <2>1, <2>2
  <2>. QED
    BY <2>3
<1>. QED
  BY <1>6, <1>7, <1>8, <1>9, <1>10, <1>11 DEF Climbs

\* The component is a directory: go on with the next one.
LEMMA NextClimbs ==
  ASSUME FsTypes, NEW t \in Movers, f_at[t] \in 0..Len(f_path[t]), Fs!NextComponent(t),
         UNCHANGED <<f_path, f_err, f_plan>>, f_err[t] = "UNKNOWN" => ~Fs!Private(t),
         \A n \in 0..f_at[t] : f_fs'[SubSeq(f_path[t], 1, n)] = "dir"
  PROVE  Climbs(t)'
<1>0. f_err'[t] = "UNKNOWN" => ~Fs!Private(t)'
  BY DEF Fs!Private
<1>1. f_path[t] \in Fs!Paths
  BY DEF FsTypes
<1>2. Len(f_path[t]) \in Nat /\ SubSeq(f_path[t], 1, Len(f_path[t])) = f_path[t]
  BY <1>1, PathPrefix
<1>3. CASE f_at[t] < Len(f_path[t])
  <2>1. f_at' = [f_at EXCEPT ![t] = @ + 1] /\ f_pc' = [f_pc EXCEPT ![t] = "mkdir"]
    BY <1>3 DEF Fs!NextComponent, Fs!Goto
  <2>2. f_at'[t] = f_at[t] + 1 /\ f_pc'[t] = "mkdir"
    BY <2>1 DEF FsTypes
  <2>3. f_at'[t] - 1 = f_at[t]
    BY <1>2, <2>2
  <2>. QED
    BY <1>0, <2>2, <2>3 DEF Climbs, Clearing
<1>4. CASE ~(f_at[t] < Len(f_path[t]))
  <2>1. f_at[t] = Len(f_path[t]) /\ f_at[t] \in 0..f_at[t]
    BY <1>2, <1>4
  <2>2. f_pc'[t] = "done" /\ f_result'[t] = "Ok"
    BY <1>4 DEF Fs!NextComponent, Fs!Return, FsTypes
  <2>3. f_fs'[f_path[t]] = "dir"
    BY <1>2, <2>1
  <2>. QED
    BY <1>0, <2>2, <2>3 DEF Climbs, Clearing
<1>. QED
  BY <1>3, <1>4

\* What a mkdir_recursive does while nothing is removed.
LEMMA ClimbsOn ==
  ASSUME FsPlaces, FsLoops, Fs!Growing, TreeStays, NEW t \in Movers, Climbs(t), f_plan' = f_plan,
         Fs!Begin(t) \/ Fs!Step(t)
  PROVE  Climbs(t)'
<1>0. FsTypes /\ CallAt(t)
  BY DEF FsPlaces
<1>p. (Fs!Private(t)' <=> Fs!Private(t)) /\ (f_err[t] = "UNKNOWN" => ~Fs!Private(t))
  BY DEF Fs!Private, Climbs
<1>1. f_path[t] \in Fs!Paths /\ Len(f_path[t]) \in Nat
  BY <1>0, PathPrefix DEF FsTypes
<1>2. PICK p : p = Fs!CurPath(t)
  OBVIOUS
<1>3. p = SubSeq(f_path[t], 1, f_at[t])
  BY <1>2 DEF Fs!CurPath
<1>4. CASE Fs!Begin(t)
  <2>1. ~Fs!RmdirRecursive(t)
    BY DEF Fs!Growing, Fs!RmdirRecursive
  <2>2. f_pc' = [f_pc EXCEPT ![t] = "stat"] /\ UNCHANGED f_err
    BY <1>4, <2>1 DEF Fs!Begin, Fs!MkdirRecursive, Fs!Goto
  <2>3. f_pc'[t] = "stat"
    BY <1>0, <2>2 DEF FsTypes
  <2>. QED
    BY <1>p, <2>2, <2>3 DEF Climbs, Clearing
<1>5. CASE Fs!Stat(t)
  <2>1. /\ f_pc[t] = "stat" /\ f_at[t] = 0 /\ UNCHANGED <<f_fs, f_path, f_err>>
    BY <1>0, <1>5 DEF CallAt, Fs!Stat
  <2>2. CASE t \in f_using /\ f_fs[f_path[t]] = "dir"
    <3>1. f_pc'[t] = "done" /\ f_result'[t] = "Ok"
      BY <1>0, <1>5, <2>2 DEF FsTypes, Fs!Stat, Fs!Return
    <3>. QED
      BY <1>p, <2>1, <2>2, <3>1 DEF Climbs, Clearing
  <2>3. CASE ~(t \in f_using /\ f_fs[f_path[t]] = "dir")
    <3>1. SubSeq(f_path[t], 1, 0) = <<>>
      BY <1>1, SubSeqEmpty
    <3>2. \A n \in 0..f_at[t] : n = 0
      BY <2>1
    <3>3. \A n \in 0..f_at[t] : f_fs'[SubSeq(f_path[t], 1, n)] = "dir"
      BY <1>0, <2>1, <3>1, <3>2 DEF FsTypes, Fs!IsTree
    <3>4. f_at[t] \in 0..Len(f_path[t]) /\ Fs!NextComponent(t)
      BY <1>1, <1>5, <2>1, <2>3 DEF Fs!Stat
    <3>. QED
      BY <1>0, <1>p, <2>1, <3>3, <3>4, NextClimbs
  <2>. QED
    BY <2>2, <2>3
<1>6. ASSUME f_pc[t] \in {"mkdir", "check"}
      PROVE  /\ f_at[t] \in 1..Len(f_path[t]) /\ f_at[t] \in 0..Len(f_path[t]) /\ p \in Fs!Paths
             /\ p # <<>> /\ Fs!Parent(p) = SubSeq(f_path[t], 1, f_at[t] - 1)
             /\ f_fs[Fs!Parent(p)] = "dir"
             /\ \A n \in 0..(f_at[t] - 1) :
                  n \in 0..f_at[t] /\ SubSeq(f_path[t], 1, n) \in Fs!Paths
  <2>1. f_at[t] \in 1..Len(f_path[t])
    BY <1>0, <1>6 DEF CallAt
  <2>2. /\ f_at[t] \in 0..Len(f_path[t]) /\ f_at[t] # 0 /\ f_at[t] - 1 \in 0..f_at[t]
        /\ f_at[t] - 1 \in 0..(f_at[t] - 1)
        /\ \A n \in 0..(f_at[t] - 1) : n \in 0..f_at[t] /\ n \in 0..Len(f_path[t])
    BY ONLY <1>1, <2>1
  <2>3. /\ p \in Fs!Paths /\ Len(p) = f_at[t]
        /\ SubSeq(p, 1, f_at[t] - 1) = SubSeq(f_path[t], 1, f_at[t] - 1)
    BY <1>1, <1>3, <2>2, PathPrefix
  <2>4. p # <<>>
    BY <2>2, <2>3, EmptySeq
  <2>5. Fs!Parent(p) = SubSeq(f_path[t], 1, f_at[t] - 1)
    BY <2>3, <2>4, PathParent
  <2>6. f_fs[Fs!Parent(p)] = "dir"
    BY <1>6, <2>2, <2>5 DEF Climbs
  <2>. QED
    BY <1>1, <2>1, <2>2, <2>3, <2>4, <2>5, <2>6, PathPrefix
<1>7. ASSUME f_pc[t] \in {"mkdir", "check"}, f_fs'[p] = "dir"
      PROVE  \A n \in 0..f_at[t] : f_fs'[SubSeq(f_path[t], 1, n)] = "dir"
  <2>1. ASSUME NEW n \in 0..f_at[t] PROVE f_fs'[SubSeq(f_path[t], 1, n)] = "dir"
    <3>1. CASE n = f_at[t]
      BY <1>3, <1>7, <3>1
    <3>2. CASE n # f_at[t]
      <4>1. n \in 0..(f_at[t] - 1)
        BY <1>6, <1>7, <3>2
      <4>2. f_fs[SubSeq(f_path[t], 1, n)] = "dir" /\ SubSeq(f_path[t], 1, n) \in Fs!Paths
        BY <1>6, <1>7, <4>1 DEF Climbs
      <4>. QED
        BY <4>2 DEF TreeStays
    <3>. QED
      BY <3>1, <3>2
  <2>. QED
    BY <2>1
<1>8. CASE Fs!Mkdir(t)
  <2>1. f_pc[t] = "mkdir" /\ UNCHANGED f_path
    BY <1>8 DEF Fs!Mkdir
  <2>2. CASE t \in f_using /\ f_fs[p] = "none"
    <3>1. Fs!MkdirError(p) = "none"
      BY <1>6, <2>1, <2>2 DEF Fs!MkdirError
    <3>2. f_fs' = [f_fs EXCEPT ![p] = "dir"] /\ Fs!NextComponent(t) /\ UNCHANGED f_err
      BY <1>2, <1>8, <2>2, <3>1 DEF Fs!Mkdir, Fs!Outcome
    <3>3. f_fs'[p] = "dir"
      BY <1>0, <1>6, <2>1, <3>2 DEF FsTypes
    <3>. QED
      BY <1>0, <1>6, <1>7, <1>p, <2>1, <3>2, <3>3, NextClimbs
  <2>3. CASE t \in f_using /\ f_fs[p] # "none"
    <3>1. Fs!MkdirError(p) = "EEXIST"
      BY <2>3 DEF Fs!MkdirError
    <3>2. /\ f_pc' = [f_pc EXCEPT ![t] = "check"] /\ UNCHANGED <<f_fs, f_at>>
          /\ f_err' = [f_err EXCEPT ![t] = "EEXIST"]
      BY <1>2, <1>8, <2>3, <3>1 DEF Fs!Mkdir, Fs!Goto, Fs!Outcome
    <3>3. f_pc'[t] = "check" /\ f_err'[t] # "UNKNOWN"
      BY <1>0, <3>2 DEF FsTypes
    <3>. QED
      BY <1>3, <2>1, <2>3, <3>2, <3>3 DEF Climbs, Clearing
  <2>4. CASE t \notin f_using
    <3>1. ~Fs!Private(t)
      BY <1>8, <2>4, PrivateIsFree DEF Fs!Mkdir
    <3>2. /\ f_pc' = [f_pc EXCEPT ![t] = "check"] /\ UNCHANGED <<f_fs, f_at>>
          /\ f_err' = [f_err EXCEPT ![t] = "UNKNOWN"]
      BY <1>2, <1>8, <2>4 DEF Fs!Mkdir, Fs!Goto, Fs!Outcome
    <3>3. f_pc'[t] = "check" /\ f_err'[t] = "UNKNOWN"
      BY <1>0, <3>2 DEF FsTypes
    <3>. QED
      BY <1>p, <2>1, <3>1, <3>2, <3>3 DEF Climbs, Clearing
  <2>. QED
    BY <2>2, <2>3, <2>4
<1>9. CASE Fs!Check(t)
  <2>1. /\ f_pc[t] = "check" /\ UNCHANGED <<f_fs, f_path, f_err>>
        /\ f_fs[p] # "none" \/ f_err[t] = "UNKNOWN"
    BY <1>3, <1>9 DEF Fs!Check, Climbs
  <2>2. f_fs[p] # "none" <=> Fs!LookupError(p) = "none"
    BY <1>0, <1>6, <2>1, CallErrors DEF FsTypes
  <2>3. CASE t \in f_using /\ f_fs[p] = "dir"
    <3>1. Fs!NextComponent(t)
      BY <1>2, <1>9, <2>2, <2>3 DEF Fs!Check, Fs!Outcome
    <3>. QED
      BY <1>0, <1>6, <1>7, <1>p, <2>1, <2>3, <3>1, NextClimbs
  <2>5. CASE t \notin f_using
    <3>1. ~Fs!Private(t)
      BY <1>9, <2>5, PrivateIsFree DEF Fs!Check
    <3>2. Fs!Return(t, "UNKNOWN")
      BY <1>2, <1>9, <2>5 DEF Fs!Check, Fs!Outcome
    <3>3. f_pc'[t] = "done" /\ f_result'[t] = "UNKNOWN"
      BY <1>0, <3>2 DEF FsTypes, Fs!Return
    <3>. QED
      BY <1>p, <2>1, <3>1, <3>3 DEF Climbs, Clearing
  <2>6. CASE t \in f_using /\ f_fs[p] = "none"
    <3>1. PICK e \in {"ENOENT", "ENOTDIR"} : e = Fs!LookupError(p)
      BY <1>0, <1>6, <2>1, <2>2, <2>6, CallErrors DEF FsTypes
    <3>2. Fs!Return(t, e)
      BY <1>2, <1>9, <2>6, <3>1 DEF Fs!Check, Fs!Outcome
    <3>3. f_pc'[t] = "done" /\ f_result'[t] # "Ok"
      BY <1>0, <3>2 DEF FsTypes, Fs!Return
    <3>. QED
      BY <1>p, <2>1, <2>6, <3>3 DEF Climbs, Clearing
  <2>4. CASE t \in f_using /\ f_fs[p] \notin {"none", "dir"}
    <3>1. f_fs[p] = "file"
      BY <1>0, <1>6, <2>1, <2>4 DEF FsTypes, Fs!Kind
    <3>2. Fs!Return(t, f_err[t])
      BY <1>2, <1>9, <2>2, <2>4 DEF Fs!Check, Fs!Outcome
    <3>3. f_pc'[t] = "done" /\ f_result'[t] # "Ok"
      BY <1>0, <3>2 DEF FsTypes, Fs!Return, Fs!Error
    <3>4. \E n \in 1..Len(f_path'[t]) : f_fs'[SubSeq(f_path'[t], 1, n)] = "file"
      BY <1>3, <1>6, <2>1, <3>1
    <3>. QED
      BY <1>p, <2>1, <3>3, <3>4 DEF Climbs, Clearing
  <2>. QED
    BY <2>3, <2>4, <2>5, <2>6
<1>10. ~(Fs!Readdir(t) \/ Fs!Lstat(t) \/ Fs!Unlink(t) \/ Fs!Rmdir(t))
  BY DEF Climbs, Clearing, Fs!Readdir, Fs!Lstat, Fs!Unlink, Fs!Rmdir
<1>11. CASE Fs!Borrow(t)
  <2>1. UNCHANGED callVars
    BY <1>11, LoopsChange
  <2>. QED
    BY <1>0, <2>1, ClimbsStays DEF callVars
<1>. QED
  BY <1>4, <1>5, <1>8, <1>9, <1>10, <1>11 DEF Fs!Step

\* mkdir_recursive keeps its invariant.
LEMMA MakeStep == FsPlaces /\ FsLoops /\ MakeInv /\ (Fs!Next \/ UNCHANGED fsVars) => MakeInv'
<1>1. ASSUME FsPlaces, FsLoops, MakeInv, Fs!Next PROVE MakeInv'
  <2>. SUFFICES ASSUME Fs!Growing' PROVE \A t \in Movers : Climbs(t)'
    BY DEF MakeInv
  <2>1. f_plan' = f_plan
    BY <1>1 DEF Fs!Next
  <2>2. Fs!Growing
    BY <2>1 DEF Fs!Growing
  <2>3. TreeStays /\ \A t \in Movers : Climbs(t)
    BY <1>1, <2>2, GrowingStays DEF MakeInv
  <2>4. FsTypes /\ FsFlags /\ \A t \in Movers : CallAt(t)
    BY <1>1 DEF FsPlaces
  <2>5. ASSUME NEW t \in Movers, Fs!Begin(t) \/ Fs!Step(t) PROVE \A u \in Movers : Climbs(u)'
    <3>1. Climbs(t)'
      BY <1>1, <2>1, <2>2, <2>3, <2>5, ClimbsOn
    <3>2. Moves(t)
      BY <2>1, <2>4, <2>5, StepMoves
    <3>3. ASSUME NEW u \in Movers, u # t PROVE Climbs(u)'
      BY <2>3, <2>4, <3>2, <3>3, ClimbsStays DEF Moves
    <3>. QED
      BY <3>1, <3>3
  <2>6. ASSUME Fs!Other \/ Fs!OtherCall \/ Fs!Over PROVE \A u \in Movers : Climbs(u)'
    <3>1. UNCHANGED <<f_pc, f_path, f_at, f_result, f_err>>
      BY <2>6 DEF Fs!Other, Fs!OtherCall, Fs!Over, Fs!local
    <3>. QED
      BY <2>1, <2>3, <2>4, <3>1, ClimbsStays
  <2>. QED
    BY <1>1, <2>5, <2>6 DEF Fs!Next
<1>2. ASSUME MakeInv, UNCHANGED fsVars PROVE MakeInv'
  BY <1>2 DEF MakeInv, Climbs, Fs!Growing, Fs!Private, fsVars
<1>. QED
  BY <1>1, <1>2

LEMMA MakeInit == Fs!Init => MakeInv
BY DEF Fs!Init, MakeInv, Climbs, Clearing

\* A rmdir_recursive of a directory, with nobody else about.
Undisturbed(t) ==
  /\ f_plan.removes[t] # {} /\ f_plan.tree[f_path[t]] = "dir"
  /\ f_others = 0 /\ \A u \in Movers \ {t} : f_pc[u] = "start"

\* The directories on the stack and the children still to be looked at are there,
\* and if none of its children was a directory, the one on top has no others.
Clears(t) ==
  /\ f_result[t] \in {"none", "Ok"} \/ (f_result[t] = "UNKNOWN" /\ ~Fs!Private(t))
  /\ f_pc[t] \in Clearing =>
       /\ \A i \in 1..Len(f_stack[t]) : f_fs[f_stack[t][i]] = "dir"
       /\ \A c \in f_todo[t] : f_fs[c] # "none"
  /\ f_pc[t] \in {"lstat", "unlink", "rmdir"} /\ ~f_subdir[t] =>
       \A q \in Fs!Below(f_stack[t][Len(f_stack[t])]) : f_fs[q] # "none" => q \in f_todo[t]
  /\ f_pc[t] = "unlink" => f_fs[f_child[t]] = "file"

ClearInv ==
  /\ f_others = 0 /\ (\A u \in Movers : f_pc[u] = "start") => f_fs = f_plan.tree
  /\ \A t \in Movers : Undisturbed(t) => Clears(t)

LEMMA ClearInit == Fs!Init => ClearInv
BY DEF Fs!Init, ClearInv, Clears, Clearing

\* Whoever moves has begun.
LEMMA StepBegins ==
  ASSUME FsTypes, NEW u \in Movers, Fs!Begin(u) \/ Fs!Step(u)
  PROVE  f_pc'[u] # "start"
<1>1. CASE Fs!Begin(u)
  BY <1>1 DEF FsTypes, Fs!Begin, Fs!MkdirRecursive, Fs!RmdirRecursive, Fs!Goto
<1>2. CASE Fs!Stat(u) \/ Fs!Mkdir(u) \/ Fs!Check(u)
  BY <1>2 DEF FsTypes, Fs!Stat, Fs!Mkdir, Fs!Check, Fs!NextComponent, Fs!Return, Fs!Goto
<1>3. CASE Fs!Readdir(u) \/ Fs!Unlink(u)
  BY <1>3 DEF FsTypes, Fs!Readdir, Fs!Unlink, Fs!AfterChild, Fs!Return, Fs!Goto
<1>4. CASE Fs!Lstat(u)
  BY <1>4 DEF FsTypes, Fs!Lstat, Fs!AfterChild, Fs!Return, Fs!Goto
<1>5. CASE Fs!Rmdir(u)
  BY <1>5 DEF FsTypes, Fs!Rmdir, Fs!Return, Fs!Goto
<1>6. CASE Fs!Borrow(u)
  BY <1>6 DEF Fs!Borrow
<1>. QED
  BY <1>1, <1>2, <1>3, <1>4, <1>5, <1>6 DEF Fs!Step

\* The argument is a directory, as it was in the beginning.
LEMMA ClearsFirst ==
  ASSUME FsTypes, NEW t \in Movers, f_fs = f_plan.tree, CallAt(t), f_plan' = f_plan,
         f_plan.removes[t] # {}, f_plan.tree[f_path'[t]] = "dir", Fs!Begin(t)
  PROVE  Clears(t)'
<1>1. Fs!RmdirRecursive(t)
  <2>1. f_plan.makes[t] = {}
    BY FsBound DEF FsTypes
  <2>. QED
    BY <2>1 DEF Fs!Begin, Fs!MkdirRecursive
<1>2. PICK p : f_path' = [f_path EXCEPT ![t] = p] /\ f_stack' = [f_stack EXCEPT ![t] = <<p>>]
  BY <1>1 DEF Fs!RmdirRecursive
<1>3. /\ f_pc'[t] = "readdir" /\ f_result'[t] = "none" /\ f_fs' = f_fs /\ f_todo'[t] = {}
      /\ f_path'[t] = p /\ f_stack'[t] = <<p>>
  BY <1>1, <1>2 DEF FsTypes, CallAt, Fs!RmdirRecursive, Fs!Goto
<1>4. Len(<<p>>) = 1 /\ <<p>>[1] = p /\ \A i \in 1..1 : i = 1
  OBVIOUS
<1>. QED
  BY <1>3, <1>4 DEF Clears, Clearing

\* Its directories are there when it comes to them, and empty when it removes
\* them.
LEMMA ClearsOn ==
  ASSUME FsPlaces, FsLoops, NEW t \in Movers, Clears(t), f_plan' = f_plan,
         f_plan.removes[t] # {}, Fs!Step(t)
  PROVE  Clears(t)'
<1>0. FsTypes /\ FsFlags /\ CallAt(t)
  BY DEF FsPlaces
<1>1. ~(Fs!Stat(t) \/ Fs!Mkdir(t) \/ Fs!Check(t))
  <2>1. f_plan.makes[t] = {}
    BY <1>0, FsBound DEF FsTypes
  <2>. QED
    BY <1>0, <2>1 DEF CallAt, Climbing, Fs!Stat, Fs!Mkdir, Fs!Check
<1>2. ASSUME f_pc[t] \in Clearing
      PROVE  /\ f_stack[t] # <<>> /\ Len(f_stack[t]) \in Nat \ {0} /\ Len(f_stack[t]) \in 1..Len(f_stack[t])
             /\ f_stack[t] \in Seq(Fs!Paths) /\ f_stack[t][Len(f_stack[t])] \in Fs!Paths
             /\ f_result[t] = "none" /\ Descends(f_stack[t], f_todo[t])
  <2>1. f_stack[t] # <<>> /\ f_result[t] = "none" /\ Descends(f_stack[t], f_todo[t])
    BY <1>0, <1>2 DEF CallAt, Clearing
  <2>2. f_stack[t] \in Seq(Fs!Paths)
    BY <1>0 DEF FsTypes
  <2>3. Len(f_stack[t]) \in Nat \ {0}
    BY <2>1, <2>2, EmptySeq
  <2>4. Len(f_stack[t]) \in 1..Len(f_stack[t])
    BY ONLY <2>3
  <2>. QED
    BY <2>1, <2>2, <2>3, <2>4, ElementOfSeq
<1>3. PICK d : d = f_stack[t][Len(f_stack[t])]
  OBVIOUS
<1>8. CASE Fs!Borrow(t)
  <2>1. UNCHANGED callVars
    BY <1>8, LoopsChange
  <2>. QED
    BY <2>1 DEF callVars, Clears, Fs!Private
<1>9. CASE t \notin f_using /\ ~Fs!Borrow(t)
  <2>1. Fs!Readdir(t) \/ Fs!Lstat(t) \/ Fs!Unlink(t) \/ Fs!Rmdir(t)
    BY <1>1, <1>9 DEF Fs!Step
  <2>2. ~Fs!Private(t)
    BY <1>9, <2>1, PrivateIsFree DEF Fs!Readdir, Fs!Lstat, Fs!Unlink, Fs!Rmdir
  <2>3. Fs!Return(t, "UNKNOWN")
    BY <1>9, <2>1 DEF Fs!Readdir, Fs!Lstat, Fs!Unlink, Fs!Rmdir, Fs!Outcome
  <2>4. f_pc'[t] = "done" /\ f_result'[t] = "UNKNOWN"
    BY <1>0, <2>3 DEF FsTypes, Fs!Return
  <2>. QED
    BY <2>2, <2>4 DEF Clears, Clearing, Fs!Private
<1>4. CASE t \in f_using /\ Fs!Readdir(t)
  <2>1. f_pc[t] = "readdir" /\ UNCHANGED <<f_fs, f_stack>> /\ f_subdir' = [f_subdir EXCEPT ![t] = FALSE]
    BY <1>4 DEF Fs!Readdir
  <2>2. d \in Fs!Paths /\ f_fs[d] = "dir"
    BY <1>2, <1>3, <2>1 DEF Clears, Clearing
  <2>3. Fs!ReaddirError(d) = "none"
    BY <1>0, <2>2, CallErrors DEF FsTypes
  <2>4. PICK c : c = Fs!Children(d)
    OBVIOUS
  <2>5. Fs!AfterChild(t, c, FALSE)
    BY <1>3, <1>4, <2>3, <2>4 DEF Fs!Readdir, Fs!Last, Fs!Outcome
  <2>6. /\ f_todo'[t] = c /\ f_pc'[t] \in {"lstat", "rmdir"} /\ f_result'[t] = "none"
    BY <1>0, <1>2, <2>1, <2>5 DEF FsTypes, Clearing, Fs!AfterChild, Fs!Goto
  <2>7. \A q : q \in c <=> q \in Fs!Below(d) /\ f_fs[q] # "none"
    BY <2>4 DEF Fs!Children
  <2>. QED
    BY <1>3, <2>1, <2>6, <2>7 DEF Clears, Clearing
<1>5. CASE t \in f_using /\ Fs!Lstat(t)
  <2>1. f_pc[t] = "lstat" /\ UNCHANGED f_fs
    BY <1>5 DEF Fs!Lstat
  <2>2. \A c \in f_todo[t] : c \in Fs!Paths /\ f_fs[c] # "none" /\ Fs!LookupError(c) = "none"
    BY <1>0, <2>1, CallErrors DEF FsTypes, Clears, Clearing
  <2>3. PICK c \in f_todo[t] :
          \/ /\ f_fs[c] = "dir"
             /\ f_stack' = [f_stack EXCEPT ![t] = Append(@, c)]
             /\ f_subdir' = [f_subdir EXCEPT ![t] = TRUE]
             /\ Fs!AfterChild(t, f_todo[t] \ {c}, TRUE) /\ UNCHANGED f_child
          \/ /\ f_fs[c] # "dir"
             /\ f_child' = [f_child EXCEPT ![t] = c] /\ Fs!Goto(t, "unlink")
             /\ UNCHANGED <<f_stack, f_todo, f_subdir>>
    BY <1>5, <2>2 DEF Fs!Lstat, Fs!Outcome
  <2>4. CASE /\ f_fs[c] = "dir"
             /\ f_stack' = [f_stack EXCEPT ![t] = Append(@, c)]
             /\ f_subdir' = [f_subdir EXCEPT ![t] = TRUE]
             /\ Fs!AfterChild(t, f_todo[t] \ {c}, TRUE) /\ UNCHANGED f_child
    <3>1. PICK s : s = Append(f_stack[t], c)
      OBVIOUS
    <3>2. /\ f_stack'[t] = s /\ f_todo'[t] = f_todo[t] \ {c} /\ f_pc'[t] \in {"lstat", "readdir"}
          /\ f_result'[t] = "none"
      BY <1>0, <1>2, <2>1, <2>4, <3>1 DEF FsTypes, Clearing, Fs!AfterChild, Fs!Goto
    <3>3. f_subdir'[t]
      BY <1>0, <2>4 DEF FsFlags
    <3>4. /\ Len(s) = Len(f_stack[t]) + 1 /\ s[Len(f_stack[t]) + 1] = c
          /\ \A i \in 1..Len(f_stack[t]) : s[i] = f_stack[t][i]
      BY <1>2, <2>1, <2>2, <3>1, AppendProperties DEF Clearing
    <3>5. \A i \in 1..Len(s) : i \in 1..Len(f_stack[t]) \/ i = Len(f_stack[t]) + 1
      BY <1>2, <2>1, <3>4 DEF Clearing
    <3>6. \A i \in 1..Len(f_stack[t]) : f_fs[f_stack[t][i]] = "dir"
      BY <2>1 DEF Clears, Clearing
    <3>7. \A i \in 1..Len(s) : f_fs[s[i]] = "dir"
      BY <2>4, <3>4, <3>5, <3>6
    <3>. QED
      BY <2>1, <2>2, <3>2, <3>3, <3>7 DEF Clears, Clearing
  <2>5. CASE /\ f_fs[c] # "dir"
             /\ f_child' = [f_child EXCEPT ![t] = c] /\ Fs!Goto(t, "unlink")
             /\ UNCHANGED <<f_stack, f_todo, f_subdir>>
    <3>1. f_pc'[t] = "unlink" /\ f_child'[t] = c /\ f_result'[t] = "none"
      BY <1>0, <1>2, <2>1, <2>5 DEF FsTypes, Clearing, Fs!Goto
    <3>2. f_fs[c] = "file"
      BY <1>0, <2>2, <2>5 DEF FsTypes, Fs!Kind
    <3>. QED
      BY <2>1, <2>5, <3>1, <3>2 DEF Clears, Clearing
  <2>. QED
    BY <2>3, <2>4, <2>5
<1>6. CASE t \in f_using /\ Fs!Unlink(t)
  <2>1. f_pc[t] = "unlink" /\ UNCHANGED <<f_stack, f_child, f_subdir>>
    BY <1>6 DEF Fs!Unlink
  <2>2. PICK c \in f_todo[t] : c = f_child[t]
    BY <1>0, <2>1 DEF CallAt
  <2>3. f_fs[c] = "file" /\ c \in Fs!Paths
    BY <1>0, <2>1, <2>2 DEF Clears, FsTypes
  <2>4. Fs!UnlinkError(c) = "none"
    BY <1>0, <2>3, CallErrors DEF FsTypes
  <2>5. /\ f_fs' = [f_fs EXCEPT ![c] = "none"] /\ Fs!AfterChild(t, f_todo[t] \ {c}, f_subdir[t])
    BY <1>6, <2>2, <2>4 DEF Fs!Unlink, Fs!Outcome
  <2>6. /\ f_todo'[t] = f_todo[t] \ {c} /\ f_pc'[t] \in {"lstat", "readdir", "rmdir"}
        /\ f_result'[t] = "none"
    BY <1>0, <1>2, <2>1, <2>5 DEF FsTypes, Clearing, Fs!AfterChild, Fs!Goto
  <2>7. f_fs'[c] = "none" /\ \A q \in Fs!Paths : q # c => f_fs'[q] = f_fs[q]
    BY <1>0, <2>3, <2>5 DEF FsTypes
  <2>8. \A i \in 1..Len(f_stack[t]) : f_stack[t][i] \in Fs!Paths /\ f_fs[f_stack[t][i]] = "dir"
    BY <1>2, <2>1, ElementOfSeq DEF Clears, Clearing
  <2>9. \A i \in 1..Len(f_stack[t]) : f_fs'[f_stack[t][i]] = "dir"
    BY <2>3, <2>7, <2>8
  <2>10. \A q \in f_todo[t] \ {c} : f_fs'[q] # "none"
    BY <1>0, <2>1, <2>7 DEF FsTypes, Clears, Clearing
  <2>11. ~f_subdir[t] => \A q \in Fs!Below(d) : f_fs'[q] # "none" => q \in f_todo[t] \ {c}
    <3>1. Fs!Below(d) \subseteq Fs!Paths
      BY DEF Fs!Below
    <3>2. ~f_subdir[t] => \A q \in Fs!Below(d) : f_fs[q] # "none" => q \in f_todo[t]
      BY <1>3, <2>1 DEF Clears
    <3>. QED
      BY <2>7, <3>1, <3>2
  <2>. QED
    BY <1>3, <2>1, <2>6, <2>9, <2>10, <2>11 DEF Clears, Clearing
<1>7. CASE t \in f_using /\ Fs!Rmdir(t)
  <2>1. f_pc[t] = "rmdir" /\ f_todo[t] = {} /\ ~f_subdir[t] /\ UNCHANGED <<f_todo, f_subdir>>
    BY <1>0, <1>7 DEF CallAt, Fs!Rmdir
  <2>2. d \in Fs!Paths /\ f_fs[d] = "dir" /\ \A q \in Fs!Below(d) : f_fs[q] = "none"
    BY <1>2, <1>3, <2>1 DEF Clears, Clearing
  <2>3. Fs!RmdirError(d) = "none"
    <3>1. Fs!Children(d) = {}
      BY <2>2 DEF Fs!Children
    <3>2. Fs!LookupError(d) = "none"
      BY <1>0, <2>2, CallErrors DEF FsTypes
    <3>. QED
      BY <2>2, <3>1, <3>2 DEF Fs!RmdirError
  <2>4. PICK s : s = SubSeq(f_stack[t], 1, Len(f_stack[t]) - 1)
    OBVIOUS
  <2>5. /\ f_fs' = [f_fs EXCEPT ![d] = "none"] /\ f_stack' = [f_stack EXCEPT ![t] = s]
    BY <1>3, <1>7, <2>3, <2>4 DEF Fs!Rmdir, Fs!Last, Fs!Front, Fs!Outcome
  <2>6. f_pc'[t] \in {"readdir", "done"} /\ f_result'[t] \in {"none", "Ok"} /\ f_stack'[t] = s
    <3>1. Fs!Goto(t, "readdir") \/ Fs!Return(t, "Ok")
      BY <1>3, <1>7, <2>3 DEF Fs!Rmdir, Fs!Last, Fs!Outcome
    <3>. QED
      BY <1>0, <1>2, <2>1, <2>5, <3>1 DEF FsTypes, Clearing, Fs!Goto, Fs!Return
  <2>7. /\ Len(s) = Len(f_stack[t]) - 1
        /\ \A i \in 1..(Len(f_stack[t]) - 1) : s[i] = f_stack[t][i]
    BY <1>2, <2>1, <2>4, DescendsPop DEF Clearing
  <2>8. \A i \in 1..(Len(f_stack[t]) - 1) : i \in 1..Len(f_stack[t]) /\ i < Len(f_stack[t])
    <3>1. Len(f_stack[t]) \in Nat \ {0}
      BY <1>2, <2>1 DEF Clearing
    <3>. QED
      BY ONLY <3>1
  <2>9. ASSUME NEW i \in 1..Len(s) PROVE f_fs'[s[i]] = "dir"
    <3>1. i \in 1..Len(f_stack[t]) /\ i < Len(f_stack[t]) /\ s[i] = f_stack[t][i]
      BY <2>7, <2>8
    <3>2. ~Within(s[i], d)
      BY <1>2, <1>3, <2>1, <3>1 DEF Descends, Clearing
    <3>3. Within(d, d)
      BY <2>2, PathPrefix DEF Within
    <3>4. s[i] # d /\ s[i] \in Fs!Paths /\ f_fs[s[i]] = "dir"
      BY <1>2, <2>1, <3>1, <3>2, <3>3, ElementOfSeq DEF Clears, Clearing
    <3>. QED
      BY <1>0, <2>5, <3>4 DEF FsTypes
  <2>. QED
    BY <2>1, <2>6, <2>9 DEF Clears, Clearing
<1>. QED
  BY <1>1, <1>4, <1>5, <1>6, <1>7, <1>8, <1>9 DEF Fs!Step

LEMMA ClearStep == FsPlaces /\ FsLoops /\ ClearInv /\ (Fs!Next \/ UNCHANGED fsVars) => ClearInv'
<1>1. ASSUME FsPlaces, FsLoops, ClearInv, Fs!Next PROVE ClearInv'
  <2>1. f_plan' = f_plan
    BY <1>1 DEF Fs!Next
  <2>2. FsTypes /\ FsFlags /\ \A t \in Movers : CallAt(t)
    BY <1>1 DEF FsPlaces
  <2>3. ASSUME Fs!Other PROVE ClearInv'
    <3>1. f_others' = f_others + 1 /\ f_others \in Nat
      <4>1. f_plan.most \in Nat
        BY <2>2, FsBound DEF FsTypes
      <4>. QED
        BY <2>2, <2>3, <4>1 DEF FsTypes, Fs!Other
    <3>2. f_others' # 0
      BY ONLY <3>1
    <3>. QED
      BY <3>2 DEF ClearInv, Undisturbed
  <2>4. ASSUME Fs!Over \/ Fs!OtherCall PROVE ClearInv'
    <3>1. UNCHANGED <<f_plan, f_fs, f_pc, f_path, f_stack, f_todo, f_child, f_subdir, f_result, f_others>>
      BY <2>1, <2>4 DEF Fs!Over, Fs!OtherCall, Fs!local
    <3>. QED
      BY <1>1, <3>1 DEF ClearInv, Undisturbed, Clears, Fs!Private
  <2>5. ASSUME NEW u \in Movers, Fs!Begin(u) \/ Fs!Step(u) PROVE ClearInv'
    <3>1. f_pc'[u] # "start" /\ Moves(u)
      BY <2>1, <2>2, <2>5, StepBegins, StepMoves
    <3>2. f_others' = f_others
      BY <2>5 DEF Fs!Begin, Fs!MkdirRecursive, Fs!RmdirRecursive, Fs!Step, Fs!Borrow, Fs!Stat, Fs!Mkdir, Fs!Check,
                  Fs!Readdir, Fs!Lstat, Fs!Unlink, Fs!Rmdir
    <3>3. ASSUME NEW t \in Movers, Undisturbed(t)' PROVE Clears(t)'
      <4>1. t = u
        BY <3>1, <3>3 DEF Undisturbed
      <4>2. /\ f_plan.removes[t] # {} /\ f_plan.tree[f_path'[t]] = "dir" /\ f_others = 0
            /\ \A w \in Movers \ {t} : f_pc[w] = "start"
        BY <2>1, <3>1, <3>2, <3>3, <4>1 DEF Undisturbed, Moves
      <4>3. CASE Fs!Begin(t)
        <5>1. f_pc[t] = "start"
          BY <4>3 DEF Fs!Begin, Fs!MkdirRecursive, Fs!RmdirRecursive
        <5>2. f_fs = f_plan.tree
          BY <1>1, <4>2, <5>1 DEF ClearInv
        <5>. QED
          BY <2>1, <2>2, <4>2, <4>3, <5>2, ClearsFirst
      <4>4. CASE Fs!Step(t)
        <5>1. f_path' = f_path
          BY <4>4 DEF Fs!Step, Fs!Borrow, Fs!local, Fs!Stat, Fs!Mkdir, Fs!Check, Fs!Readdir, Fs!Lstat, Fs!Unlink, Fs!Rmdir
        <5>2. Clears(t)
          BY <1>1, <4>2, <5>1 DEF ClearInv, Undisturbed
        <5>. QED
          BY <1>1, <2>1, <4>2, <4>4, <5>2, ClearsOn
      <4>. QED
        BY <2>5, <4>1, <4>3, <4>4
    <3>. QED
      BY <3>1, <3>3 DEF ClearInv
  <2>. QED
    BY <1>1, <2>3, <2>4, <2>5 DEF Fs!Next
<1>2. ASSUME ClearInv, UNCHANGED fsVars PROVE ClearInv'
  BY <1>2 DEF ClearInv, Undisturbed, Clears, Fs!Private, fsVars
<1>. QED
  BY <1>1, <1>2

FsInv == FsPlaces /\ FsLoops /\ MakeInv /\ ClearInv

LEMMA FsInvInit == Fs!Init => FsInv
BY FsPlacesInit, LoopsInit, MakeInit, ClearInit DEF FsInv

LEMMA FsInvStep == FsInv /\ (Fs!Next \/ UNCHANGED fsVars) => FsInv'
BY FsPlacesStep, LoopsStep, MakeStep, ClearStep DEF FsInv

LEMMA FsInvImplies == FsInv => TreesAgree
<1>. SUFFICES ASSUME FsInv PROVE TreesAgree
  OBVIOUS
<1>0. FsTypes /\ FsFlags /\ FsLoops /\ \A t \in Movers : CallAt(t)
  BY DEF FsInv, FsPlaces
<1>1. Fs!TypeOK
  <2>1. ASSUME NEW t \in Movers
        PROVE  \A i \in 2..Len(f_stack[t]) :
                 \E j \in 1..(i - 1) : f_stack[t][j] = Fs!Parent(f_stack[t][i])
    BY <1>0 DEF CallAt, Descends
  <2>. QED
    BY <1>0, <2>1 DEF FsTypes, FsFlags, FsLoops, Fs!TypeOK
<1>2. ASSUME NEW t \in Movers, Fs!Growing, Fs!Made(t)
      PROVE  /\ f_result[t] # "Ok" =>
                  \/ \E n \in 1..Len(f_path[t]) : f_fs[SubSeq(f_path[t], 1, n)] = "file"
                  \/ ~Fs!Private(t) /\ "UNKNOWN" \in {f_err[t], f_result[t]}
             /\ f_result[t] = "Ok" => f_fs[f_path[t]] = "dir"
  BY <1>2 DEF FsInv, MakeInv, Climbs, Fs!Made
<1>3. Fs!MakesAgree
  BY <1>2 DEF Fs!MakesAgree
<1>4. Fs!MadeMeansThere
  BY <1>2 DEF Fs!MadeMeansThere
<1>5. Fs!AloneSucceeds
  BY DEF FsInv, ClearInv, Undisturbed, Clears, Fs!AloneSucceeds
<1>. QED
  BY <1>1, <1>3, <1>4, <1>5 DEF TreesAgree

LEMMA RemovedIsGone ==
  ASSUME FsInv, Fs!Next \/ UNCHANGED fsVars
  PROVE  [\A t \in Movers :
            f_plan.removes[t] # {} /\ f_pc[t] # "done" /\ f_pc'[t] = "done" /\ f_result'[t] = "Ok"
              => f_fs'[f_path[t]] = "none"]_Fs!vars
<1>1. CASE Fs!Next
  BY <1>1, RemovesGone DEF FsInv
<1>2. CASE UNCHANGED fsVars
  BY <1>2 DEF Fs!vars, fsVars
<1>. QED
  BY <1>1, <1>2

HIDE DEF Fs!Answered

-----------------------------------------------------------------------------
(* All parts.                                                              *)

PartsInv == TimerInv /\ SignalInv /\ HomingInv /\ RequestInv /\ QueueInv /\ FsInv

\* A step of MCUvLoop is a step of each part or leaves it alone.
LEMMA PartsSteps ==
  [Next]_vars => /\ Timer!Next \/ UNCHANGED timerVars
                 /\ Signal!Next \/ UNCHANGED signalVars
                 /\ Home!Next \/ UNCHANGED homeVars
                 /\ Fs!Next \/ UNCHANGED fsVars
                 /\ UNCHANGED part
                 /\ \/ part # "UvRequest serial" /\ Request!Next
                    \/ part = "UvRequest serial" /\ Serial!Next
                    \/ UNCHANGED requestVars
                 /\ \/ part # "UvQueue remote" /\ Queue!Next
                    \/ part = "UvQueue remote" /\ Remote!Next
                    \/ UNCHANGED queueVars
<1>1. UNCHANGED vars => UNCHANGED <<part, queueVars, homeVars, requestVars, timerVars, signalVars, fsVars>>
  BY DEF vars
<1>. QED
  BY <1>1 DEF Next

\* The invariants of the parts hold together.
LEMMA PartsInvariant == Spec => []PartsInv
<1>1. Init => PartsInv
  BY TimerInit, SignalInit, HomingInit, RequestInit, QueueInit, FsInvInit DEF Init, PartsInv
<1>2. ASSUME PartsInv, [Next]_vars PROVE PartsInv'
  <2>1. TimerInv' /\ SignalInv' /\ HomingInv'
    BY <1>2, PartsSteps, TimerStep, SignalStep, HomingStep DEF PartsInv
  <2>2. RequestInv'
    BY <1>2, PartsSteps, RequestStep DEF PartsInv
  <2>3. QueueInv'
    BY <1>2, PartsSteps, QueueStep DEF PartsInv
  <2>4. FsInv'
    BY <1>2, PartsSteps, FsInvStep DEF PartsInv
  <2>. QED
    BY <2>1, <2>2, <2>3, <2>4 DEF PartsInv
<1>. QED
  BY <1>1, <1>2, PTL DEF Spec

\* The count of the QueuePool and the messages on their way to it are the Queues
\* there are, the loop has not ended while a Queue could send a task to it or a
\* producer has still to signal it, and EventLoop::drop finds the loop still in use
\* only when the drop of a Queue has unlocked and not yet given its Arc up, for
\* any number of Queues, wherever they are cloned (queue.rs, event_loop.rs).
THEOREM QueuesKeepTheLoop == Spec => []QueueKeepsLoop
<1>1. PartsInv => QueueKeepsLoop
  BY QueueInvImplies DEF PartsInv
<1>. QED
  BY <1>1, PartsInvariant, PTL

\* The assertions of homing.rs hold, and a task is at the home of the object as
\* long as its missile is armed, for any schedulers and any tasks of the pool
\* that are not pinned elsewhere.
THEOREM HomingIsSafe == Spec => []HomingSafe
<1>1. PartsInv => HomingSafe
  BY HomingInvImplies DEF PartsInv
<1>. QED
  BY <1>1, PartsInvariant, PTL

\* A callback of libuv finds the operation and its slot alive (fs.rs,
\* addrinfo.rs), and the count of blocked I/O is exact if one task blocks at a
\* time (lib.rs), for any number of tasks, operations and requests.
THEOREM RequestsAreSafe == Spec => []RequestsSafe
<1>1. PartsInv => RequestsSafe
  BY RequestInvImplies DEF PartsInv
<1>. QED
  BY <1>1, PartsInvariant, PTL

\* timer_cb, sleep and close_cb find the action they expect, a periodic timer
\* keeps its callback (timer.rs), and a Signal that catches one has the callback
\* that was registered last (signal.rs), for any number of actions and starts.
THEOREM CallbacksAreCurrent == Spec => []CallbacksCurrent
<1>1. PartsInv => CallbacksCurrent
  <2>1. SignalInv => Signal!TypeOK /\ Signal!CallbackPresent
    BY DEF SignalInv, Signal!CallbackPresent
  <2>. QED
    BY <2>1, TimerInvImplies DEF PartsInv, CallbacksCurrent
<1>. QED
  BY <1>1, PartsInvariant, PTL

\* timer_cb never calls an action that was replaced (timer.rs).
THEOREM TimersCallTheNewest == Spec => Timer!NoOldCall
<1>1. PartsInv /\ [Next]_vars
        => [t_stack = Timer!Nothing /\ t_stack' # Timer!Nothing => t_stack'.n = t_last]_(Timer!vars)
  <2>1. UNCHANGED timerVars => UNCHANGED Timer!vars
    BY DEF timerVars, Timer!vars
  <2>. QED
    BY <2>1, PartsSteps, TimerCallsNewest DEF PartsInv
<1>. QED
  BY <1>1, PartsInvariant, PTL DEF Spec, Timer!NoOldCall

\* signal_cb calls the callback that was registered last, and none after a stop
\* (signal.rs).
THEOREM SignalsCallTheCurrent == Spec => Signal!CallsCurrent
<1>1. PartsInv /\ [Next]_vars
        => [\A s \in Signals : s_stack' = s /\ s_stack # s
                                 => s \in s_listens /\ s_running' = s_starts[s]]_(Signal!vars)
  <2>1. UNCHANGED signalVars => UNCHANGED Signal!vars
    BY DEF signalVars, Signal!vars
  <2>. QED
    BY <2>1, PartsSteps, SignalCallsCurrent DEF PartsInv
<1>. QED
  BY <1>1, PartsInvariant, PTL DEF Spec, Signal!CallsCurrent

\* Of the calls that make directories, none makes another one fail except by
\* taking the loop of its thread, which makes its calls fail with UNKNOWN
\* (fs.rs:203), and one that returns Ok has left a directory, as long as nobody
\* removes anything; a rmdir_recursive whose tree nobody touches succeeds on every
\* tree, or fails with UNKNOWN for the same reason; on a thread of its own neither
\* happens (fs.rs). For any tree, any calls and whatever others do meanwhile.
THEOREM TreesAreSafe == Spec => []TreesAgree
<1>1. PartsInv => TreesAgree
  BY FsInvImplies DEF PartsInv
<1>. QED
  BY <1>1, PartsInvariant, PTL

\* When a rmdir_recursive returns Ok its directory is gone, whatever other calls
\* and others did meanwhile (fs.rs).
THEOREM RemovedDirsAreGone == Spec => Fs!RemovedMeansGone
<1>1. PartsInv /\ [Next]_vars
        => [\A t \in Movers :
              f_plan.removes[t] # {} /\ f_pc[t] # "done" /\ f_pc'[t] = "done" /\ f_result'[t] = "Ok"
                => f_fs'[f_path[t]] = "none"]_(Fs!vars)
  BY PartsSteps, RemovedIsGone DEF PartsInv
<1>. QED
  BY <1>1, PartsInvariant, PTL DEF Spec, Fs!RemovedMeansGone

\* What is called is current when it is called, and what is reported gone is gone
\* at that moment: the action properties of the timers, the signals and the
\* trees together (timer.rs, signal.rs, fs.rs).
THEOREM StepsAreCurrent == Spec => StepsCurrent
BY TimersCallTheNewest, SignalsCallTheCurrent, RemovedDirsAreGone DEF StepsCurrent

===============================================================================

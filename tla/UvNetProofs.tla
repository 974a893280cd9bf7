---------------------------- MODULE UvNetProofs -----------------------------
(***************************************************************************)
(* Sockets of librustuv, proved for every value of the constants: the      *)
(* invariants of the run of MCUvNet.  One part after another; the last     *)
(* section puts them together, since a step of MCUvNet is a step of one    *)
(* part.                                                                   *)
(***************************************************************************)
EXTENDS MCUvNet, SequenceTheorems, FiniteSetTheorems, TLAPS

-----------------------------------------------------------------------------
(* UvConnect.                                                              *)

ConnectFlags == c_task \in [Conns -> BOOLEAN] /\ c_bad \in BOOLEAN

\* Connect!TypeOK without the flags.
ConnectTypes ==
  /\ c_pc \in [Conns -> Connect!PC] /\ c_req \in [Conns -> {"none", "queued", "called", "freed"}]
  /\ c_data \in [Conns -> {"ctx", "null"}]
  /\ c_timer \in [Conns -> {"none", "armed", "stopped", "closed"}]
  /\ c_status \in [Conns -> Connect!Status] /\ c_obj \in [Conns -> {"idle", "connected", "closing"}]
  /\ c_cur \in Conns \cup {None} /\ c_cb \in Conns \cup {None}

\* What a call has reached at each of its places. A call that waits has its
\* request with libuv and its context in the request; one that was woken has the
\* thread, and it was connect_cb or else timer_cb that woke it; one that is over
\* has left null in the request, unless its timeout was zero, and then libuv
\* reports nothing but ECANCELED.
ConnectCall(c) ==
  /\ c_pc[c] = "start" =>
       /\ c_req[c] = "none" /\ c_timer[c] = "none" /\ ~c_task[c] /\ c_obj[c] = "idle"
       /\ c_data[c] = "null"
  /\ c_pc[c] = "blocked" =>
       /\ c_task[c] /\ c_req[c] = "queued" /\ c_data[c] = "ctx" /\ c_obj[c] = "idle"
       /\ c_timer[c] \in {"none", "armed"}
  /\ c_pc[c] = "woken" =>
       /\ ~c_task[c] /\ c_cur = c /\ c_obj[c] = "idle" /\ c_timer[c] \in {"none", "stopped"}
       /\ \/ c_req[c] = "queued" /\ c_status[c] = "ECANCELED"
          \/ c_req[c] = "called"
  /\ c_pc[c] = "returned" =>
       /\ ~c_task[c] /\ c_req[c] # "none" /\ c_timer[c] \in {"none", "closed"}
       /\ c_obj[c] = (IF c_status[c] = "0" THEN "connected" ELSE "closing")
       /\ c_req[c] = "queued" => c_status[c] = "ECANCELED"
       /\ c_data[c] = "ctx" => c_timer[c] = "none"
  /\ c_cur = c => c_pc[c] = "woken"
  /\ c_req[c] = "called" <=> c_cb = c
  /\ c_req[c] = "called" => c_status[c] \in {"0", "error"} \/ Connect!Abandoned(c)

\* A context that is gone is touched only where closing may report another status
\* than ECANCELED, and only that of a call whose timeout was zero.
BadOnly == c_bad => part = "UvConnect win" /\ \E c \in Conns : Connect!Abandoned(c)

ConnectInv == ConnectFlags /\ ConnectTypes /\ (\A c \in Conns : ConnectCall(c)) /\ BadOnly

LEMMA ConnectBound == None \notin Conns
BY UvNetAssumptions DEF Connect!ConnectAssumption

\* ConnectInv implies what the run checks of UvConnect.
LEMMA ConnectInvImplies == ConnectInv => ConnectSafe
BY DEF ConnectInv, ConnectFlags, ConnectTypes, ConnectCall, BadOnly, ConnectSafe, Connect!TypeOK,
   Connect!NoUseAfterFree, Connect!OnlyZeroDangles, Connect!ResultTrue, Connect!Status

\* The invariant of UvConnect holds before the first call.
LEMMA ConnectInit == Connect!Init => ConnectInv
<1>. SUFFICES ASSUME Connect!Init PROVE ConnectInv
  OBVIOUS
<1>. USE ConnectBound DEF Connect!Init
<1>1. ConnectFlags /\ BadOnly
  BY DEF ConnectFlags, BadOnly
<1>2. ConnectTypes
  BY DEF ConnectTypes, Connect!PC, Connect!Status
<1>3. \A c \in Conns : ConnectCall(c)
  BY DEF ConnectCall
<1>. QED
  BY <1>1, <1>2, <1>3 DEF ConnectInv

\* What a call and its callbacks do is the same on every system.
LEMMA WinActions ==
  ASSUME NEW c, NEW t
  PROVE  /\ Win!Refused(c) => Connect!Refused(c)
         /\ Win!Connect(c, t) => Connect!Connect(c, t)
         /\ Win!Resume(c) => Connect!Resume(c)
         /\ Win!TimerCb(c) => Connect!TimerCb(c)
         /\ Win!ConnectCbLate(c, t) => Connect!ConnectCbLate(c, t)
         /\ Win!ConnectCb(c, t) => Connect!ConnectCb(c, t)
         /\ Win!ConnectCbEnd(c) => Connect!ConnectCbEnd(c)
         /\ Win!Expired(c) => Connect!Expired(c)
<1>1. Win!Refused(c) => Connect!Refused(c)
  BY DEF Connect!Refused, Win!Refused
<1>2. Win!Connect(c, t) => Connect!Connect(c, t)
  BY DEF Connect!Connect, Win!Connect
<1>3. Win!Resume(c) => Connect!Resume(c)
  BY DEF Connect!Resume, Win!Resume
<1>4. Win!TimerCb(c) => Connect!TimerCb(c)
  BY DEF Connect!TimerCb, Win!TimerCb, Connect!Wakeup, Win!Wakeup, Connect!Alive, Win!Alive,
     Connect!InLoop, Win!InLoop
<1>5. Win!ConnectCbLate(c, t) => Connect!ConnectCbLate(c, t)
  BY DEF Connect!ConnectCbLate, Win!ConnectCbLate, Connect!InLoop, Win!InLoop
<1>6. Win!ConnectCb(c, t) => Connect!ConnectCb(c, t)
  BY DEF Connect!ConnectCb, Win!ConnectCb, Connect!Wakeup, Win!Wakeup, Connect!Alive, Win!Alive,
     Connect!InLoop, Win!InLoop
<1>7. Win!ConnectCbEnd(c) => Connect!ConnectCbEnd(c)
  BY DEF Connect!ConnectCbEnd, Win!ConnectCbEnd
<1>8. Win!Expired(c) => Connect!Expired(c)
  BY DEF Connect!Expired, Win!Expired
<1>. QED
  BY <1>1, <1>2, <1>3, <1>4, <1>5, <1>6, <1>7, <1>8

\* Every step of the calls and of their callbacks keeps the invariant of
\* UvConnect, also on Windows, where connect_cb of a closed handle may report
\* another status than ECANCELED.
LEMMA ConnectStep ==
  ASSUME ConnectInv, UNCHANGED part,
         \/ part # "UvConnect win" /\ Connect!Next
         \/ part = "UvConnect win" /\ Win!Next
         \/ UNCHANGED connectVars
  PROVE  ConnectInv'
<1>. DEFINE Core == ConnectTypes /\ (\A c \in Conns : ConnectCall(c)) /\ BadOnly
<1>. USE ConnectBound
     DEF Core, ConnectTypes, ConnectCall, BadOnly, Connect!Abandoned, Connect!PC, Connect!Status, Connect!Alive,
         Connect!InLoop
<1>0. ConnectFlags /\ Core
  BY DEF ConnectInv
<1>1. ASSUME NEW c \in Conns, Connect!Refused(c)
      PROVE  Core' /\ ConnectFlags'
  <2>. USE <1>0, <1>1 DEF Connect!Refused
  <2>1. ConnectTypes' /\ BadOnly'
    OBVIOUS
  <2>2. ConnectCall(c)'
    OBVIOUS
  <2>3. ASSUME NEW d \in Conns, d # c PROVE ConnectCall(d)'
    BY <2>3
  <2>4. ConnectFlags'
    BY DEF ConnectFlags
  <2>. HIDE DEF ConnectTypes, ConnectCall, BadOnly
  <2>. QED
    BY ONLY <2>1, <2>2, <2>3, <2>4 DEF Core
<1>2. ASSUME NEW c \in Conns, Connect!Expired(c)
      PROVE  Core' /\ ConnectFlags'
  <2>. USE <1>0, <1>2 DEF Connect!Expired
  <2>1. ConnectTypes' /\ BadOnly'
    OBVIOUS
  <2>2. ConnectCall(c)'
    OBVIOUS
  <2>3. ASSUME NEW d \in Conns, d # c PROVE ConnectCall(d)'
    BY <2>3
  <2>4. ConnectFlags'
    BY DEF ConnectFlags
  <2>. HIDE DEF ConnectTypes, ConnectCall, BadOnly
  <2>. QED
    BY ONLY <2>1, <2>2, <2>3, <2>4 DEF Core
<1>3. ASSUME NEW c \in Conns, NEW t, Connect!Connect(c, t)
      PROVE  Core' /\ ConnectFlags'
  <2>. USE <1>0, <1>3 DEF Connect!Connect, ConnectFlags
  <2>1. ConnectTypes' /\ BadOnly'
    OBVIOUS
  <2>2. ConnectCall(c)'
    OBVIOUS
  <2>3. ASSUME NEW d \in Conns, d # c PROVE ConnectCall(d)'
    BY <2>3
  <2>4. ConnectFlags'
    BY DEF ConnectFlags
  <2>. HIDE DEF ConnectTypes, ConnectCall, BadOnly
  <2>. QED
    BY ONLY <2>1, <2>2, <2>3, <2>4 DEF Core
<1>4. ASSUME NEW c \in Conns, Connect!Resume(c)
      PROVE  Core' /\ ConnectFlags'
  <2>. USE <1>0, <1>4 DEF Connect!Resume
  <2>1. ConnectTypes' /\ BadOnly'
    OBVIOUS
  <2>2. ConnectCall(c)'
    OBVIOUS
  <2>3. ASSUME NEW d \in Conns, d # c PROVE ConnectCall(d)'
    BY <2>3
  <2>4. ConnectFlags'
    BY DEF ConnectFlags
  <2>. HIDE DEF ConnectTypes, ConnectCall, BadOnly
  <2>. QED
    BY ONLY <2>1, <2>2, <2>3, <2>4 DEF Core
<1>5. ASSUME NEW c \in Conns, Connect!TimerCb(c)
      PROVE  Core' /\ ConnectFlags'
  <2>0. c_pc[c] = "blocked" /\ c_task[c] /\ c_cur = None /\ c_cb = None
    <3>1. c_timer[c] = "armed" /\ c_cur = None /\ c_cb = None
      BY ONLY <1>5 DEF Connect!TimerCb, Connect!InLoop
    <3>2. ConnectTypes /\ ConnectCall(c)
      BY ONLY <1>0 DEF Core
    <3>. QED
      BY ONLY <3>1, <3>2, ConnectBound DEF ConnectTypes, ConnectCall, Connect!PC
  <2>00. /\ c_timer' = [c_timer EXCEPT ![c] = "stopped"]
         /\ c_status' = [c_status EXCEPT ![c] = "ECANCELED"]
         /\ c_task' = [c_task EXCEPT ![c] = FALSE]
         /\ c_pc' = [c_pc EXCEPT ![c] = "woken"] /\ c_cur' = c
         /\ UNCHANGED <<c_req, c_data, c_obj, c_cb, c_bad>>
    BY <1>5, <2>0 DEF Connect!TimerCb, Connect!Wakeup
  <2>. USE <1>0, <2>0, <2>00 DEF ConnectFlags
  <2>1. ConnectTypes' /\ BadOnly'
    OBVIOUS
  <2>2. ConnectCall(c)'
    OBVIOUS
  <2>3. ASSUME NEW d \in Conns, d # c PROVE ConnectCall(d)'
    BY <2>3
  <2>4. ConnectFlags'
    BY DEF ConnectFlags
  <2>. HIDE DEF ConnectTypes, ConnectCall, BadOnly
  <2>. QED
    BY ONLY <2>1, <2>2, <2>3, <2>4 DEF Core
<1>6. ASSUME NEW c \in Conns, NEW s, Connect!ConnectCbLate(c, s),
             s \in Connect!Reports(c) \/ (part = "UvConnect win" /\ s \in Win!Reports(c))
      PROVE  Core' /\ ConnectFlags'
  <2>0. c_pc[c] = "returned" /\ c_cb = None
    <3>1. /\ c_req[c] = "queued" /\ c_cur = None /\ c_cb = None
          /\ s = "ECANCELED" \/ c_data[c] = "null"
      BY ONLY <1>6 DEF Connect!ConnectCbLate, Connect!InLoop
    <3>2. ConnectTypes /\ ConnectCall(c)
      BY ONLY <1>0 DEF Core
    <3>3. c_obj[c] # "closing" => s # "ECANCELED"
      BY ONLY <1>6 DEF Connect!Reports, Win!Reports
    <3>. QED
      BY ONLY <3>1, <3>2, <3>3, ConnectBound DEF ConnectTypes, ConnectCall, Connect!PC
  <2>. USE <1>0, <2>0, <1>6 DEF Connect!ConnectCbLate
  <2>1. ConnectTypes' /\ BadOnly'
    OBVIOUS
  <2>2. ConnectCall(c)'
    OBVIOUS
  <2>3. ASSUME NEW d \in Conns, d # c PROVE ConnectCall(d)'
    BY <2>3
  <2>4. ConnectFlags'
    BY DEF ConnectFlags
  <2>. HIDE DEF ConnectTypes, ConnectCall, BadOnly
  <2>. QED
    BY ONLY <2>1, <2>2, <2>3, <2>4 DEF Core
<1>7. ASSUME NEW c \in Conns, NEW s, Connect!ConnectCb(c, s),
             s \in Connect!Reports(c) \/ (part = "UvConnect win" /\ s \in Win!Reports(c))
      PROVE  Core' /\ ConnectFlags'
  <2>0. c_req[c] = "queued" /\ c_data[c] = "ctx" /\ s # "ECANCELED" /\ c_cur = None /\ c_cb = None
    BY <1>0, <1>7 DEF Connect!ConnectCb
  <2>a. CASE c_pc[c] = "blocked"
    <3>0. c_task[c] /\ s \in {"0", "error"}
      BY <1>0, <1>7, <2>0, <2>a DEF Connect!Reports, Win!Reports
    <3>00. /\ c_req' = [c_req EXCEPT ![c] = "called"] /\ c_cb' = c
           /\ c_bad' = c_bad
           /\ c_status' = [c_status EXCEPT ![c] = IF s = "0" THEN "0" ELSE "error"]
           /\ c_timer' = [c_timer EXCEPT ![c] = IF c_timer[c] = "none" THEN "none" ELSE "stopped"]
           /\ c_task' = [c_task EXCEPT ![c] = FALSE]
           /\ c_pc' = [c_pc EXCEPT ![c] = "woken"] /\ c_cur' = c
           /\ UNCHANGED <<c_data, c_obj>>
      BY <1>0, <1>7, <2>a, <3>0 DEF Connect!ConnectCb, Connect!Wakeup, ConnectFlags
    <3>. USE <1>0, <2>0, <2>a, <3>0, <3>00 DEF ConnectFlags
    <3>1. ConnectTypes' /\ BadOnly'
      OBVIOUS
    <3>2. ConnectCall(c)'
      OBVIOUS
    <3>3. ASSUME NEW d \in Conns, d # c PROVE ConnectCall(d)'
      BY <3>3
    <3>4. ConnectFlags'
      BY DEF ConnectFlags
    <3>. HIDE DEF ConnectTypes, ConnectCall, BadOnly
    <3>. QED
      BY ONLY <3>1, <3>2, <3>3, <3>4 DEF Core
  <2>b. CASE c_pc[c] = "returned"
    <3>0. /\ c_obj[c] = "closing" /\ ~c_task[c] /\ c_timer[c] = "none"
      BY <1>0, <2>0, <2>b
    <3>01. part = "UvConnect win"
      BY <1>7, <2>0, <3>0 DEF Connect!Reports
    <3>00. /\ c_req' = [c_req EXCEPT ![c] = "called"] /\ c_cb' = c /\ c_bad' = TRUE
           /\ c_timer' = [c_timer EXCEPT ![c] = "none"]
           /\ UNCHANGED <<c_data, c_obj, c_status, c_task, c_pc, c_cur>>
      BY <1>0, <1>7, <2>b, <3>0 DEF Connect!ConnectCb
    <3>. USE <1>0, <2>0, <2>b, <3>0, <3>01, <3>00 DEF ConnectFlags
    <3>1. ConnectTypes' /\ BadOnly'
      OBVIOUS
    <3>2. ConnectCall(c)'
      OBVIOUS
    <3>3. ASSUME NEW d \in Conns, d # c PROVE ConnectCall(d)'
      BY <3>3
    <3>4. ConnectFlags'
      BY DEF ConnectFlags
    <3>. HIDE DEF ConnectTypes, ConnectCall, BadOnly
    <3>. QED
      BY ONLY <3>1, <3>2, <3>3, <3>4 DEF Core
  <2>c. c_pc[c] \in {"blocked", "returned"}
    <3>1. ConnectTypes /\ ConnectCall(c)
      BY ONLY <1>0 DEF Core
    <3>. QED
      BY ONLY <2>0, <3>1, ConnectBound DEF ConnectTypes, ConnectCall, Connect!PC
  <2>. QED
    BY ONLY <2>a, <2>b, <2>c
<1>8. ASSUME NEW c \in Conns, Connect!ConnectCbEnd(c)
      PROVE  Core' /\ ConnectFlags'
  <2>. USE <1>0, <1>8 DEF Connect!ConnectCbEnd
  <2>1. ConnectTypes' /\ BadOnly'
    OBVIOUS
  <2>2. ConnectCall(c)'
    OBVIOUS
  <2>3. ASSUME NEW d \in Conns, d # c PROVE ConnectCall(d)'
    BY <2>3
  <2>4. ConnectFlags'
    BY DEF ConnectFlags
  <2>. HIDE DEF ConnectTypes, ConnectCall, BadOnly
  <2>. QED
    BY ONLY <2>1, <2>2, <2>3, <2>4 DEF Core
<1>9. ASSUME UNCHANGED connectVars PROVE Core' /\ ConnectFlags'
  BY <1>0, <1>9 DEF connectVars, ConnectFlags
<1>10. ASSUME part # "UvConnect win", Connect!Next PROVE Core' /\ ConnectFlags'
  BY ONLY <1>1, <1>2, <1>3, <1>4, <1>5, <1>6, <1>7, <1>8, <1>9, <1>10
     DEF Connect!Next, Connect!Call, Connect!Callback, Connect!Proceed, Connect!Over, Connect!vars,
         connectVars
<1>11. ASSUME part = "UvConnect win", Win!Next PROVE Core' /\ ConnectFlags'
  BY ONLY <1>1, <1>2, <1>3, <1>4, <1>5, <1>6, <1>7, <1>8, <1>9, <1>11, WinActions
     DEF Win!Next, Win!Call, Win!Callback, Win!Proceed, Win!Over, Win!vars, connectVars
<1>. QED
  BY <1>9, <1>10, <1>11 DEF ConnectInv

-----------------------------------------------------------------------------
(* Access: its queue, which all sockets share.                             *)

\* The queue q holds the members of W, each once.
Waiting(q, W) ==
  /\ \A i, j \in 1..Len(q) : q[i] = q[j] => i = j
  /\ \A i \in 1..Len(q) : q[i] \in W
  /\ \A h \in W : \E i \in 1..Len(q) : q[i] = h

\* Guard::drop takes the first one that waits.
LEMMA QueueTail ==
  ASSUME NEW S, NEW q \in Seq(S), q # <<>>, NEW W, Waiting(q, W)
  PROVE  /\ Head(q) \in W /\ Head(q) \in S /\ Tail(q) \in Seq(S)
         /\ Waiting(Tail(q), W \ {Head(q)})
<1>1. /\ Tail(q) \in Seq(S) /\ Len(Tail(q)) = Len(q) - 1 /\ Head(q) = q[1] /\ Len(q) \in Nat \ {0}
      /\ \A i \in 1..Len(q) - 1 : Tail(q)[i] = q[i + 1]
  OBVIOUS
<1>2. Head(q) \in W /\ Head(q) \in S
  BY <1>1 DEF Waiting
<1>3. ASSUME NEW h \in W \ {Head(q)} PROVE \E i \in 1..Len(Tail(q)) : Tail(q)[i] = h
  <2>1. PICK i \in 1..Len(q) : q[i] = h
    BY DEF Waiting
  <2>2. i # 1
    BY <1>1, <2>1
  <2>3. i - 1 \in 1..Len(q) - 1 /\ Tail(q)[i - 1] = h
    BY <1>1, <2>1, <2>2
  <2>. QED
    BY <1>1, <2>3
<1>4. ASSUME NEW i \in 1..Len(Tail(q)) PROVE Tail(q)[i] \in W \ {Head(q)}
  <2>1. Tail(q)[i] = q[i + 1] /\ i + 1 \in 1..Len(q) /\ 1 \in 1..Len(q) /\ i + 1 # 1
    BY <1>1
  <2>. QED
    BY <1>1, <2>1 DEF Waiting
<1>5. ASSUME NEW i \in 1..Len(Tail(q)), NEW j \in 1..Len(Tail(q)), Tail(q)[i] = Tail(q)[j]
      PROVE  i = j
  <2>1. q[i + 1] = q[j + 1] /\ i + 1 \in 1..Len(q) /\ j + 1 \in 1..Len(q)
    BY <1>1, <1>5
  <2>2. i + 1 = j + 1
    BY <2>1 DEF Waiting
  <2>. QED
    BY <1>1, <2>2
<1>. QED
  BY <1>1, <1>2, <1>3, <1>4, <1>5 DEF Waiting

\* Access::grant appends the task that has to wait.
LEMMA QueueAppend ==
  ASSUME NEW S, NEW q \in Seq(S), NEW W, Waiting(q, W), NEW e \in S, e \notin W
  PROVE  Append(q, e) \in Seq(S) /\ Waiting(Append(q, e), W \cup {e})
<1>1. /\ Append(q, e) \in Seq(S) /\ Len(Append(q, e)) = Len(q) + 1 /\ Len(q) \in Nat
      /\ \A i \in 1..Len(q) : Append(q, e)[i] = q[i]
      /\ Append(q, e)[Len(q) + 1] = e
  OBVIOUS
<1>2. ASSUME NEW h \in W \cup {e} PROVE \E i \in 1..Len(Append(q, e)) : Append(q, e)[i] = h
  <2>1. CASE h = e
    BY <1>1, <2>1
  <2>2. CASE h \in W
    BY <1>1, <2>2 DEF Waiting
  <2>. QED
    BY <2>1, <2>2
<1>3. ASSUME NEW i \in 1..Len(Append(q, e)) PROVE Append(q, e)[i] \in W \cup {e}
  BY <1>1 DEF Waiting
<1>4. ASSUME NEW i \in 1..Len(Append(q, e)), NEW j \in 1..Len(Append(q, e)),
             Append(q, e)[i] = Append(q, e)[j]
      PROVE  i = j
  BY <1>1, <1>4 DEF Waiting
<1>. QED
  BY <1>1, <1>2, <1>3, <1>4 DEF Waiting

\* Access::dequeue takes one out of the middle.
LEMMA QueueRemove ==
  ASSUME NEW S, NEW q \in Seq(S), NEW W, Waiting(q, W), NEW i \in 1..Len(q)
  PROVE  /\ q[i] \in W /\ Accept!RemoveAt(q, i) \in Seq(S)
         /\ Waiting(Accept!RemoveAt(q, i), W \ {q[i]})
<1>. DEFINE p == Accept!RemoveAt(q, i)
            at(j) == IF j < i THEN j ELSE j + 1
<1>1. Len(q) \in Nat /\ i \in Nat /\ i >= 1 /\ i <= Len(q)
  OBVIOUS
<1>2. p \in Seq(S) /\ Len(p) = Len(q) - 1 /\ \A j \in 1..(Len(q) - 1) : p[j] = q[at(j)]
  <2>. DEFINE a == SubSeq(q, 1, i - 1)
              b == SubSeq(q, i + 1, Len(q))
  <2>1. a \in Seq(S) /\ Len(a) = i - 1 /\ \A j \in 1..(i - 1) : a[j] = q[j]
    BY <1>1
  <2>2. b \in Seq(S) /\ Len(b) = Len(q) - i /\ \A j \in 1..(Len(q) - i) : b[j] = q[i + j]
    BY <1>1
  <2>3. p = a \o b
    BY DEF Accept!RemoveAt
  <2>. HIDE DEF a, b, p
  <2>4. a \o b \in Seq(S) /\ Len(a \o b) = Len(q) - 1
    <3>1. a \o b \in Seq(S) /\ Len(a \o b) = Len(a) + Len(b)
      BY <2>1, <2>2, ConcatProperties
    <3>. QED
      BY <1>1, <2>1, <2>2, <3>1
  <2>5. ASSUME NEW j \in 1..(Len(q) - 1) PROVE (a \o b)[j] = q[at(j)]
    <3>1. CASE j < i
      BY <1>1, <2>1, <2>2, <3>1
    <3>2. CASE j >= i
      <4>1. (a \o b)[j] = b[j - (i - 1)] /\ j - (i - 1) \in 1..(Len(q) - i)
        BY <1>1, <2>1, <2>2, <3>2
      <4>2. b[j - (i - 1)] = q[i + (j - (i - 1))] /\ i + (j - (i - 1)) = j + 1
        BY <1>1, <2>2, <3>2, <4>1
      <4>. QED
        BY <1>1, <3>2, <4>1, <4>2
    <3>3. j \in Int /\ i \in Int
      BY <1>1
    <3>4. j < i \/ j >= i
      BY ONLY <3>3
    <3>. QED
      BY <3>1, <3>2, <3>4
  <2>. QED
    BY <2>3, <2>4, <2>5
<1>3. /\ \A j \in 1..(Len(q) - 1) : at(j) \in 1..Len(q) /\ at(j) # i
      /\ \A j, k \in 1..(Len(q) - 1) : at(j) = at(k) => j = k
      /\ \A m \in 1..Len(q) : m # i => \E j \in 1..(Len(q) - 1) : at(j) = m
  <2>1. ASSUME NEW m \in 1..Len(q), m # i PROVE \E j \in 1..(Len(q) - 1) : at(j) = m
    <3>1. CASE m < i
      <4>1. m \in 1..(Len(q) - 1) /\ at(m) = m
        BY <1>1, <3>1
      <4>. QED
        BY <4>1
    <3>2. CASE m > i
      <4>1. m - 1 \in 1..(Len(q) - 1) /\ at(m - 1) = m
        BY <1>1, <3>2
      <4>. QED
        BY <4>1
    <3>. QED
      BY <1>1, <2>1, <3>1, <3>2
  <2>. QED
    BY <1>1, <2>1
<1>. HIDE DEF p, at
<1>4. q[i] \in W
  BY DEF Waiting
<1>5. ASSUME NEW j \in 1..Len(p) PROVE p[j] \in W \ {q[i]}
  <2>1. p[j] = q[at(j)] /\ at(j) \in 1..Len(q) /\ at(j) # i
    BY <1>2, <1>3
  <2>. QED
    BY <2>1 DEF Waiting
<1>6. ASSUME NEW j \in 1..Len(p), NEW k \in 1..Len(p), p[j] = p[k] PROVE j = k
  <2>1. /\ p[j] = q[at(j)] /\ at(j) \in 1..Len(q) /\ p[k] = q[at(k)] /\ at(k) \in 1..Len(q)
        /\ at(j) = at(k) => j = k
    BY <1>2, <1>3
  <2>. QED
    BY <1>6, <2>1 DEF Waiting
<1>7. ASSUME NEW h \in W \ {q[i]} PROVE \E j \in 1..Len(p) : p[j] = h
  <2>1. PICK m \in 1..Len(q) : q[m] = h
    BY DEF Waiting
  <2>2. PICK j \in 1..(Len(q) - 1) : at(j) = m
    BY <1>3, <2>1
  <2>. QED
    BY <1>2, <2>1, <2>2
<1>8. p \in Seq(S) /\ Waiting(p, W \ {q[i]})
  BY <1>2, <1>5, <1>6, <1>7 DEF Waiting
<1>. QED
  BY <1>4, <1>8 DEF p

-----------------------------------------------------------------------------
(* UvAccept.                                                               *)

AcceptFlags == a_held \in BOOLEAN /\ a_closed \in BOOLEAN /\ a_failed \in BOOLEAN

\* The rest of Accept!TypeOK, without the connections.
AcceptTypes ==
  /\ a_cur \in Acceptors \cup {None} /\ a_pc \in [Acceptors -> Accept!PC]
  /\ a_state \in [Acceptors -> Accept!State] /\ a_timer \in [Acceptors -> {"stopped", "started"}]
  /\ a_queue \in Seq(Acceptors) /\ a_blocked \in Acceptors \cup {None}

\* Access is held by the task that has the thread or by the one that is blocked in
\* accept, never by two, and whoever waits for it is queued.
AcceptHolds ==
  /\ \A h \in Acceptors : a_pc[h] \in {"granted", "woken"} <=> a_cur = h
  /\ \A h \in Acceptors : a_pc[h] = "blocked" <=> a_blocked = h
  /\ a_cur # None => a_blocked = None
  /\ a_held <=> a_cur # None \/ a_blocked # None
  /\ a_queue # <<>> => a_held
  /\ Waiting(a_queue, {h \in Acceptors : a_pc[h] = "queued"})

\* A timeout knows what its task waits for, and only one that can still elapse has
\* its timer started.
AcceptTimeouts ==
  \A h \in Acceptors :
    /\ a_state[h] = "RequestPending" => a_pc[h] \in {"blocked", "woken"}
    /\ a_state[h] = "AccessPending" => a_pc[h] \in {"queued", "granted"}
    /\ a_state[h] = "NoWaiter" => a_pc[h] \in {"idle", "absent"}
    /\ a_state[h] = "TimedOut" => a_pc[h] \notin {"queued", "granted"}
    /\ a_timer[h] = "started" => a_state[h] \notin {"TimedOut", "NoTimeout"} /\ a_pc[h] # "absent"

\* While no timeout elapses during a wait for access.
AcceptInv ==
  /\ AcceptFlags /\ AcceptTypes /\ AcceptHolds /\ AcceptTimeouts
  /\ Accept!NoIdleConnection /\ ~a_failed

\* Whatever the timeouts do.
AcceptUse ==
  /\ a_cur \in Acceptors \cup {None} /\ a_pc \in [Acceptors -> Accept!PC] /\ a_held \in BOOLEAN
  /\ a_blocked \in Acceptors \cup {None} /\ (a_blocked # None => a_pc[a_blocked] = "blocked")
  /\ \A h \in Acceptors : a_pc[h] = "granted" => a_cur = h
  /\ a_queue \in Seq(Acceptors) /\ Waiting(a_queue, {h \in Acceptors : a_pc[h] = "queued"})

AcceptClients ==
  /\ a_state \in [Acceptors -> Accept!State] /\ a_timer \in [Acceptors -> {"stopped", "started"}]
  /\ \A h \in Acceptors : a_state[h] = "AccessPending" => a_pc[h] \in {"queued", "granted"}

AcceptOthers ==
  /\ a_patient \in BOOLEAN /\ a_closed \in BOOLEAN /\ a_failed \in BOOLEAN
  /\ a_result \in Accept!Result

AcceptConns ==
  /\ a_arrived \in 0..MaxArrivals /\ a_pending \in Seq(1..MaxArrivals)
  /\ a_taken \in Seq(1..MaxArrivals) /\ Accept!InOrder

AcceptData == AcceptUse /\ AcceptClients /\ AcceptOthers /\ AcceptConns

LEMMA AcceptBound == None \notin Acceptors /\ MaxArrivals \in Nat
BY UvNetAssumptions DEF Accept!AcceptAssumption

\* AcceptData and AcceptInv imply what the run checks of UvAccept.
LEMMA AcceptInvImplies == AcceptData /\ (a_patient => AcceptInv) => ConnectionsKept
<1>1. AcceptData => Accept!TypeOK /\ Accept!InOrder
  BY DEF AcceptData, AcceptUse, AcceptClients, AcceptOthers, AcceptConns, Accept!TypeOK
<1>. QED
  BY <1>1 DEF AcceptInv, ConnectionsKept, Accept!NoUnreachable

\* The invariant of UvAccept holds when the acceptor is made.
LEMMA AcceptInit == Accept!Init => AcceptData /\ AcceptInv
<1>. SUFFICES ASSUME Accept!Init PROVE AcceptData /\ AcceptInv
  OBVIOUS
<1>. USE AcceptBound DEF Accept!Init
<1>1. AcceptFlags /\ ~a_failed
  BY DEF AcceptFlags
<1>2. AcceptTypes
  BY DEF AcceptTypes, Accept!PC, Accept!State
<1>3. AcceptHolds
  <2>1. Waiting(a_queue, {h \in Acceptors : a_pc[h] = "queued"})
    BY DEF Waiting
  <2>. QED
    BY <2>1 DEF AcceptHolds
<1>4. AcceptTimeouts
  BY DEF AcceptTimeouts
<1>5. Accept!InOrder
  BY DEF Accept!InOrder
<1>6. Accept!NoIdleConnection
  BY DEF Accept!NoIdleConnection, Accept!PC
<1>7. AcceptUse /\ AcceptClients
  BY <1>2, <1>3 DEF AcceptTypes, AcceptHolds, AcceptUse, AcceptClients
<1>8. AcceptOthers /\ AcceptConns
  <2>1. AcceptOthers
    BY DEF AcceptOthers, Accept!Result
  <2>2. a_arrived \in 0..MaxArrivals /\ a_pending = <<>> /\ a_taken = <<>>
    OBVIOUS
  <2>3. AcceptConns
    BY ONLY <1>5, <2>2 DEF AcceptConns
  <2>. QED
    BY <2>1, <2>3
<1>. QED
  BY <1>1, <1>2, <1>3, <1>4, <1>6, <1>7, <1>8 DEF AcceptInv, AcceptData

\* Guard::drop by the task that has the thread.
LEMMA AcceptRelease ==
  ASSUME AcceptTypes, AcceptHolds, NEW h \in Acceptors, a_cur = h, Accept!Release(h),
         UNCHANGED a_blocked
  PROVE  /\ AcceptHolds' /\ a_cur' \in Acceptors \cup {None} /\ a_pc' \in [Acceptors -> Accept!PC]
         /\ a_queue' \in Seq(Acceptors)
         /\ \A g \in Acceptors :
              a_pc'[g] = (IF g = h THEN "idle" ELSE IF g = a_cur' THEN "granted" ELSE a_pc[g])
         /\ a_cur' # None => a_pc[a_cur'] = "queued"
<1>. DEFINE W == {g \in Acceptors : a_pc[g] = "queued"}
<1>0. a_pc[h] \in {"granted", "woken"} /\ a_blocked = None /\ a_held /\ Waiting(a_queue, W)
  BY AcceptBound DEF AcceptHolds
<1>1. CASE a_queue = <<>>
  <2>1. /\ a_held' = FALSE /\ a_cur' = None /\ a_pc' = [a_pc EXCEPT ![h] = "idle"]
        /\ a_queue' = a_queue
    BY <1>1 DEF Accept!Release
  <2>2. W' = W
    BY <1>0, <2>1 DEF AcceptTypes
  <2>3. Waiting(a_queue', W')
    BY <1>0, <2>1, <2>2
  <2>. QED
    BY <1>0, <1>1, <2>1, <2>3, AcceptBound DEF AcceptTypes, AcceptHolds, Accept!PC
<1>2. CASE a_queue # <<>>
  <2>1. PICK n \in Acceptors : n = Head(a_queue)
    BY <1>0, <1>2, QueueTail DEF AcceptTypes
  <2>2. n \in W /\ Tail(a_queue) \in Seq(Acceptors) /\ Waiting(Tail(a_queue), W \ {n})
    BY <1>0, <1>2, <2>1, QueueTail DEF AcceptTypes
  <2>3. /\ a_cur' = n /\ a_queue' = Tail(a_queue) /\ a_held' = a_held
        /\ a_pc' = [a_pc EXCEPT ![h] = "idle", ![n] = "granted"] /\ n # h
    BY <1>0, <1>2, <2>1, <2>2 DEF Accept!Release
  <2>4. W' = W \ {n}
    BY <1>0, <2>2, <2>3 DEF AcceptTypes
  <2>5. Waiting(a_queue', W')
    BY <2>2, <2>3, <2>4
  <2>. QED
    BY <1>0, <2>2, <2>3, <2>5, AcceptBound DEF AcceptTypes, AcceptHolds, Accept!PC
<1>. QED
  BY <1>1, <1>2

\* What moves from the head of one sequence to the end of another keeps its place.
LEMMA MoveFirst ==
  ASSUME NEW S, NEW p \in Seq(S), NEW q \in Seq(S), q # <<>>
  PROVE  /\ Append(p, Head(q)) \in Seq(S) /\ Tail(q) \in Seq(S)
         /\ Append(p, Head(q)) \o Tail(q) = p \o q
<1>1. Append(p, Head(q)) \in Seq(S) /\ Tail(q) \in Seq(S)
  OBVIOUS
<1>2. Len(Append(p, Head(q)) \o Tail(q)) = Len(p \o q)
  OBVIOUS
<1>3. ASSUME NEW i \in 1..Len(p \o q) PROVE (Append(p, Head(q)) \o Tail(q))[i] = (p \o q)[i]
  OBVIOUS
<1>4. Append(p, Head(q)) \o Tail(q) \in Seq(S) /\ p \o q \in Seq(S)
  BY <1>1
<1>. QED
  BY <1>1, <1>2, <1>3, <1>4, SeqEqual

\* Appending to the second of two sequences appends to both.
LEMMA ConcatAppend ==
  ASSUME NEW S, NEW p \in Seq(S), NEW q \in Seq(S), NEW e \in S
  PROVE  p \o Append(q, e) = Append(p \o q, e)
OBVIOUS

\* The numbers of the first n connections.
Arrivals(n) == [i \in 1..n |-> i]

\* The connection that arrives is behind all that arrived before it.
LEMMA NextArrival ==
  ASSUME NEW n \in Nat, NEW S, NEW p \in Seq(S), NEW q \in Seq(S), n + 1 \in S,
         p \o q = Arrivals(n)
  PROVE  p \o Append(q, n + 1) = Arrivals(n + 1)
<1>. DEFINE f == Arrivals(n)
<1>0. p \in Seq(S) /\ q \in Seq(S) /\ n + 1 \in S
  OBVIOUS
<1>1. p \o Append(q, n + 1) = Append(p \o q, n + 1)
  BY ONLY <1>0, ConcatAppend
<1>2. f \in Seq(Nat) /\ Len(f) = n /\ \A i \in 1..n : f[i] = i
  BY DEF Arrivals
<1>3. Append(f, n + 1) = Arrivals(n + 1)
  <2>1. Append(f, n + 1) \in Seq(Nat) /\ Len(Append(f, n + 1)) = n + 1
    BY <1>2
  <2>2. ASSUME NEW i \in 1..(n + 1) PROVE Append(f, n + 1)[i] = i
    BY <1>2
  <2>. QED
    BY <2>1, <2>2 DEF Arrivals
<1>. QED
  BY <1>1, <1>3

\* Removing the oldest result leaves the order of arrival.
LEMMA AcceptTake ==
  ASSUME AcceptConns, Accept!TakeFirst, UNCHANGED a_arrived
  PROVE  AcceptConns'
<1>1. CASE a_pending = <<>>
  BY <1>1 DEF AcceptConns, Accept!InOrder, Accept!TakeFirst
<1>2. CASE a_pending # <<>>
  <2>1. a_taken' = Append(a_taken, Head(a_pending)) /\ a_pending' = Tail(a_pending)
    BY <1>2 DEF Accept!TakeFirst
  <2>2. a_taken \in Seq(1..MaxArrivals) /\ a_pending \in Seq(1..MaxArrivals)
    BY DEF AcceptConns
  <2>3. /\ a_taken' \o a_pending' = a_taken \o a_pending
        /\ a_taken' \in Seq(1..MaxArrivals) /\ a_pending' \in Seq(1..MaxArrivals)
    <3>1. /\ Append(a_taken, Head(a_pending)) \in Seq(1..MaxArrivals)
          /\ Tail(a_pending) \in Seq(1..MaxArrivals)
          /\ Append(a_taken, Head(a_pending)) \o Tail(a_pending) = a_taken \o a_pending
      BY ONLY <1>2, <2>2, MoveFirst, Zenon
    <3>. QED
      BY ONLY <2>1, <3>1, Zenon
  <2>. QED
    BY <1>2, <2>3 DEF AcceptConns, Accept!InOrder
<1>. QED
  BY <1>1, <1>2

\* The accept that has the thread returns.
LEMMA AcceptReturn ==
  ASSUME AcceptInv, AcceptData', NEW h \in Acceptors, a_cur = h, NEW r, Accept!Return(h, r),
         UNCHANGED <<a_timer, a_closed, a_blocked>>
  PROVE  AcceptInv'
<1>. USE AcceptBound
<1>0. AcceptFlags /\ AcceptTypes /\ AcceptHolds /\ AcceptTimeouts /\ ~a_failed
  BY DEF AcceptInv
<1>1. /\ a_state' = Accept!Flag(h, "NoWaiter")
      /\ a_failed' = (a_failed \/ (a_pc[h] = "granted" /\ ~a_held) \/ a_state[h] = "NoWaiter")
      /\ Accept!Release(h)
  BY DEF Accept!Return
<1>2. a_pc[h] \in {"granted", "woken"} /\ a_held /\ a_blocked = None
  BY <1>0 DEF AcceptHolds
<1>3. /\ AcceptHolds'
      /\ \A g \in Acceptors :
           a_pc'[g] = (IF g = h THEN "idle" ELSE IF g = a_cur' THEN "granted" ELSE a_pc[g])
      /\ a_cur' # None => a_pc[a_cur'] = "queued"
  BY <1>0, <1>1, AcceptRelease
<1>4. ~a_failed'
  BY <1>0, <1>1, <1>2 DEF AcceptTimeouts
<1>5. AcceptTypes' /\ AcceptFlags'
  BY DEF AcceptData, AcceptUse, AcceptClients, AcceptOthers, AcceptTypes, AcceptFlags
<1>6. AcceptTimeouts'
  BY <1>0, <1>1, <1>2, <1>3 DEF AcceptTypes, AcceptTimeouts, Accept!Flag
<1>7. Accept!NoIdleConnection'
  BY <1>2, <1>3 DEF AcceptHolds, Accept!NoIdleConnection
<1>. QED
  BY <1>3, <1>4, <1>5, <1>6, <1>7 DEF AcceptInv

\* listen_cb, cancel_accept and close wake the blocked acceptor.
LEMMA AcceptWake ==
  ASSUME AcceptTypes, AcceptHolds, a_cur = None, Accept!Wake, UNCHANGED <<a_held, a_queue>>
  PROVE  /\ AcceptHolds' /\ a_cur' \in Acceptors \cup {None} /\ a_pc' \in [Acceptors -> Accept!PC]
         /\ a_blocked' = None /\ a_cur' = a_blocked
         /\ \A g \in Acceptors : a_pc'[g] = (IF g = a_blocked THEN "woken" ELSE a_pc[g])
<1>. DEFINE W == {g \in Acceptors : a_pc[g] = "queued"}
<1>. USE AcceptBound
<1>1. CASE a_blocked = None
  <2>1. UNCHANGED <<a_cur, a_pc, a_blocked>>
    BY <1>1 DEF Accept!Wake
  <2>2. W' = W
    BY <2>1
  <2>3. Waiting(a_queue', W')
    BY <2>2 DEF AcceptHolds
  <2>. QED
    BY <1>1, <2>1, <2>3 DEF AcceptTypes, AcceptHolds
<1>2. CASE a_blocked # None
  <2>1. PICK b \in Acceptors : b = a_blocked
    BY <1>2 DEF AcceptTypes
  <2>2. /\ a_pc' = [a_pc EXCEPT ![b] = "woken"] /\ a_cur' = b /\ a_blocked' = None
        /\ a_pc[b] = "blocked"
    BY <1>2, <2>1 DEF Accept!Wake, AcceptHolds
  <2>3. W' = W
    BY <2>2 DEF AcceptTypes
  <2>4. Waiting(a_queue', W')
    BY <2>3 DEF AcceptHolds
  <2>. QED
    BY <2>1, <2>2, <2>4 DEF AcceptTypes, AcceptHolds, Accept!PC
<1>. QED
  BY <1>1, <1>2

\* Guard::drop, whatever the timeouts do.
LEMMA AcceptUseRelease ==
  ASSUME AcceptUse, NEW h \in Acceptors, a_cur = h, a_pc[h] \in {"granted", "woken"},
         Accept!Release(h), UNCHANGED a_blocked
  PROVE  /\ AcceptUse'
         /\ \A g \in Acceptors \ {h} : a_pc[g] \in {"queued", "granted"}
                                         => a_pc'[g] \in {"queued", "granted"}
<1>. DEFINE W == {g \in Acceptors : a_pc[g] = "queued"}
<1>. USE AcceptBound
<1>0. Waiting(a_queue, W) /\ a_queue \in Seq(Acceptors)
  BY DEF AcceptUse
<1>1. CASE a_queue = <<>>
  <2>1. /\ a_held' = FALSE /\ a_cur' = None /\ a_pc' = [a_pc EXCEPT ![h] = "idle"]
        /\ a_queue' = a_queue
    BY <1>1 DEF Accept!Release
  <2>2. W' = W
    BY <2>1 DEF AcceptUse
  <2>3. Waiting(a_queue', W')
    BY <1>0, <2>1, <2>2
  <2>. QED
    BY <2>1, <2>3 DEF AcceptUse, Accept!PC
<1>2. CASE a_queue # <<>>
  <2>1. PICK n \in Acceptors : n = Head(a_queue)
    BY <1>0, <1>2, QueueTail
  <2>2. n \in W /\ Tail(a_queue) \in Seq(Acceptors) /\ Waiting(Tail(a_queue), W \ {n})
    BY <1>0, <1>2, <2>1, QueueTail
  <2>3. /\ a_cur' = n /\ a_queue' = Tail(a_queue) /\ a_held' = a_held
        /\ a_pc' = [a_pc EXCEPT ![h] = "idle", ![n] = "granted"] /\ n # h
    BY <1>2, <2>1, <2>2 DEF Accept!Release
  <2>4. W' = W \ {n}
    BY <2>2, <2>3 DEF AcceptUse
  <2>5. Waiting(a_queue', W')
    BY <2>2, <2>3, <2>4
  <2>. QED
    BY <2>2, <2>3, <2>5 DEF AcceptUse, Accept!PC
<1>. QED
  BY <1>1, <1>2

\* The blocked acceptor is woken, whatever the timeouts do.
LEMMA AcceptUseWake ==
  ASSUME AcceptUse, a_cur = None, Accept!Wake, UNCHANGED <<a_held, a_queue>>
  PROVE  /\ AcceptUse'
         /\ \A g \in Acceptors : a_pc[g] \in {"queued", "granted"}
                                   => a_pc'[g] \in {"queued", "granted"}
<1>. DEFINE W == {g \in Acceptors : a_pc[g] = "queued"}
<1>. USE AcceptBound
<1>1. CASE a_blocked = None
  <2>1. UNCHANGED <<a_cur, a_pc, a_blocked>>
    BY <1>1 DEF Accept!Wake
  <2>. QED
    BY <2>1 DEF AcceptUse
<1>2. CASE a_blocked # None
  <2>1. PICK b \in Acceptors : b = a_blocked
    BY <1>2 DEF AcceptUse
  <2>2. /\ a_pc' = [a_pc EXCEPT ![b] = "woken"] /\ a_cur' = b /\ a_blocked' = None
        /\ a_pc[b] = "blocked"
    BY <1>2, <2>1 DEF Accept!Wake, AcceptUse
  <2>3. W' = W
    BY <2>2 DEF AcceptUse
  <2>4. Waiting(a_queue', W')
    BY <2>3 DEF AcceptUse
  <2>. QED
    BY <2>2, <2>4 DEF AcceptUse, Accept!PC
<1>. QED
  BY <1>1, <1>2

\* Every step keeps the types, the queue and the order of the connections, also when
\* a timeout elapses during a wait for access.
LEMMA AcceptDataStep ==
  ASSUME AcceptData, [Accept!Next]_acceptVars
  PROVE  AcceptData'
<1>. DEFINE W == {g \in Acceptors : a_pc[g] = "queued"}
            Pending(h) == a_pc[h] \in {"queued", "granted"}
<1>. USE AcceptBound
<1>0. AcceptUse /\ AcceptClients /\ AcceptOthers /\ AcceptConns
  BY DEF AcceptData
<1>00. a_patient \in BOOLEAN /\ a_patient' = a_patient
  BY <1>0 DEF AcceptOthers, Accept!Next, acceptVars
\* What the actions have in common.
<1>1. ASSUME UNCHANGED <<a_pending, a_arrived, a_taken>> PROVE AcceptConns'
  BY <1>0, <1>1 DEF AcceptConns, Accept!InOrder
<1>2. ASSUME Accept!TakeFirst, UNCHANGED a_arrived PROVE AcceptConns'
  BY <1>0, <1>2, AcceptTake
<1>3. ASSUME NEW h \in Acceptors, NEW c \in {"NoWaiter", "AccessPending", "RequestPending"},
             a_state' = Accept!Flag(h, c), a_timer' = a_timer,
             \A g \in Acceptors \ {h} : Pending(g) => Pending(g)',
             c = "AccessPending" => Pending(h)'
      PROVE  AcceptClients'
  BY <1>0, <1>3 DEF AcceptClients, Accept!Flag, Accept!State
<1>4. ASSUME UNCHANGED <<a_cur, a_pc, a_held, a_queue, a_blocked>> PROVE AcceptUse'
  BY <1>0, <1>4 DEF AcceptUse
<1>5. ASSUME NEW h \in Acceptors, Accept!Poll(h) \/ Accept!GrantRefused(h) PROVE AcceptData'
  <2>1. /\ a_result' \in Accept!Result
        /\ UNCHANGED <<a_cur, a_pc, a_state, a_timer, a_held, a_queue, a_closed, a_blocked, a_failed>>
        /\ Accept!TakeFirst \/ UNCHANGED <<a_pending, a_taken>>
        /\ UNCHANGED a_arrived
    BY <1>5 DEF Accept!Poll, Accept!GrantRefused, Accept!Removed, Accept!Result, Accept!accessv
  <2>2. AcceptClients' /\ AcceptOthers'
    BY <1>0, <1>00, <2>1 DEF AcceptClients, AcceptOthers
  <2>. QED
    BY <1>1, <1>2, <1>4, <2>1, <2>2 DEF AcceptData
<1>6. ASSUME NEW h \in Acceptors, Accept!Grant(h) PROVE AcceptData'
  <2>1. /\ a_cur = None /\ a_pc[h] = "idle" /\ a_state' = Accept!Flag(h, "AccessPending")
        /\ UNCHANGED <<a_timer, a_closed, a_blocked, a_pending, a_arrived, a_taken, a_result, a_failed>>
    BY <1>6 DEF Accept!Grant
  <2>2. AcceptOthers'
    BY <1>0, <1>00, <2>1 DEF AcceptOthers
  <2>3. CASE a_held
    <3>1. /\ a_queue' = Append(a_queue, h) /\ a_pc' = [a_pc EXCEPT ![h] = "queued"]
          /\ UNCHANGED <<a_cur, a_held>>
      BY <1>6, <2>3 DEF Accept!Grant
    <3>2. W' = W \cup {h} /\ h \notin W
      BY <1>0, <2>1, <3>1 DEF AcceptUse
    <3>3. a_queue' \in Seq(Acceptors) /\ Waiting(a_queue', W')
      <4>1. a_queue \in Seq(Acceptors) /\ Waiting(a_queue, W)
        BY <1>0 DEF AcceptUse
      <4>2. Append(a_queue, h) \in Seq(Acceptors) /\ Waiting(Append(a_queue, h), W \cup {h})
        BY <3>2, <4>1, QueueAppend
      <4>. QED
        BY <3>1, <3>2, <4>2
    <3>4. AcceptUse' /\ \A g \in Acceptors : Pending(g) \/ g = h => Pending(g)'
      BY <1>0, <2>1, <3>1, <3>3 DEF AcceptUse, Accept!PC
    <3>. QED
      BY <1>1, <1>3, <2>1, <2>2, <3>4 DEF AcceptData
  <2>4. CASE ~a_held
    <3>1. /\ a_held' = TRUE /\ a_cur' = h /\ a_pc' = [a_pc EXCEPT ![h] = "granted"]
          /\ UNCHANGED a_queue
      BY <1>6, <2>4 DEF Accept!Grant
    <3>2. W' = W
      BY <1>0, <2>1, <3>1 DEF AcceptUse
    <3>3. Waiting(a_queue', W')
      BY <1>0, <3>1, <3>2 DEF AcceptUse
    <3>4. AcceptUse' /\ \A g \in Acceptors : Pending(g) \/ g = h => Pending(g)'
      BY <1>0, <2>1, <3>1, <3>3 DEF AcceptUse, Accept!PC
    <3>. QED
      BY <1>1, <1>3, <2>1, <2>2, <3>4 DEF AcceptData
  <2>. QED
    BY <2>3, <2>4
<1>7. ASSUME NEW h \in Acceptors, NEW r \in Accept!Result, Accept!Return(h, r), a_cur = h,
             a_pc[h] \in {"granted", "woken"}, UNCHANGED <<a_timer, a_closed, a_blocked>>
      PROVE  AcceptUse' /\ AcceptClients' /\ AcceptOthers'
  <2>1. /\ a_result' = r /\ a_state' = Accept!Flag(h, "NoWaiter") /\ Accept!Release(h)
        /\ a_failed' = (a_failed \/ (a_pc[h] = "granted" /\ ~a_held) \/ a_state[h] = "NoWaiter")
    BY <1>7 DEF Accept!Return
  <2>2. AcceptUse' /\ \A g \in Acceptors \ {h} : Pending(g) => Pending(g)'
    BY <1>0, <1>7, <2>1, AcceptUseRelease
  <2>3. AcceptOthers'
    BY <1>0, <1>00, <1>7, <2>1 DEF AcceptOthers
  <2>. QED
    BY <1>3, <1>7, <2>1, <2>2, <2>3
<1>8. ASSUME NEW h \in Acceptors, Accept!AcceptClosed(h) \/ Accept!AcceptNow(h) \/ Accept!Woken(h)
      PROVE  AcceptData'
  <2>1. PICK r \in Accept!Result :
          /\ Accept!Return(h, r) /\ a_cur = h /\ a_pc[h] \in {"granted", "woken"}
          /\ UNCHANGED <<a_timer, a_closed, a_blocked, a_arrived>>
          /\ Accept!TakeFirst \/ UNCHANGED <<a_pending, a_taken>>
    BY <1>8 DEF Accept!AcceptClosed, Accept!AcceptNow, Accept!Woken, Accept!Granted, Accept!Removed,
       Accept!Result
  <2>. QED
    BY <1>1, <1>2, <1>7, <2>1 DEF AcceptData
<1>9. ASSUME NEW h \in Acceptors, Accept!GrantTimedOut(h) PROVE AcceptData'
  <2>1. /\ a_cur = h /\ a_pc[h] = "granted" /\ a_state[h] = "TimedOut" /\ a_result' = "ECANCELED"
        /\ a_failed' = (a_failed \/ ~a_held) /\ Accept!Release(h)
        /\ UNCHANGED <<a_state, a_timer, a_closed, a_blocked, a_pending, a_arrived, a_taken>>
    BY <1>9 DEF Accept!GrantTimedOut
  <2>2. AcceptUse' /\ \A g \in Acceptors \ {h} : Pending(g) => Pending(g)'
    BY <1>0, <2>1, AcceptUseRelease
  <2>3. AcceptOthers' /\ AcceptClients'
    BY <1>0, <1>00, <2>1, <2>2 DEF AcceptOthers, AcceptClients, Accept!Result
  <2>. QED
    BY <1>1, <2>1, <2>2, <2>3 DEF AcceptData
<1>10. ASSUME NEW h \in Acceptors, Accept!AcceptBlock(h) PROVE AcceptData'
  <2>1. /\ a_cur = h /\ a_pc[h] = "granted" /\ a_state' = Accept!Flag(h, "RequestPending")
        /\ a_blocked' = h /\ a_cur' = None /\ a_pc' = [a_pc EXCEPT ![h] = "blocked"]
        /\ a_failed' = (a_failed \/ ~a_held)
        /\ UNCHANGED <<a_timer, a_held, a_queue, a_closed, a_pending, a_arrived, a_taken, a_result>>
    BY <1>10 DEF Accept!AcceptBlock, Accept!Granted, Accept!accessv
  <2>2. W' = W
    BY <1>0, <2>1 DEF AcceptUse
  <2>3. Waiting(a_queue', W')
    BY <1>0, <2>1, <2>2 DEF AcceptUse
  <2>4. AcceptUse' /\ \A g \in Acceptors \ {h} : Pending(g) => Pending(g)'
    BY <1>0, <2>1, <2>3 DEF AcceptUse, Accept!PC
  <2>5. AcceptOthers'
    BY <1>0, <1>00, <2>1 DEF AcceptOthers
  <2>. QED
    BY <1>1, <1>3, <2>1, <2>4, <2>5 DEF AcceptData
<1>11. ASSUME a_cur = None, Accept!Wake, UNCHANGED <<a_held, a_queue>>,
              NEW t \in [Acceptors -> {"stopped", "started"}], a_timer' = t,
              \/ a_state' = a_state
              \/ \E h \in Acceptors : a_state' = [a_state EXCEPT ![h] = "TimedOut"]
       PROVE  AcceptUse' /\ AcceptClients'
  <2>1. AcceptUse' /\ \A g \in Acceptors : Pending(g) => Pending(g)'
    BY <1>0, <1>11, AcceptUseWake
  <2>. QED
    BY <1>0, <1>11, <2>1 DEF AcceptClients, Accept!State
<1>12. ASSUME Accept!ListenCb PROVE AcceptData'
  <2>1. /\ a_cur = None /\ a_arrived < MaxArrivals /\ a_arrived' = a_arrived + 1
        /\ a_pending' = Append(a_pending, a_arrived + 1) /\ Accept!Wake
        /\ UNCHANGED <<a_state, a_timer, a_held, a_queue, a_closed, a_taken, a_result, a_failed>>
    BY <1>12 DEF Accept!ListenCb, Accept!accessv
  <2>2. a_arrived + 1 \in 1..MaxArrivals /\ a_arrived \in Nat /\ a_arrived + 1 \in 0..MaxArrivals
    BY <1>0, <2>1 DEF AcceptConns
  <2>3. AcceptConns'
    <3>1. a_taken \in Seq(1..MaxArrivals) /\ a_pending \in Seq(1..MaxArrivals)
      BY <1>0 DEF AcceptConns
    <3>2. a_taken \o a_pending = Arrivals(a_arrived)
      BY <1>0 DEF AcceptConns, Accept!InOrder, Arrivals
    <3>3. a_taken \o Append(a_pending, a_arrived + 1) = Arrivals(a_arrived + 1)
      BY ONLY <2>2, <3>1, <3>2, NextArrival, Zenon
    <3>4. Accept!InOrder'
      BY ONLY <2>1, <3>3 DEF Accept!InOrder, Arrivals
    <3>. QED
      BY <2>1, <2>2, <3>1, <3>4 DEF AcceptConns
  <2>4. AcceptUse' /\ AcceptClients'
    BY <1>0, <1>11, <2>1 DEF AcceptClients
  <2>5. AcceptOthers'
    BY <1>0, <1>00, <2>1 DEF AcceptOthers
  <2>. QED
    BY <2>3, <2>4, <2>5 DEF AcceptData
<1>13. ASSUME NEW h \in Acceptors, Accept!TimerCb(h) PROVE AcceptData'
  <2>1. /\ a_cur = None /\ a_timer' = [a_timer EXCEPT ![h] = "stopped"]
        /\ a_state' = [a_state EXCEPT ![h] = "TimedOut"] /\ a_failed' \in BOOLEAN
        /\ UNCHANGED <<a_held, a_queue, a_closed, a_pending, a_arrived, a_taken, a_result>>
    BY <1>0, <1>13 DEF Accept!TimerCb, Accept!accessv, AcceptOthers
  <2>2. AcceptOthers'
    BY <1>0, <1>00, <2>1 DEF AcceptOthers
  <2>3. a_timer' \in [Acceptors -> {"stopped", "started"}]
    BY <1>0, <2>1 DEF AcceptClients
  <2>4. AcceptUse' /\ AcceptClients'
    <3>1. CASE Accept!Wake
      BY <1>11, <2>1, <2>3, <3>1
    <3>2. CASE UNCHANGED <<a_cur, a_pc, a_blocked>>
      BY <1>0, <1>4, <2>1, <2>3, <3>2 DEF AcceptClients, Accept!State
    <3>. QED
      BY <1>13, <3>1, <3>2 DEF Accept!TimerCb
  <2>. QED
    BY <1>1, <2>1, <2>2, <2>4 DEF AcceptData
<1>14. ASSUME NEW h \in Acceptors, Accept!TimerQueued(h) PROVE AcceptData'
  <2>1. /\ a_cur = None /\ a_state[h] = "AccessPending"
        /\ a_timer' = [a_timer EXCEPT ![h] = "stopped"]
        /\ a_state' = [a_state EXCEPT ![h] = "TimedOut"] /\ a_failed' \in BOOLEAN
        /\ Accept!Dequeue(h) /\ a_pc' = [a_pc EXCEPT ![h] = "granted"] /\ a_cur' = h
        /\ UNCHANGED <<a_held, a_closed, a_blocked, a_pending, a_arrived, a_taken, a_result>>
    BY <1>0, <1>14 DEF Accept!TimerQueued, AcceptOthers
  <2>2. a_pc[h] = "queued"
    BY <1>0, <2>1 DEF AcceptUse, AcceptClients
  <2>3. W' = W \ {h}
    BY <1>0, <2>1 DEF AcceptUse
  <2>4. a_queue \in Seq(Acceptors) /\ Waiting(a_queue, W) /\ h \in W
    BY <1>0, <2>2 DEF AcceptUse
  <2>5. h \in Accept!Range(a_queue)
    BY <2>4 DEF Waiting, Accept!Range
  <2>6. PICK i \in 1..Len(a_queue) : a_queue[i] = h /\ a_queue' = Accept!RemoveAt(a_queue, i)
    BY <2>1, <2>5 DEF Accept!Dequeue
  <2>7. a_queue' \in Seq(Acceptors) /\ Waiting(a_queue', W')
    BY <2>3, <2>4, <2>6, QueueRemove
  <2>8. AcceptUse'
    BY <1>0, <2>1, <2>2, <2>7 DEF AcceptUse, Accept!PC
  <2>9. AcceptClients'
    BY <1>0, <2>1 DEF AcceptUse, AcceptClients, Accept!State
  <2>10. AcceptOthers'
    BY <1>0, <1>00, <2>1 DEF AcceptOthers
  <2>. QED
    BY <1>1, <2>1, <2>8, <2>9, <2>10 DEF AcceptData
<1>15. ASSUME NEW h \in Acceptors, Accept!Close(h) PROVE AcceptData'
  <2>1. /\ a_cur = None /\ a_closed' = TRUE /\ Accept!Wake
        /\ UNCHANGED <<a_state, a_timer, a_held, a_queue, a_pending, a_arrived, a_taken, a_result, a_failed>>
    BY <1>15 DEF Accept!Close, Accept!accessv
  <2>2. AcceptUse' /\ AcceptClients'
    BY <1>0, <1>11, <2>1 DEF AcceptClients
  <2>3. AcceptOthers'
    BY <1>0, <1>00, <2>1 DEF AcceptOthers
  <2>. QED
    BY <1>1, <2>1, <2>2, <2>3 DEF AcceptData
<1>16. ASSUME NEW h \in Acceptors, Accept!SetTimeout(h) PROVE AcceptData'
  <2>1. /\ a_pc[h] = "idle"
        /\ UNCHANGED <<a_cur, a_pc, a_held, a_queue, a_closed, a_blocked, a_pending, a_arrived, a_taken, a_result, a_failed>>
    BY <1>16 DEF Accept!SetTimeout, Accept!accessv
  <2>2. AcceptClients'
    BY <1>0, <1>16, <2>1 DEF Accept!SetTimeout, AcceptClients, Accept!State
  <2>3. AcceptOthers'
    BY <1>0, <1>00, <2>1 DEF AcceptOthers
  <2>. QED
    BY <1>1, <1>4, <2>1, <2>2, <2>3 DEF AcceptData
<1>17. ASSUME NEW g \in Acceptors, NEW p \in {"idle", "absent"}, a_pc[g] \in {"idle", "absent"},
              a_pc' = [a_pc EXCEPT ![g] = p], a_state' = [a_state EXCEPT ![g] = "NoTimeout"],
              a_timer' \in [Acceptors -> {"stopped", "started"}], a_failed' \in BOOLEAN,
              UNCHANGED <<a_cur, a_held, a_queue, a_closed, a_blocked, a_pending, a_arrived, a_taken, a_result>>
       PROVE  AcceptData'
  <2>1. W' = W
    BY <1>0, <1>17 DEF AcceptUse
  <2>2. Waiting(a_queue', W')
    BY <1>0, <1>17, <2>1 DEF AcceptUse
  <2>3. AcceptUse' /\ AcceptClients'
    BY <1>0, <1>17, <2>2 DEF AcceptUse, AcceptClients, Accept!PC, Accept!State
  <2>4. AcceptOthers'
    BY <1>0, <1>00, <1>17 DEF AcceptOthers
  <2>. QED
    BY <1>1, <1>17, <2>3, <2>4 DEF AcceptData
<1>18. ASSUME NEW h \in Acceptors, NEW g \in Acceptors, Accept!Clone(h, g) PROVE AcceptData'
  <2>1. /\ a_pc[g] = "absent" /\ a_pc' = [a_pc EXCEPT ![g] = "idle"]
        /\ a_state' = [a_state EXCEPT ![g] = "NoTimeout"]
        /\ UNCHANGED <<a_cur, a_timer, a_held, a_queue, a_closed, a_blocked, a_pending, a_arrived, a_taken, a_result, a_failed>>
    BY <1>18 DEF Accept!Clone, Accept!accessv
  <2>2. a_timer' \in [Acceptors -> {"stopped", "started"}] /\ a_failed' \in BOOLEAN
    BY <1>0, <2>1 DEF AcceptClients, AcceptOthers
  <2>. QED
    BY <1>17, <2>1, <2>2
<1>19. ASSUME NEW h \in Acceptors, Accept!DropHandle(h) PROVE AcceptData'
  <2>1. /\ a_pc[h] = "idle" /\ a_pc' = [a_pc EXCEPT ![h] = "absent"]
        /\ a_timer' = [a_timer EXCEPT ![h] = "stopped"]
        /\ a_state' = [a_state EXCEPT ![h] = "NoTimeout"] /\ a_failed' \in BOOLEAN
        /\ UNCHANGED <<a_cur, a_held, a_queue, a_closed, a_blocked, a_pending, a_arrived, a_taken, a_result>>
    BY <1>0, <1>19 DEF Accept!DropHandle, Accept!accessv, AcceptOthers
  <2>2. a_timer' \in [Acceptors -> {"stopped", "started"}]
    BY <1>0, <2>1 DEF AcceptClients
  <2>. QED
    BY <1>17, <2>1, <2>2
<1>20. ASSUME UNCHANGED acceptVars PROVE AcceptData'
  BY <1>0, <1>20 DEF acceptVars, AcceptData, AcceptUse, AcceptClients, AcceptOthers, AcceptConns,
     Accept!InOrder
<1>. QED
  BY <1>5, <1>6, <1>8, <1>9, <1>10, <1>12, <1>13, <1>14, <1>15, <1>16, <1>18, <1>19, <1>20
     DEF Accept!Next, Accept!Resume, Accept!Call, Accept!Stopped, Accept!vars, acceptVars, Accept!accessv

\* Every step of the acceptors and of their callbacks keeps the invariant of
\* UvAccept, when no timeout elapses during a wait for access.
LEMMA AcceptStep ==
  ASSUME AcceptInv, a_patient, AcceptData', [Accept!Next]_acceptVars
  PROVE  AcceptInv'
<1>. DEFINE W == {g \in Acceptors : a_pc[g] = "queued"}
<1>. USE AcceptBound
<1>0. /\ AcceptFlags /\ AcceptTypes /\ AcceptHolds /\ AcceptTimeouts
      /\ Accept!NoIdleConnection /\ ~a_failed
  BY DEF AcceptInv
<1>00. AcceptFlags' /\ AcceptTypes'
  BY DEF AcceptData, AcceptUse, AcceptClients, AcceptOthers, AcceptTypes, AcceptFlags
<1>1. ASSUME NEW h \in Acceptors, Accept!Poll(h) PROVE AcceptInv'
  <2>1. /\ a_pending = <<>> => a_pending' = <<>>
        /\ UNCHANGED <<a_cur, a_pc, a_state, a_timer, a_held, a_queue, a_closed, a_blocked, a_failed>>
    BY <1>1 DEF Accept!Poll, Accept!TakeFirst, Accept!accessv
  <2>2. AcceptHolds' /\ AcceptTimeouts' /\ ~a_failed'
    BY <1>0, <2>1 DEF AcceptHolds, AcceptTimeouts
  <2>3. Accept!NoIdleConnection'
    BY <1>0, <2>1 DEF Accept!NoIdleConnection
  <2>. QED
    BY <1>00, <2>2, <2>3 DEF AcceptInv
<1>2. ASSUME NEW h \in Acceptors, Accept!GrantRefused(h) PROVE AcceptInv'
  <2>1. /\ UNCHANGED <<a_cur, a_pc, a_state, a_timer, a_held, a_queue, a_closed, a_blocked, a_pending, a_failed>>
    BY <1>2 DEF Accept!GrantRefused, Accept!accessv
  <2>. QED
    BY <1>00, <1>0, <2>1 DEF AcceptInv, AcceptHolds, AcceptTimeouts, AcceptFlags, Accept!NoIdleConnection
<1>3. ASSUME NEW h \in Acceptors, Accept!Grant(h) PROVE AcceptInv'
  <2>1. /\ a_cur = None /\ a_pc[h] = "idle" /\ a_state[h] # "TimedOut"
        /\ a_state' = Accept!Flag(h, "AccessPending")
        /\ UNCHANGED <<a_timer, a_closed, a_blocked, a_pending, a_failed>>
    BY <1>3 DEF Accept!Grant
  <2>2. CASE a_held
    <3>1. /\ a_queue' = Append(a_queue, h) /\ a_pc' = [a_pc EXCEPT ![h] = "queued"]
          /\ UNCHANGED <<a_cur, a_held>>
      BY <1>3, <2>2 DEF Accept!Grant
    <3>2. W' = W \cup {h} /\ h \notin W
      BY <1>0, <2>1, <3>1 DEF AcceptTypes
    <3>3. a_queue' \in Seq(Acceptors) /\ Waiting(a_queue', W')
      <4>1. a_queue \in Seq(Acceptors) /\ Waiting(a_queue, W)
        BY <1>0 DEF AcceptTypes, AcceptHolds
      <4>2. Append(a_queue, h) \in Seq(Acceptors) /\ Waiting(Append(a_queue, h), W \cup {h})
        BY <3>2, <4>1, QueueAppend
      <4>. QED
        BY <3>1, <3>2, <4>2
    <3>5. AcceptHolds'
      BY <1>0, <2>1, <2>2, <3>1, <3>3 DEF AcceptTypes, AcceptHolds
    <3>6. AcceptTimeouts'
      BY <1>0, <2>1, <3>1 DEF AcceptTypes, AcceptTimeouts, Accept!Flag, Accept!State
    <3>. QED
      BY <1>00, <1>0, <2>1, <3>1, <3>5, <3>6 DEF AcceptInv, AcceptFlags, Accept!NoIdleConnection
  <2>3. CASE ~a_held
    <3>1. /\ a_held' = TRUE /\ a_cur' = h /\ a_pc' = [a_pc EXCEPT ![h] = "granted"] 
          /\ UNCHANGED a_queue
      BY <1>3, <2>3 DEF Accept!Grant
    <3>2. W' = W
      BY <1>0, <2>1, <3>1 DEF AcceptTypes
    <3>3. Waiting(a_queue', W')
      BY <1>0, <3>1, <3>2 DEF AcceptHolds
    <3>5. AcceptHolds'
      BY <1>0, <2>1, <2>3, <3>1, <3>3 DEF AcceptTypes, AcceptHolds
    <3>6. AcceptTimeouts'
      BY <1>0, <2>1, <3>1 DEF AcceptTypes, AcceptTimeouts, Accept!Flag, Accept!State
    <3>. QED
      BY <1>00, <1>0, <2>1, <3>1, <3>5, <3>6 DEF AcceptInv, AcceptFlags, Accept!NoIdleConnection
  <2>. QED
    BY <2>2, <2>3
<1>4. ASSUME NEW h \in Acceptors, Accept!AcceptClosed(h) \/ Accept!AcceptNow(h) \/ Accept!Woken(h)
      PROVE  AcceptInv'
  <2>1. PICK r : Accept!Return(h, r) /\ a_cur = h /\ UNCHANGED <<a_timer, a_closed, a_blocked>>
    BY <1>4 DEF Accept!AcceptClosed, Accept!AcceptNow, Accept!Woken, Accept!Granted
  <2>. QED
    BY <2>1, AcceptReturn
<1>5. ASSUME NEW h \in Acceptors, Accept!AcceptBlock(h) PROVE AcceptInv'
  <2>1. /\ a_cur = h /\ a_pc[h] = "granted" /\ ~a_closed /\ a_pending = <<>>
        /\ a_state' = Accept!Flag(h, "RequestPending")
        /\ a_blocked' = h /\ a_cur' = None /\ a_pc' = [a_pc EXCEPT ![h] = "blocked"]
        /\ UNCHANGED <<a_timer, a_held, a_queue, a_closed, a_pending>>
    BY <1>5 DEF Accept!AcceptBlock, Accept!Granted, Accept!accessv
  <2>7. ~a_failed'
    BY <1>0, <1>5, <2>1 DEF Accept!AcceptBlock, AcceptHolds
  <2>2. W' = W
    BY <1>0, <2>1 DEF AcceptTypes
  <2>3. Waiting(a_queue', W')
    BY <1>0, <2>1, <2>2 DEF AcceptHolds
  <2>5. AcceptHolds'
    BY <1>0, <2>1, <2>3 DEF AcceptTypes, AcceptHolds
  <2>6. AcceptTimeouts'
    BY <1>0, <2>1 DEF AcceptTypes, AcceptTimeouts, Accept!Flag, Accept!State
  <2>. QED
    BY <1>00, <1>0, <2>1, <2>5, <2>6, <2>7 DEF AcceptInv, AcceptHolds, Accept!NoIdleConnection
<1>6. ASSUME a_cur = None, Accept!Wake, UNCHANGED <<a_held, a_queue>>
      PROVE  /\ AcceptHolds' /\ a_cur' \in Acceptors \cup {None} /\ a_pc' \in [Acceptors -> Accept!PC]
             /\ a_blocked' = None /\ a_cur' = a_blocked
             /\ \A g \in Acceptors : a_pc'[g] = (IF g = a_blocked THEN "woken" ELSE a_pc[g])
             /\ \A g \in Acceptors : a_pc[g] = "blocked" <=> a_blocked = g
  BY <1>0, <1>6, AcceptWake DEF AcceptHolds
<1>7. ASSUME Accept!ListenCb PROVE AcceptInv'
  <2>1. /\ a_cur = None /\ Accept!Wake
        /\ UNCHANGED <<a_state, a_timer, a_held, a_queue, a_closed, a_failed>>
    BY <1>7 DEF Accept!ListenCb, Accept!accessv
  <2>2. AcceptTimeouts'
    BY <1>0, <1>6, <2>1 DEF AcceptTimeouts
  <2>. QED
    BY <1>0, <1>00, <1>6, <2>1, <2>2 DEF AcceptInv, AcceptHolds, Accept!NoIdleConnection
<1>8. ASSUME NEW h \in Acceptors, Accept!TimerCb(h) PROVE AcceptInv'
  <2>1. /\ a_cur = None /\ a_timer[h] = "started" /\ a_state[h] # "AccessPending"
        /\ a_timer' = [a_timer EXCEPT ![h] = "stopped"] 
        /\ a_state' = [a_state EXCEPT ![h] = "TimedOut"]
        /\ a_failed' = (a_failed \/ a_state[h] \in {"TimedOut", "NoTimeout"}
                         \/ (a_state[h] = "RequestPending" /\ a_blocked = None))
        /\ UNCHANGED <<a_held, a_queue, a_closed, a_pending>>
    BY <1>8 DEF Accept!TimerCb, Accept!accessv
  <2>2. a_state[h] = "RequestPending" => a_pc[h] = "blocked" /\ a_blocked = h
    BY <1>0, <2>1 DEF AcceptTimeouts, AcceptHolds
  <2>3. ~a_failed' /\ a_failed' \in BOOLEAN
    BY <1>0, <2>1, <2>2 DEF AcceptTimeouts
  <2>4. CASE a_state[h] = "RequestPending"
    <3>1. Accept!Wake
      BY <1>8, <2>4 DEF Accept!TimerCb
    <3>3. AcceptTimeouts'
      BY <1>0, <1>6, <2>1, <2>2, <2>4, <3>1 DEF AcceptTypes, AcceptTimeouts
    <3>. QED
      BY <1>0, <1>00, <1>6, <2>1, <2>3, <3>1, <3>3
         DEF AcceptInv, AcceptFlags, Accept!NoIdleConnection
  <2>5. CASE a_state[h] # "RequestPending"
    <3>1. UNCHANGED <<a_cur, a_pc, a_blocked>>
      BY <1>8, <2>5 DEF Accept!TimerCb
    <3>3. AcceptTimeouts'
      BY <1>0, <2>1, <2>5, <3>1 DEF AcceptTypes, AcceptTimeouts, Accept!State
    <3>4. AcceptHolds'
      BY <1>0, <2>1, <3>1 DEF AcceptHolds
    <3>. QED
      BY <1>0, <1>00, <2>1, <2>3, <3>1, <3>3, <3>4
         DEF AcceptInv, AcceptFlags, Accept!NoIdleConnection
  <2>. QED
    BY <2>4, <2>5
<1>9. ASSUME NEW h \in Acceptors, Accept!Close(h) PROVE AcceptInv'
  <2>1. /\ a_cur = None /\ a_closed' = TRUE /\ Accept!Wake
        /\ UNCHANGED <<a_state, a_timer, a_held, a_queue, a_pending, a_failed>>
    BY <1>9 DEF Accept!Close, Accept!accessv
  <2>3. AcceptTimeouts'
    BY <1>0, <1>6, <2>1 DEF AcceptTimeouts
  <2>. QED
    BY <1>00, <1>0, <1>6, <2>1, <2>3 DEF AcceptInv, AcceptFlags, Accept!NoIdleConnection
<1>10. ASSUME NEW h \in Acceptors, Accept!SetTimeout(h) PROVE AcceptInv'
  <2>1. /\ a_pc[h] = "idle"
        /\ UNCHANGED <<a_cur, a_pc, a_held, a_queue, a_closed, a_blocked, a_pending, a_failed>>
    BY <1>10 DEF Accept!SetTimeout, Accept!accessv
  <2>2. AcceptTimeouts'
    <3>1. CASE /\ a_state' = [a_state EXCEPT ![h] = "NoWaiter"]
               /\ a_timer' = [a_timer EXCEPT ![h] = "started"]
      BY <1>0, <2>1, <3>1 DEF AcceptTypes, AcceptTimeouts, Accept!State
    <3>2. CASE /\ a_state' = [a_state EXCEPT ![h] = "NoTimeout"]
               /\ a_timer' = [a_timer EXCEPT ![h] = "stopped"]
      BY <1>0, <2>1, <3>2 DEF AcceptTypes, AcceptTimeouts, Accept!State
    <3>. QED
      BY <1>10, <3>1, <3>2 DEF Accept!SetTimeout
  <2>. QED
    BY <1>00, <1>0, <2>1, <2>2 DEF AcceptInv, AcceptFlags, AcceptHolds, Accept!NoIdleConnection
<1>11. ASSUME NEW h \in Acceptors, NEW g \in Acceptors, Accept!Clone(h, g) PROVE AcceptInv'
  <2>1. /\ a_pc[g] = "absent" /\ a_pc' = [a_pc EXCEPT ![g] = "idle"]
        /\ a_state' = [a_state EXCEPT ![g] = "NoTimeout"]
        /\ UNCHANGED <<a_cur, a_timer, a_held, a_queue, a_closed, a_blocked, a_pending, a_failed>>
    BY <1>11 DEF Accept!Clone, Accept!accessv
  <2>2. W' = W
    BY <1>0, <2>1 DEF AcceptTypes
  <2>3. Waiting(a_queue', W')
    BY <1>0, <2>1, <2>2 DEF AcceptHolds
  <2>4. AcceptTimeouts'
    BY <1>0, <2>1 DEF AcceptTypes, AcceptTimeouts, Accept!PC, Accept!State
  <2>5. AcceptHolds'
    BY <1>0, <2>1, <2>3 DEF AcceptTypes, AcceptHolds
  <2>. QED
    BY <1>00, <1>0, <2>1, <2>4, <2>5 DEF AcceptInv, AcceptFlags, Accept!NoIdleConnection
<1>12. ASSUME NEW h \in Acceptors, Accept!DropHandle(h) PROVE AcceptInv'
  <2>1. /\ a_pc[h] = "idle" /\ a_pc' = [a_pc EXCEPT ![h] = "absent"]
        /\ a_timer' = [a_timer EXCEPT ![h] = "stopped"]
        /\ a_state' = [a_state EXCEPT ![h] = "NoTimeout"]
        /\ a_failed' = (a_failed \/ ((\A g \in Acceptors \ {h} : a_pc[g] = "absent") /\ (a_held \/ a_queue # <<>>)))
        /\ UNCHANGED <<a_cur, a_held, a_queue, a_closed, a_blocked, a_pending>>
    BY <1>12 DEF Accept!DropHandle, Accept!accessv
  <2>2. W' = W
    BY <1>0, <2>1 DEF AcceptTypes
  <2>3. Waiting(a_queue', W')
    BY <1>0, <2>1, <2>2 DEF AcceptHolds
  <2>4. AcceptTimeouts'
    BY <1>0, <2>1 DEF AcceptTypes, AcceptTimeouts, Accept!PC, Accept!State
  <2>5. AcceptHolds'
    BY <1>0, <2>1, <2>3 DEF AcceptTypes, AcceptHolds
  <2>6. ~a_failed' /\ a_failed' \in BOOLEAN
    <3>1. a_held => \E g \in Acceptors : g # h /\ a_pc[g] # "absent"
      BY <1>0, <2>1 DEF AcceptTypes, AcceptHolds
    <3>. QED
      BY <1>0, <2>1, <3>1 DEF AcceptHolds
  <2>. QED
    BY <1>00, <1>0, <2>1, <2>4, <2>5, <2>6 DEF AcceptInv, AcceptFlags, Accept!NoIdleConnection
<1>13. ASSUME UNCHANGED acceptVars PROVE AcceptInv'
  BY <1>0, <1>13 DEF acceptVars, AcceptInv, AcceptFlags, AcceptTypes, AcceptHolds, AcceptTimeouts,
     Accept!NoIdleConnection
<1>14. ASSUME NEW h \in Acceptors PROVE ~Accept!TimerQueued(h) /\ ~Accept!GrantTimedOut(h)
  BY <1>0 DEF Accept!TimerQueued, Accept!GrantTimedOut, AcceptTimeouts
<1>. QED
  BY <1>1, <1>2, <1>3, <1>4, <1>5, <1>7, <1>8, <1>9, <1>10, <1>11, <1>12, <1>13, <1>14
     DEF Accept!Next, Accept!Resume, Accept!Call, Accept!Stopped, Accept!vars, acceptVars, Accept!accessv

-----------------------------------------------------------------------------
(* UvWrite.                                                                *)

WriteFlags == w_held \in BOOLEAN /\ w_shut \in BOOLEAN /\ w_failed \in BOOLEAN

\* Write!TypeOK without the flags.
WriteTypes ==
  /\ w_cur \in Writers \cup {None} /\ w_pc \in [Writers -> Write!PC]
  /\ w_queue \in Seq(Writers) /\ w_order \in Seq(Writers)
  /\ w_req \in [Writers -> {"none", "cached", "sent"}] /\ w_allocs \in Nat
  /\ w_shutter \in Writers \cup {None}

\* Access is held by the task that has the thread or by the one whose request
\* libuv has, never by two; whoever waits for access is queued; and a shutdown
\* is known by its request.
WriteHolds ==
  /\ \A h \in Writers : w_pc[h] = "granted" <=> w_cur = h
  /\ w_sending = <<>> \/ \E h \in Writers : w_sending = <<h>>
  /\ \A h \in Writers : w_pc[h] = "writing" <=> w_sending = <<h>>
  /\ \A h \in Writers : w_req[h] = "sent" <=> w_pc[h] = "writing"
  /\ \A h \in Writers : w_pc[h] = "closing" <=> w_shutter = h
  /\ w_cur # None => w_sending = <<>>
  /\ w_held <=> w_cur # None \/ w_sending # <<>>
  /\ w_queue # <<>> => w_held
  /\ Waiting(w_queue, {h \in Writers : w_pc[h] = "queued"})

WriteInv ==
  /\ WriteFlags /\ WriteTypes /\ WriteHolds
  /\ Write!InOrder /\ Write!RequestsOwned /\ ~w_failed

LEMMA WriteBound == None \notin Writers /\ IsFiniteSet(Writers)
BY UvNetAssumptions DEF Write!HandlesAssumption, Write!IsFiniteSet, IsFiniteSet

\* The module that UvWrite extends is the one the library's theorems are about.
LEMMA WriteCardinality == ASSUME NEW S PROVE Write!Cardinality(S) = Cardinality(S)
BY DEF Write!Cardinality, Cardinality, Write!IsFiniteSet, IsFiniteSet

\* WriteInv implies what the run checks of UvWrite.
LEMMA WriteInvImplies == WriteInv => WritesExclusive
<1>. SUFFICES ASSUME WriteInv PROVE WritesExclusive
  OBVIOUS
<1>1. w_sending \in Seq(Writers) /\ Len(w_sending) <= 1
  <2>1. CASE w_sending = <<>>
    BY <2>1
  <2>2. ASSUME NEW h \in Writers, w_sending = <<h>> PROVE w_sending \in Seq(Writers) /\ Len(w_sending) <= 1
    BY <2>2
  <2>. QED
    BY <2>1, <2>2 DEF WriteInv, WriteHolds
<1>2. Write!TypeOK
  BY <1>1, WriteBound DEF WriteInv, WriteFlags, WriteTypes, WriteHolds, Write!TypeOK
<1>. QED
  BY <1>1, <1>2 DEF WriteInv, WritesExclusive, Write!ExclusiveWriters, Write!NoPanic

\* The requests that objects keep or have with libuv.
Requests == {h \in Writers : w_req[h] # "none"}
\* The shutdowns under way.
Shutdowns == {h \in Writers : w_pc[h] = "closing"}

LEMMA WriteOwned == Write!RequestsOwned <=> w_allocs = Cardinality(Requests) + Cardinality(Shutdowns)
BY WriteCardinality DEF Write!RequestsOwned, Requests, Shutdowns

\* One request more or less is one member more or less of the set that owns it.
LEMMA CountOne ==
  ASSUME NEW S \in SUBSET Writers, NEW h \in Writers
  PROVE  /\ Cardinality(S) \in Nat
         /\ Cardinality(S \cup {h}) = Cardinality(S) + (IF h \in S THEN 0 ELSE 1)
         /\ Cardinality(S \ {h}) = Cardinality(S) - (IF h \in S THEN 1 ELSE 0)
<1>1. IsFiniteSet(S)
  BY WriteBound, FS_Subset
<1>2. Cardinality(S) \in Nat
  BY <1>1, FS_CardinalityType
<1>3. Cardinality(S \cup {h}) = Cardinality(S) + (IF h \in S THEN 0 ELSE 1)
  BY <1>1, <1>2, FS_AddElement
<1>4. Cardinality(S \ {h}) = Cardinality(S) - (IF h \in S THEN 1 ELSE 0)
  <2>1. CASE h \in S
    BY <1>1, <1>2, <2>1, FS_RemoveElement
  <2>2. CASE h \notin S
    <3>1. S \ {h} = S
      BY <2>2
    <3>. QED
      BY <1>2, <2>2, <3>1
  <2>. QED
    BY <2>1, <2>2
<1>. QED
  BY <1>2, <1>3, <1>4

\* The invariant of UvWrite holds when the stream is made.
LEMMA WriteInit == Write!Init => WriteInv
<1>. SUFFICES ASSUME Write!Init PROVE WriteInv
  OBVIOUS
<1>. USE WriteBound DEF Write!Init
<1>1. WriteFlags /\ ~w_failed
  BY DEF WriteFlags
<1>2. WriteTypes
  BY DEF WriteTypes, Write!PC
<1>3. WriteHolds
  <2>1. Waiting(w_queue, {h \in Writers : w_pc[h] = "queued"})
    BY DEF Waiting
  <2>2. \A h \in Writers : w_sending # <<h>>
    OBVIOUS
  <2>. QED
    BY <2>1, <2>2 DEF WriteHolds
<1>4. Write!InOrder
  BY DEF Write!InOrder
<1>5. Write!RequestsOwned
  <2>1. Requests = {} /\ Shutdowns = {}
    BY DEF Requests, Shutdowns
  <2>2. Cardinality(Requests) = 0 /\ Cardinality(Shutdowns) = 0
    BY ONLY <2>1, FS_EmptySet
  <2>3. w_allocs = Cardinality(Requests) + Cardinality(Shutdowns)
    BY <2>2
  <2>. QED
    BY ONLY <2>3, WriteOwned
<1>. QED
  BY <1>1, <1>2, <1>3, <1>4, <1>5 DEF WriteInv

\* The first entry of a sequence is the one that is removed.
LEMMA RemoveFront ==
  ASSUME NEW S, NEW q \in Seq(S), NEW h \in S
  PROVE  Write!RemoveFirst(<<h>> \o q, h) = q
<1>. DEFINE s == <<h>> \o q
            I == {i \in 1..Len(s) : s[i] = h}
<1>1. s \in Seq(S) /\ Len(s) = Len(q) + 1 /\ s[1] = h /\ 1 \in 1..Len(s)
      /\ \A i \in 1..Len(q) : s[i + 1] = q[i]
  OBVIOUS
<1>2. Write!SelectInSeq(s, LAMBDA v : v = h) = 1
  <2>1. 1 \in I /\ \A i \in I : 1 <= i /\ i \in Nat
    BY <1>1
  <2>2. Write!Min(I) = 1
    <3>. DEFINE m == CHOOSE x \in I : \A y \in I : x <= y
    <3>1. m \in I /\ \A y \in I : m <= y
      BY <2>1
    <3>2. m <= 1 /\ 1 <= m /\ m \in Nat
      BY <2>1, <3>1
    <3>. QED
      BY <3>2 DEF Write!Min
  <2>. QED
    BY <2>1, <2>2 DEF Write!SelectInSeq
<1>3. Write!RemoveFirst(s, h) = Write!RemoveAt(s, 1)
  <2>. HIDE DEF s
  <2>. QED
    BY <1>1, <1>2 DEF Write!RemoveFirst
<1>4. Write!RemoveAt(s, 1) = q
  <2>1. SubSeq(s, 1, 0) = <<>> /\ SubSeq(s, 2, Len(s)) = q
    BY <1>1
  <2>. QED
    BY <1>1, <2>1 DEF Write!RemoveAt
<1>. QED
  BY <1>3, <1>4

\* Guard::drop by the task that has the thread, or whose write is done.
LEMMA WriteRelease ==
  ASSUME WriteTypes, WriteHolds, NEW h \in Writers, Write!Release(h),
         w_pc[h] \in {"granted", "writing"}, w_sending' = <<>>,
         NEW r \in {"none", "cached"}, w_req' = [w_req EXCEPT ![h] = r], UNCHANGED w_shutter
  PROVE  /\ WriteHolds' /\ w_cur' \in Writers \cup {None} /\ w_pc' \in [Writers -> Write!PC]
         /\ w_queue' \in Seq(Writers) /\ Shutdowns' = Shutdowns /\ w_held' \in BOOLEAN
         /\ (IF w_cur' = None THEN <<>> ELSE <<w_cur'>>) \o w_queue' = w_queue
<1>. DEFINE W == {g \in Writers : w_pc[g] = "queued"}
<1>. USE WriteBound
<1>0. /\ w_held /\ Waiting(w_queue, W)
      /\ \A g \in Writers : g # h => w_pc[g] \notin {"granted", "writing"}
      /\ \A g \in Writers : w_sending' # <<g>>
      /\ \A g \in Writers : g # h => w_req[g] # "sent"
  <2>1. \A g \in Writers : <<g>> # <<>> /\ (<<g>> = <<h>> => g = h)
    OBVIOUS
  <2>2. w_cur = h \/ w_sending = <<h>>
    BY DEF WriteHolds
  <2>3. \A g \in Writers : g # h => w_pc[g] \notin {"granted", "writing"}
    BY <2>1, <2>2 DEF WriteHolds
  <2>. QED
    BY <2>1, <2>2, <2>3 DEF WriteHolds
<1>1. CASE w_queue = <<>>
  <2>1. /\ w_held' = FALSE /\ w_cur' = None /\ w_pc' = [w_pc EXCEPT ![h] = "idle"]
        /\ w_queue' = w_queue
    BY <1>1 DEF Write!Release
  <2>2. W' = W /\ Shutdowns' = Shutdowns
    BY <1>0, <2>1 DEF WriteTypes, Shutdowns
  <2>3. Waiting(w_queue', W')
    BY <1>0, <2>1, <2>2
  <2>4. (IF w_cur' = None THEN <<>> ELSE <<w_cur'>>) \o w_queue' = w_queue
    BY <1>1, <2>1
  <2>5. w_cur' \in Writers \cup {None} /\ w_pc' \in [Writers -> Write!PC] /\ w_queue' \in Seq(Writers)
    BY <2>1 DEF WriteTypes, Write!PC
  <2>6. WriteHolds'
    BY <1>0, <1>1, <2>1, <2>3 DEF WriteTypes, WriteHolds
  <2>. QED
    BY <2>1, <2>2, <2>4, <2>5, <2>6
<1>2. CASE w_queue # <<>>
  <2>1. PICK n \in Writers : n = Head(w_queue)
    BY <1>0, <1>2, QueueTail DEF WriteTypes
  <2>2. n \in W /\ Tail(w_queue) \in Seq(Writers) /\ Waiting(Tail(w_queue), W \ {n})
    BY <1>0, <1>2, <2>1, QueueTail DEF WriteTypes
  <2>3. /\ w_cur' = n /\ w_queue' = Tail(w_queue) /\ w_held' = w_held
        /\ w_pc' = [w_pc EXCEPT ![h] = "idle", ![n] = "granted"] /\ n # h
    BY <1>0, <1>2, <2>1, <2>2 DEF Write!Release
  <2>4. W' = W \ {n} /\ Shutdowns' = Shutdowns
    BY <1>0, <2>2, <2>3 DEF WriteTypes, Shutdowns
  <2>5. Waiting(w_queue', W')
    BY <2>2, <2>3, <2>4
  <2>6. (IF w_cur' = None THEN <<>> ELSE <<w_cur'>>) \o w_queue' = w_queue
    <3>1. w_queue \in Seq(Writers)
      BY DEF WriteTypes
    <3>2. <<Head(w_queue)>> \o Tail(w_queue) = w_queue
      BY ONLY <1>2, <3>1
    <3>3. (IF w_cur' = None THEN <<>> ELSE <<w_cur'>>) = <<Head(w_queue)>>
      BY <2>1, <2>3
    <3>. QED
      BY <2>3, <3>2, <3>3
  <2>7. w_cur' \in Writers \cup {None} /\ w_pc' \in [Writers -> Write!PC] /\ w_queue' \in Seq(Writers)
    BY <2>2, <2>3 DEF WriteTypes, Write!PC
  <2>8. WriteHolds'
    BY <1>0, <2>2, <2>3, <2>5 DEF WriteTypes, WriteHolds
  <2>. QED
    BY <1>0, <2>3, <2>4, <2>6, <2>7, <2>8
<1>. QED
  BY <1>1, <1>2

\* Every step of the writers and of their callbacks keeps the invariant of
\* UvWrite.
LEMMA WriteStep == WriteInv /\ [Write!Next]_writeVars => WriteInv'
<1>. SUFFICES ASSUME WriteInv, [Write!Next]_writeVars PROVE WriteInv'
  OBVIOUS
<1>. DEFINE W == {g \in Writers : w_pc[g] = "queued"}
            R == Cardinality(Requests)
            C == Cardinality(Shutdowns)
            Busy == IF w_cur = None THEN <<>> ELSE <<w_cur>>
<1>. USE WriteBound
<1>0. /\ WriteFlags /\ WriteTypes /\ WriteHolds /\ w_order = Busy \o w_queue
      /\ w_allocs = R + C /\ R \in Nat /\ C \in Nat /\ ~w_failed
      /\ Requests \in SUBSET Writers /\ Shutdowns \in SUBSET Writers
  <2>1. Requests \in SUBSET Writers /\ Shutdowns \in SUBSET Writers
    BY DEF Requests, Shutdowns
  <2>2. R \in Nat /\ C \in Nat
    BY <2>1, FS_Subset, FS_CardinalityType
  <2>. QED
    BY <2>1, <2>2, WriteOwned DEF WriteInv, Write!InOrder
<1>00. (Write!RequestsOwned <=> w_allocs = R + C)' /\ (Write!InOrder <=> w_order = Busy \o w_queue)'
  <2>1. (Write!RequestsOwned <=> w_allocs = R + C)'
    BY WriteCardinality DEF Write!RequestsOwned, Requests, Shutdowns
  <2>2. (Write!InOrder <=> w_order = Busy \o w_queue)'
    BY DEF Write!InOrder
  <2>. QED
    BY <2>1, <2>2
<1>1. ASSUME NEW h \in Writers, Write!Send(h) \/ Write!SendFails(h)
      PROVE  /\ w_cur = h /\ w_pc[h] = "granted" /\ w_held /\ w_sending = <<>>
             /\ w_order' = w_queue
  <2>1. w_cur = h /\ w_pc[h] = "granted" /\ w_order' = Write!RemoveFirst(w_order, h)
    BY <1>1 DEF Write!Send, Write!SendFails
  <2>2. w_order = <<h>> \o w_queue /\ w_queue \in Seq(Writers)
    BY <1>0, <2>1 DEF WriteTypes
  <2>3. Write!RemoveFirst(<<h>> \o w_queue, h) = w_queue
    BY ONLY <2>2, RemoveFront, h \in Writers
  <2>. QED
    BY <1>0, <2>1, <2>2, <2>3 DEF WriteHolds
<1>2. ASSUME NEW h \in Writers, Write!Send(h) PROVE WriteInv'
  <2>1. /\ w_allocs' = w_allocs + (IF h \in Requests THEN 0 ELSE 1)
        /\ w_req' = [w_req EXCEPT ![h] = "sent"] /\ w_sending' = <<h>>
        /\ w_pc' = [w_pc EXCEPT ![h] = "writing"] /\ w_cur' = None
        /\ w_failed' = ~w_held /\ UNCHANGED <<w_held, w_queue, w_shut, w_shutter>>
    <3>1. /\ w_req' = [w_req EXCEPT ![h] = "sent"] /\ w_sending' = Append(w_sending, h)
          /\ w_pc' = [w_pc EXCEPT ![h] = "writing"] /\ w_cur' = None
          /\ UNCHANGED <<w_held, w_queue, w_shut, w_shutter>>
      BY <1>2 DEF Write!Send, Write!accessv
    <3>2. w_allocs' = w_allocs + (IF w_req[h] = "none" THEN 1 ELSE 0)
      BY <1>2 DEF Write!Send, Write!Request
    <3>3. w_failed' = ~w_held
      BY <1>2 DEF Write!Send
    <3>4. w_sending' = <<h>>
      <4>1. w_sending = <<>>
        BY <1>1, <1>2
      <4>. QED
        BY ONLY <3>1, <4>1
    <3>5. w_req[h] = "none" <=> h \notin Requests
      BY DEF Requests
    <3>6. w_allocs' = w_allocs + (IF h \in Requests THEN 0 ELSE 1)
      BY ONLY <3>2, <3>5
    <3>. QED
      BY ONLY <3>1, <3>3, <3>4, <3>6
  <2>2. W' = W /\ Shutdowns' = Shutdowns /\ Requests' = Requests \cup {h}
    BY <1>0, <1>1, <1>2, <2>1 DEF WriteTypes, Requests, Shutdowns
  <2>3. Waiting(w_queue', W')
    BY <1>0, <2>1, <2>2 DEF WriteHolds
  <2>4. R' = R + (IF h \in Requests THEN 0 ELSE 1) /\ C' = C
    BY <1>0, <2>2, CountOne
  <2>5. WriteTypes'
    BY <1>0, <1>1, <1>2, <2>1 DEF WriteTypes, Write!PC
  <2>6. WriteHolds'
    <3>1. \A g \in Writers : <<g>> # <<>> /\ (<<g>> = <<h>> <=> g = h)
      OBVIOUS
    <3>. QED
      BY <1>0, <1>1, <1>2, <2>1, <2>3, <3>1 DEF WriteTypes, WriteHolds
  <2>7. w_order' = Busy' \o w_queue'
    BY <1>0, <1>1, <1>2, <2>1 DEF WriteTypes
  <2>8. WriteFlags' /\ ~w_failed'
    BY <1>0, <1>1, <1>2, <2>1 DEF WriteFlags
  <2>9. w_allocs' = R' + C'
    BY <1>0, <2>1, <2>4
  <2>. QED
    BY <1>00, <2>5, <2>6, <2>7, <2>8, <2>9 DEF WriteInv
<1>3. ASSUME NEW h \in Writers, Write!SendFails(h) PROVE WriteInv'
  <2>1. /\ w_allocs' = (w_allocs + (IF h \in Requests THEN 0 ELSE 1)) - 1
        /\ w_req' = [w_req EXCEPT ![h] = "none"] /\ w_sending' = <<>>
        /\ w_failed' = ~w_held /\ UNCHANGED <<w_shut, w_shutter>> /\ Write!Release(h)
    <3>1. /\ w_req' = [w_req EXCEPT ![h] = "none"] /\ w_sending' = w_sending
          /\ UNCHANGED <<w_shut, w_shutter>> /\ Write!Release(h)
      BY <1>3 DEF Write!SendFails, Write!uvv
    <3>2. w_allocs' = (w_allocs + (IF w_req[h] = "none" THEN 1 ELSE 0)) - 1
      <4>1. w_allocs' = Write!Request(h) - 1
        BY <1>3 DEF Write!SendFails
      <4>. QED
        BY ONLY <4>1 DEF Write!Request
    <3>3. w_failed' = ~w_held
      BY <1>3 DEF Write!SendFails
    <3>4. w_sending' = <<>>
      BY <1>1, <1>3, <3>1
    <3>5. w_req[h] = "none" <=> h \notin Requests
      BY DEF Requests
    <3>6. w_allocs' = (w_allocs + (IF h \in Requests THEN 0 ELSE 1)) - 1
      BY ONLY <3>2, <3>5
    <3>. QED
      BY ONLY <3>1, <3>3, <3>4, <3>6
  <2>2. /\ WriteHolds' /\ w_cur' \in Writers \cup {None} /\ w_pc' \in [Writers -> Write!PC]
        /\ w_queue' \in Seq(Writers) /\ Shutdowns' = Shutdowns /\ w_held' \in BOOLEAN
        /\ Busy' \o w_queue' = w_queue
    BY <1>0, <1>1, <1>3, <2>1, WriteRelease
  <2>3. Requests' = Requests \ {h}
    BY <1>0, <2>1 DEF WriteTypes, Requests
  <2>4. R' = R - (IF h \in Requests THEN 1 ELSE 0) /\ R' \in Nat
    <3>1. Requests' \in SUBSET Writers
      BY <1>0, <2>3
    <3>. QED
      BY <1>0, <2>3, <3>1, CountOne
  <2>5. w_allocs' = R' + C' /\ w_allocs' \in Nat
    BY <1>0, <2>1, <2>2, <2>4
  <2>6. WriteTypes'
    BY <1>0, <1>1, <1>3, <2>1, <2>2, <2>5 DEF WriteTypes
  <2>7. WriteFlags' /\ ~w_failed'
    BY <1>0, <1>1, <1>3, <2>1, <2>2 DEF WriteFlags
  <2>. QED
    BY <1>00, <1>1, <1>3, <2>2, <2>5, <2>6, <2>7 DEF WriteInv
<1>4. ASSUME Write!WriteCb PROVE WriteInv'
  <2>1. PICK h \in Writers : w_sending = <<h>>
    BY <1>0, <1>4 DEF WriteHolds, Write!WriteCb
  <2>2. w_pc[h] = "writing" /\ w_req[h] = "sent" /\ w_cur = None /\ Head(w_sending) = h /\ Tail(w_sending) = <<>>
    BY <1>0, <1>4, <2>1 DEF WriteHolds, Write!WriteCb
  <2>3. /\ w_sending' = <<>> /\ w_failed' = (w_pc[h] # "writing")
        /\ w_req' = [w_req EXCEPT ![h] = "cached"] /\ Write!Release(h)
        /\ UNCHANGED <<w_allocs, w_shut, w_shutter, w_order>>
    BY <1>4, <2>2 DEF Write!WriteCb
  <2>4. /\ WriteHolds' /\ w_cur' \in Writers \cup {None} /\ w_pc' \in [Writers -> Write!PC]
        /\ w_queue' \in Seq(Writers) /\ Shutdowns' = Shutdowns /\ w_held' \in BOOLEAN
        /\ Busy' \o w_queue' = w_queue
    BY <1>0, <2>2, <2>3, WriteRelease
  <2>5. Requests' = Requests
    BY <1>0, <2>2, <2>3 DEF WriteTypes, Requests
  <2>6. w_allocs' = R' + C' /\ w_allocs' \in Nat
    BY <1>0, <2>3, <2>4, <2>5
  <2>7. w_order' = w_queue
    BY <1>0, <2>2, <2>3 DEF WriteTypes
  <2>8. WriteTypes'
    BY <1>0, <2>3, <2>4, <2>6 DEF WriteTypes
  <2>9. WriteFlags' /\ ~w_failed'
    BY <1>0, <2>2, <2>3, <2>4 DEF WriteFlags
  <2>. QED
    BY <1>00, <2>4, <2>6, <2>7, <2>8, <2>9 DEF WriteInv
<1>5. ASSUME NEW h \in Writers, Write!Grant(h) PROVE WriteInv'
  <2>1. /\ w_cur = None /\ w_pc[h] = "idle" /\ w_order' = Append(w_order, h)
        /\ UNCHANGED <<w_req, w_allocs, w_sending, w_shut, w_shutter, w_failed>>
    BY <1>5 DEF Write!Grant, Write!uvv
  <2>2. w_queue \in Seq(Writers) /\ w_order = w_queue /\ Requests' = Requests
    BY <1>0, <2>1 DEF WriteTypes, Requests
  <2>3. CASE w_held
    <3>1. /\ w_queue' = Append(w_queue, h) /\ w_pc' = [w_pc EXCEPT ![h] = "queued"]
          /\ UNCHANGED <<w_cur, w_held>>
      BY <1>5, <2>3 DEF Write!Grant
    <3>2. W' = W \cup {h} /\ h \notin W /\ Shutdowns' = Shutdowns
      BY <1>0, <2>1, <3>1 DEF WriteTypes, Shutdowns
    <3>3. w_queue' \in Seq(Writers) /\ Waiting(w_queue', W')
      <4>1. w_queue \in Seq(Writers) /\ Waiting(w_queue, W)
        BY <1>0 DEF WriteTypes, WriteHolds
      <4>2. Append(w_queue, h) \in Seq(Writers) /\ Waiting(Append(w_queue, h), W \cup {h})
        BY <3>2, <4>1, QueueAppend
      <4>. QED
        BY <3>1, <3>2, <4>2
    <3>4. WriteTypes'
      BY <1>0, <2>1, <2>2, <3>1, <3>3 DEF WriteTypes, Write!PC
    <3>5. WriteHolds'
      BY <1>0, <2>1, <2>3, <3>1, <3>3 DEF WriteTypes, WriteHolds
    <3>6. w_order' = Busy' \o w_queue'
      BY <2>1, <2>2, <3>1, <3>3
    <3>7. w_allocs' = R' + C'
      BY <1>0, <2>1, <2>2, <3>2
    <3>8. WriteFlags' /\ ~w_failed'
      BY <1>0, <2>1, <3>1 DEF WriteFlags
    <3>. QED
      BY <1>00, <3>4, <3>5, <3>6, <3>7, <3>8 DEF WriteInv
  <2>4. CASE ~w_held
    <3>1. /\ w_held' = TRUE /\ w_cur' = h /\ w_pc' = [w_pc EXCEPT ![h] = "granted"]
          /\ UNCHANGED w_queue
      BY <1>5, <2>4 DEF Write!Grant
    <3>2. W' = W /\ Shutdowns' = Shutdowns /\ w_queue = <<>>
      BY <1>0, <2>1, <2>4, <3>1 DEF WriteTypes, WriteHolds, Shutdowns
    <3>3. Waiting(w_queue', W')
      BY <1>0, <3>1, <3>2 DEF WriteHolds
    <3>4. WriteTypes'
      BY <1>0, <2>1, <2>2, <3>1 DEF WriteTypes, Write!PC
    <3>5. WriteHolds'
      BY <1>0, <2>1, <2>4, <3>1, <3>3 DEF WriteTypes, WriteHolds
    <3>6. w_order' = Busy' \o w_queue'
      BY <2>1, <2>2, <3>1, <3>2
    <3>7. w_allocs' = R' + C'
      BY <1>0, <2>1, <2>2, <3>2
    <3>8. WriteFlags' /\ ~w_failed'
      BY <1>0, <2>1, <3>1 DEF WriteFlags
    <3>. QED
      BY <1>00, <3>4, <3>5, <3>6, <3>7, <3>8 DEF WriteInv
  <2>. QED
    BY <2>3, <2>4
<1>6. ASSUME NEW h \in Writers, Write!CloseWrite(h) PROVE WriteInv'
  <2>1. /\ w_pc[h] = "idle" /\ w_shutter = None /\ w_allocs' = w_allocs + 1 /\ w_shutter' = h
        /\ w_pc' = [w_pc EXCEPT ![h] = "closing"]
        /\ UNCHANGED <<w_cur, w_held, w_queue, w_req, w_sending, w_shut, w_order, w_failed>>
    BY <1>6 DEF Write!CloseWrite, Write!accessv
  <2>2. W' = W /\ Requests' = Requests /\ Shutdowns' = Shutdowns \cup {h} /\ h \notin Shutdowns
    BY <1>0, <2>1 DEF WriteTypes, Requests, Shutdowns
  <2>3. Waiting(w_queue', W')
    BY <1>0, <2>1, <2>2 DEF WriteHolds
  <2>4. C' = C + 1 /\ R' = R
    BY <1>0, <2>2, CountOne
  <2>5. WriteTypes'
    BY <1>0, <2>1 DEF WriteTypes, Write!PC
  <2>6. WriteHolds'
    BY <1>0, <2>1, <2>3 DEF WriteTypes, WriteHolds
  <2>7. w_order' = Busy' \o w_queue' /\ w_allocs' = R' + C'
    BY <1>0, <2>1, <2>4
  <2>8. WriteFlags' /\ ~w_failed'
    BY <1>0, <2>1 DEF WriteFlags
  <2>. QED
    BY <1>00, <2>5, <2>6, <2>7, <2>8 DEF WriteInv
<1>7. ASSUME Write!ShutdownCb PROVE WriteInv'
  <2>1. PICK h \in Writers : h = w_shutter
    BY <1>0, <1>7 DEF WriteTypes, Write!ShutdownCb
  <2>2. /\ w_pc[h] = "closing" /\ w_allocs' = w_allocs - 1 /\ w_shutter' = None
        /\ w_pc' = [w_pc EXCEPT ![h] = "idle"] /\ w_shut' \in BOOLEAN
        /\ UNCHANGED <<w_cur, w_held, w_queue, w_req, w_sending, w_order, w_failed>>
    BY <1>0, <1>7, <2>1 DEF Write!ShutdownCb, Write!accessv, WriteHolds
  <2>3. W' = W /\ Requests' = Requests /\ Shutdowns' = Shutdowns \ {h} /\ h \in Shutdowns
    BY <1>0, <2>2 DEF WriteTypes, Requests, Shutdowns
  <2>4. Waiting(w_queue', W')
    BY <1>0, <2>2, <2>3 DEF WriteHolds
  <2>5. C' = C - 1 /\ R' = R /\ C' \in Nat
    <3>1. Shutdowns' \in SUBSET Writers
      BY <1>0, <2>3
    <3>. QED
      BY <1>0, <2>3, <3>1, CountOne
  <2>6. w_order' = Busy' \o w_queue' /\ w_allocs' = R' + C' /\ w_allocs' \in Nat
    BY <1>0, <2>2, <2>5
  <2>7. WriteTypes'
    BY <1>0, <2>2, <2>6 DEF WriteTypes, Write!PC
  <2>8. WriteHolds'
    BY <1>0, <2>1, <2>2, <2>4 DEF WriteTypes, WriteHolds
  <2>9. WriteFlags' /\ ~w_failed'
    BY <1>0, <2>2 DEF WriteFlags
  <2>. QED
    BY <1>00, <2>6, <2>7, <2>8, <2>9 DEF WriteInv
<1>8. ASSUME NEW h \in Writers, NEW g \in Writers, Write!Clone(h, g) PROVE WriteInv'
  <2>1. /\ w_pc[g] = "absent" /\ w_pc' = [w_pc EXCEPT ![g] = "idle"]
        /\ UNCHANGED <<w_cur, w_held, w_queue, w_req, w_allocs, w_sending, w_shut, w_shutter, w_order, w_failed>>
    BY <1>8 DEF Write!Clone, Write!accessv, Write!uvv
  <2>2. W' = W /\ Requests' = Requests /\ Shutdowns' = Shutdowns
    BY <1>0, <2>1 DEF WriteTypes, Requests, Shutdowns
  <2>3. Waiting(w_queue', W')
    BY <1>0, <2>1, <2>2 DEF WriteHolds
  <2>4. WriteTypes'
    BY <1>0, <2>1 DEF WriteTypes, Write!PC
  <2>5. WriteHolds'
    BY <1>0, <2>1, <2>3 DEF WriteTypes, WriteHolds
  <2>6. w_order' = Busy' \o w_queue' /\ w_allocs' = R' + C' /\ WriteFlags' /\ ~w_failed'
    BY <1>0, <2>1, <2>2 DEF WriteFlags
  <2>. QED
    BY <1>00, <2>4, <2>5, <2>6 DEF WriteInv
<1>9. ASSUME NEW h \in Writers, Write!DropHandle(h) PROVE WriteInv'
  <2>1. /\ w_pc[h] = "idle" /\ w_pc' = [w_pc EXCEPT ![h] = "absent"]
        /\ w_allocs' = w_allocs - (IF h \in Requests THEN 1 ELSE 0)
        /\ w_req' = [w_req EXCEPT ![h] = "none"]
        /\ w_failed' = ((\A g \in Writers \ {h} : w_pc[g] = "absent") /\ (w_held \/ w_queue # <<>>))
        /\ UNCHANGED <<w_cur, w_held, w_queue, w_sending, w_shut, w_shutter, w_order>>
    <3>1. w_req[h] = "none" <=> h \notin Requests
      BY DEF Requests
    <3>. QED
      BY <1>9, <3>1 DEF Write!DropHandle, Write!accessv, Write!uvv
  <2>2. W' = W /\ Requests' = Requests \ {h} /\ Shutdowns' = Shutdowns
    BY <1>0, <2>1 DEF WriteTypes, Requests, Shutdowns
  <2>3. Waiting(w_queue', W')
    BY <1>0, <2>1, <2>2 DEF WriteHolds
  <2>4. R' = R - (IF h \in Requests THEN 1 ELSE 0) /\ C' = C /\ R' \in Nat
    <3>1. Requests' \in SUBSET Writers
      BY <1>0, <2>2
    <3>. QED
      BY <1>0, <2>2, <3>1, CountOne
  <2>5. w_order' = Busy' \o w_queue' /\ w_allocs' = R' + C' /\ w_allocs' \in Nat
    BY <1>0, <2>1, <2>4
  <2>6. WriteTypes'
    BY <1>0, <2>1, <2>5 DEF WriteTypes, Write!PC
  <2>7. WriteHolds'
    BY <1>0, <2>1, <2>3 DEF WriteTypes, WriteHolds
  <2>8. ~w_failed' /\ WriteFlags'
    <3>1. w_held => \E g \in Writers : g # h /\ w_pc[g] # "absent"
      BY <1>0, <2>1 DEF WriteTypes, WriteHolds
    <3>. QED
      BY <1>0, <2>1, <3>1 DEF WriteHolds, WriteFlags
  <2>. QED
    BY <1>00, <2>5, <2>6, <2>7, <2>8 DEF WriteInv
<1>10. ASSUME UNCHANGED writeVars PROVE WriteInv'
  <2>1. Requests' = Requests /\ Shutdowns' = Shutdowns
    BY <1>10 DEF writeVars, Requests, Shutdowns
  <2>. QED
    BY <1>0, <1>00, <1>10, <2>1 DEF writeVars, WriteInv, WriteFlags, WriteTypes, WriteHolds
<1>. QED
  BY <1>2, <1>3, <1>4, <1>5, <1>6, <1>7, <1>8, <1>9, <1>10
     DEF Write!Next, Write!Resume, Write!CloseWriteFails, Write!Stopped, Write!vars, writeVars

-----------------------------------------------------------------------------
(* UvUdp.                                                                  *)

UdpFlags ==
  /\ u_held \in [Udp!Op -> BOOLEAN] /\ u_buf \in [Receivers -> BOOLEAN]
  /\ u_active \in BOOLEAN /\ u_failed \in BOOLEAN

\* The rest of Udp!TypeOK, without the datagrams.
UdpTypes ==
  /\ u_cur \in Receivers \cup {None} /\ u_op \in [Receivers -> Udp!Op \cup {"none"}]
  /\ u_stage \in [Receivers -> {"absent", "idle", "queued", "granted", "blocked"}]
  /\ u_queue \in [Udp!Op -> Seq(Receivers)]
  /\ u_state \in [Receivers -> Udp!State]
  /\ u_timer \in [Receivers -> {"stopped", "started"}]
  /\ u_data \in Receivers \cup {None}

\* h has access of kind o, or waits for it.
Holds(h, o) == u_op[h] = o /\ u_stage[h] \in {"granted", "blocked"}
Queued(o) == {h \in Receivers : u_op[h] = o /\ u_stage[h] = "queued"}

\* Each of the two Accesses has one holder at most, and whoever else asked for it
\* is in its queue.
UdpAccess(o) ==
  /\ \A h, g \in Receivers : Holds(h, o) /\ Holds(g, o) => h = g
  /\ u_held[o] <=> \E h \in Receivers : Holds(h, o)
  /\ u_queue[o] # <<>> => \E h \in Receivers : Holds(h, o)
  /\ Waiting(u_queue[o], Queued(o))

\* What libuv has of the tasks: the receive and the send that are blocked.
UdpRuns ==
  /\ \A h \in Receivers : u_stage[h] = "granted" <=> u_cur = h
  /\ \A h \in Receivers : u_op[h] = "none" <=> u_stage[h] \in {"absent", "idle"}
  /\ \A h \in Receivers : u_data = h <=> u_op[h] = "recv" /\ u_stage[h] = "blocked"
  /\ u_sends = <<>> \/ \E h \in Receivers : u_sends = <<h>>
  /\ \A h \in Receivers : u_sends = <<h>> <=> u_op[h] = "send" /\ u_stage[h] = "blocked"

\* libuv receives for the context it has, which has its buffer.
UdpReceives ==
  /\ u_active <=> u_data # None
  /\ \A h \in Receivers : u_data = h => u_buf[h]

\* A timeout knows what its task waits for, and only one that can still elapse has
\* its timer started.
UdpTimeouts ==
  \A h \in Receivers :
    /\ u_state[h] = "RequestPending" => u_op[h] = "recv" /\ u_stage[h] = "blocked"
    /\ u_state[h] = "AccessPending" => u_op[h] = "recv" /\ u_stage[h] \in {"queued", "granted"}
    /\ u_state[h] = "NoWaiter" => u_op[h] # "recv"
    /\ u_state[h] = "TimedOut" => u_op[h] # "recv" \/ u_stage[h] = "blocked"
    /\ u_timer[h] = "started" => u_state[h] \notin {"TimedOut", "NoTimeout"} /\ u_stage[h] # "absent"

\* While no timeout elapses during a wait for access.
UdpInv ==
  /\ UdpFlags /\ UdpTypes /\ (\A o \in Udp!Op : UdpAccess(o)) /\ UdpRuns /\ UdpReceives
  /\ UdpTimeouts /\ ~u_failed

\* The datagrams with data in s are in the order of their arrival, the first n.
Ordered(s, n) ==
  /\ \A i, j \in 1..Len(s) : i < j /\ s[i] > 0 /\ s[j] > 0 => s[i] < s[j]
  /\ \A i \in 1..Len(s) : s[i] <= n

\* Whatever the timeouts do.
UdpData == Udp!TypeOK /\ Ordered(u_got \o u_socket, u_arrived)

LEMMA UdpBound == None \notin Receivers /\ MaxDatagrams \in Nat
BY UvNetAssumptions DEF Udp!UdpAssumption

\* UdpData and UdpInv imply what the run checks of UvUdp.
LEMMA UdpInvImplies == UdpData /\ (u_patient => UdpInv) => DatagramsKept
BY DEF UdpData, UdpInv, UdpRuns, UdpReceives, Ordered, Udp!ContextLive, Udp!NoneLost, Udp!NoPanic,
   DatagramsKept

\* The invariant of UvUdp holds when the socket is bound.
LEMMA UdpInit == Udp!Init => UdpData /\ UdpInv
<1>. SUFFICES ASSUME Udp!Init PROVE UdpData /\ UdpInv
  OBVIOUS
<1>. USE UdpBound DEF Udp!Init
<1>1. UdpFlags /\ ~u_failed
  BY DEF UdpFlags, Udp!Op
<1>2. UdpTypes
  BY DEF UdpTypes, Udp!Op, Udp!State
<1>3. ASSUME NEW o \in Udp!Op PROVE UdpAccess(o)
  <2>1. \A h \in Receivers : u_op[h] = "none"
    OBVIOUS
  <2>2. \A h \in Receivers : ~Holds(h, o)
    BY <2>1 DEF Holds, Udp!Op
  <2>3. Queued(o) = {}
    BY <2>1 DEF Queued, Udp!Op
  <2>4. u_queue[o] = <<>> /\ ~u_held[o]
    OBVIOUS
  <2>5. Waiting(u_queue[o], Queued(o))
    BY <2>3, <2>4 DEF Waiting
  <2>. QED
    BY <2>2, <2>4, <2>5 DEF UdpAccess
<1>4. UdpRuns
  <2>1. \A h \in Receivers : u_sends # <<h>>
    OBVIOUS
  <2>. QED
    BY <2>1 DEF UdpRuns
<1>5. UdpReceives
  BY DEF UdpReceives
<1>6. UdpTimeouts
  BY DEF UdpTimeouts
<1>7. Ordered(u_got \o u_socket, u_arrived)
  BY DEF Ordered
<1>8. Udp!TypeOK
  BY <1>1, <1>2 DEF UdpFlags, UdpTypes, Udp!TypeOK
<1>. QED
  BY <1>1, <1>2, <1>3, <1>4, <1>5, <1>6, <1>7, <1>8 DEF UdpInv, UdpData

\* Access::grant, for a task that does nothing.
LEMMA UdpAcquire ==
  ASSUME UdpTypes, UdpRuns, \A o \in Udp!Op : UdpAccess(o), u_cur = None,
         u_held \in [Udp!Op -> BOOLEAN],
         NEW h \in Receivers, u_stage[h] = "idle", NEW p \in Udp!Op, Udp!Acquire(h, p)
  PROVE  /\ \A o \in Udp!Op : UdpAccess(o)'
         /\ u_op' = [u_op EXCEPT ![h] = p] /\ u_queue' \in [Udp!Op -> Seq(Receivers)]
         /\ u_held' \in [Udp!Op -> BOOLEAN]
         /\ \/ u_stage' = [u_stage EXCEPT ![h] = "queued"] /\ u_cur' = None
            \/ u_stage' = [u_stage EXCEPT ![h] = "granted"] /\ u_cur' = h
<1>. USE UdpBound
<1>0. u_op[h] = "none" /\ u_op' = [u_op EXCEPT ![h] = p] /\ u_op \in [Receivers -> Udp!Op \cup {"none"}]
      /\ u_stage \in [Receivers -> {"absent", "idle", "queued", "granted", "blocked"}]
      /\ u_queue \in [Udp!Op -> Seq(Receivers)]
  BY DEF UdpRuns, UdpTypes, Udp!Acquire
<1>1. CASE u_held[p]
  <2>1. /\ u_queue' = [u_queue EXCEPT ![p] = Append(@, h)] /\ UNCHANGED <<u_cur, u_held>>
        /\ u_stage' = [u_stage EXCEPT ![h] = "queued"]
    BY <1>1 DEF Udp!Acquire
  <2>2. \A o \in Udp!Op, g \in Receivers : Holds(g, o)' <=> Holds(g, o)
    BY <1>0, <2>1 DEF Holds, Udp!Op
  <2>3. Queued(p)' = Queued(p) \cup {h} /\ h \notin Queued(p)
    BY <1>0, <2>1 DEF Queued, Udp!Op
  <2>4. \A o \in Udp!Op : o # p => Queued(o)' = Queued(o) /\ u_queue'[o] = u_queue[o]
    BY <1>0, <2>1 DEF Queued, Udp!Op
  <2>5. u_queue'[p] = Append(u_queue[p], h) /\ u_queue[p] \in Seq(Receivers)
    BY <1>0, <2>1
  <2>6. u_queue'[p] \in Seq(Receivers) /\ Waiting(u_queue'[p], Queued(p)')
    BY <2>3, <2>5, QueueAppend DEF UdpAccess
  <2>7. UdpAccess(p)'
    BY <1>1, <2>1, <2>2, <2>6 DEF UdpAccess
  <2>8. ASSUME NEW o \in Udp!Op, o # p PROVE UdpAccess(o)'
    BY <2>1, <2>2, <2>4, <2>8 DEF UdpAccess
  <2>9. u_queue' \in [Udp!Op -> Seq(Receivers)]
    BY <1>0, <2>1, <2>6
  <2>. QED
    BY <1>0, <2>1, <2>7, <2>8, <2>9
<1>2. CASE ~u_held[p]
  <2>1. /\ u_held' = [u_held EXCEPT ![p] = TRUE] /\ u_cur' = h /\ u_queue' = u_queue
        /\ u_stage' = [u_stage EXCEPT ![h] = "granted"]
    BY <1>2 DEF Udp!Acquire
  <2>2. \A o \in Udp!Op, g \in Receivers : Holds(g, o)' <=> (Holds(g, o) \/ (o = p /\ g = h))
    BY <1>0, <2>1 DEF Holds, Udp!Op
  <2>3. \A o \in Udp!Op : Queued(o)' = Queued(o)
    BY <1>0, <2>1 DEF Queued, Udp!Op
  <2>4. u_held' \in [Udp!Op -> BOOLEAN] /\ u_held'[p] /\ \A o \in Udp!Op : o # p => u_held'[o] = u_held[o]
    BY <2>1
  <2>5. \A g \in Receivers : ~Holds(g, p)
    BY <1>2 DEF UdpAccess
  <2>6. UdpAccess(p)'
    <3>1. Waiting(u_queue'[p], Queued(p)')
      BY <2>1, <2>3 DEF UdpAccess
    <3>2. \A g \in Receivers : Holds(g, p)' <=> g = h
      BY <2>2, <2>5
    <3>. QED
      BY <2>4, <3>1, <3>2 DEF UdpAccess
  <2>7. ASSUME NEW o \in Udp!Op, o # p PROVE UdpAccess(o)'
    <3>1. Waiting(u_queue'[o], Queued(o)')
      BY <2>1, <2>3 DEF UdpAccess
    <3>2. \A g \in Receivers : Holds(g, o)' <=> Holds(g, o)
      BY <2>2, <2>7
    <3>. QED
      BY <2>1, <2>4, <2>7, <3>1, <3>2 DEF UdpAccess
  <2>. QED
    BY <1>0, <2>1, <2>4, <2>6, <2>7
<1>. QED
  BY <1>1, <1>2

\* Guard::drop by the task that holds access of kind p.
LEMMA UdpRelease ==
  ASSUME UdpTypes, UdpRuns, \A o \in Udp!Op : UdpAccess(o), u_held \in [Udp!Op -> BOOLEAN],
         NEW h \in Receivers, NEW p \in Udp!Op, Holds(h, p), u_cur \in {h, None},
         Udp!Release(h, p)
  PROVE  /\ \A o \in Udp!Op : UdpAccess(o)'
         /\ u_queue' \in [Udp!Op -> Seq(Receivers)] /\ u_held' \in [Udp!Op -> BOOLEAN]
         /\ u_op' = [u_op EXCEPT ![h] = "none"] /\ u_cur' \in Receivers \cup {None} /\ u_cur' # h
         /\ u_cur' # None => u_stage[u_cur'] = "queued" /\ u_op[u_cur'] = p
         /\ u_stage' = [g \in Receivers |-> IF g = h THEN "idle" ELSE IF g = u_cur' THEN "granted"
                                            ELSE u_stage[g]]
<1>. USE UdpBound
<1>0. /\ u_op' = [u_op EXCEPT ![h] = "none"] /\ u_op \in [Receivers -> Udp!Op \cup {"none"}]
      /\ u_stage \in [Receivers -> {"absent", "idle", "queued", "granted", "blocked"}]
      /\ u_queue \in [Udp!Op -> Seq(Receivers)] /\ u_op[h] = p /\ u_stage[h] \in {"granted", "blocked"}
  BY DEF UdpTypes, Udp!Release, Holds
<1>1. CASE u_queue[p] = <<>>
  <2>1. /\ u_held' = [u_held EXCEPT ![p] = FALSE] /\ u_cur' = None
        /\ u_stage' = [u_stage EXCEPT ![h] = "idle"] /\ u_queue' = u_queue
    BY <1>1 DEF Udp!Release
  <2>2. \A o \in Udp!Op, g \in Receivers : Holds(g, o)' <=> (Holds(g, o) /\ g # h)
    BY <1>0, <2>1 DEF Holds, Udp!Op
  <2>3. \A o \in Udp!Op : Queued(o)' = Queued(o)
    BY <1>0, <2>1 DEF Queued, Udp!Op
  <2>4. u_held' \in [Udp!Op -> BOOLEAN] /\ ~u_held'[p] /\ \A o \in Udp!Op : o # p => u_held'[o] = u_held[o]
    BY <2>1
  <2>5. UdpAccess(p)'
    <3>1. Waiting(u_queue'[p], Queued(p)')
      BY <2>1, <2>3 DEF UdpAccess
    <3>2. \A g \in Receivers : ~Holds(g, p)'
      BY <2>2 DEF UdpAccess
    <3>. QED
      BY <1>1, <2>1, <2>4, <3>1, <3>2 DEF UdpAccess
  <2>6. ASSUME NEW o \in Udp!Op, o # p PROVE UdpAccess(o)'
    <3>1. Waiting(u_queue'[o], Queued(o)')
      BY <2>1, <2>3 DEF UdpAccess
    <3>2. \A g \in Receivers : Holds(g, o)' <=> Holds(g, o)
      BY <1>0, <2>2, <2>6 DEF Holds
    <3>. QED
      BY <2>1, <2>4, <2>6, <3>1, <3>2 DEF UdpAccess
  <2>7. u_stage' = [g \in Receivers |-> IF g = h THEN "idle" ELSE IF g = u_cur' THEN "granted"
                                        ELSE u_stage[g]]
    BY <1>0, <2>1
  <2>. QED
    BY <1>0, <2>1, <2>4, <2>5, <2>6, <2>7
<1>2. CASE u_queue[p] # <<>>
  <2>0. u_queue[p] \in Seq(Receivers) /\ Waiting(u_queue[p], Queued(p))
    BY <1>0 DEF UdpAccess
  <2>1. PICK n \in Receivers : n = Head(u_queue[p])
    BY <1>2, <2>0, QueueTail
  <2>2. /\ n \in Queued(p) /\ Tail(u_queue[p]) \in Seq(Receivers)
        /\ Waiting(Tail(u_queue[p]), Queued(p) \ {n})
    BY <1>2, <2>0, <2>1, QueueTail
  <2>3. n # h /\ u_stage[n] = "queued" /\ u_op[n] = p
    BY <1>0, <2>2 DEF Queued
  <2>4. /\ u_held' = u_held /\ u_cur' = n /\ u_queue' = [u_queue EXCEPT ![p] = Tail(@)]
        /\ u_stage' = [u_stage EXCEPT ![h] = "idle", ![n] = "granted"]
    BY <1>2, <2>1 DEF Udp!Release
  <2>5. u_queue'[p] = Tail(u_queue[p]) /\ \A o \in Udp!Op : o # p => u_queue'[o] = u_queue[o]
    BY <1>0, <2>4
  <2>6. \A o \in Udp!Op, g \in Receivers :
          Holds(g, o)' <=> ((Holds(g, o) /\ g # h) \/ (o = p /\ g = n))
    BY <1>0, <2>3, <2>4 DEF Holds, Udp!Op
  <2>7. Queued(p)' = Queued(p) \ {n} /\ \A o \in Udp!Op : o # p => Queued(o)' = Queued(o)
    BY <1>0, <2>3, <2>4 DEF Queued, Udp!Op
  <2>8. UdpAccess(p)'
    <3>1. Waiting(u_queue'[p], Queued(p)')
      BY <2>2, <2>5, <2>7
    <3>2. \A g \in Receivers : Holds(g, p)' <=> g = n
      BY <2>6 DEF UdpAccess
    <3>3. u_held'[p]
      BY <2>4 DEF UdpAccess
    <3>. QED
      BY <3>1, <3>2, <3>3 DEF UdpAccess
  <2>9. ASSUME NEW o \in Udp!Op, o # p PROVE UdpAccess(o)'
    <3>1. Waiting(u_queue'[o], Queued(o)')
      BY <2>5, <2>7, <2>9 DEF UdpAccess
    <3>2. \A g \in Receivers : Holds(g, o)' <=> Holds(g, o)
      BY <1>0, <2>6, <2>9 DEF Holds
    <3>. QED
      BY <2>4, <2>5, <2>9, <3>1, <3>2 DEF UdpAccess
  <2>10. u_stage' = [g \in Receivers |-> IF g = h THEN "idle" ELSE IF g = u_cur' THEN "granted"
                                         ELSE u_stage[g]]
    BY <1>0, <2>3, <2>4
  <2>11. u_queue' \in [Udp!Op -> Seq(Receivers)]
    BY <1>0, <2>2, <2>4
  <2>. QED
    BY <1>0, <2>3, <2>4, <2>8, <2>9, <2>10, <2>11
<1>. QED
  BY <1>1, <1>2

\* A receive that libuv has ends: recv_cb and cancel_read stop it, and recv_from
\* clears the data and drops its guards; st is the state the callback leaves.
LEMMA UdpFinish ==
  ASSUME UdpFlags, UdpTypes, UdpRuns, UdpReceives, UdpTimeouts, \A o \in Udp!Op : UdpAccess(o),
         u_cur = None, NEW h \in Receivers, u_data = h,
         NEW st \in [Receivers -> Udp!State],
         st = u_state \/ st = [u_state EXCEPT ![h] = "TimedOut"],
         Udp!Finish(h, st), UNCHANGED u_sends,
         \A g \in Receivers : u_timer'[g] = "started" => u_timer[g] = "started" /\ st[g] # "TimedOut"
  PROVE  /\ UdpRuns' /\ UdpReceives' /\ UdpTimeouts'
         /\ (\A o \in Udp!Op : UdpAccess(o)') /\ ~u_failed'
<1>. USE UdpBound
<1>0. u_op[h] = "recv" /\ u_stage[h] = "blocked" /\ Holds(h, "recv") /\ "recv" \in Udp!Op
  BY DEF UdpRuns, Holds, Udp!Op
<1>1. /\ u_data' = None /\ u_state' = Udp!Flag(st, h, "NoWaiter") /\ u_active' = FALSE
      /\ Udp!Release(h, "recv")
      /\ u_failed' = (u_stage[h] # "blocked" \/ u_op[h] # "recv" \/ st[h] \in {"NoWaiter", "AccessPending"})
  BY DEF Udp!Finish
<1>2. st[h] \notin {"NoWaiter", "AccessPending"}
  BY <1>0 DEF UdpTimeouts, UdpTypes
<1>3. /\ \A o \in Udp!Op : UdpAccess(o)'
      /\ u_queue' \in [Udp!Op -> Seq(Receivers)] /\ u_held' \in [Udp!Op -> BOOLEAN]
      /\ u_op' = [u_op EXCEPT ![h] = "none"] /\ u_cur' \in Receivers \cup {None} /\ u_cur' # h
      /\ u_cur' # None => u_stage[u_cur'] = "queued" /\ u_op[u_cur'] = "recv"
      /\ u_stage' = [g \in Receivers |-> IF g = h THEN "idle" ELSE IF g = u_cur' THEN "granted"
                                         ELSE u_stage[g]]
  BY <1>0, <1>1, UdpRelease DEF UdpFlags
<1>6. ~u_failed'
  BY <1>0, <1>1, <1>2
<1>8. UdpReceives'
  BY <1>1 DEF UdpReceives
<1>9. UdpRuns'
  <2>1. \A g \in Receivers : u_op'[g] = IF g = h THEN "none" ELSE u_op[g]
    BY <1>3 DEF UdpTypes
  <2>2. \A g \in Receivers : u_stage'[g] = IF g = h THEN "idle" ELSE IF g = u_cur' THEN "granted"
                                           ELSE u_stage[g]
    BY <1>3
  <2>. QED
    BY <1>0, <1>1, <1>3, <2>1, <2>2 DEF UdpRuns, Udp!Op
<1>10. UdpTimeouts'
  <2>1. \A g \in Receivers : u_op'[g] = IF g = h THEN "none" ELSE u_op[g]
    BY <1>3 DEF UdpTypes
  <2>2. \A g \in Receivers : u_stage'[g] = IF g = h THEN "idle" ELSE IF g = u_cur' THEN "granted"
                                           ELSE u_stage[g]
    BY <1>3
  <2>3. \A g \in Receivers : g # h => u_state'[g] = u_state[g] /\ st[g] = u_state[g]
    BY <1>1 DEF Udp!Flag, UdpTypes
  <2>4. u_state'[h] = (IF st[h] \in {"NoTimeout", "TimedOut"} THEN st[h] ELSE "NoWaiter")
    BY <1>1 DEF Udp!Flag
  <2>5. ASSUME NEW g \in Receivers, g # h
        PROVE  /\ u_state'[g] = "RequestPending" => u_op'[g] = "recv" /\ u_stage'[g] = "blocked"
               /\ u_state'[g] = "AccessPending" => u_op'[g] = "recv" /\ u_stage'[g] \in {"queued", "granted"}
               /\ u_state'[g] = "NoWaiter" => u_op'[g] # "recv"
               /\ u_state'[g] = "TimedOut" => u_op'[g] # "recv" \/ u_stage'[g] = "blocked"
               /\ u_timer'[g] = "started" => u_state'[g] \notin {"TimedOut", "NoTimeout"} /\ u_stage'[g] # "absent"
    BY <1>3, <2>1, <2>2, <2>3, <2>5 DEF UdpTimeouts
  <2>6. /\ u_state'[h] \notin {"RequestPending", "AccessPending"}
        /\ u_op'[h] # "recv"
        /\ u_timer'[h] = "started" => u_state'[h] \notin {"TimedOut", "NoTimeout"} /\ u_stage'[h] # "absent"
    <3>1. st[h] \in Udp!State
      OBVIOUS
    <3>2. u_timer'[h] = "started" => u_state[h] \notin {"TimedOut", "NoTimeout"} /\ st[h] # "TimedOut"
      BY DEF UdpTimeouts
    <3>3. u_timer'[h] = "started" => st[h] \notin {"TimedOut", "NoTimeout"}
      BY <3>2 DEF UdpTypes
    <3>. QED
      BY <1>2, <2>1, <2>2, <2>4, <3>1, <3>3 DEF Udp!State
  <2>. QED
    BY <2>5, <2>6 DEF UdpTimeouts
<1>. QED
  BY <1>1, <1>3, <1>6, <1>8, <1>9, <1>10

\* The empty datagram at the head of the socket may go.
LEMMA OrderedTail ==
  ASSUME NEW S \in SUBSET Int, NEW p \in Seq(S), NEW q \in Seq(S), q # <<>>, NEW n \in Int,
         Ordered(p \o q, n)
  PROVE  Ordered(p \o Tail(q), n)
<1>. DEFINE s == p \o q
            t == p \o Tail(q)
            At(i) == IF i <= Len(p) THEN i ELSE i + 1
<1>1. /\ s \in Seq(S) /\ t \in Seq(S) /\ Len(s) = Len(p) + Len(q) /\ Len(t) = Len(s) - 1
      /\ Len(p) \in Nat /\ Len(q) \in Nat \ {0}
  OBVIOUS
<1>2. ASSUME NEW i \in 1..Len(t) PROVE t[i] = s[At(i)] /\ At(i) \in 1..Len(s)
  OBVIOUS
<1>3. \A i, j \in 1..Len(t) : i < j => At(i) < At(j)
  BY <1>1
<1>4. \A i, j \in 1..Len(s) : i < j /\ s[i] > 0 /\ s[j] > 0 => s[i] < s[j]
  BY DEF Ordered
<1>5. \A i \in 1..Len(s) : s[i] <= n
  BY DEF Ordered
<1>. HIDE DEF s, t, At
<1>6. Ordered(t, n)
  BY <1>2, <1>3, <1>4, <1>5 DEF Ordered
<1>. QED
  BY <1>6 DEF t

\* A datagram arrives behind the others.
LEMMA OrderedAppend ==
  ASSUME NEW n \in Nat, NEW s \in Seq(Nat), Ordered(s, n), NEW e \in {0, n + 1}
  PROVE  Ordered(Append(s, e), n + 1)
<1>1. /\ Len(Append(s, e)) = Len(s) + 1 /\ Len(s) \in Nat /\ Append(s, e)[Len(s) + 1] = e
      /\ \A i \in 1..Len(s) : Append(s, e)[i] = s[i] /\ s[i] \in Nat
  OBVIOUS
<1>2. \A i, j \in 1..Len(s) : i < j /\ s[i] > 0 /\ s[j] > 0 => s[i] < s[j]
  BY DEF Ordered
<1>3. \A i \in 1..Len(s) : s[i] <= n
  BY DEF Ordered
<1>4. ASSUME NEW i \in 1..Len(Append(s, e)) PROVE Append(s, e)[i] <= n + 1
  BY <1>1, <1>3
<1>5. ASSUME NEW i \in 1..Len(Append(s, e)), NEW j \in 1..Len(Append(s, e)), i < j,
             Append(s, e)[i] > 0, Append(s, e)[j] > 0
      PROVE  Append(s, e)[i] < Append(s, e)[j]
  <2>1. i \in 1..Len(s)
    BY <1>1, <1>5
  <2>2. CASE j \in 1..Len(s)
    BY <1>1, <1>2, <1>5, <2>1, <2>2
  <2>3. CASE j = Len(s) + 1
    BY <1>1, <1>3, <1>5, <2>1, <2>3
  <2>. QED
    BY <1>1, <2>2, <2>3
<1>. QED
  BY <1>4, <1>5 DEF Ordered

\* What a step does with the datagrams: nothing, it takes the first one, with data
\* to return it and without to drop it, or the next one arrives.
LEMMA UdpMoves ==
  ASSUME [Udp!Next]_udpVars
  PROVE  \/ UNCHANGED <<u_socket, u_got, u_arrived>>
         \/ /\ u_socket # <<>> /\ Head(u_socket) = 0 /\ u_socket' = Tail(u_socket)
            /\ UNCHANGED <<u_got, u_arrived>>
         \/ /\ u_socket # <<>> /\ Head(u_socket) > 0 /\ u_socket' = Tail(u_socket)
            /\ u_got' = Append(u_got, Head(u_socket)) /\ UNCHANGED u_arrived
         \/ /\ u_arrived < MaxDatagrams /\ u_arrived' = u_arrived + 1 /\ UNCHANGED u_got
            /\ u_socket' = Append(u_socket, u_arrived + 1) \/ u_socket' = Append(u_socket, 0)
<1>1. ASSUME \/ Udp!SendCb \/ Udp!Waits \/ UNCHANGED udpVars
             \/ \E h \in Receivers :
                  \/ Udp!RecvStart(h) \/ Udp!RecvFails(h) \/ Udp!GrantTimedOut(h) \/ Udp!SendTo(h)
                  \/ Udp!TimerCb(h) \/ Udp!TimerQueued(h) \/ Udp!RecvGrant(h) \/ Udp!SendGrant(h)
                  \/ Udp!SetReadTimeout(h) \/ Udp!DropHandle(h)
             \/ \E h, g \in Receivers : Udp!Clone(h, g)
      PROVE  UNCHANGED <<u_socket, u_got, u_arrived>>
  BY <1>1 DEF Udp!SendCb, Udp!Waits, Udp!vars, Udp!recvv, udpVars, Udp!RecvStart, Udp!RecvFails,
     Udp!GrantTimedOut, Udp!SendTo, Udp!TimerCb, Udp!TimerQueued, Udp!RecvGrant, Udp!SendGrant,
     Udp!SetReadTimeout, Udp!DropHandle, Udp!Clone
<1>2. CASE Udp!RecvNothing
  BY <1>2 DEF Udp!RecvNothing, Udp!recvv
<1>3. CASE Udp!RecvCb
  BY <1>3 DEF Udp!RecvCb
<1>4. CASE Udp!Datagram
  BY <1>4 DEF Udp!Datagram, Udp!recvv
<1>. QED
  BY <1>1, <1>2, <1>3, <1>4 DEF Udp!Next, Udp!RecvResume

\* What the three parts of UdpData that are about datagrams say is kept.
LEMMA UdpArrives ==
  ASSUME UdpData, [Udp!Next]_udpVars
  PROVE  /\ u_socket' \in Seq(0..MaxDatagrams) /\ u_arrived' \in 0..MaxDatagrams
         /\ u_got' \in Seq(1..MaxDatagrams) /\ Ordered((u_got \o u_socket)', u_arrived')
<1>0. /\ u_socket \in Seq(0..MaxDatagrams) /\ u_arrived \in 0..MaxDatagrams
      /\ u_got \in Seq(1..MaxDatagrams) /\ u_got \in Seq(0..MaxDatagrams)
      /\ Ordered(u_got \o u_socket, u_arrived) /\ MaxDatagrams \in Nat
  BY UdpBound DEF UdpData, Udp!TypeOK
<1>1. CASE UNCHANGED <<u_socket, u_got, u_arrived>>
  BY <1>0, <1>1
<1>2. CASE /\ u_socket # <<>> /\ Head(u_socket) = 0 /\ u_socket' = Tail(u_socket)
           /\ UNCHANGED <<u_got, u_arrived>>
  <2>1. 0..MaxDatagrams \in SUBSET Int /\ u_arrived \in Int
    BY <1>0
  <2>2. Ordered(u_got \o Tail(u_socket), u_arrived)
    BY ONLY <1>0, <1>2, <2>1, OrderedTail
  <2>3. u_socket' \in Seq(0..MaxDatagrams)
    BY ONLY <1>0, <1>2
  <2>. QED
    BY <1>0, <1>2, <2>2, <2>3
<1>3. CASE /\ u_socket # <<>> /\ Head(u_socket) > 0 /\ u_socket' = Tail(u_socket)
           /\ u_got' = Append(u_got, Head(u_socket)) /\ UNCHANGED u_arrived
  <2>1. Append(u_got, Head(u_socket)) \o Tail(u_socket) = u_got \o u_socket
    BY ONLY <1>0, <1>3, MoveFirst, Zenon
  <2>2. Head(u_socket) \in 1..MaxDatagrams /\ u_socket' \in Seq(0..MaxDatagrams)
    BY ONLY <1>0, <1>3
  <2>3. u_got' \o u_socket' = u_got \o u_socket /\ u_arrived' = u_arrived
    BY ONLY <1>3, <2>1, Zenon
  <2>4. u_got' \in Seq(1..MaxDatagrams)
    BY ONLY <1>0, <1>3, <2>2
  <2>. QED
    BY ONLY <1>0, <2>2, <2>3, <2>4
<1>4. CASE /\ u_arrived < MaxDatagrams /\ u_arrived' = u_arrived + 1 /\ UNCHANGED u_got
           /\ u_socket' = Append(u_socket, u_arrived + 1) \/ u_socket' = Append(u_socket, 0)
  <2>1. PICK e \in {0, u_arrived + 1} : u_socket' = Append(u_socket, e)
    BY <1>4
  <2>2. /\ u_socket \in Seq(Nat) /\ u_got \in Seq(Nat) /\ u_arrived \in Nat /\ e \in Nat
        /\ e \in 0..MaxDatagrams /\ u_arrived' \in 0..MaxDatagrams
    BY <1>0, <1>4, <2>1
  <2>3. u_socket' \in Seq(0..MaxDatagrams)
    BY <1>0, <2>1, <2>2
  <2>4. PICK s : s = u_got \o u_socket
    OBVIOUS
  <2>5. s \in Seq(Nat) /\ Ordered(s, u_arrived)
    BY ONLY <1>0, <2>2, <2>4
  <2>6. Ordered(Append(s, e), u_arrived + 1)
    BY ONLY <2>1, <2>2, <2>5, OrderedAppend
  <2>7. u_got \o Append(u_socket, e) = Append(s, e)
    BY ONLY <2>2, <2>4, ConcatAppend
  <2>. QED
    BY <1>0, <1>4, <2>1, <2>2, <2>3, <2>6, <2>7
<1>. QED
  BY <1>1, <1>2, <1>3, <1>4, UdpMoves

\* Who has the thread and the Accesses, and what for.
UdpUse ==
  /\ u_cur \in Receivers \cup {None} /\ u_op \in [Receivers -> Udp!Op \cup {"none"}]
  /\ u_stage \in [Receivers -> {"absent", "idle", "queued", "granted", "blocked"}]
  /\ u_held \in [Udp!Op -> BOOLEAN] /\ u_queue \in [Udp!Op -> Seq(Receivers)]

UdpBlocked(h) == u_op[h] = "recv" /\ u_stage[h] = "blocked"

\* Access::grant, Guard::drop and Access::dequeue keep the types, and block nobody.
LEMMA UdpUseKept ==
  ASSUME UdpUse, NEW h \in Receivers, NEW o \in Udp!Op,
         \/ Udp!Acquire(h, o) /\ u_stage[h] = "idle"
         \/ Udp!Release(h, o)
         \/ /\ Udp!Dequeue(h, o) /\ u_stage' = [u_stage EXCEPT ![h] = "granted"] /\ u_cur' = h
            /\ UNCHANGED <<u_op, u_held>>
  PROVE  /\ UdpUse' /\ \A g \in Receivers : UdpBlocked(g)' => UdpBlocked(g)
         /\ ~UdpBlocked(h)'
<1>. USE UdpBound
<1>1. CASE Udp!Acquire(h, o) /\ u_stage[h] = "idle"
  <2>1. u_op' = [u_op EXCEPT ![h] = o]
    BY <1>1 DEF Udp!Acquire
  <2>2. CASE u_held[o]
    <3>1. /\ u_queue' = [u_queue EXCEPT ![o] = Append(@, h)] /\ UNCHANGED <<u_cur, u_held>>
          /\ u_stage' = [u_stage EXCEPT ![h] = "queued"]
      BY <1>1, <2>2 DEF Udp!Acquire
    <3>2. Append(u_queue[o], h) \in Seq(Receivers)
      BY DEF UdpUse
    <3>. QED
      BY <2>1, <3>1, <3>2 DEF UdpUse, UdpBlocked
  <2>3. CASE ~u_held[o]
    <3>1. /\ u_held' = [u_held EXCEPT ![o] = TRUE] /\ u_cur' = h /\ u_queue' = u_queue
          /\ u_stage' = [u_stage EXCEPT ![h] = "granted"]
      BY <1>1, <2>3 DEF Udp!Acquire
    <3>. QED
      BY <2>1, <3>1 DEF UdpUse, UdpBlocked
  <2>. QED
    BY <2>2, <2>3
<1>2. CASE Udp!Release(h, o)
  <2>1. CASE u_queue[o] = <<>>
    BY <1>2, <2>1 DEF UdpUse, UdpBlocked, Udp!Release, Udp!Op
  <2>2. CASE u_queue[o] # <<>>
    <3>1. u_queue[o] \in Seq(Receivers)
      BY DEF UdpUse
    <3>2. PICK n \in Receivers : n = Head(u_queue[o])
      BY <2>2, <3>1
    <3>3. Tail(u_queue[o]) \in Seq(Receivers)
      BY <2>2, <3>1
    <3>4. /\ u_op' = [u_op EXCEPT ![h] = "none"] /\ u_cur' = n /\ u_held' = u_held
          /\ u_queue' = [u_queue EXCEPT ![o] = Tail(u_queue[o])]
          /\ u_stage' = [u_stage EXCEPT ![h] = "idle", ![n] = "granted"]
      BY <1>2, <2>2, <3>2 DEF Udp!Release
    <3>. QED
      BY <3>3, <3>4 DEF UdpUse, UdpBlocked
  <2>. QED
    BY <2>1, <2>2
<1>3. CASE /\ Udp!Dequeue(h, o) /\ u_stage' = [u_stage EXCEPT ![h] = "granted"] /\ u_cur' = h
           /\ UNCHANGED <<u_op, u_held>>
  <2>1. u_queue' \in [Udp!Op -> Seq(Receivers)]
    <3>1. CASE u_queue' = u_queue
      BY <3>1 DEF UdpUse
    <3>2. ASSUME NEW i \in 1..Len(u_queue[o]), u_queue' = [u_queue EXCEPT ![o] = Udp!RemoveAt(@, i)]
          PROVE  u_queue' \in [Udp!Op -> Seq(Receivers)]
      <4>1. u_queue[o] \in Seq(Receivers)
        BY DEF UdpUse
      <4>2. Udp!RemoveAt(u_queue[o], i) \in Seq(Receivers)
        BY <4>1 DEF Udp!RemoveAt
      <4>. QED
        BY <3>2, <4>2 DEF UdpUse
    <3>. QED
      BY <1>3, <3>1, <3>2 DEF Udp!Dequeue
  <2>. QED
    BY <1>3, <2>1 DEF UdpUse, UdpBlocked
<1>. QED
  BY <1>1, <1>2, <1>3

\* AccessTimeout's Flag, whatever it is told.
LEMMA UdpFlag ==
  ASSUME NEW st \in [Receivers -> Udp!State], NEW h \in Receivers,
         NEW c \in {"NoWaiter", "AccessPending", "RequestPending"}
  PROVE  Udp!Flag(st, h, c) \in [Receivers -> Udp!State]
BY DEF Udp!Flag, Udp!State

\* Every step keeps the types and the order of the datagrams, also when a timeout
\* elapses during a wait for access.
LEMMA UdpDataStep ==
  ASSUME UdpData, [Udp!Next]_udpVars
  PROVE  UdpData'
<1>. DEFINE Timeouts == /\ u_state \in [Receivers -> Udp!State]
                        /\ u_timer \in [Receivers -> {"stopped", "started"}]
            Libuv == /\ u_data \in Receivers \cup {None} /\ u_buf \in [Receivers -> BOOLEAN]
                     /\ u_active \in BOOLEAN /\ u_sends \in Seq(Receivers) /\ u_failed \in BOOLEAN
            Buffers == \A h \in Receivers : UdpBlocked(h) => u_buf[h]
<1>. USE UdpBound
<1>0. UdpUse /\ Timeouts /\ Libuv /\ Buffers
  BY DEF UdpData, Udp!TypeOK, UdpUse, UdpBlocked
<1>00. "recv" \in Udp!Op /\ "send" \in Udp!Op
  BY DEF Udp!Op
<1>01. u_patient \in BOOLEAN /\ u_patient' = u_patient
  BY DEF UdpData, Udp!TypeOK, Udp!Next, udpVars
<1>1. SUFFICES UdpUse' /\ Timeouts' /\ Libuv' /\ Buffers'
  BY <1>01, <1>1, UdpArrives DEF UdpData, Udp!TypeOK, UdpUse, UdpBlocked
<1>2. ASSUME NEW h \in Receivers, Udp!RecvGrant(h) PROVE UdpUse' /\ Timeouts' /\ Libuv' /\ Buffers'
  <2>1. UdpUse' /\ \A g \in Receivers : UdpBlocked(g)' => UdpBlocked(g)
    BY <1>0, <1>00, <1>2, UdpUseKept DEF Udp!RecvGrant
  <2>2. UNCHANGED <<u_timer, u_data, u_buf, u_active, u_sends, u_failed>>
    BY <1>2 DEF Udp!RecvGrant
  <2>3. Timeouts'
    BY <1>0, <1>2, <2>2, UdpFlag DEF Udp!RecvGrant
  <2>. QED
    BY <1>0, <2>1, <2>2, <2>3
<1>3. ASSUME NEW h \in Receivers, Udp!SendGrant(h) PROVE UdpUse' /\ Timeouts' /\ Libuv' /\ Buffers'
  <2>1. UdpUse' /\ \A g \in Receivers : UdpBlocked(g)' => UdpBlocked(g)
    BY <1>0, <1>00, <1>3, UdpUseKept DEF Udp!SendGrant
  <2>2. UNCHANGED <<u_state, u_timer, u_data, u_buf, u_active, u_sends, u_failed>>
    BY <1>3 DEF Udp!SendGrant, Udp!recvv
  <2>. QED
    BY <1>0, <2>1, <2>2
<1>4. ASSUME NEW h \in Receivers, Udp!RecvStart(h) PROVE UdpUse' /\ Timeouts' /\ Libuv' /\ Buffers'
  <2>1. /\ u_buf' = [u_buf EXCEPT ![h] = TRUE] /\ u_active' = TRUE /\ u_data' = h /\ u_cur' = None
        /\ u_stage' = [u_stage EXCEPT ![h] = "blocked"] /\ u_failed' = ~u_held["recv"]
        /\ UNCHANGED <<u_op, u_held, u_queue, u_timer, u_sends>>
    BY <1>4 DEF Udp!RecvStart
  <2>2. UdpUse' /\ Libuv' /\ Buffers'
    BY <1>0, <1>00, <2>1 DEF UdpUse, UdpBlocked
  <2>3. Timeouts'
    BY <1>0, <1>4, <2>1, UdpFlag DEF Udp!RecvStart
  <2>. QED
    BY <2>2, <2>3
<1>5. ASSUME NEW h \in Receivers, Udp!RecvFails(h) PROVE UdpUse' /\ Timeouts' /\ Libuv' /\ Buffers'
  <2>1. UdpUse' /\ \A g \in Receivers : UdpBlocked(g)' => UdpBlocked(g)
    BY <1>0, <1>00, <1>5, UdpUseKept DEF Udp!RecvFails
  <2>2. UNCHANGED <<u_timer, u_data, u_buf, u_active, u_sends>> /\ u_failed' = ~u_held["recv"]
    BY <1>5 DEF Udp!RecvFails
  <2>3. Timeouts'
    BY <1>0, <1>5, <2>2, UdpFlag DEF Udp!RecvFails
  <2>. QED
    BY <1>0, <1>00, <2>1, <2>2, <2>3 DEF UdpUse
<1>6. ASSUME NEW h \in Receivers, Udp!GrantTimedOut(h) PROVE UdpUse' /\ Timeouts' /\ Libuv' /\ Buffers'
  <2>1. UdpUse' /\ \A g \in Receivers : UdpBlocked(g)' => UdpBlocked(g)
    BY <1>0, <1>00, <1>6, UdpUseKept DEF Udp!GrantTimedOut
  <2>2. UNCHANGED <<u_state, u_timer, u_data, u_buf, u_active, u_sends>> /\ u_failed' = ~u_held["recv"]
    BY <1>6 DEF Udp!GrantTimedOut, Udp!recvv
  <2>. QED
    BY <1>0, <1>00, <2>1, <2>2 DEF UdpUse
<1>7. ASSUME NEW h \in Receivers, Udp!SendTo(h) PROVE UdpUse' /\ Timeouts' /\ Libuv' /\ Buffers'
  <2>1. /\ UNCHANGED <<u_state, u_timer, u_data, u_buf, u_active>> /\ u_failed' = ~u_held["send"]
        /\ u_op[h] = "send"
    BY <1>7 DEF Udp!SendTo, Udp!recvv
  <2>2. CASE /\ u_sends' = Append(u_sends, h) /\ u_stage' = [u_stage EXCEPT ![h] = "blocked"]
             /\ u_cur' = None /\ UNCHANGED <<u_op, u_held, u_queue>>
    BY <1>0, <1>00, <2>1, <2>2 DEF UdpUse, UdpBlocked
  <2>3. CASE Udp!Release(h, "send") /\ UNCHANGED u_sends
    <3>1. UdpUse' /\ \A g \in Receivers : UdpBlocked(g)' => UdpBlocked(g)
      BY <1>0, <1>00, <2>3, UdpUseKept
    <3>. QED
      BY <1>0, <1>00, <2>1, <2>3, <3>1 DEF UdpUse
  <2>. QED
    BY <1>7, <2>2, <2>3 DEF Udp!SendTo
<1>8. ASSUME Udp!SendCb PROVE UdpUse' /\ Timeouts' /\ Libuv' /\ Buffers'
  <2>1. PICK h \in Receivers : h = Head(u_sends)
    BY <1>0, <1>8 DEF Udp!SendCb
  <2>2. /\ UNCHANGED <<u_state, u_timer, u_data, u_buf, u_active>> /\ u_sends' = Tail(u_sends)
        /\ u_failed' \in BOOLEAN /\ u_sends # <<>> /\ Udp!Release(h, "send")
    BY <1>8, <2>1 DEF Udp!SendCb, Udp!recvv
  <2>3. UdpUse' /\ \A g \in Receivers : UdpBlocked(g)' => UdpBlocked(g)
    BY <1>0, <1>00, <2>2, UdpUseKept
  <2>. QED
    BY <1>0, <2>2, <2>3
<1>9. ASSUME Udp!RecvNothing PROVE UdpUse' /\ Timeouts' /\ Libuv' /\ Buffers'
  <2>1. /\ UNCHANGED <<u_cur, u_op, u_stage, u_held, u_queue, u_state, u_timer, u_data, u_buf, u_active, u_sends>>
        /\ u_failed' = ~u_buf[u_data]
    BY <1>9 DEF Udp!RecvNothing, Udp!recvv
  <2>. QED
    BY <1>0, <2>1 DEF UdpUse, UdpBlocked
<1>10. ASSUME NEW h \in Receivers, NEW st \in [Receivers -> Udp!State], Udp!Finish(h, st)
       PROVE  /\ UdpUse' /\ (\A g \in Receivers : UdpBlocked(g)' => UdpBlocked(g)) /\ ~UdpBlocked(h)'
              /\ u_data' = None /\ u_active' = FALSE /\ u_failed' \in BOOLEAN
              /\ u_state' \in [Receivers -> Udp!State]
  <2>1. UdpUse' /\ (\A g \in Receivers : UdpBlocked(g)' => UdpBlocked(g)) /\ ~UdpBlocked(h)'
    BY <1>0, <1>00, <1>10, UdpUseKept DEF Udp!Finish
  <2>2. /\ u_data' = None /\ u_active' = FALSE /\ u_failed' \in BOOLEAN
        /\ u_state' = Udp!Flag(st, h, "NoWaiter")
    BY <1>10 DEF Udp!Finish
  <2>. QED
    BY <2>1, <2>2, UdpFlag
<1>11. ASSUME Udp!RecvCb PROVE UdpUse' /\ Timeouts' /\ Libuv' /\ Buffers'
  <2>1. UNCHANGED <<u_timer, u_sends>>
    BY <1>11 DEF Udp!RecvCb
  <2>2. CASE u_data # None
    <3>1. PICK h \in Receivers : h = u_data
      BY <1>0, <2>2
    <3>2. u_buf' = [u_buf EXCEPT ![h] = FALSE] /\ Udp!Finish(h, u_state)
      BY <1>11, <2>2, <3>1 DEF Udp!RecvCb
    <3>3. /\ UdpUse' /\ (\A g \in Receivers : UdpBlocked(g)' => UdpBlocked(g)) /\ ~UdpBlocked(h)'
          /\ u_data' = None /\ u_active' = FALSE /\ u_failed' \in BOOLEAN
          /\ u_state' \in [Receivers -> Udp!State]
      BY <1>0, <1>10, <3>2
    <3>. QED
      BY <1>0, <2>1, <3>2, <3>3
  <2>3. CASE u_data = None
    <3>1. /\ u_failed' = TRUE
          /\ UNCHANGED <<u_cur, u_op, u_stage, u_held, u_queue, u_state, u_data, u_buf, u_active>>
      BY <1>11, <2>3 DEF Udp!RecvCb
    <3>. QED
      BY <1>0, <2>1, <3>1 DEF UdpUse, UdpBlocked
  <2>. QED
    BY <2>2, <2>3
<1>12. ASSUME NEW h \in Receivers, Udp!TimerCb(h) PROVE UdpUse' /\ Timeouts' /\ Libuv' /\ Buffers'
  <2>1. PICK st : st = [u_state EXCEPT ![h] = "TimedOut"]
    OBVIOUS
  <2>2. st \in [Receivers -> Udp!State]
    BY <1>0, <2>1 DEF Udp!State
  <2>3. u_timer' = [u_timer EXCEPT ![h] = "stopped"] /\ UNCHANGED <<u_buf, u_sends>>
    BY <1>12 DEF Udp!TimerCb
  <2>4. CASE u_data # None /\ Udp!Finish(u_data, st)
    <3>1. PICK g \in Receivers : g = u_data
      BY <1>0, <2>4
    <3>2. Udp!Finish(g, st)
      BY <2>4, <3>1
    <3>3. /\ UdpUse' /\ (\A d \in Receivers : UdpBlocked(d)' => UdpBlocked(d))
          /\ u_data' = None /\ u_active' = FALSE /\ u_failed' \in BOOLEAN
          /\ u_state' \in [Receivers -> Udp!State]
      BY <1>10, <2>2, <3>2
    <3>. QED
      BY <1>0, <2>3, <3>3
  <2>5. CASE /\ u_state' = st /\ u_active' = (u_active /\ u_state[h] # "RequestPending")
             /\ u_failed' = (u_state[h] # "NoWaiter")
             /\ UNCHANGED <<u_cur, u_op, u_stage, u_held, u_queue, u_data>>
    BY <1>0, <2>2, <2>3, <2>5 DEF UdpUse, UdpBlocked
  <2>. QED
    BY <1>12, <2>1, <2>4, <2>5 DEF Udp!TimerCb
<1>13. ASSUME NEW h \in Receivers, Udp!TimerQueued(h) PROVE UdpUse' /\ Timeouts' /\ Libuv' /\ Buffers'
  <2>1. /\ u_timer' = [u_timer EXCEPT ![h] = "stopped"] /\ u_state' = [u_state EXCEPT ![h] = "TimedOut"]
        /\ Udp!Dequeue(h, "recv") /\ u_stage' = [u_stage EXCEPT ![h] = "granted"] /\ u_cur' = h
        /\ u_failed' \in BOOLEAN
        /\ UNCHANGED <<u_op, u_held, u_data, u_buf, u_active, u_sends>>
    BY <1>13 DEF Udp!TimerQueued
  <2>2. UdpUse' /\ \A g \in Receivers : UdpBlocked(g)' => UdpBlocked(g)
    BY <1>0, <1>00, <2>1, UdpUseKept
  <2>. QED
    BY <1>0, <2>1, <2>2 DEF Udp!State
<1>14. ASSUME NEW h \in Receivers, Udp!SetReadTimeout(h) PROVE UdpUse' /\ Timeouts' /\ Libuv' /\ Buffers'
  BY <1>0, <1>14 DEF Udp!SetReadTimeout, Udp!State, UdpUse, UdpBlocked
<1>15. ASSUME NEW h \in Receivers, NEW g \in Receivers, Udp!Clone(h, g)
       PROVE  UdpUse' /\ Timeouts' /\ Libuv' /\ Buffers'
  BY <1>0, <1>15 DEF Udp!Clone, Udp!State, UdpUse, UdpBlocked
<1>16. ASSUME NEW h \in Receivers, Udp!DropHandle(h) PROVE UdpUse' /\ Timeouts' /\ Libuv' /\ Buffers'
  <2>1. /\ u_stage' = [u_stage EXCEPT ![h] = "absent"] /\ u_timer' = [u_timer EXCEPT ![h] = "stopped"]
        /\ u_state' = [u_state EXCEPT ![h] = "NoTimeout"] /\ u_failed' \in BOOLEAN
        /\ UNCHANGED <<u_cur, u_op, u_held, u_queue, u_data, u_buf, u_active, u_sends>>
    BY <1>16 DEF Udp!DropHandle
  <2>. QED
    BY <1>0, <2>1 DEF Udp!State, UdpUse, UdpBlocked
<1>17. ASSUME \/ UNCHANGED udpVars \/ Udp!Waits \/ Udp!Datagram
       PROVE  UdpUse' /\ Timeouts' /\ Libuv' /\ Buffers'
  <2>1. UNCHANGED <<u_cur, u_op, u_stage, u_held, u_queue, u_state, u_timer, u_data, u_buf, u_active,
                    u_sends, u_failed>>
    BY <1>17 DEF udpVars, Udp!Waits, Udp!vars, Udp!Datagram, Udp!recvv
  <2>. QED
    BY <1>0, <2>1 DEF UdpUse, UdpBlocked
<1>. HIDE DEF Timeouts, Libuv, Buffers
<1>. QED
  BY <1>2, <1>3, <1>4, <1>5, <1>6, <1>7, <1>8, <1>9, <1>11, <1>12, <1>13, <1>14, <1>15, <1>16, <1>17
     DEF Udp!Next, Udp!RecvResume

\* Every step of the receivers, of their callbacks and of the network keeps the
\* invariant of UvUdp, when no timeout elapses during a wait for access.
LEMMA UdpStep ==
  ASSUME UdpInv, u_patient, UdpData', [Udp!Next]_udpVars
  PROVE  UdpInv'
<1>. DEFINE Accesses == \A o \in Udp!Op : UdpAccess(o)
<1>. USE UdpBound
<1>0. UdpFlags /\ UdpTypes /\ Accesses /\ UdpRuns /\ UdpReceives /\ UdpTimeouts /\ ~u_failed
  BY DEF UdpInv
<1>00. "recv" \in Udp!Op /\ "send" \in Udp!Op /\ Udp!Op = {"recv", "send"}
  BY DEF Udp!Op
<1>. HIDE DEF Accesses
\* The parts that a step keeps which changes nothing of what they are about.
<1>01. ASSUME UNCHANGED <<u_op, u_stage, u_held, u_queue>> PROVE Accesses'
  <2>1. ASSUME NEW o \in Udp!Op PROVE UdpAccess(o)'
    <3>1. UdpAccess(o)
      BY <1>0 DEF Accesses
    <3>. QED
      BY <1>01, <3>1 DEF UdpAccess, Holds, Queued
  <2>. QED
    BY <2>1 DEF Accesses
<1>02. UdpFlags' /\ UdpTypes'
  BY DEF UdpData, Udp!TypeOK, UdpFlags, UdpTypes
<1>03. ASSUME Accesses', UdpRuns', UdpReceives', UdpTimeouts', ~u_failed' PROVE UdpInv'
  BY <1>02, <1>03 DEF UdpInv, Accesses
<1>1. ASSUME NEW h \in Receivers, Udp!RecvGrant(h) PROVE UdpInv'
  <2>1. /\ u_cur = None /\ u_stage[h] = "idle" /\ u_state[h] # "TimedOut"
        /\ u_state' = Udp!Flag(u_state, h, "AccessPending") /\ Udp!Acquire(h, "recv")
        /\ UNCHANGED <<u_timer, u_data, u_buf, u_active, u_got, u_socket, u_arrived, u_sends, u_failed>>
    BY <1>1 DEF Udp!RecvGrant
  <2>2. /\ \A o \in Udp!Op : UdpAccess(o)'
        /\ u_op' = [u_op EXCEPT ![h] = "recv"] /\ u_queue' \in [Udp!Op -> Seq(Receivers)]
        /\ u_held' \in [Udp!Op -> BOOLEAN]
        /\ \/ u_stage' = [u_stage EXCEPT ![h] = "queued"] /\ u_cur' = None
           \/ u_stage' = [u_stage EXCEPT ![h] = "granted"] /\ u_cur' = h
    BY <1>0, <1>00, <2>1, UdpAcquire DEF UdpFlags, Accesses
  <2>3. u_state' = (IF u_state[h] = "NoTimeout" THEN u_state ELSE [u_state EXCEPT ![h] = "AccessPending"])
    BY <2>1 DEF Udp!Flag
  <2>5. UdpRuns'
    BY <1>0, <1>00, <2>1, <2>2 DEF UdpTypes, UdpRuns
  <2>6. UdpReceives' /\ ~u_failed'
    BY <1>0, <2>1, <2>2 DEF UdpReceives, UdpFlags
  <2>7. UdpTimeouts'
    BY <1>0, <1>00, <2>1, <2>2, <2>3 DEF UdpTypes, UdpRuns, UdpTimeouts, Udp!State
  <2>8. Accesses'
    BY <2>2 DEF Accesses
  <2>. QED
    BY <1>03, <2>1, <2>5, <2>6, <2>7, <2>8
<1>2. ASSUME NEW h \in Receivers, Udp!SendGrant(h) PROVE UdpInv'
  <2>1. /\ u_cur = None /\ u_stage[h] = "idle" /\ Udp!Acquire(h, "send")
        /\ UNCHANGED <<u_state, u_timer, u_data, u_buf, u_active, u_got, u_socket, u_arrived, u_sends, u_failed>>
    BY <1>2 DEF Udp!SendGrant, Udp!recvv
  <2>2. /\ \A o \in Udp!Op : UdpAccess(o)'
        /\ u_op' = [u_op EXCEPT ![h] = "send"] /\ u_queue' \in [Udp!Op -> Seq(Receivers)]
        /\ u_held' \in [Udp!Op -> BOOLEAN]
        /\ \/ u_stage' = [u_stage EXCEPT ![h] = "queued"] /\ u_cur' = None
           \/ u_stage' = [u_stage EXCEPT ![h] = "granted"] /\ u_cur' = h
    BY <1>0, <1>00, <2>1, UdpAcquire DEF UdpFlags, Accesses
  <2>4. UdpRuns'
    BY <1>0, <1>00, <2>1, <2>2 DEF UdpTypes, UdpRuns
  <2>5. UdpReceives' /\ ~u_failed'
    BY <1>0, <2>1, <2>2 DEF UdpReceives, UdpFlags
  <2>6. UdpTimeouts'
    BY <1>0, <1>00, <2>1, <2>2 DEF UdpTypes, UdpRuns, UdpTimeouts
  <2>7. Accesses'
    BY <2>2 DEF Accesses
  <2>. QED
    BY <1>03, <2>1, <2>4, <2>5, <2>6, <2>7
<1>3. ASSUME NEW h \in Receivers, Udp!RecvStart(h) PROVE UdpInv'
  <2>1. /\ u_cur = h /\ u_stage[h] = "granted" /\ u_op[h] = "recv"
        /\ u_state' = Udp!Flag(u_state, h, "RequestPending") /\ u_buf' = [u_buf EXCEPT ![h] = TRUE]
        /\ u_active' = TRUE /\ u_data' = h /\ u_stage' = [u_stage EXCEPT ![h] = "blocked"] /\ u_cur' = None
        /\ UNCHANGED <<u_op, u_held, u_queue, u_timer, u_got, u_socket, u_arrived, u_sends>>
    BY <1>3 DEF Udp!RecvStart
  <2>2. u_failed' = ~u_held["recv"]
    BY <1>3 DEF Udp!RecvStart
  <2>3. Holds(h, "recv") /\ UdpAccess("recv") /\ UdpAccess("send")
    BY <1>0, <1>00, <2>1 DEF Holds, Accesses
  <2>4. u_held["recv"] /\ \A g \in Receivers : Holds(g, "recv") => g = h
    BY <2>3 DEF UdpAccess
  <2>5. \A o, g : Holds(g, o)' <=> Holds(g, o)
    BY <1>0, <2>1 DEF Holds, UdpTypes
  <2>6. \A o : Queued(o)' = Queued(o)
    BY <1>0, <2>1 DEF Queued, UdpTypes
  <2>7. Accesses'
    <3>1. ASSUME NEW o \in Udp!Op PROVE UdpAccess(o)'
      BY <1>0, <2>1, <2>5, <2>6 DEF UdpAccess, Accesses
    <3>. QED
      BY <3>1 DEF Accesses
  <2>8. \A g \in Receivers : u_op[g] = "recv" /\ u_stage[g] = "blocked" => g = h
    BY <2>4 DEF Holds
  <2>9. UdpRuns'
    BY <1>0, <2>1, <2>8 DEF UdpRuns, UdpTypes
  <2>10. u_state' = (IF u_state[h] \in {"NoTimeout", "TimedOut"} THEN u_state
                     ELSE [u_state EXCEPT ![h] = "RequestPending"])
    BY <2>1 DEF Udp!Flag
  <2>12. ~u_failed'
    BY <1>0, <2>1, <2>2, <2>4 DEF UdpFlags
  <2>13. UdpReceives'
    BY <1>0, <2>1 DEF UdpReceives, UdpFlags
  <2>14. UdpTimeouts'
    BY <1>0, <2>1, <2>10 DEF UdpTypes, UdpTimeouts, Udp!State
  <2>. QED
    BY <1>03, <2>1, <2>7, <2>9, <2>12, <2>13, <2>14
<1>4. ASSUME NEW h \in Receivers, Udp!RecvFails(h) PROVE UdpInv'
  <2>1. /\ u_cur = h /\ u_stage[h] = "granted" /\ u_op[h] = "recv"
        /\ u_state' = Udp!Flag(u_state, h, "NoWaiter") /\ Udp!Release(h, "recv")
        /\ UNCHANGED <<u_timer, u_data, u_buf, u_active, u_got, u_socket, u_arrived, u_sends>>
    BY <1>4 DEF Udp!RecvFails
  <2>2. u_failed' = ~u_held["recv"]
    BY <1>4 DEF Udp!RecvFails
  <2>3. Holds(h, "recv") /\ u_held["recv"]
    BY <1>0, <1>00, <2>1 DEF Holds, Accesses, UdpAccess
  <2>4. /\ \A o \in Udp!Op : UdpAccess(o)'
        /\ u_queue' \in [Udp!Op -> Seq(Receivers)] /\ u_held' \in [Udp!Op -> BOOLEAN]
        /\ u_op' = [u_op EXCEPT ![h] = "none"] /\ u_cur' \in Receivers \cup {None} /\ u_cur' # h
        /\ u_cur' # None => u_stage[u_cur'] = "queued" /\ u_op[u_cur'] = "recv"
        /\ u_stage' = [g \in Receivers |-> IF g = h THEN "idle" ELSE IF g = u_cur' THEN "granted"
                                           ELSE u_stage[g]]
    BY <1>0, <1>00, <2>1, <2>3, UdpRelease DEF UdpFlags, Accesses
  <2>5. u_state' = (IF u_state[h] \in {"NoTimeout", "TimedOut"} THEN u_state
                    ELSE [u_state EXCEPT ![h] = "NoWaiter"])
    BY <2>1 DEF Udp!Flag
  <2>7. UdpRuns'
    BY <1>0, <1>00, <2>1, <2>4 DEF UdpTypes, UdpRuns
  <2>8. ~u_failed'
    BY <1>0, <2>1, <2>2, <2>3, <2>4 DEF UdpFlags
  <2>9. UdpReceives'
    BY <1>0, <2>1 DEF UdpReceives
  <2>10. UdpTimeouts'
    BY <1>0, <1>00, <2>1, <2>4, <2>5 DEF UdpTypes, UdpRuns, UdpTimeouts, Udp!State
  <2>11. Accesses'
    BY <2>4 DEF Accesses
  <2>. QED
    BY <1>03, <2>1, <2>7, <2>8, <2>9, <2>10, <2>11
<1>5. ASSUME NEW h \in Receivers, Udp!SendTo(h) PROVE UdpInv'
  <2>1. /\ u_cur = h /\ u_stage[h] = "granted" /\ u_op[h] = "send"
        /\ UNCHANGED <<u_state, u_timer, u_data, u_buf, u_active, u_got, u_socket, u_arrived>>
    BY <1>5 DEF Udp!SendTo, Udp!recvv
  <2>2. u_failed' = ~u_held["send"]
    BY <1>5 DEF Udp!SendTo
  <2>3. Holds(h, "send") /\ UdpAccess("send")
    BY <1>0, <1>00, <2>1 DEF Holds, Accesses
  <2>4. u_held["send"] /\ \A g \in Receivers : Holds(g, "send") => g = h
    BY <2>3 DEF UdpAccess
  <2>5. \A g \in Receivers : u_op[g] = "send" /\ u_stage[g] = "blocked" => g = h
    BY <2>4 DEF Holds
  <2>6. u_sends = <<>>
    BY <1>0, <2>1, <2>5 DEF UdpRuns
  <2>7. CASE /\ u_sends' = Append(u_sends, h) /\ u_stage' = [u_stage EXCEPT ![h] = "blocked"]
             /\ u_cur' = None /\ UNCHANGED <<u_op, u_held, u_queue>>
    <3>1. u_sends' = <<h>>
      BY ONLY <2>6, <2>7
    <3>2. \A o, g : Holds(g, o)' <=> Holds(g, o)
      BY <1>0, <2>1, <2>7 DEF Holds, UdpTypes
    <3>3. \A o : Queued(o)' = Queued(o)
      BY <1>0, <2>1, <2>7 DEF Queued, UdpTypes
    <3>4. Accesses'
      <4>1. ASSUME NEW o \in Udp!Op PROVE UdpAccess(o)'
        BY <1>0, <2>7, <3>2, <3>3 DEF UdpAccess, Accesses
      <4>. QED
        BY <4>1 DEF Accesses
    <3>5. UdpRuns'
      <4>1. \A g \in Receivers : <<g>> # <<>> /\ (<<g>> = <<h>> <=> g = h)
        OBVIOUS
      <4>. QED
        BY <1>0, <2>1, <2>5, <2>7, <3>1, <4>1 DEF UdpRuns, UdpTypes
    <3>7. ~u_failed'
      BY <1>0, <2>1, <2>2, <2>4, <2>7 DEF UdpFlags
    <3>8. UdpReceives'
      BY <1>0, <2>1 DEF UdpReceives
    <3>9. UdpTimeouts'
      BY <1>0, <2>1, <2>7 DEF UdpTypes, UdpTimeouts
    <3>. QED
      BY <1>03, <2>1, <3>4, <3>5, <3>7, <3>8, <3>9
  <2>8. CASE Udp!Release(h, "send") /\ UNCHANGED u_sends
    <3>1. /\ \A o \in Udp!Op : UdpAccess(o)'
          /\ u_queue' \in [Udp!Op -> Seq(Receivers)] /\ u_held' \in [Udp!Op -> BOOLEAN]
          /\ u_op' = [u_op EXCEPT ![h] = "none"] /\ u_cur' \in Receivers \cup {None} /\ u_cur' # h
          /\ u_cur' # None => u_stage[u_cur'] = "queued" /\ u_op[u_cur'] = "send"
          /\ u_stage' = [g \in Receivers |-> IF g = h THEN "idle" ELSE IF g = u_cur' THEN "granted"
                                             ELSE u_stage[g]]
      BY <1>0, <1>00, <2>1, <2>3, <2>8, UdpRelease DEF UdpFlags, Accesses
    <3>3. UdpRuns'
      BY <1>0, <1>00, <2>1, <2>8, <3>1 DEF UdpTypes, UdpRuns
    <3>4. ~u_failed'
      BY <1>0, <2>1, <2>2, <2>4, <3>1 DEF UdpFlags
    <3>5. UdpReceives'
      BY <1>0, <2>1 DEF UdpReceives
    <3>6. UdpTimeouts'
      BY <1>0, <1>00, <2>1, <3>1 DEF UdpTypes, UdpRuns, UdpTimeouts
    <3>7. Accesses'
      BY <3>1 DEF Accesses
    <3>. QED
      BY <1>03, <2>1, <3>3, <3>4, <3>5, <3>6, <3>7
  <2>. QED
    BY <1>5, <2>7, <2>8 DEF Udp!SendTo
<1>6. ASSUME Udp!SendCb PROVE UdpInv'
  <2>1. PICK h \in Receivers : u_sends = <<h>>
    BY <1>0, <1>6 DEF UdpRuns, Udp!SendCb
  <2>2. /\ u_op[h] = "send" /\ u_stage[h] = "blocked" /\ Head(u_sends) = h /\ Tail(u_sends) = <<>>
        /\ u_cur = None
    BY <1>0, <1>6, <2>1 DEF UdpRuns, Udp!SendCb
  <2>3. /\ u_sends' = <<>> /\ Udp!Release(h, "send")
        /\ UNCHANGED <<u_state, u_timer, u_data, u_buf, u_active, u_got, u_socket, u_arrived>>
    BY <1>6, <2>2 DEF Udp!SendCb, Udp!recvv
  <2>4. ~u_failed' /\ u_failed' \in BOOLEAN
    BY <1>6, <2>2 DEF Udp!SendCb
  <2>5. Holds(h, "send") /\ UdpAccess("send")
    BY <1>0, <1>00, <2>2 DEF Holds, Accesses
  <2>6. /\ \A o \in Udp!Op : UdpAccess(o)'
        /\ u_queue' \in [Udp!Op -> Seq(Receivers)] /\ u_held' \in [Udp!Op -> BOOLEAN]
        /\ u_op' = [u_op EXCEPT ![h] = "none"] /\ u_cur' \in Receivers \cup {None} /\ u_cur' # h
        /\ u_cur' # None => u_stage[u_cur'] = "queued" /\ u_op[u_cur'] = "send"
        /\ u_stage' = [g \in Receivers |-> IF g = h THEN "idle" ELSE IF g = u_cur' THEN "granted"
                                           ELSE u_stage[g]]
    BY <1>0, <1>00, <2>2, <2>3, <2>5, UdpRelease DEF UdpFlags, Accesses
  <2>7. \A g \in Receivers : <<g>> # <<>> /\ (u_op[g] = "send" /\ u_stage[g] = "blocked" => g = h)
    BY <2>5 DEF UdpAccess, Holds
  <2>9. UdpRuns'
    BY <1>0, <1>00, <2>2, <2>3, <2>6, <2>7 DEF UdpTypes, UdpRuns
  <2>11. UdpReceives'
    BY <1>0, <2>3 DEF UdpReceives
  <2>12. UdpTimeouts'
    BY <1>0, <1>00, <2>2, <2>3, <2>6 DEF UdpTypes, UdpRuns, UdpTimeouts
  <2>13. Accesses'
    BY <2>6 DEF Accesses
  <2>. QED
    BY <1>03, <2>3, <2>4, <2>9, <2>11, <2>12, <2>13
<1>7. ASSUME Udp!RecvNothing PROVE UdpInv'
  <2>1. PICK h \in Receivers : h = u_data
    BY <1>0, <1>7 DEF UdpTypes, Udp!RecvNothing
  <2>2. /\ UNCHANGED <<u_cur, u_op, u_stage, u_held, u_queue, u_state, u_timer, u_data, u_buf, u_active,
                       u_got, u_arrived, u_sends>>
        /\ u_failed' = ~u_buf[h]
    BY <1>7, <2>1 DEF Udp!RecvNothing, Udp!recvv
  <2>3. ~u_failed'
    BY <1>0, <2>1, <2>2 DEF UdpReceives
  <2>6. UdpRuns' /\ UdpReceives' /\ UdpTimeouts'
    BY <1>0, <2>2 DEF UdpTypes, UdpRuns, UdpReceives, UdpTimeouts
  <2>. QED
    BY <1>01, <1>03, <2>2, <2>3, <2>6
<1>8. ASSUME Udp!RecvCb PROVE UdpInv'
  <2>1. PICK h \in Receivers : h = u_data
    BY <1>0, <1>8 DEF UdpTypes, UdpReceives, Udp!RecvCb
  <2>2. /\ u_cur = None /\ u_buf' = [u_buf EXCEPT ![h] = FALSE] /\ Udp!Finish(h, u_state)
        /\ UNCHANGED <<u_timer, u_arrived, u_sends>>
    BY <1>8, <2>1 DEF Udp!RecvCb
  <2>3. u_state \in [Receivers -> Udp!State]
        /\ \A g \in Receivers : u_timer'[g] = "started" => u_timer[g] = "started" /\ u_state[g] # "TimedOut"
    BY <1>0, <2>2 DEF UdpTypes, UdpTimeouts
  <2>4. /\ UdpRuns' /\ UdpReceives' /\ UdpTimeouts'
        /\ (\A o \in Udp!Op : UdpAccess(o)') /\ ~u_failed'
    BY <1>0, <2>1, <2>2, <2>3, UdpFinish DEF Accesses
  <2>. QED
    BY <1>03, <2>4 DEF Accesses
<1>9. ASSUME NEW h \in Receivers, Udp!TimerCb(h) PROVE UdpInv'
  <2>1. /\ u_cur = None /\ u_timer[h] = "started" /\ u_state[h] # "AccessPending"
        /\ u_timer' = [u_timer EXCEPT ![h] = "stopped"]
        /\ UNCHANGED <<u_buf, u_got, u_socket, u_arrived, u_sends>>
    BY <1>9 DEF Udp!TimerCb
  <2>2. u_state[h] \in {"NoWaiter", "RequestPending"}
    BY <1>0, <2>1 DEF UdpTypes, UdpTimeouts, Udp!State
  <2>3. CASE u_state[h] = "RequestPending"
    <3>1. u_data = h
      BY <1>0, <2>3 DEF UdpTimeouts, UdpRuns
    <3>2. Udp!Finish(h, [u_state EXCEPT ![h] = "TimedOut"])
      BY <1>9, <2>3, <3>1 DEF Udp!TimerCb
    <3>3. PICK st : st = [u_state EXCEPT ![h] = "TimedOut"]
      OBVIOUS
    <3>4. st \in [Receivers -> Udp!State]
      BY <1>0, <2>1, <3>3 DEF UdpTypes, UdpFlags, Udp!State
    <3>5. \A g \in Receivers : u_timer'[g] = "started" => u_timer[g] = "started" /\ st[g] # "TimedOut"
      BY <1>0, <2>1, <3>3 DEF UdpTypes, UdpTimeouts
    <3>6. /\ UdpRuns' /\ UdpReceives' /\ UdpTimeouts'
          /\ (\A o \in Udp!Op : UdpAccess(o)') /\ ~u_failed'
      <4>1. Udp!Finish(h, st)
        BY <3>2, <3>3
      <4>. QED
        BY <1>0, <2>1, <3>1, <3>3, <3>4, <3>5, <4>1, UdpFinish DEF Accesses
    <3>8. Accesses'
      BY <3>6 DEF Accesses
    <3>. QED
      BY <1>03, <2>1, <3>6, <3>8
  <2>4. CASE u_state[h] = "NoWaiter"
    <3>1. /\ u_state' = [u_state EXCEPT ![h] = "TimedOut"]
          /\ UNCHANGED <<u_cur, u_op, u_stage, u_held, u_queue, u_data>>
      BY <1>9, <2>4 DEF Udp!TimerCb
    <3>2. u_active' = u_active /\ ~u_failed' /\ u_failed' \in BOOLEAN
      BY <1>0, <1>9, <2>4 DEF Udp!TimerCb, UdpFlags
    <3>3. UdpTimeouts'
      BY <1>0, <2>1, <3>1 DEF UdpTypes, UdpTimeouts, Udp!State
    <3>4. UdpRuns' /\ UdpReceives'
      BY <1>0, <2>1, <3>1, <3>2 DEF UdpRuns, UdpReceives
    <3>. QED
      BY <1>01, <1>03, <2>1, <3>1, <3>2, <3>3, <3>4
  <2>. QED
    BY <2>2, <2>3, <2>4
<1>10. ASSUME NEW h \in Receivers, Udp!SetReadTimeout(h) PROVE UdpInv'
  <2>1. /\ u_stage[h] = "idle"
        /\ UNCHANGED <<u_cur, u_op, u_stage, u_held, u_queue, u_data, u_buf, u_active, u_got, u_socket, u_arrived, u_sends, u_failed>>
    BY <1>10 DEF Udp!SetReadTimeout
  <2>2. /\ u_state' \in [Receivers -> Udp!State] /\ u_timer' \in [Receivers -> {"stopped", "started"}]
        /\ \A g \in Receivers \ {h} : u_state'[g] = u_state[g] /\ u_timer'[g] = u_timer[g]
        /\ u_state'[h] \in {"NoWaiter", "NoTimeout"} /\ (u_timer'[h] = "started" => u_state'[h] = "NoWaiter")
    <3>1. CASE u_state' = [u_state EXCEPT ![h] = "NoWaiter"] /\ u_timer' = [u_timer EXCEPT ![h] = "started"]
      BY <1>0, <3>1 DEF UdpTypes, Udp!State
    <3>2. CASE /\ u_state' = [u_state EXCEPT ![h] = "NoTimeout"]
               /\ u_timer' = [u_timer EXCEPT ![h] = "stopped"]
      BY <1>0, <3>2 DEF UdpTypes, Udp!State
    <3>. QED
      BY <1>10, <3>1, <3>2 DEF Udp!SetReadTimeout
  <2>3. UdpRuns' /\ UdpReceives'
    BY <1>0, <2>1, <2>2 DEF UdpTypes, UdpRuns, UdpReceives
  <2>4. UdpTimeouts'
    BY <1>0, <2>1, <2>2 DEF UdpRuns, UdpTimeouts
  <2>5. ~u_failed'
    BY <1>0, <2>1 DEF UdpFlags
  <2>. QED
    BY <1>01, <1>03, <2>1, <2>3, <2>4, <2>5
<1>11. ASSUME NEW h \in Receivers, NEW s \in {"idle", "absent"}, u_stage[h] \in {"idle", "absent"},
              u_stage' = [u_stage EXCEPT ![h] = s],
              UNCHANGED <<u_cur, u_op, u_held, u_queue, u_data, u_buf, u_active, u_sends>>
       PROVE  Accesses' /\ UdpRuns' /\ UdpReceives'
              /\ u_stage' \in [Receivers -> {"absent", "idle", "queued", "granted", "blocked"}]
  <2>1. \A o, g : Holds(g, o)' <=> Holds(g, o)
    BY <1>0, <1>11 DEF Holds, UdpTypes
  <2>2. \A o : Queued(o)' = Queued(o)
    BY <1>0, <1>11 DEF Queued, UdpTypes
  <2>3. Accesses'
    <3>1. ASSUME NEW o \in Udp!Op PROVE UdpAccess(o)'
      BY <1>0, <1>11, <2>1, <2>2 DEF UdpAccess, Accesses
    <3>. QED
      BY <3>1 DEF Accesses
  <2>. QED
    BY <1>0, <1>11, <2>3 DEF UdpRuns, UdpReceives, UdpTypes
<1>12. ASSUME NEW h \in Receivers, NEW g \in Receivers, Udp!Clone(h, g) PROVE UdpInv'
  <2>1. /\ u_stage[g] = "absent" /\ u_stage' = [u_stage EXCEPT ![g] = "idle"]
        /\ u_state' = [u_state EXCEPT ![g] = "NoTimeout"]
        /\ UNCHANGED <<u_cur, u_op, u_held, u_queue, u_timer, u_data, u_buf, u_active, u_got, u_socket, u_arrived, u_sends, u_failed>>
    BY <1>12 DEF Udp!Clone
  <2>2. Accesses' /\ UdpRuns' /\ UdpReceives'
        /\ u_stage' \in [Receivers -> {"absent", "idle", "queued", "granted", "blocked"}]
    BY <1>11, <2>1
  <2>4. UdpTimeouts'
    BY <1>0, <2>1 DEF UdpTypes, UdpTimeouts
  <2>5. ~u_failed'
    BY <1>0, <2>1 DEF UdpFlags
  <2>. QED
    BY <1>03, <2>1, <2>2, <2>4, <2>5
<1>13. ASSUME NEW h \in Receivers, Udp!DropHandle(h) PROVE UdpInv'
  <2>1. /\ u_cur = None /\ u_stage[h] = "idle" /\ u_stage' = [u_stage EXCEPT ![h] = "absent"]
        /\ u_timer' = [u_timer EXCEPT ![h] = "stopped"]
        /\ u_state' = [u_state EXCEPT ![h] = "NoTimeout"]
        /\ UNCHANGED <<u_cur, u_op, u_held, u_queue, u_data, u_buf, u_active, u_got, u_socket, u_arrived, u_sends>>
    BY <1>13 DEF Udp!DropHandle
  <2>2. u_failed' = ((\A g \in Receivers \ {h} : u_stage[g] = "absent")
                       /\ \E o \in Udp!Op : u_held[o] \/ u_queue[o] # <<>>)
    BY <1>13 DEF Udp!DropHandle
  <2>3. Accesses' /\ UdpRuns' /\ UdpReceives'
        /\ u_stage' \in [Receivers -> {"absent", "idle", "queued", "granted", "blocked"}]
    BY <1>11, <2>1
  <2>5. UdpTimeouts'
    BY <1>0, <2>1 DEF UdpTypes, UdpTimeouts, UdpRuns
  <2>6. ~u_failed'
    <3>1. ASSUME NEW o \in Udp!Op, u_held[o] \/ u_queue[o] # <<>>
          PROVE  \E g \in Receivers \ {h} : u_stage[g] # "absent"
      <4>1. PICK g \in Receivers : Holds(g, o)
        BY <1>0, <3>1 DEF Accesses, UdpAccess
      <4>. QED
        BY <2>1, <4>1 DEF Holds
    <3>. QED
      BY <2>2, <3>1
  <2>. QED
    BY <1>03, <2>1, <2>3, <2>5, <2>6
<1>14. ASSUME Udp!Datagram PROVE UdpInv'
  <2>1. UNCHANGED <<u_cur, u_op, u_stage, u_held, u_queue, u_state, u_timer, u_data, u_buf, u_active,
                    u_sends, u_failed>>
    BY <1>14 DEF Udp!Datagram, Udp!recvv
  <2>2. UdpRuns' /\ UdpReceives' /\ UdpTimeouts' /\ ~u_failed'
    BY <1>0, <2>1 DEF UdpRuns, UdpReceives, UdpTimeouts
  <2>. QED
    BY <1>01, <1>03, <2>1, <2>2
<1>15. ASSUME UNCHANGED udpVars PROVE UdpInv'
  <2>1. UNCHANGED <<u_cur, u_op, u_stage, u_held, u_queue, u_state, u_timer, u_data, u_buf, u_active, u_got, u_socket, u_arrived, u_sends, u_failed>>
    BY <1>15 DEF udpVars
  <2>2. UdpRuns' /\ UdpReceives' /\ UdpTimeouts'
    BY <1>0, <2>1 DEF UdpTypes, UdpRuns, UdpReceives, UdpTimeouts
  <2>3. ~u_failed'
    BY <1>0, <2>1 DEF UdpFlags
  <2>. QED
    BY <1>01, <1>03, <2>1, <2>2, <2>3
<1>16. ASSUME NEW h \in Receivers PROVE ~Udp!TimerQueued(h) /\ ~Udp!GrantTimedOut(h)
  BY <1>0 DEF Udp!TimerQueued, Udp!GrantTimedOut, UdpTimeouts
<1>17. ASSUME Udp!Waits PROVE UNCHANGED udpVars
  BY <1>17 DEF Udp!Waits, Udp!vars, Udp!recvv, udpVars
<1>. HIDE DEF Accesses
<1>. QED
  BY <1>1, <1>2, <1>3, <1>4, <1>5, <1>6, <1>7, <1>8, <1>9, <1>10, <1>12, <1>13, <1>14, <1>15, <1>16, <1>17
     DEF Udp!Next, Udp!RecvResume

\* The datagrams that are in the socket s or were returned.
Kept(s, g) == {g[i] : i \in 1..Len(g)} \cup {s[i] : i \in 1..Len(s)}

\* A step takes a datagram with data from the socket only to return it.
LEMMA UdpDropsNone ==
  ASSUME UdpData, [Udp!Next]_udpVars
  PROVE  Kept(u_socket, u_got) \ {0} \subseteq Kept(u_socket', u_got')
<1>1. u_socket \in Seq(Nat) /\ u_got \in Seq(Nat)
  BY UdpBound DEF UdpData, Udp!TypeOK
<1>2. CASE UNCHANGED <<u_socket, u_got>>
  BY <1>2
<1>3. CASE u_socket # <<>> /\ Head(u_socket) = 0 /\ u_socket' = Tail(u_socket) /\ UNCHANGED u_got
  <2>1. /\ Len(u_socket) \in Nat \ {0} /\ Len(u_socket') = Len(u_socket) - 1 /\ u_socket[1] = 0
        /\ \A i \in 1..Len(u_socket') : u_socket'[i] = u_socket[i + 1]
    BY <1>1, <1>3
  <2>2. ASSUME NEW i \in 1..Len(u_socket), u_socket[i] # 0
        PROVE  \E j \in 1..Len(u_socket') : u_socket'[j] = u_socket[i]
    <3>1. i # 1
      BY <2>1, <2>2
    <3>2. i - 1 \in 1..Len(u_socket') /\ u_socket'[i - 1] = u_socket[i]
      BY <2>1, <3>1
    <3>. QED
      BY <3>2
  <2>3. ASSUME NEW e \in {u_socket[i] : i \in 1..Len(u_socket)}, e # 0
        PROVE  e \in {u_socket'[j] : j \in 1..Len(u_socket')}
    BY <2>2, <2>3
  <2>. QED
    BY <1>3, <2>3 DEF Kept
<1>4. CASE u_socket # <<>> /\ u_socket' = Tail(u_socket) /\ u_got' = Append(u_got, Head(u_socket))
  <2>1. /\ Len(u_socket) \in Nat \ {0} /\ Len(u_socket') = Len(u_socket) - 1
        /\ \A i \in 1..Len(u_socket') : u_socket'[i] = u_socket[i + 1]
    BY <1>1, <1>4
  <2>2. /\ Len(u_got) \in Nat /\ Len(u_got') = Len(u_got) + 1 /\ u_got'[Len(u_got) + 1] = u_socket[1]
        /\ \A i \in 1..Len(u_got) : u_got'[i] = u_got[i]
    BY <1>1, <1>4
  <2>3. ASSUME NEW i \in 1..Len(u_socket)
        PROVE  \/ \E j \in 1..Len(u_socket') : u_socket'[j] = u_socket[i]
               \/ \E j \in 1..Len(u_got') : u_got'[j] = u_socket[i]
    <3>1. CASE i = 1
      BY <2>2, <3>1
    <3>2. CASE i # 1
      <4>1. i - 1 \in 1..Len(u_socket') /\ u_socket'[i - 1] = u_socket[i]
        BY <2>1, <3>2
      <4>. QED
        BY <4>1
    <3>. QED
      BY <3>1, <3>2
  <2>4. \A i \in 1..Len(u_got) : \E j \in 1..Len(u_got') : u_got'[j] = u_got[i]
    BY <2>2
  <2>. QED
    BY <2>3, <2>4 DEF Kept
<1>5. ASSUME NEW e \in Nat, u_socket' = Append(u_socket, e), UNCHANGED u_got
      PROVE  Kept(u_socket, u_got) \ {0} \subseteq Kept(u_socket', u_got')
  <2>1. /\ Len(u_socket) \in Nat /\ Len(u_socket') = Len(u_socket) + 1
        /\ \A i \in 1..Len(u_socket) : u_socket'[i] = u_socket[i]
    BY <1>1, <1>5
  <2>2. \A i \in 1..Len(u_socket) : \E j \in 1..Len(u_socket') : u_socket'[j] = u_socket[i]
    BY <2>1
  <2>. QED
    BY <1>5, <2>2 DEF Kept
<1>6. u_arrived + 1 \in Nat /\ 0 \in Nat
  BY UdpBound DEF UdpData, Udp!TypeOK
<1>. QED
  BY <1>2, <1>3, <1>4, <1>5, <1>6, UdpMoves


-----------------------------------------------------------------------------
(* SockAddr.                                                               *)

LEMMA AddrBound ==
  /\ Base \in Nat \ {0, 1} /\ Segments \subseteq 0..(Base * Base - 1)
  /\ Ports \subseteq 0..(Base * Base - 1)
BY UvNetAssumptions DEF Addr!BaseAssumption

LEMMA Multiples ==
  ASSUME NEW M \in Nat \ {0}, NEW a \in Nat, NEW b \in Nat, a < b
  PROVE  M * a + M <= M * b
<1>1. PICK d \in Nat : b = a + 1 + d
  <2>1. b - a - 1 \in Nat
    OBVIOUS
  <2>. QED
    BY <2>1
<1>2. M * b = M * a + M + M * d /\ M * d \in Nat
  BY <1>1
<1>. QED
  BY <1>2

LEMMA Divide ==
  ASSUME NEW M \in Nat \ {0}, NEW x \in Nat
  PROVE  x = M * (x \div M) + (x % M) /\ x % M \in 0..(M - 1) /\ x \div M \in Nat
OBVIOUS

\* A shift takes the low bytes off, and a cast to u8 the high ones.
LEMMA DivMod ==
  ASSUME NEW M \in Nat \ {0}, NEW q \in Nat, NEW r \in 0..(M - 1)
  PROVE  (M * q + r) \div M = q /\ (M * q + r) % M = r
<1>1. PICK x \in Nat : x = M * q + r
  OBVIOUS
<1>2. PICK d \in Nat, m \in 0..(M - 1) : x = M * d + m /\ d = x \div M /\ m = x % M
  BY Divide
<1>3. M * d \in Nat /\ M * q \in Nat
  OBVIOUS
<1>4. ~(d < q)
  BY <1>1, <1>2, <1>3, Multiples
<1>5. ~(q < d)
  BY <1>1, <1>2, <1>3, Multiples
<1>6. d = q
  BY <1>4, <1>5
<1>7. m = r
  BY <1>1, <1>2, <1>3, <1>6
<1>. QED
  BY <1>1, <1>2, <1>6, <1>7

\* What the bytes of an integer make of it, the high one first.
Word2(a, b) == Base * a + b
Word4(a, b, c, d) == Base * (Base * (Base * a + b) + c) + d

LEMMA Byte2 ==
  ASSUME NEW a \in 0..(Base - 1), NEW b \in 0..(Base - 1)
  PROVE  /\ Word2(a, b) \in Nat /\ Addr!Byte(Word2(a, b), 1) = a /\ Addr!Byte(Word2(a, b), 0) = b
<1>. USE AddrBound
<1>1. PICK w \in Nat : w = Base * a + b
  OBVIOUS
<1>2. w \div Base = a /\ w % Base = b
  BY <1>1, DivMod
<1>3. a % Base = a
  OBVIOUS
<1>4. w \div 1 = w
  OBVIOUS
<1>. QED
  BY <1>1, <1>2, <1>3, <1>4 DEF Word2, Addr!Byte, Addr!Weight

LEMMA Byte4 ==
  ASSUME NEW a \in 0..(Base - 1), NEW b \in 0..(Base - 1),
         NEW c \in 0..(Base - 1), NEW d \in 0..(Base - 1)
  PROVE  LET w == Word4(a, b, c, d)
         IN /\ w \in Nat /\ Addr!Byte(w, 3) = a /\ Addr!Byte(w, 2) = b
            /\ Addr!Byte(w, 1) = c /\ Addr!Byte(w, 0) = d
<1>. USE AddrBound
<1>1. PICK p \in Nat : p = Base * a + b
  OBVIOUS
<1>2. PICK q \in Nat : q = Base * p + c
  OBVIOUS
<1>3. PICK w \in Nat : w = Base * q + d
  OBVIOUS
<1>4. w = Word4(a, b, c, d)
  BY <1>1, <1>2, <1>3 DEF Word4
<1>5. w \div 1 = w /\ w % Base = d
  BY <1>3, DivMod
<1>6. w \div Base = q /\ q % Base = c
  BY <1>2, <1>3, DivMod
<1>7. w \div (Base * Base) = p /\ p % Base = b
  <2>1. PICK M \in Nat \ {0} : M = Base * Base
    OBVIOUS
  <2>2. PICK r \in Nat : r = Base * c + d
    OBVIOUS
  <2>3. r \in 0..(M - 1)
    <3>1. Base * c + Base <= Base * Base
      BY Multiples
    <3>. QED
      BY <2>1, <2>2, <3>1
  <2>4. w = M * p + r
    BY <1>2, <1>3, <2>1, <2>2
  <2>5. w \div M = p
    BY <2>3, <2>4, DivMod
  <2>6. p % Base = b
    BY <1>1, DivMod
  <2>. QED
    BY ONLY <2>1, <2>5, <2>6
<1>8. w \div (Base * Base * Base) = a /\ a % Base = a
  <2>1. PICK M \in Nat \ {0} : M = Base * Base * Base
    OBVIOUS
  <2>2. PICK s \in Nat : s = Base * b + c
    OBVIOUS
  <2>3. PICK r \in Nat : r = Base * s + d
    OBVIOUS
  <2>4. s < Base * Base
    <3>1. Base * b + Base <= Base * Base
      BY Multiples
    <3>. QED
      BY <2>2, <3>1
  <2>5. r \in 0..(M - 1)
    <3>1. Base * s + Base <= Base * (Base * Base)
      BY <2>4, Multiples
    <3>2. Base * (Base * Base) = M
      BY <2>1
    <3>. QED
      BY <2>3, <3>1, <3>2
  <2>6. w = M * a + r
    BY <1>1, <1>2, <1>3, <2>1, <2>2, <2>3
  <2>7. w \div M = a
    BY <2>5, <2>6, DivMod
  <2>8. a % Base = a
    OBVIOUS
  <2>. QED
    BY ONLY <2>1, <2>7, <2>8
<1>. QED
  BY <1>3, <1>4, <1>5, <1>6, <1>7, <1>8 DEF Addr!Byte, Addr!Weight

\* Every integer of two bytes is made of its bytes.
LEMMA Halves ==
  ASSUME NEW w \in 0..(Base * Base - 1)
  PROVE  \E a, b \in 0..(Base - 1) : w = Word2(a, b)
<1>. USE AddrBound
<1>1. PICK a \in Nat, b \in 0..(Base - 1) : w = Base * a + b
  <2>1. w \in Nat /\ Base \in Nat \ {0}
    OBVIOUS
  <2>2. w = Base * (w \div Base) + (w % Base) /\ w % Base \in 0..(Base - 1) /\ w \div Base \in Nat
    BY ONLY <2>1, Divide
  <2>. QED
    BY ONLY <2>2
<1>2. a < Base
  <2>1. SUFFICES ASSUME Base <= a PROVE FALSE
    BY <1>1
  <2>2. Base * Base <= Base * a
    <3>1. CASE Base = a
      BY <3>1
    <3>2. CASE Base < a
      BY <3>2, Multiples
    <3>. QED
      BY <2>1, <3>1, <3>2
  <2>. QED
    BY <1>1, <2>2
<1>. QED
  BY <1>1, <1>2 DEF Word2

\* htons of the port or of a segment: what lies in memory is in network order, and
\* ntohs undoes it.
LEMMA Short ==
  ASSUME n_bigEndian \in BOOLEAN, NEW w \in 0..(Base * Base - 1)
  PROVE  /\ Addr!HtoNs(Addr!HtoNs(w)) = w
         /\ Addr!Memory(Addr!HtoNs(w), 2) = Addr!HighFirst(w)
<1>. USE AddrBound
<1>1. PICK a \in 0..(Base - 1), b \in 0..(Base - 1) : w = Word2(a, b)
  BY Halves
<1>2. Addr!Byte(w, 1) = a /\ Addr!Byte(w, 0) = b
  BY <1>1, Byte2
<1>3. CASE n_bigEndian
  <2>1. Addr!HtoNs(w) = w
    BY <1>3 DEF Addr!HtoNs, Addr!ToBe
  <2>. QED
    BY <1>3, <2>1 DEF Addr!Memory, Addr!HighFirst
<1>4. CASE ~n_bigEndian
  <2>1. PICK v : v = Word2(b, a)
    OBVIOUS
  <2>2. Addr!Byte(v, 1) = b /\ Addr!Byte(v, 0) = a
    BY <2>1, Byte2
  <2>3. \A x : Addr!HtoNs(x) = Addr!Byte(x, 0) * Base + Addr!Byte(x, 1)
    BY <1>4 DEF Addr!HtoNs, Addr!ToBe
  <2>4. Addr!HtoNs(w) = v /\ Addr!HtoNs(v) = w
    BY <1>1, <1>2, <2>1, <2>2, <2>3 DEF Word2
  <2>5. Addr!Memory(v, 2) = Addr!HighFirst(w)
    BY <1>2, <1>4, <2>2 DEF Addr!Memory, Addr!HighFirst
  <2>. QED
    BY <2>4, <2>5
<1>. QED
  BY <1>3, <1>4

\* to_be of an IPv4 address, in the same way.
LEMMA Long ==
  ASSUME n_bigEndian \in BOOLEAN, NEW ip \in [1..4 -> 0..(Base - 1)], NEW w,
         w = Word4(ip[1], ip[2], ip[3], ip[4])
  PROVE  /\ [i \in 1..4 |-> Addr!Byte(Addr!ToBe(Addr!ToBe(w, 4), 4), 4 - i)] = ip
         /\ Addr!Memory(Addr!ToBe(w, 4), 4) = ip
<1>. USE AddrBound
<1>. DEFINE D == 0..(Base - 1)
<1>1. PICK a \in D, b \in D, c \in D, d \in D : a = ip[1] /\ b = ip[2] /\ c = ip[3] /\ d = ip[4]
  OBVIOUS
<1>2. w = Word4(a, b, c, d)
  BY <1>1
<1>20. Addr!Byte(w, 3) = a /\ Addr!Byte(w, 2) = b /\ Addr!Byte(w, 1) = c /\ Addr!Byte(w, 0) = d
  BY ONLY <1>2, Byte4, a \in D, b \in D, c \in D, d \in D
<1>3. \A i \in 1..4 : Addr!Byte(w, 4 - i) = ip[i]
  BY <1>1, <1>20
<1>4. CASE n_bigEndian
  <2>1. \A x : Addr!ToBe(x, 4) = x
    BY <1>4 DEF Addr!ToBe
  <2>2. [i \in 1..4 |-> Addr!Byte(w, 4 - i)] = ip
    BY <1>3
  <2>3. Addr!Memory(w, 4) = [i \in 1..4 |-> Addr!Byte(w, 4 - i)]
    BY <1>4 DEF Addr!Memory
  <2>. QED
    BY <2>1, <2>2, <2>3
<1>5. CASE ~n_bigEndian
  <2>1. PICK v : v = Word4(d, c, b, a)
    OBVIOUS
  <2>2. Addr!Byte(v, 3) = d /\ Addr!Byte(v, 2) = c /\ Addr!Byte(v, 1) = b /\ Addr!Byte(v, 0) = a
    BY ONLY <2>1, Byte4, a \in D, b \in D, c \in D, d \in D
  <2>3. \A x : Addr!ToBe(x, 4) = ((Addr!Byte(x, 0) * Base + Addr!Byte(x, 1)) * Base + Addr!Byte(x, 2)) * Base
                                   + Addr!Byte(x, 3)
    BY <1>5 DEF Addr!ToBe
  <2>4. ASSUME NEW p \in D, NEW q \in D, NEW r \in D, NEW s \in D
        PROVE  ((p * Base + q) * Base + r) * Base + s = Word4(p, q, r, s)
    BY DEF Word4
  <2>. HIDE DEF D
  <2>5. Addr!ToBe(w, 4) = v
    <3>1. Addr!ToBe(w, 4) = ((d * Base + c) * Base + b) * Base + a
      BY ONLY <1>20, <2>3
    <3>2. ((d * Base + c) * Base + b) * Base + a = Word4(d, c, b, a)
      BY ONLY <2>4, a \in D, b \in D, c \in D, d \in D
    <3>. QED
      BY ONLY <2>1, <3>1, <3>2
  <2>6. Addr!ToBe(v, 4) = w
    <3>1. Addr!ToBe(v, 4) = ((a * Base + b) * Base + c) * Base + d
      BY ONLY <2>2, <2>3
    <3>2. ((a * Base + b) * Base + c) * Base + d = Word4(a, b, c, d)
      BY ONLY <2>4, a \in D, b \in D, c \in D, d \in D
    <3>. QED
      BY ONLY <1>2, <3>1, <3>2
  <2>7. [i \in 1..4 |-> Addr!Byte(w, 4 - i)] = ip
    BY <1>3
  <2>8. Addr!Memory(v, 4) = [i \in 1..4 |-> Addr!Byte(v, i - 1)]
    BY <1>5 DEF Addr!Memory
  <2>9. [i \in 1..4 |-> Addr!Byte(v, i - 1)] = ip
    BY <1>1, <2>2
  <2>. QED
    BY <2>5, <2>6, <2>7, <2>8, <2>9
<1>. QED
  BY <1>4, <1>5

\* What addr_to_sockaddr makes of the address.
Sockaddr ==
  [family |-> n_addr.family, port |-> Addr!HtoNs(n_addr.port),
   ip |-> IF n_addr.family = "AF_INET"
          THEN <<Addr!ToBe(n_addr.ip[1] * Addr!Weight(3) + n_addr.ip[2] * Addr!Weight(2)
                             + n_addr.ip[3] * Addr!Weight(1) + n_addr.ip[4], 4)>>
          ELSE [i \in 1..8 |-> Addr!HtoNs(n_addr.ip[i])]]

AddrInv ==
  /\ n_bigEndian \in BOOLEAN /\ n_addr \in Addrs
  /\ n_storage \in {Addr!NoAddr, Sockaddr} /\ n_back \in {Addr!NoAddr, n_addr}

\* An address and what is made of it.
LEMMA AddrShape ==
  ASSUME n_addr \in Addrs, n_bigEndian \in BOOLEAN
  PROVE  /\ n_addr = [family |-> n_addr.family, port |-> n_addr.port, ip |-> n_addr.ip]
         /\ n_addr.port \in 0..(Base * Base - 1)
         /\ \/ n_addr.family = "AF_INET" /\ n_addr.ip \in [1..4 -> 0..(Base - 1)]
            \/ n_addr.family = "AF_INET6" /\ n_addr.ip \in [1..8 -> 0..(Base * Base - 1)]
BY AddrBound DEF Addrs

LEMMA AddrInit == Addr!Init => AddrInv
BY DEF Addr!Init, AddrInv

\* The integer of an IPv4 address.
LEMMA AddrWord ==
  ASSUME NEW ip \in [1..4 -> 0..(Base - 1)]
  PROVE  ip[1] * Addr!Weight(3) + ip[2] * Addr!Weight(2) + ip[3] * Addr!Weight(1) + ip[4]
           = Word4(ip[1], ip[2], ip[3], ip[4])
<1>. USE AddrBound
<1>1. Addr!Weight(3) = Base * Base * Base /\ Addr!Weight(2) = Base * Base /\ Addr!Weight(1) = Base
  BY DEF Addr!Weight
<1>2. ASSUME NEW a \in Nat, NEW b \in Nat, NEW c \in Nat, NEW d \in Nat
      PROVE  a * (Base * Base * Base) + b * (Base * Base) + c * Base + d = Word4(a, b, c, d)
  BY DEF Word4
<1>3. PICK a \in Nat, b \in Nat, c \in Nat, d \in Nat :
        a = ip[1] /\ b = ip[2] /\ c = ip[3] /\ d = ip[4]
  OBVIOUS
<1>4. a * (Base * Base * Base) + b * (Base * Base) + c * Base + d = Word4(a, b, c, d)
  BY ONLY <1>2, a \in Nat, b \in Nat, c \in Nat, d \in Nat
<1>. QED
  BY ONLY <1>1, <1>3, <1>4

\* AddrInv implies what the run checks of SockAddr.
LEMMA AddrInvImplies == AddrInv => AddressesConvert
<1>. SUFFICES ASSUME AddrInv, n_storage = Sockaddr PROVE Addr!NetworkOrder
  BY DEF AddrInv, AddressesConvert, Addr!RoundTrip, Addr!NetworkOrder
<1>0. n_bigEndian \in BOOLEAN /\ n_addr \in Addrs
  BY DEF AddrInv
<1>1. n_storage.port = Addr!HtoNs(n_addr.port) /\ n_addr.port \in 0..(Base * Base - 1)
  BY <1>0, AddrShape DEF Sockaddr
<1>2. Addr!Memory(n_storage.port, 2) = Addr!HighFirst(n_addr.port)
  BY <1>0, <1>1, Short
<1>3. CASE n_addr.family = "AF_INET"
  <2>1. PICK w : w = n_addr.ip[1] * Addr!Weight(3) + n_addr.ip[2] * Addr!Weight(2)
                       + n_addr.ip[3] * Addr!Weight(1) + n_addr.ip[4]
    OBVIOUS
  <2>2. n_addr.ip \in [1..4 -> 0..(Base - 1)]
    BY <1>0, <1>3, AddrShape
  <2>3. w = Word4(n_addr.ip[1], n_addr.ip[2], n_addr.ip[3], n_addr.ip[4])
    BY <2>1, <2>2, AddrWord
  <2>4. n_storage.ip = <<Addr!ToBe(w, 4)>>
    BY <1>3, <2>1 DEF Sockaddr
  <2>5. Addr!Memory(Addr!ToBe(w, 4), 4) = n_addr.ip
    BY <1>0, <2>2, <2>3, Long
  <2>. QED
    BY <1>2, <1>3, <2>4, <2>5 DEF Addr!NetworkOrder
<1>4. CASE n_addr.family = "AF_INET6"
  <2>1. n_addr.ip \in [1..8 -> 0..(Base * Base - 1)]
    BY <1>0, <1>4, AddrShape
  <2>2. n_storage.ip = [i \in 1..8 |-> Addr!HtoNs(n_addr.ip[i])]
    BY <1>4 DEF Sockaddr
  <2>3. ASSUME NEW i \in 1..8 PROVE Addr!Memory(n_storage.ip[i], 2) = Addr!HighFirst(n_addr.ip[i])
    <3>1. n_addr.ip[i] \in 0..(Base * Base - 1) /\ n_storage.ip[i] = Addr!HtoNs(n_addr.ip[i])
      BY <2>1, <2>2
    <3>. QED
      BY <1>0, <3>1, Short
  <2>. QED
    BY <1>2, <1>4, <2>3 DEF Addr!NetworkOrder
<1>. QED
  BY <1>0, <1>3, <1>4, AddrShape

\* Both conversions keep the invariant of SockAddr.
LEMMA AddrStep == AddrInv /\ [Addr!Next]_addrVars => AddrInv'
<1>. SUFFICES ASSUME AddrInv, [Addr!Next]_addrVars PROVE AddrInv'
  OBVIOUS
<1>0. /\ n_bigEndian \in BOOLEAN /\ n_addr \in Addrs /\ n_storage \in {Addr!NoAddr, Sockaddr}
      /\ n_back \in {Addr!NoAddr, n_addr}
  BY DEF AddrInv
<1>1. ASSUME UNCHANGED <<n_bigEndian, n_addr>> PROVE Sockaddr' = Sockaddr
  BY <1>1 DEF Sockaddr, Addr!HtoNs, Addr!ToBe
<1>2. CASE Addr!AddrToSockaddr
  <2>1. n_storage' = Sockaddr /\ UNCHANGED <<n_bigEndian, n_addr, n_back>>
    BY <1>2 DEF Addr!AddrToSockaddr, Sockaddr
  <2>. QED
    BY <1>0, <1>1, <2>1 DEF AddrInv
<1>3. CASE Addr!SockaddrToAddr
  <2>1. n_storage = Sockaddr /\ UNCHANGED <<n_bigEndian, n_addr, n_storage>>
    BY <1>0, <1>3 DEF Addr!SockaddrToAddr
  <2>2. n_back' = [family |-> n_storage.family, port |-> Addr!HtoNs(n_storage.port),
                   ip |-> IF n_storage.family = "AF_INET"
                          THEN [i \in 1..4 |-> Addr!Byte(Addr!ToBe(n_storage.ip[1], 4), 4 - i)]
                          ELSE [i \in 1..8 |-> Addr!HtoNs(n_storage.ip[i])]]
    BY <1>3 DEF Addr!SockaddrToAddr
  <2>3. n_storage.family = n_addr.family /\ n_storage.port = Addr!HtoNs(n_addr.port)
    BY <2>1 DEF Sockaddr
  <2>4. Addr!HtoNs(n_storage.port) = n_addr.port
    BY <1>0, <2>3, AddrShape, Short
  <2>5. CASE n_addr.family = "AF_INET"
    <3>1. PICK w : w = n_addr.ip[1] * Addr!Weight(3) + n_addr.ip[2] * Addr!Weight(2)
                         + n_addr.ip[3] * Addr!Weight(1) + n_addr.ip[4]
      OBVIOUS
    <3>2. n_addr.ip \in [1..4 -> 0..(Base - 1)]
      BY <1>0, <2>5, AddrShape
    <3>3. w = Word4(n_addr.ip[1], n_addr.ip[2], n_addr.ip[3], n_addr.ip[4])
      BY <3>1, <3>2, AddrWord
    <3>4. n_storage.ip[1] = Addr!ToBe(w, 4)
      BY <2>1, <2>5, <3>1 DEF Sockaddr
    <3>5. [i \in 1..4 |-> Addr!Byte(Addr!ToBe(Addr!ToBe(w, 4), 4), 4 - i)] = n_addr.ip
      BY <1>0, <3>2, <3>3, Long
    <3>6. n_back' = [family |-> n_addr.family, port |-> n_addr.port, ip |-> n_addr.ip]
      BY <2>2, <2>3, <2>4, <2>5, <3>4, <3>5
    <3>. QED
      BY <1>0, <1>1, <2>1, <3>6, AddrShape DEF AddrInv
  <2>6. CASE n_addr.family = "AF_INET6"
    <3>1. n_addr.ip \in [1..8 -> 0..(Base * Base - 1)]
      BY <1>0, <2>6, AddrShape
    <3>2. n_storage.ip = [i \in 1..8 |-> Addr!HtoNs(n_addr.ip[i])]
      BY <2>1, <2>6 DEF Sockaddr
    <3>3. \A i \in 1..8 : Addr!HtoNs(n_storage.ip[i]) = n_addr.ip[i]
      BY <1>0, <3>1, <3>2, Short
    <3>4. [i \in 1..8 |-> Addr!HtoNs(n_storage.ip[i])] = n_addr.ip
      BY <3>1, <3>3
    <3>5. n_back' = [family |-> n_addr.family, port |-> n_addr.port, ip |-> n_addr.ip]
      BY <2>2, <2>3, <2>4, <2>6, <3>4
    <3>. QED
      BY <1>0, <1>1, <2>1, <3>5, AddrShape DEF AddrInv
  <2>. QED
    BY <1>0, <2>5, <2>6, AddrShape
<1>4. CASE UNCHANGED addrVars
  BY <1>0, <1>1, <1>4 DEF AddrInv, addrVars
<1>. QED
  BY <1>2, <1>3, <1>4 DEF Addr!Next, Addr!Over, Addr!vars, addrVars

-----------------------------------------------------------------------------
(* All parts.                                                              *)

PartsInv ==
  /\ WriteInv /\ ConnectInv /\ AddrInv
  /\ UdpData /\ (u_patient => UdpInv)
  /\ AcceptData /\ (a_patient => AcceptInv)

\* A step of MCUvNet is a step of each part or leaves it alone.
LEMMA PartsSteps ==
  [Next]_vars => /\ [Write!Next]_writeVars /\ [Udp!Next]_udpVars /\ [Accept!Next]_acceptVars
                 /\ [Addr!Next]_addrVars /\ UNCHANGED <<part, u_patient, a_patient>>
                 /\ \/ part # "UvConnect win" /\ Connect!Next
                    \/ part = "UvConnect win" /\ Win!Next
                    \/ UNCHANGED connectVars
<1>1. ASSUME Udp!Next PROVE u_patient' = u_patient
  BY <1>1 DEF Udp!Next
<1>2. ASSUME Accept!Next PROVE a_patient' = a_patient
  BY <1>2 DEF Accept!Next
<1>3. UNCHANGED udpVars => u_patient' = u_patient
  BY DEF udpVars
<1>4. UNCHANGED acceptVars => a_patient' = a_patient
  BY DEF acceptVars
<1>. QED
  BY <1>1, <1>2, <1>3, <1>4 DEF Next, vars

\* The invariants of the parts hold together.
LEMMA PartsInvariant == Spec => []PartsInv
<1>1. Init => PartsInv
  BY WriteInit, UdpInit, AcceptInit, ConnectInit, AddrInit DEF Init, PartsInv
<1>2. PartsInv /\ [Next]_vars => PartsInv'
  <2>. SUFFICES ASSUME PartsInv, [Next]_vars PROVE PartsInv'
    OBVIOUS
  <2>1. WriteInv' /\ ConnectInv' /\ AddrInv'
    BY PartsSteps, WriteStep, ConnectStep, AddrStep DEF PartsInv
  <2>2. UdpData' /\ (u_patient' => UdpInv')
    <3>1. UdpData /\ [Udp!Next]_udpVars /\ u_patient' = u_patient
      BY PartsSteps DEF PartsInv
    <3>2. UdpData'
      BY <3>1, UdpDataStep
    <3>3. ASSUME u_patient' PROVE UdpInv'
      <4>1. u_patient
        BY <3>1, <3>3
      <4>2. UdpInv
        BY <4>1 DEF PartsInv
      <4>. QED
        BY <3>1, <3>2, <4>1, <4>2, UdpStep
    <3>. QED
      BY <3>2, <3>3
  <2>3. AcceptData' /\ (a_patient' => AcceptInv')
    <3>1. AcceptData /\ [Accept!Next]_acceptVars /\ a_patient' = a_patient
      BY PartsSteps DEF PartsInv
    <3>2. AcceptData'
      BY <3>1, AcceptDataStep
    <3>3. ASSUME a_patient' PROVE AcceptInv'
      <4>1. a_patient
        BY <3>1, <3>3
      <4>2. AcceptInv
        BY <4>1 DEF PartsInv
      <4>. QED
        BY <3>1, <3>2, <4>1, <4>2, AcceptStep
    <3>. QED
      BY <3>2, <3>3
  <2>. QED
    BY <2>1, <2>2, <2>3 DEF PartsInv
<1>. QED
  BY <1>1, <1>2, PTL DEF Spec

\* libuv has one write of a stream at a time, writes go out in the order in which
\* they were called, every write and shutdown request has one owner, and no
\* assertion of access.rs or stream.rs fails, for any number of clones.
THEOREM WritesAreExclusive == Spec => []WritesExclusive
<1>1. PartsInv => WritesExclusive
  BY WriteInvImplies DEF PartsInv
<1>. QED
  BY <1>1, PartsInvariant, PTL

\* Datagrams with data are returned once and in order or are still in the socket,
\* whatever timeouts elapse. When none elapses during a wait for access
\* (timeout.rs:92), the data of a UDP handle points to the receive that waits and to
\* no other stack, and no expect or unreachable!() is reached, for any number of
\* clones and of datagrams (udp.rs).
THEOREM DatagramsAreKept == Spec => []DatagramsKept
<1>1. PartsInv => DatagramsKept
  BY UdpInvImplies DEF PartsInv
<1>. QED
  BY <1>1, PartsInvariant, PTL

\* Connections are accepted once each and in the order of their arrival, whatever
\* timeouts elapse. When none elapses during a wait for access (timeout.rs:92), nobody
\* sleeps in accept while one is pending or the acceptor is closed, and no
\* unreachable!() is reached, for any number of clones and of connections (tcp.rs
\* and pipe.rs with timeout.rs).
THEOREM ConnectionsAreKept == Spec => []ConnectionsKept
<1>1. PartsInv => ConnectionsKept
  BY AcceptInvImplies DEF PartsInv
<1>. QED
  BY <1>1, PartsInvariant, PTL

\* A connect reports what libuv told it, for any number of calls. Where closing a
\* handle reports ECANCELED, connect_cb, timer_cb and the task never touch a context
\* or a request that is gone; where it may report another status they do so only
\* for a call whose timeout was zero, which abandons its request (timeout.rs:249).
THEOREM ConnectsAreSafe == Spec => []ConnectSafe
<1>1. PartsInv => ConnectSafe
  BY ConnectInvImplies DEF PartsInv
<1>. QED
  BY <1>1, PartsInvariant, PTL

\* An address survives addr_to_sockaddr and sockaddr_to_addr, and its bytes lie in
\* memory in network order, on hosts of both byte orders, for bytes of any number
\* of values and so for 256 (raw/mod.rs).
THEOREM AddressesAreConverted == Spec => []AddressesConvert
<1>1. PartsInv => AddressesConvert
  BY AddrInvImplies DEF PartsInv
<1>. QED
  BY <1>1, PartsInvariant, PTL

\* No datagram with data leaves a socket without being returned: the part of
\* SocketsServe that says what a step of udp.rs may never do.
THEOREM DatagramsAreNotDropped == Spec => Udp!NoneDropped
<1>1. PartsInv /\ [Next]_vars => [Kept(u_socket, u_got) \ {0} \subseteq Kept(u_socket', u_got')]_(Udp!vars)
  BY PartsSteps, UdpDropsNone DEF PartsInv
<1>2. [Kept(u_socket, u_got) \ {0} \subseteq Kept(u_socket', u_got')]_(Udp!vars)
        => [LET kept(s, g) == {g[i] : i \in 1..Len(g)} \cup {s[i] : i \in 1..Len(s)}
            IN kept(u_socket, u_got) \ {0} \subseteq kept(u_socket', u_got')]_(Udp!vars)
  BY DEF Kept
<1>. QED
  BY <1>1, <1>2, PartsInvariant, PTL DEF Spec, Udp!NoneDropped

===============================================================================

-------------------------- MODULE GreenSchedHandles ---------------------------
(***************************************************************************)
(* Proofs about the handles of GreenSched: the event loop's count of its   *)
(* remote handles is exact, for any pool and either event loop.            *)
(***************************************************************************)
EXTENDS GreenSchedTasks, FunctionTheorems

-------------------------------------------------------------------------------
(* Event queues: the removals that are pending, and the callbacks *)

Removed(q) == {i \in DOMAIN q : q[i].ev = "RemoveRemote"}

\* libuv merges the pending sends of one handle.
EventsOnce(q) == Uv => \A g \in Handles : Once(q, {RunRemote(g)})

\* The events of a handle differ, and those of two handles do when Uv.
LEMMA EventKinds ==
  /\ \A h : RunRemote(h).ev = "RunRemote" /\ RemoveRemote(h).ev = "RemoveRemote"
  /\ \A g, h : RunRemote(g) # RemoveRemote(h)
  /\ Uv => \A g, h : RunRemote(g) = RunRemote(h) => g = h
<1>1. \A h : RunRemote(h).ev = "RunRemote" /\ RemoveRemote(h).ev = "RemoveRemote"
  BY DEF RunRemote, RemoveRemote
<1>2. \A g, h : RunRemote(g) # RemoveRemote(h)
  BY <1>1
<1>3. ASSUME Uv, NEW g, NEW h, RunRemote(g) = RunRemote(h) PROVE g = h
  <2>1. RunRemote(g).h = g /\ RunRemote(h).h = h
    BY <1>3 DEF RunRemote, Id
  <2> QED
    BY <1>3, <2>1
<1> QED
  BY <1>1, <1>2, <1>3

\* A queue holds finitely many removals.
LEMMA RemovedFinite ==
  ASSUME NEW q \in Seq(Event)
  PROVE  /\ IsFiniteSet(Removed(q)) /\ Cardinality(Removed(q)) \in Nat
         /\ Cardinality(Removed(q)) = 0 => Removed(q) = {}
<1>1. Removed(q) \subseteq 1 .. Len(q) /\ Len(q) \in Nat
  BY LenProperties DEF Removed
<1>2. IsFiniteSet(1 .. Len(q))
  BY <1>1, FS_Interval
<1>3. IsFiniteSet(Removed(q))
  BY <1>1, <1>2, FS_Subset
<1> QED
  BY <1>3, FS_CardinalityType, FS_EmptySet

\* An event is queued behind the others.
LEMMA PushRemoved ==
  ASSUME NEW q \in Seq(Event), NEW e \in Event
  PROVE  Cardinality(Removed(Append(q, e))) =
           Cardinality(Removed(q)) + (IF e.ev = "RemoveRemote" THEN 1 ELSE 0)
<1>1. /\ Len(q) \in Nat /\ DOMAIN q = 1 .. Len(q)
      /\ DOMAIN Append(q, e) = 1 .. (Len(q) + 1)
      /\ \A i \in 1 .. Len(q) : Append(q, e)[i] = q[i]
      /\ Append(q, e)[Len(q) + 1] = e
  BY AppendProperties, LenProperties
<1>2. CASE e.ev = "RemoveRemote"
  <2>1. Removed(Append(q, e)) = Removed(q) \cup {Len(q) + 1} /\ Len(q) + 1 \notin Removed(q)
    BY <1>1, <1>2 DEF Removed
  <2> QED
    BY <1>2, <2>1, RemovedFinite, FS_AddElement
<1>3. CASE e.ev # "RemoveRemote"
  <2>1. Removed(Append(q, e)) = Removed(q)
    BY <1>1, <1>3 DEF Removed
  <2> QED
    BY <1>3, <2>1, RemovedFinite
<1> QED
  BY <1>2, <1>3

\* RemoteCallback::fire.
LEMMA FireEffect ==
  ASSUME NEW q \in Seq(Event), NEW h \in Handles
  PROVE  /\ Fired(q, h) \in Seq(Event)
         /\ Cardinality(Removed(Fired(q, h))) = Cardinality(Removed(q))
         /\ EventsOnce(q) => EventsOnce(Fired(q, h))
         /\ \A S : Has(Fired(q, h), S) <=> Has(q, S) \/ RunRemote(h) \in S
<1>1. RunRemote(h) \in Event /\ RunRemote(h).ev # "RemoveRemote"
  BY HandleTypes, EventKinds
<1>2. CASE Uv /\ RunRemote(h) \in Range(q)
  <2>1. Fired(q, h) = q /\ \A S : RunRemote(h) \in S => Has(q, S)
    BY <1>2 DEF Fired, Range, Has
  <2> QED
    BY <2>1
<1>3. CASE ~(Uv /\ RunRemote(h) \in Range(q))
  <2>1. Fired(q, h) = Append(q, RunRemote(h))
    BY <1>3 DEF Fired
  <2>2. Uv => \A g \in Handles : ~(Has(q, {RunRemote(g)}) /\ RunRemote(h) \in {RunRemote(g)})
    BY <1>3 DEF Has, Range
  <2>3. EventsOnce(q) => EventsOnce(Append(q, RunRemote(h)))
    BY <1>1, <2>2, PushHas DEF EventsOnce
  <2>4. \A S : Has(Append(q, RunRemote(h)), S) <=> Has(q, S) \/ RunRemote(h) \in S
    BY <1>1, PushHas
  <2>5. Cardinality(Removed(Append(q, RunRemote(h)))) = Cardinality(Removed(q))
    BY <1>1, PushRemoved, RemovedFinite
  <2> QED
    BY <1>1, <2>1, <2>3, <2>4, <2>5
<1> QED
  BY <1>2, <1>3

\* Dropping a handle makes one more removal, and takes away the callback of
\* that handle only.
LEMMA DropEffect ==
  ASSUME NEW q \in Seq(Event), NEW h \in Handles, EventsOnce(q)
  PROVE  /\ Dropped(q, h) \in Seq(Event)
         /\ Cardinality(Removed(Dropped(q, h))) = Cardinality(Removed(q)) + 1
         /\ EventsOnce(Dropped(q, h))
         /\ Uv => \A g \in Handles : Has(Dropped(q, h), {RunRemote(g)})
                                        => g # h /\ Has(q, {RunRemote(g)})
         /\ ~Uv => Dropped(q, h) = Append(q, RemoveRemote(h))
         /\ Dropped(q, h) # <<>>
<1>1. /\ RemoveRemote(h) \in Event /\ RemoveRemote(h).ev = "RemoveRemote"
      /\ \A g : RemoveRemote(h) # RunRemote(g)
  BY HandleTypes, EventKinds
<1>2. CASE Uv /\ RunRemote(h) \in Range(q)
  <2> DEFINE r == [i \in DOMAIN q |-> IF q[i] = RunRemote(h) THEN RemoveRemote(h) ELSE q[i]]
  <2>1. Dropped(q, h) = r
    BY <1>2 DEF Dropped
  <2>2. PICK k \in DOMAIN q : q[k] = RunRemote(h)
    BY <1>2 DEF Range
  <2>3. \A i \in DOMAIN q : q[i] = RunRemote(h) => i = k
    BY <1>2, <2>2 DEF EventsOnce, Once
  <2>4. /\ DOMAIN r = DOMAIN q /\ r[k] = RemoveRemote(h)
        /\ \A i \in DOMAIN q : i # k => r[i] = q[i]
    BY <2>2, <2>3
  <2>5. r \in Seq(Event)
    BY <2>1, EventQueueTypes
  <2> HIDE DEF r
  <2>6. Removed(r) = Removed(q) \cup {k} /\ k \notin Removed(q)
    BY <1>1, <2>2, <2>4, EventKinds DEF Removed
  <2>7. Cardinality(Removed(r)) = Cardinality(Removed(q)) + 1
    BY <2>6, RemovedFinite, FS_AddElement
  <2>8. ASSUME NEW g \in Handles PROVE Once(r, {RunRemote(g)})
    <3>1. Once(q, {RunRemote(g)})
      BY <1>2 DEF EventsOnce
    <3>2. \A i \in DOMAIN q : r[i] = RunRemote(g) => q[i] = RunRemote(g)
      BY <1>1, <2>4
    <3> QED
      BY <2>4, <3>1, <3>2 DEF Once
  <2>9. ASSUME NEW g \in Handles, Has(r, {RunRemote(g)})
         PROVE  g # h /\ Has(q, {RunRemote(g)})
    <3>1. PICK i \in DOMAIN q : r[i] = RunRemote(g)
      BY <2>4, <2>9 DEF Has
    <3>2. q[i] = RunRemote(g) /\ i # k
      BY <1>1, <2>4, <3>1
    <3> QED
      BY <2>3, <3>2 DEF Has
  <2>10. r # <<>>
    BY <2>2, <2>4
  <2> QED
    BY <1>2, <2>1, <2>5, <2>7, <2>8, <2>9, <2>10 DEF EventsOnce
<1>3. CASE ~(Uv /\ RunRemote(h) \in Range(q))
  <2>1. Dropped(q, h) = Append(q, RemoveRemote(h))
    BY <1>3 DEF Dropped
  <2>2. Cardinality(Removed(Append(q, RemoveRemote(h)))) = Cardinality(Removed(q)) + 1
    BY <1>1, PushRemoved
  <2>3. ASSUME NEW g
        PROVE  /\ Has(Append(q, RemoveRemote(h)), {RunRemote(g)}) <=> Has(q, {RunRemote(g)})
               /\ Once(q, {RunRemote(g)}) => Once(Append(q, RemoveRemote(h)), {RunRemote(g)})
    <3>1. RemoveRemote(h) \notin {RunRemote(g)}
      BY <1>1
    <3> QED
      BY <1>1, <3>1, PushHas
  <2>4. Append(q, RemoveRemote(h)) # <<>> /\ Append(q, RemoveRemote(h)) \in Seq(Event)
    BY <1>1, AppendProperties
  <2>5. Uv => ~Has(q, {RunRemote(h)})
    BY <1>3 DEF Has, Range
  <2> QED
    BY <2>1, <2>2, <2>3, <2>4, <2>5 DEF EventsOnce
<1> QED
  BY <1>2, <1>3

\* Two finite sets that a renaming maps to each other are of one size.
LEMMA SameSize ==
  ASSUME NEW S, NEW T, IsFiniteSet(S), NEW f \in [S -> T],
         \A a, b \in S : f[a] = f[b] => a = b,
         \A t \in T : \E s \in S : f[s] = t
  PROVE  IsFiniteSet(T) /\ Cardinality(T) = Cardinality(S)
<1>1. f \in Bijection(S, T)
  BY Fun_IsBij
<1>2. ExistsBijection(S, T)
  BY <1>1 DEF ExistsBijection
<1> QED
  BY <1>2, FS_Bijection

\* The loop takes one event out of the queue.
LEMMA TakeEffect ==
  ASSUME NEW q \in Seq(Event), NEW i \in DOMAIN q
  PROVE  /\ RemoveAt(q, i) \in Seq(Event)
         /\ Cardinality(Removed(RemoveAt(q, i))) =
              Cardinality(Removed(q)) - (IF q[i].ev = "RemoveRemote" THEN 1 ELSE 0)
         /\ EventsOnce(q) => EventsOnce(RemoveAt(q, i))
         /\ \A S : Has(RemoveAt(q, i), S) => Has(q, S)
         /\ \A S : Has(q, S) /\ q[i] \notin S => Has(RemoveAt(q, i), S)
         /\ Len(RemoveAt(q, i)) = Len(q) - 1
         /\ i < Len(q) => RemoveAt(q, i)[Len(q) - 1] = q[Len(q)]
<1> DEFINE r == RemoveAt(q, i)
           p(j) == IF j < i THEN j ELSE j + 1
<1>1. i \in 1 .. Len(q) /\ Len(q) \in Nat /\ DOMAIN q = 1 .. Len(q)
  BY LenProperties
<1>2. r \in Seq(Event)
  BY RemoveAtTypes
<1>3. /\ Len(r) = Len(q) - 1 /\ DOMAIN r = 1 .. (Len(q) - 1)
      /\ \A j \in 1 .. (Len(q) - 1) : r[j] = q[p(j)]
  <2> DEFINE a == SubSeq(q, 1, i - 1)
             b == SubSeq(q, i + 1, Len(q))
  <2>1. /\ a \in Seq(Event) /\ Len(a) = i - 1
        /\ \A j \in 1 .. (i - 1) : a[j] = q[j]
    <3>1. \A j \in 1 .. (i - 1) : j \in 1 .. Len(q)
      BY <1>1
    <3> QED
      BY <1>1, <3>1, SubSeqProperties
  <2>2. /\ b \in Seq(Event) /\ Len(b) = Len(q) - i
        /\ \A j \in 1 .. (Len(q) - i) : b[j] = q[i + j]
    BY <1>1, SubSeqProperties
  <2>3. r = a \o b
    BY DEF RemoveAt
  <2> HIDE DEF a, b, r
  <2>4. /\ Len(r) = Len(a) + Len(b)
        /\ \A j \in 1 .. (Len(a) + Len(b)) : r[j] = IF j <= Len(a) THEN a[j] ELSE b[j - Len(a)]
    BY <2>1, <2>2, <2>3, ConcatProperties
  <2>5. Len(r) = Len(q) - 1
    BY <1>1, <2>1, <2>2, <2>4
  <2>6. DOMAIN r = 1 .. (Len(q) - 1)
    BY <1>2, <2>5, LenProperties
  <2>7. ASSUME NEW j \in 1 .. (Len(q) - 1) PROVE r[j] = q[p(j)]
    <3>1. CASE j < i
      BY <1>1, <2>1, <2>2, <2>4, <3>1
    <3>2. CASE ~(j < i)
      <4>1. r[j] = b[j - (i - 1)] /\ j - (i - 1) \in 1 .. (Len(q) - i)
        BY <1>1, <2>1, <2>2, <2>4, <3>2
      <4>2. b[j - (i - 1)] = q[i + (j - (i - 1))] /\ i + (j - (i - 1)) = j + 1
        BY <1>1, <2>2, <4>1
      <4> QED
        BY <3>2, <4>1, <4>2
    <3> QED
      BY <3>1, <3>2
  <2> QED
    BY <2>5, <2>6, <2>7
<1> HIDE DEF r
<1>4. /\ \A j \in DOMAIN r : p(j) \in DOMAIN q /\ p(j) # i /\ r[j] = q[p(j)]
      /\ \A j, k \in DOMAIN r : p(j) = p(k) => j = k
      /\ \A k \in DOMAIN q : k # i => \E j \in DOMAIN r : p(j) = k
  <2>1. \A j \in DOMAIN r : p(j) \in DOMAIN q /\ p(j) # i /\ r[j] = q[p(j)]
    BY <1>1, <1>3
  <2>2. \A j, k \in DOMAIN r : p(j) = p(k) => j = k
    BY <1>1, <1>3
  <2>3. ASSUME NEW k \in DOMAIN q, k # i PROVE \E j \in DOMAIN r : p(j) = k
    <3>1. CASE k < i
      BY <1>1, <1>3, <3>1
    <3>2. CASE k > i
      <4>1. k - 1 \in DOMAIN r /\ p(k - 1) = k
        BY <1>1, <1>3, <3>2
      <4> QED
        BY <4>1
    <3> QED
      BY <1>1, <2>3, <3>1, <3>2
  <2> QED
    BY <2>1, <2>2, <2>3
<1>5. i < Len(q) => r[Len(q) - 1] = q[Len(q)]
  BY <1>1, <1>3
<1> HIDE DEF p
<1>6. Cardinality(Removed(r)) = Cardinality(Removed(q)) - (IF q[i].ev = "RemoveRemote" THEN 1 ELSE 0)
  <2> DEFINE f == [j \in Removed(r) |-> p(j)]
             R == Removed(r)
             T == Removed(q) \ {i}
  <2>1. f \in [R -> T]
    BY <1>4 DEF Removed
  <2>2. \A j, k \in R : f[j] = f[k] => j = k
    BY <1>4 DEF Removed
  <2>3. \A k \in T : \E j \in R : f[j] = k
    BY <1>4 DEF Removed
  <2>4. IsFiniteSet(Removed(r)) /\ IsFiniteSet(Removed(q)) /\ Cardinality(Removed(q)) \in Nat
    BY <1>2, RemovedFinite
  <2>5. IsFiniteSet(R)
    BY <2>4
  <2> HIDE DEF f, R, T
  <2>6. Cardinality(T) = Cardinality(R)
    BY <2>1, <2>2, <2>3, <2>5, SameSize
  <2>7. Cardinality(Removed(q) \ {i}) = Cardinality(Removed(r))
    BY <2>6 DEF R, T
  <2>8. i \in Removed(q) <=> q[i].ev = "RemoveRemote"
    BY DEF Removed
  <2>9. Cardinality(Removed(q) \ {i}) =
          IF i \in Removed(q) THEN Cardinality(Removed(q)) - 1 ELSE Cardinality(Removed(q))
    BY <2>4, FS_RemoveElement
  <2> QED
    BY <2>4, <2>7, <2>8, <2>9
<1>7. ASSUME NEW S, Once(q, S) PROVE Once(r, S)
  BY <1>4, <1>7 DEF Once
<1>8. \A S : Has(r, S) => Has(q, S)
  BY <1>4 DEF Has
<1>9. ASSUME NEW S, Has(q, S), q[i] \notin S PROVE Has(r, S)
  <2>1. PICK k \in DOMAIN q : q[k] \in S
    BY <1>9 DEF Has
  <2>2. PICK j \in DOMAIN r : p(j) = k
    BY <1>4, <1>9, <2>1
  <2>3. r[j] = q[k]
    BY <1>4, <2>2
  <2> QED
    BY <2>1, <2>3 DEF Has
<1> QED
  BY <1>2, <1>3, <1>5, <1>6, <1>7, <1>8, <1>9 DEF r, EventsOnce

-------------------------------------------------------------------------------
(* The ledger.  A handle of a scheduler is in the pool, with the caller of   *)
(* spawn_sched, in the sleeper list, a friend's, a task's home, a task's way *)
(* back, or in a send that will drop it.                                     *)

Flag(p) == IF p THEN 1 ELSE 0

PoolHeld(s) == \E j \in DOMAIN pool : /\ pool[j] = s
                                      /\ ~(opc \in {"join", "done"} \/ (opc = "send" /\ j < oi))
Friends(s)  == {q \in Scheds : Friend[q] = s /\ pc[q] # "stopped"}
Homes(s)    == {t \in Tasks : home[t] = s}
Backs(s)    == {t \in Tasks : thandle[t] = s}
Sends(s)    == {th \in Threads : out[th].to = s /\ out[th].last}

PoolN(s)    == Flag(PoolHeld(s))
UserN(s)    == Flag(s \in userh)
SleepN(s)   == Flag(s \in Range(sleepers))
FriendN(s)  == Cardinality(Friends(s))
HomeN(s)    == Cardinality(Homes(s))
BackN(s)    == Cardinality(Backs(s))
SentN(s)    == Cardinality(Sends(s))
RemovedN(s) == Cardinality(Removed(evq[s]))

\* The handles that somebody holds.
HeldN(s) == PoolN(s) + UserN(s) + SleepN(s) + FriendN(s) + HomeN(s) + BackN(s) + SentN(s)

Ledger == \A s \in Scheds : remotes[s] = HeldN(s) + RemovedN(s)

\* Schedulers in the pool have started, and those that have not, or have
\* stopped, have no handle and do nothing.
PoolInv ==
    /\ IsInjective(pool)
    /\ \A s \in Scheds :
        /\ (pc[s] # "off") <=> s \in Range(pool)
        /\ pc[s] \in {"off", "stopped"} => remotes[s] = 0 /\ ~idle[s]

EventInv == \A s \in Scheds : EventsOnce(evq[s])

\* Every part of the ledger is a number, and 0 only when nothing is held.
LEMMA Numbers ==
  ASSUME TypeOK, NEW s \in Scheds
  PROVE  /\ PoolN(s) \in Nat /\ UserN(s) \in Nat /\ SleepN(s) \in Nat
         /\ IsFiniteSet(Friends(s)) /\ FriendN(s) \in Nat
         /\ IsFiniteSet(Homes(s)) /\ HomeN(s) \in Nat
         /\ IsFiniteSet(Backs(s)) /\ BackN(s) \in Nat
         /\ IsFiniteSet(Sends(s)) /\ SentN(s) \in Nat
         /\ RemovedN(s) \in Nat
<1>1. IsFiniteSet(Threads)
  <2>1. Threads = (Scheds \cup {Owner}) \cup {Ext}
    BY DEF Threads
  <2>2. IsFiniteSet(Scheds \cup {Owner})
    BY SchedsAssumption, FS_AddElement
  <2> QED
    BY <2>1, <2>2, FS_AddElement
<1>2. IsFiniteSet(Friends(s)) /\ IsFiniteSet(Homes(s)) /\ IsFiniteSet(Backs(s)) /\ IsFiniteSet(Sends(s))
  BY <1>1, SchedsAssumption, FS_Subset DEF Friends, Homes, Backs, Sends
<1>3. evq[s] \in Seq(Event)
  BY DEF TypeOK, LoopOK
<1> QED
  BY <1>2, <1>3, RemovedFinite, FS_CardinalityType
     DEF PoolN, UserN, SleepN, FriendN, HomeN, BackN, SentN, RemovedN, Flag

\* What a step does not touch stays as it is.
LEMMA NumberFrames ==
  ASSUME NEW s \in Scheds
  PROVE  /\ UNCHANGED <<opc, oi, pool>> => PoolN(s)' = PoolN(s)
         /\ UNCHANGED userh => UserN(s)' = UserN(s)
         /\ UNCHANGED sleepers => SleepN(s)' = SleepN(s)
         /\ (\A q \in Scheds : pc'[q] = "stopped" <=> pc[q] = "stopped") => FriendN(s)' = FriendN(s)
         /\ UNCHANGED home => HomeN(s)' = HomeN(s)
         /\ UNCHANGED thandle => BackN(s)' = BackN(s)
         /\ UNCHANGED out => SentN(s)' = SentN(s)
         /\ UNCHANGED evq => RemovedN(s)' = RemovedN(s)
<1>1. UNCHANGED <<opc, oi, pool>> => PoolN(s)' = PoolN(s)
  BY DEF PoolN, PoolHeld
<1>2. UNCHANGED userh => UserN(s)' = UserN(s)
  BY DEF UserN
<1>3. UNCHANGED sleepers => SleepN(s)' = SleepN(s)
  BY DEF SleepN
<1>4. (\A q \in Scheds : pc'[q] = "stopped" <=> pc[q] = "stopped") => FriendN(s)' = FriendN(s)
  <2> SUFFICES ASSUME \A q \in Scheds : pc'[q] = "stopped" <=> pc[q] = "stopped"
               PROVE  Friends(s)' = Friends(s)
    BY DEF FriendN
  <2> QED
    BY DEF Friends
<1>5. UNCHANGED home => HomeN(s)' = HomeN(s)
  BY DEF HomeN, Homes
<1>6. UNCHANGED thandle => BackN(s)' = BackN(s)
  BY DEF BackN, Backs
<1>7. UNCHANGED out => SentN(s)' = SentN(s)
  BY DEF SentN, Sends
<1>8. UNCHANGED evq => RemovedN(s)' = RemovedN(s)
  BY DEF RemovedN
<1> QED
  BY <1>1, <1>2, <1>3, <1>4, <1>5, <1>6, <1>7, <1>8

\* A thread that is not in a send drops no handle.
LEMMA QuietSends ==
  ASSUME TypeOK, NEW th \in Threads, out[th].stage # "link"
  PROVE  ~out[th].last /\ out[th].to = None
<1>1. out[th] \in {NotSending("none"), NotSending("pick")}
  BY DEF TypeOK, MsgOK, Sending
<1> QED
  BY <1>1 DEF NotSending

\* A send that begins, with a handle that it keeps or that it will drop.
LEMMA SendLedger ==
  ASSUME TypeOK, NEW th \in Threads, out[th].stage # "link",
         NEW to, NEW x, NEW last, x.to = to, x.last = last, out' = [out EXCEPT ![th] = x]
  PROVE  /\ last = FALSE => \A s \in Scheds : SentN(s)' = SentN(s)
         /\ last = TRUE => \A s \in Scheds : SentN(s)' = IF s = to THEN SentN(s) + 1 ELSE SentN(s)
<1>1. \A s \in Scheds : th \notin Sends(s)
  BY QuietSends DEF Sends
<1>2. out'[th] = x /\ \A r \in Threads \ {th} : out'[r] = out[r]
  BY DEF TypeOK, MsgOK
<1>3. CASE last = FALSE
  <2>1. \A s \in Scheds : Sends(s)' = Sends(s)
    BY <1>1, <1>2, <1>3 DEF Sends
  <2> QED
    BY <1>3, <2>1 DEF SentN
<1>4. CASE last = TRUE
  <2>1. \A s \in Scheds : s # to => Sends(s)' = Sends(s)
    BY <1>1, <1>2, <1>4 DEF Sends
  <2>2. \A s \in Scheds : s = to => Sends(s)' = Sends(s) \cup {th}
    BY <1>1, <1>2, <1>4 DEF Sends
  <2>3. ASSUME NEW s \in Scheds, s = to PROVE SentN(s)' = SentN(s) + 1
    BY <1>1, <2>2, <2>3, Numbers, FS_AddElement DEF SentN
  <2> QED
    BY <1>4, <2>1, <2>3 DEF SentN
<1> QED
  BY <1>3, <1>4

\* A thread that goes quiet, or to look for a sleeper.
LEMMA QuietLedger ==
  ASSUME TypeOK, NEW th \in Threads, out[th].stage # "link", NEW st,
         out' = [out EXCEPT ![th] = NotSending(st)]
  PROVE  \A s \in Scheds : SentN(s)' = SentN(s)
<1>1. NotSending(st).to = None /\ NotSending(st).last = FALSE
  BY DEF NotSending
<1> QED
  BY <1>1, SendLedger

\* send_task_home hands the task's home handle to the send.
LEMMA AwayLedger ==
  ASSUME TypeOK, NEW inb, NEW s \in Scheds, Quiet(s), NEW t \in Tasks, SendAway(inb, s, t)
  PROVE  \A q \in Scheds : HomeN(q)' + SentN(q)' = HomeN(q) + SentN(q)
<1>1. s \in Threads /\ out[s].stage # "link"
  BY DEF Threads, Quiet
<1>2. CASE home[t] \in Scheds
  <2> DEFINE x == [stage |-> "link", to |-> home[t], msg |-> Msg("PinnedTask", t),
                   h |-> <<"temp", s>>, last |-> TRUE]
  <2>1. out' = [out EXCEPT ![s] = x] /\ x.to = home[t] /\ x.last = TRUE
    BY <1>2 DEF SendAway, Send
  <2> HIDE DEF x
  <2>2. \A q \in Scheds : SentN(q)' = IF q = home[t] THEN SentN(q) + 1 ELSE SentN(q)
    BY <1>1, <2>1, SendLedger
  <2>3. home' = [home EXCEPT ![t] = None] /\ None \notin Scheds
    BY <1>2, SchedsAssumption DEF SendAway, Threads
  <2>4. \A q \in Scheds : q # home[t] => Homes(q)' = Homes(q)
    BY <2>3 DEF Homes, TypeOK, TaskOK
  <2>5. \A q \in Scheds : q = home[t] => Homes(q)' = Homes(q) \ {t} /\ t \in Homes(q)
    BY <2>3 DEF Homes, TypeOK, TaskOK
  <2>6. ASSUME NEW q \in Scheds, q = home[t] PROVE HomeN(q)' = HomeN(q) - 1
    BY <2>5, <2>6, Numbers, FS_RemoveElement DEF HomeN
  <2>7. \A q \in Scheds : HomeN(q) \in Nat /\ SentN(q) \in Nat
    BY Numbers
  <2> QED
    BY <2>2, <2>4, <2>6, <2>7 DEF HomeN
<1>3. CASE home[t] \notin Scheds
  <2> DEFINE x == [stage |-> "link", to |-> Friend[s], msg |-> Msg("TaskFromFriend", t),
                   h |-> <<"friend", s>>, last |-> FALSE]
  <2>1. out' = [out EXCEPT ![s] = x] /\ x.to = Friend[s] /\ x.last = FALSE /\ UNCHANGED home
    BY <1>3 DEF SendAway, Send
  <2> HIDE DEF x
  <2>2. \A q \in Scheds : SentN(q)' = SentN(q)
    BY <1>1, <2>1, SendLedger
  <2> QED
    BY <2>1, <2>2, NumberFrames
<1> QED
  BY <1>2, <1>3

\* Every step keeps at most one pending callback of a handle when Uv.
LEMMA EventNext == TypeOK /\ EventInv /\ [Next]_vars => EventInv'
<1> SUFFICES ASSUME TypeOK, EventInv, [Next]_vars PROVE EventInv'
  OBVIOUS
<1>1. evq \in [Scheds -> Seq(Event)] /\ \A q \in Scheds : evq[q] \in Seq(Event) /\ EventsOnce(evq[q])
  BY DEF TypeOK, LoopOK, EventInv
<1>2. ASSUME NEW q \in Scheds, NEW h \in Handles
      PROVE  EventsOnce(Dropped(evq[q], h)) /\ Dropped(evq[q], h) \in Seq(Event)
  BY <1>1, DropEffect
<1>3. ASSUME NEW th \in Threads, LinkAndFire(th) PROVE EventInv'
  <2>1. out[th].h \in Handles
    BY <1>3 DEF LinkAndFire, TypeOK, MsgOK, Sending, NotSending
  <2>2. ASSUME NEW q \in Scheds
        PROVE  /\ EventsOnce(Fired(evq[q], out[th].h))
               /\ EventsOnce(Dropped(Fired(evq[q], out[th].h), out[th].h))
    <3>1. Fired(evq[q], out[th].h) \in Seq(Event) /\ EventsOnce(Fired(evq[q], out[th].h))
      BY <1>1, <2>1, FireEffect
    <3> QED
      BY <2>1, <3>1, DropEffect
  <2>3. \A q \in Scheds : \/ evq'[q] = evq[q]
                          \/ evq'[q] = Fired(evq[q], out[th].h)
                          \/ evq'[q] = Dropped(Fired(evq[q], out[th].h), out[th].h)
    BY <1>1, <1>3 DEF LinkAndFire
  <2> QED
    BY <1>1, <2>2, <2>3 DEF EventInv
<1>4. ASSUME NEW s \in Scheds, LoopEvent(s) PROVE EventInv'
  <2>1. PICK i \in DOMAIN evq[s] : evq' = [evq EXCEPT ![s] = RemoveAt(@, i)]
    BY <1>4 DEF LoopEvent
  <2>2. EventsOnce(RemoveAt(evq[s], i))
    BY <1>1, TakeEffect
  <2>3. \A q \in Scheds : evq'[q] = evq[q] \/ (q = s /\ evq'[q] = RemoveAt(evq[s], i))
    BY <1>1, <2>1
  <2> QED
    BY <1>1, <2>2, <2>3 DEF EventInv
<1>5. ASSUME NEW s \in Scheds, LoopExit(s) PROVE EventInv'
  <2>1. <<"friend", s>> \in Handles
    BY HandleTypes
  <2>2. \A q \in Scheds : evq'[q] = evq[q] \/ evq'[q] = Dropped(evq[q], <<"friend", s>>)
    BY <1>1, <1>5 DEF LoopExit
  <2> QED
    BY <1>1, <1>2, <2>1, <2>2 DEF EventInv
<1>6. ASSUME NEW s \in Scheds, DropUser(s) PROVE EventInv'
  <2>1. <<"user", None>> \in Handles
    BY HandleTypes
  <2>2. \A q \in Scheds : evq'[q] = evq[q] \/ evq'[q] = Dropped(evq[q], <<"user", None>>)
    BY <1>1, <1>6 DEF DropUser
  <2> QED
    BY <1>1, <1>2, <2>1, <2>2 DEF EventInv
<1>7. ASSUME NEW s \in Scheds, NEW t \in Tasks, Reap(s, t) PROVE EventInv'
  <2>1. <<"temp", s>> \in Handles /\ <<"task", t>> \in Handles
    BY HandleTypes
  <2> SUFFICES ASSUME NEW q \in Scheds PROVE EventsOnce(evq'[q])
    BY DEF EventInv
  <2> DEFINE q1 == IF home[t] = q THEN Dropped(evq[q], <<"temp", s>>) ELSE evq[q]
  <2>2. evq'[q] = IF thandle[t] = q THEN Dropped(q1, <<"task", t>>) ELSE q1
    BY <1>7 DEF Reap, DropAll
  <2>3. q1 \in Seq(Event) /\ EventsOnce(q1)
    BY <1>1, <1>2, <2>1
  <2> HIDE DEF q1
  <2>4. EventsOnce(Dropped(q1, <<"task", t>>))
    BY <2>1, <2>3, DropEffect
  <2> QED
    BY <2>2, <2>3, <2>4
<1>8. CASE UNCHANGED evq
  BY <1>8 DEF EventInv
<1>9. ASSUME NEW s \in Scheds, SchedStep(s) PROVE EventInv'
  <2>1. CASE ~(LinkAndFire(s) \/ LoopEvent(s) \/ LoopExit(s) \/ \E t \in Tasks : Reap(s, t))
    BY <1>8, <1>9, <2>1 DEF SchedStep, PickSleeper, LoopIdle, PinnedTask, TaskFromFriend, RunOnce,
       Wake, Shutdown, DrainSleepers, NewNeighbor, NoMessage, WorkOwn, WorkSteal, WorkNone,
       GoToSleep, FillSleeper, NotifyDone, loopv
  <2> QED
    BY <1>3, <1>4, <1>5, <1>7, <2>1 DEF Threads
<1>10. ASSUME NEW s \in Scheds, TaskStep(s) PROVE EventInv'
  BY <1>8, <1>10 DEF TaskStep, Bootstrap, YieldNow, Deschedule, Terminate, SpawnSibling, Reawaken, loopv
<1>11. ASSUME OwnerStep \/ UserStep \/ ExtStep PROVE EventInv'
  <2>1. CASE LinkAndFire(Owner) \/ LinkAndFire(Ext)
    BY <1>3, <2>1 DEF Threads
  <2>2. CASE \E s \in Scheds : DropUser(s)
    BY <1>6, <2>2
  <2>3. CASE ~(LinkAndFire(Owner) \/ LinkAndFire(Ext) \/ \E s \in Scheds : DropUser(s))
    BY <1>8, <1>11, <2>3 DEF OwnerStep, UserStep, ExtStep, SendNewNeighbor, StartSched, WaitForTasks,
       RecvDone, SendShutdown, JoinThreads, StartShutdown, Spawn, SpawnPinned, SpawnSched,
       ReawakenRemotely, loopv
  <2> QED
    BY <2>1, <2>2, <2>3
<1>12. CASE UNCHANGED vars \/ \E s \in Scheds, u \in Tasks : ReawakenFromLoop(s, u)
  BY <1>8, <1>12 DEF vars, loopv, ReawakenFromLoop
<1> QED
  BY <1>9, <1>10, <1>11, <1>12 DEF Next, Finished

\* libuv's merging of sends is respected throughout.
LEMMA EventInvariant == Spec => []EventInv
<1>1. Init => EventInv
  BY EmptyHas DEF Init, EventInv, EventsOnce
<1> QED
  BY <1>1, EventNext, TypeCorrect, PTL DEF Spec

\* A step that adds no scheduler, and that touches no loop which is not
\* running.
LEMMA PoolFrame ==
  ASSUME PoolInv, UNCHANGED pool,
         \A q \in Scheds : /\ pc'[q] = "off" <=> pc[q] = "off"
                           /\ \/ pc'[q] \notin {"off", "stopped"}
                              \/ remotes'[q] = 0 /\ ~idle'[q]
                              \/ /\ pc[q] \in {"off", "stopped"}
                                 /\ remotes'[q] = remotes[q] /\ idle'[q] = idle[q]
  PROVE  PoolInv'
<1>1. IsInjective(pool')
  BY DEF PoolInv
<1>2. ASSUME NEW q \in Scheds PROVE (pc'[q] # "off") <=> q \in Range(pool')
  BY <1>2 DEF PoolInv
<1>3. ASSUME NEW q \in Scheds, pc'[q] \in {"off", "stopped"} PROVE remotes'[q] = 0 /\ ~idle'[q]
  BY <1>3 DEF PoolInv
<1> QED
  BY <1>1, <1>2, <1>3 DEF PoolInv

\* A new scheduler joins the pool.
LEMMA PoolStart ==
  ASSUME TypeOK, PoolInv, StartSched
  PROVE  PoolInv'
<1>1. /\ newS \in Scheds /\ pc[newS] = "off" /\ pool \in Seq(Scheds) /\ newS \notin Range(pool)
      /\ pool' = Append(pool, newS)
  BY DEF StartSched, OwnerAt, TypeOK, PoolOK, PoolInv
<1>2. /\ DOMAIN pool = 1 .. Len(pool) /\ Len(pool) \in Nat
      /\ DOMAIN pool' = 1 .. (Len(pool) + 1)
      /\ \A i \in 1 .. Len(pool) : pool'[i] = pool[i]
      /\ pool'[Len(pool) + 1] = newS
  BY <1>1, AppendProperties, LenProperties
<1>3. IsInjective(pool')
  <2>1. \A i, j \in DOMAIN pool : pool[i] = pool[j] => i = j
    BY DEF PoolInv, IsInjective
  <2>2. \A i \in DOMAIN pool : pool[i] # newS
    BY <1>1 DEF Range
  <2> QED
    BY <1>2, <2>1, <2>2 DEF IsInjective
<1>4. \A q \in Scheds : q \in Range(pool') <=> q \in Range(pool) \/ q = newS
  BY <1>2 DEF Range
<1>5. \A q \in Scheds : q # newS => pc'[q] = pc[q] /\ remotes'[q] = remotes[q] /\ idle'[q] = idle[q]
  BY DEF StartSched, TypeOK, CtlOK, LoopOK
<1>6. pc'[newS] = "loop"
  BY <1>1 DEF StartSched, TypeOK, CtlOK
<1> QED
  BY <1>1, <1>3, <1>4, <1>5, <1>6 DEF PoolInv

\* Every step keeps the invariant of the pool.
LEMMA PoolNext == TypeOK /\ PoolInv /\ [Next]_vars => PoolInv'
<1> SUFFICES ASSUME TypeOK, PoolInv, [Next]_vars PROVE PoolInv'
  OBVIOUS
<1>1. /\ pc \in [Scheds -> PC] /\ remotes \in [Scheds -> Int] /\ idle \in [Scheds -> BOOLEAN]
  BY DEF TypeOK, CtlOK, LoopOK
<1>2. ASSUME NEW s \in Scheds, SchedStep(s) PROVE PoolInv'
  <2>1. UNCHANGED pool
    BY <1>2 DEF SchedStep, LinkAndFire, PickSleeper, LoopEvent, LoopIdle, LoopExit, PinnedTask,
       TaskFromFriend, RunOnce, Wake, Shutdown, DrainSleepers, NewNeighbor, NoMessage, WorkOwn,
       WorkSteal, WorkNone, GoToSleep, FillSleeper, NotifyDone, Reap, poolv
  <2>2. \A q \in Scheds \ {s} : remotes'[q] = remotes[q] /\ idle'[q] = idle[q]
    BY <1>1, <1>2 DEF SchedStep, LinkAndFire, PickSleeper, LoopEvent, LoopIdle, LoopExit, EnterSched,
       PinnedTask, TaskFromFriend, RunOnce, Wake, Shutdown, DrainSleepers, NewNeighbor, NoMessage,
       WorkOwn, WorkSteal, WorkNone, GoToSleep, FillSleeper, StopIdling, NotifyDone, Reap, loopv
  <2>3. CASE pc[s] \in {"off", "stopped"}
    <3>1. UNCHANGED <<remotes, idle>>
      BY <1>2, <2>3 DEF SchedStep, LinkAndFire, PickSleeper, LoopEvent, LoopIdle, LoopExit, InLoop,
         PinnedTask, TaskFromFriend, RunOnce, Wake, Shutdown, DrainSleepers, NewNeighbor, NoMessage,
         WorkOwn, WorkSteal, WorkNone, GoToSleep, FillSleeper, NotifyDone, Reap, Message, Working,
         loopv
    <3> QED
      BY <1>2, <2>1, <2>3, <3>1, SchedPlaces, PoolFrame DEF PoolInv
  <2>4. CASE pc[s] \notin {"off", "stopped"}
    <3>1. pc'[s] # "off" /\ (pc'[s] = "stopped" => LoopExit(s))
      BY <1>2, <2>4, SchedPlaces
    <3>2. LoopExit(s) => remotes'[s] = 0 /\ ~idle'[s]
      BY DEF LoopExit
    <3> QED
      BY <1>2, <2>1, <2>2, <2>4, <3>1, <3>2, SchedPlaces, PoolFrame DEF PoolInv
  <2> QED
    BY <2>3, <2>4
<1>3. ASSUME NEW s \in Scheds, TaskStep(s) PROVE PoolInv'
  <2>1. UNCHANGED pool
    BY <1>3 DEF TaskStep, Bootstrap, YieldNow, Deschedule, Terminate, SpawnSibling, Reawaken, poolv
  <2>2. \A q \in Scheds \ {s} : remotes'[q] = remotes[q] /\ idle'[q] = idle[q]
    BY <1>1, <1>3 DEF TaskStep, Bootstrap, YieldNow, Deschedule, Terminate, SpawnSibling, Reawaken,
       EnqueueTask, MakeTaskHandle, RunTask, loopv
  <2> QED
    BY <1>3, <2>1, <2>2, TurnPlaces, PoolFrame DEF PoolInv
<1>4. ASSUME NEW s \in Scheds, NEW u \in Tasks, ReawakenFromLoop(s, u) PROVE PoolInv'
  <2>1. UNCHANGED <<pool, remotes, idle>> /\ pc[s] = "loop" /\ ProcessTask(inbox, s, u, "loop")
    BY <1>4 DEF ReawakenFromLoop, InLoop, loopv, poolv
  <2> QED
    BY <2>1, ProcessPlaces, PoolFrame DEF PoolInv
<1>5. ASSUME OwnerStep \/ UserStep \/ ExtStep, ~StartSched PROVE PoolInv'
  <2>1. UNCHANGED <<pc, remotes, idle, pool>>
    BY <1>5 DEF OwnerStep, UserStep, ExtStep, LinkAndFire, SendNewNeighbor, WaitForTasks, RecvDone,
       SendShutdown, JoinThreads, StartShutdown, Spawn, SpawnPinned, SpawnSched, DropUser,
       ReawakenRemotely, ctlv, loopv, poolv
  <2> QED
    BY <2>1, PoolFrame DEF PoolInv
<1>6. CASE UNCHANGED vars
  BY <1>6, PoolFrame DEF PoolInv, vars, ctlv, loopv, poolv
<1> QED
  BY <1>2, <1>3, <1>4, <1>5, <1>6, PoolStart DEF Next, Finished

\* The invariant of the pool holds throughout.
LEMMA PoolInvariant == Spec => []PoolInv
<1>1. Init => PoolInv
  <2> SUFFICES ASSUME Init PROVE PoolInv
    OBVIOUS
  <2>1. pool = InitPool /\ IsInjective(pool)
    BY PoolAssumption DEF Init
  <2>2. ASSUME NEW s \in Scheds
        PROVE  /\ (pc[s] # "off") <=> s \in Range(InitPool)
               /\ pc[s] \in {"off", "stopped"} => remotes[s] = 0 /\ ~idle[s]
    BY DEF Init
  <2> QED
    BY <2>1, <2>2 DEF PoolInv
<1> QED
  BY <1>1, PoolNext, TypeCorrect, PTL DEF Spec

-------------------------------------------------------------------------------
(* Every step keeps the ledger: what one side gives up the other takes.      *)

\* The parts that are counts stay numbers.
LEMMA NumbersNext ==
  ASSUME NEW s \in Scheds
  PROVE  /\ PoolN(s)' \in Nat /\ UserN(s)' \in Nat /\ SleepN(s)' \in Nat /\ FriendN(s)' \in Nat
         /\ HomeN(s)' \in Nat /\ BackN(s)' \in Nat /\ SentN(s)' \in Nat
<1>1. IsFiniteSet(Threads)
  <2>1. Threads = (Scheds \cup {Owner}) \cup {Ext}
    BY DEF Threads
  <2>2. IsFiniteSet(Scheds \cup {Owner})
    BY SchedsAssumption, FS_AddElement
  <2> QED
    BY <2>1, <2>2, FS_AddElement
<1>2. IsFiniteSet(Friends(s)') /\ IsFiniteSet(Homes(s)') /\ IsFiniteSet(Backs(s)') /\ IsFiniteSet(Sends(s)')
  BY <1>1, SchedsAssumption, FS_Subset DEF Friends, Homes, Backs, Sends
<1> QED
  BY <1>2, FS_CardinalityType DEF PoolN, UserN, SleepN, FriendN, HomeN, BackN, SentN, Flag

\* No handle is made or dropped; one may pass from a task to a send.
LEMMA LedgerKept ==
  ASSUME TypeOK, Ledger, UNCHANGED <<remotes, userh, sleepers, thandle, evq>>,
         \A q \in Scheds : PoolN(q)' = PoolN(q),
         \A q \in Scheds : pc'[q] = "stopped" <=> pc[q] = "stopped",
         \A q \in Scheds : HomeN(q)' + SentN(q)' = HomeN(q) + SentN(q)
  PROVE  Ledger'
<1> SUFFICES ASSUME NEW q \in Scheds PROVE remotes'[q] = HeldN(q)' + RemovedN(q)'
  BY DEF Ledger
<1>1. /\ UserN(q)' = UserN(q) /\ SleepN(q)' = SleepN(q) /\ BackN(q)' = BackN(q)
      /\ RemovedN(q)' = RemovedN(q) /\ FriendN(q)' = FriendN(q)
  BY NumberFrames
<1>2. /\ PoolN(q) \in Nat /\ UserN(q) \in Nat /\ SleepN(q) \in Nat /\ FriendN(q) \in Nat
      /\ HomeN(q) \in Nat /\ BackN(q) \in Nat /\ SentN(q) \in Nat /\ RemovedN(q) \in Nat
      /\ HomeN(q)' \in Nat /\ SentN(q)' \in Nat
  BY Numbers, NumbersNext
<1>3. remotes'[q] = HeldN(q) + RemovedN(q)
  BY DEF Ledger
<1> QED
  BY <1>1, <1>2, <1>3 DEF HeldN

\* The same when no task's handle is concerned either.
LEMMA LedgerSame ==
  ASSUME TypeOK, Ledger, UNCHANGED <<remotes, userh, sleepers, home, thandle, evq>>,
         \A q \in Scheds : PoolN(q)' = PoolN(q),
         \A q \in Scheds : pc'[q] = "stopped" <=> pc[q] = "stopped",
         \A q \in Scheds : SentN(q)' = SentN(q)
  PROVE  Ledger'
  BY LedgerKept, NumberFrames

\* process_task: the task runs here, or goes away with its handle.
LEMMA ProcessLedger ==
  ASSUME TypeOK, NEW inb, NEW s \in Scheds, Quiet(s), NEW t \in Tasks, NEW next,
         ProcessTask(inb, s, t, next)
  PROVE  \A q \in Scheds : HomeN(q)' + SentN(q)' = HomeN(q) + SentN(q)
<1>1. CASE UNCHANGED <<out, home>>
  BY <1>1, NumberFrames
<1>2. CASE SendAway(inb, s, t)
  BY <1>2, AwayLedger
<1> QED
  BY <1>1, <1>2 DEF ProcessTask

\* A handle leaves the sleeper list with the Wake that is sent through it.
LEMMA PickLedger ==
  ASSUME TypeOK, SleeperOnce, NEW s \in Scheds, out[s].stage # "link", sleepers # <<>>,
         sleepers' = Tail(sleepers), NEW h,
         Send(inbox, s, Head(sleepers), Msg("Wake", None), h, TRUE)
  PROVE  \A q \in Scheds : SleepN(q)' + SentN(q)' = SleepN(q) + SentN(q)
<1> DEFINE x == [stage |-> "link", to |-> Head(sleepers), msg |-> Msg("Wake", None),
                 h |-> h, last |-> TRUE]
<1>1. out' = [out EXCEPT ![s] = x] /\ x.to = Head(sleepers) /\ x.last = TRUE /\ s \in Threads
  BY DEF Send, Threads
<1> HIDE DEF x
<1>2. \A q \in Scheds : SentN(q)' = IF q = Head(sleepers) THEN SentN(q) + 1 ELSE SentN(q)
  BY <1>1, SendLedger
<1>3. sleepers \in Seq(Scheds) /\ \A i, j \in DOMAIN sleepers : sleepers[i] = sleepers[j] => i = j
  BY DEF TypeOK, SleepOK, SleeperOnce, IsInjective
<1>4. ASSUME NEW q \in Scheds
      PROVE  /\ q \in Range(sleepers') => q \in Range(sleepers) /\ q # Head(sleepers)
             /\ q \in Range(sleepers) => q = Head(sleepers) \/ q \in Range(sleepers')
             /\ q = Head(sleepers) => q \in Range(sleepers)
  <2>1. Once(sleepers, {q})
    BY <1>3 DEF Once
  <2>2. /\ Head(sleepers) \in {q} => Has(sleepers, {q}) /\ ~Has(Tail(sleepers), {q})
        /\ Head(sleepers) \notin {q} => (Has(Tail(sleepers), {q}) <=> Has(sleepers, {q}))
    BY <1>3, <2>1, PopHas
  <2>3. /\ q \in Range(sleepers) <=> Has(sleepers, {q})
        /\ q \in Range(Tail(sleepers)) <=> Has(Tail(sleepers), {q})
    BY DEF Has, Range
  <2> QED
    BY <2>2, <2>3
<1>5. \A q \in Scheds : SentN(q) \in Nat /\ SleepN(q) \in Nat
  BY Numbers
<1>6. ASSUME NEW q \in Scheds
      PROVE  SleepN(q)' = IF q = Head(sleepers) THEN SleepN(q) - 1 ELSE SleepN(q)
  BY <1>4 DEF SleepN, Flag
<1> QED
  BY <1>2, <1>5, <1>6

\* A send ends: the handle it is to drop becomes a removal.
LEMMA LinkLedger ==
  ASSUME TypeOK, EventInv, Ledger, NEW th \in Threads, LinkAndFire(th)
  PROVE  Ledger'
<1> DEFINE to == out[th].to
           h == out[th].h
<1>1. out[th].stage = "link" /\ h \in Handles /\ out[th].last \in BOOLEAN
  BY DEF LinkAndFire, TypeOK, MsgOK, Sending, NotSending
<1> SUFFICES ASSUME NEW q \in Scheds PROVE remotes'[q] = HeldN(q)' + RemovedN(q)'
  BY DEF Ledger
<1>2. evq[q] \in Seq(Event) /\ EventsOnce(evq[q])
  BY DEF TypeOK, LoopOK, EventInv
<1>3. /\ Fired(evq[q], h) \in Seq(Event) /\ EventsOnce(Fired(evq[q], h))
      /\ Cardinality(Removed(Fired(evq[q], h))) = Cardinality(Removed(evq[q]))
  BY <1>1, <1>2, FireEffect
<1>4. Cardinality(Removed(Dropped(Fired(evq[q], h), h))) = Cardinality(Removed(Fired(evq[q], h))) + 1
  BY <1>1, <1>3, DropEffect
<1>5. evq'[q] = IF q # to THEN evq[q]
                ELSE IF out[th].last THEN Dropped(Fired(evq[q], h), h) ELSE Fired(evq[q], h)
  BY DEF LinkAndFire, TypeOK, LoopOK
<1>6. RemovedN(q)' = IF q = to /\ out[th].last THEN RemovedN(q) + 1 ELSE RemovedN(q)
  BY <1>1, <1>3, <1>4, <1>5 DEF RemovedN
<1>7. Sends(q)' = Sends(q) \ {th} /\ (th \in Sends(q) <=> q = to /\ out[th].last)
  <2>1. out'[th] = NotSending("none") /\ \A r \in Threads \ {th} : out'[r] = out[r]
    BY DEF LinkAndFire, TypeOK, MsgOK
  <2>2. NotSending("none").to # q
    BY SchedsAssumption DEF NotSending, Threads
  <2> QED
    BY <2>1, <2>2 DEF Sends
<1>8. IsFiniteSet(Sends(q)) /\ SentN(q) \in Nat
  BY Numbers
<1>9. SentN(q)' = IF th \in Sends(q) THEN SentN(q) - 1 ELSE SentN(q)
  BY <1>7, <1>8, FS_RemoveElement DEF SentN
<1>10. /\ PoolN(q)' = PoolN(q) /\ UserN(q)' = UserN(q) /\ SleepN(q)' = SleepN(q)
       /\ FriendN(q)' = FriendN(q) /\ HomeN(q)' = HomeN(q) /\ BackN(q)' = BackN(q)
       /\ remotes'[q] = remotes[q]
  BY NumberFrames DEF LinkAndFire, ctlv, sleepv, taskv, poolv
<1>11. /\ PoolN(q) \in Nat /\ UserN(q) \in Nat /\ SleepN(q) \in Nat /\ FriendN(q) \in Nat
       /\ HomeN(q) \in Nat /\ BackN(q) \in Nat /\ RemovedN(q) \in Nat
  BY Numbers
<1>12. remotes[q] = HeldN(q) + RemovedN(q)
  BY DEF Ledger
<1> QED
  BY <1>6, <1>7, <1>8, <1>9, <1>10, <1>11, <1>12 DEF HeldN

\* A handle leaves the list of sleepers, or no handle moves.
LEMMA SleeperLedger ==
  ASSUME TypeOK, SleeperOnce, Ledger, NEW s \in Scheds, PickSleeper(s) \/ DrainSleepers(s)
  PROVE  Ledger'
<1>1. out[s].stage # "link" /\ s \in Threads
  BY DEF PickSleeper, DrainSleepers, Quiet, Threads
<1>2. /\ UNCHANGED <<remotes, userh, home, thandle, evq, opc, oi, pool>>
      /\ \A q \in Scheds : pc'[q] = "stopped" <=> pc[q] = "stopped"
  <2>1. UNCHANGED <<remotes, userh, home, thandle, evq, opc, oi, pool>>
    BY DEF PickSleeper, DrainSleepers, loopv, taskv, poolv
  <2>2. CASE PickSleeper(s)
    BY <2>1, <2>2 DEF PickSleeper, ctlv
  <2>3. CASE DrainSleepers(s)
    <3>1. UNCHANGED pc \/ GoOn(s, "keep_going")
      BY <2>3 DEF DrainSleepers, StopSleeping
    <3>2. pc[s] = "drain"
      BY <2>3 DEF DrainSleepers
    <3> QED
      BY <2>1, <3>1, <3>2, GoOnPlaces DEF TypeOK
  <2> QED
    BY <2>2, <2>3
<1>3. CASE NoneAsleep
  <2>1. UNCHANGED sleepers /\ (UNCHANGED out \/ out' = [out EXCEPT ![s] = NotSending("none")])
    BY <1>3 DEF PickSleeper, DrainSleepers, msgv
  <2>2. \A q \in Scheds : SentN(q)' = SentN(q)
    BY <1>1, <2>1, QuietLedger, NumberFrames
  <2> QED
    BY <1>2, <2>1, <2>2, NumberFrames, LedgerSame
<1>4. CASE ~NoneAsleep
  <2>1. /\ Send(inbox, s, Head(sleepers), Msg("Wake", None), <<"temp", s>>, TRUE)
        /\ sleepers' = Tail(sleepers) /\ sleepers # <<>>
    BY <1>4 DEF PickSleeper, DrainSleepers, NoneAsleep
  <2>2. \A q \in Scheds : SleepN(q)' + SentN(q)' = SleepN(q) + SentN(q)
    BY <1>1, <2>1, PickLedger
  <2> SUFFICES ASSUME NEW q \in Scheds PROVE remotes'[q] = HeldN(q)' + RemovedN(q)'
    BY DEF Ledger
  <2>3. /\ PoolN(q)' = PoolN(q) /\ UserN(q)' = UserN(q) /\ FriendN(q)' = FriendN(q)
        /\ HomeN(q)' = HomeN(q) /\ BackN(q)' = BackN(q) /\ RemovedN(q)' = RemovedN(q)
        /\ remotes'[q] = remotes[q]
    BY <1>2, NumberFrames
  <2>4. /\ PoolN(q) \in Nat /\ UserN(q) \in Nat /\ SleepN(q) \in Nat /\ FriendN(q) \in Nat
        /\ HomeN(q) \in Nat /\ BackN(q) \in Nat /\ SentN(q) \in Nat /\ RemovedN(q) \in Nat
        /\ SleepN(q)' \in Nat /\ SentN(q)' \in Nat
    BY Numbers, NumbersNext
  <2>5. remotes[q] = HeldN(q) + RemovedN(q)
    BY DEF Ledger
  <2> QED
    BY <2>2, <2>3, <2>4, <2>5 DEF HeldN
<1> QED
  BY <1>3, <1>4

\* The loop handles one event; a removal takes the handle off the count.
LEMMA EventLedger ==
  ASSUME TypeOK, Ledger, NEW s \in Scheds, LoopEvent(s)
  PROVE  Ledger'
<1>1. PICK i \in DOMAIN evq[s] :
        /\ evq' = [evq EXCEPT ![s] = RemoveAt(@, i)]
        /\ remotes' = [remotes EXCEPT ![s] = IF evq[s][i].ev = "RemoveRemote" THEN @ - 1 ELSE @]
  BY DEF LoopEvent
<1>2. Cardinality(Removed(RemoveAt(evq[s], i))) =
        Cardinality(Removed(evq[s])) - (IF evq[s][i].ev = "RemoveRemote" THEN 1 ELSE 0)
  BY TakeEffect DEF TypeOK, LoopOK
<1> SUFFICES ASSUME NEW q \in Scheds PROVE remotes'[q] = HeldN(q)' + RemovedN(q)'
  BY DEF Ledger
<1>3. RemovedN(q) \in Nat /\ remotes[q] \in Int
  BY Numbers DEF TypeOK, LoopOK
<1>4. /\ RemovedN(q)' = RemovedN(q) - (IF q = s /\ evq[s][i].ev = "RemoveRemote" THEN 1 ELSE 0)
      /\ remotes'[q] = remotes[q] - (IF q = s /\ evq[s][i].ev = "RemoveRemote" THEN 1 ELSE 0)
  <2>1. evq'[q] = IF q = s THEN RemoveAt(evq[s], i) ELSE evq[q]
    BY <1>1 DEF TypeOK, LoopOK
  <2>2. RemovedN(q)' = RemovedN(q) - (IF q = s /\ evq[s][i].ev = "RemoveRemote" THEN 1 ELSE 0)
    BY <1>2, <1>3, <2>1 DEF RemovedN
  <2>3. remotes'[q] = remotes[q] - (IF q = s /\ evq[s][i].ev = "RemoveRemote" THEN 1 ELSE 0)
    BY <1>1, <1>3 DEF TypeOK, LoopOK
  <2> QED
    BY <2>2, <2>3
<1>5. \A r \in Scheds : pc'[r] = "stopped" <=> pc[r] = "stopped"
  BY DEF LoopEvent, InLoop, EnterSched, TypeOK, CtlOK
<1>6. /\ PoolN(q)' = PoolN(q) /\ UserN(q)' = UserN(q) /\ SleepN(q)' = SleepN(q)
      /\ FriendN(q)' = FriendN(q) /\ HomeN(q)' = HomeN(q) /\ BackN(q)' = BackN(q)
      /\ SentN(q)' = SentN(q)
  BY <1>5, NumberFrames DEF LoopEvent, sleepv, msgv, taskv, poolv
<1>7. /\ PoolN(q) \in Nat /\ UserN(q) \in Nat /\ SleepN(q) \in Nat /\ FriendN(q) \in Nat
      /\ HomeN(q) \in Nat /\ BackN(q) \in Nat /\ SentN(q) \in Nat
  BY Numbers
<1>8. remotes[q] = HeldN(q) + RemovedN(q)
  BY DEF Ledger
<1> QED
  BY <1>3, <1>4, <1>6, <1>7, <1>8 DEF HeldN

\* The loop returns: the friend's handle becomes a removal.
LEMMA ExitLedger ==
  ASSUME TypeOK, EventInv, Ledger, NEW s \in Scheds, LoopExit(s)
  PROVE  Ledger'
<1> SUFFICES ASSUME NEW q \in Scheds PROVE remotes'[q] = HeldN(q)' + RemovedN(q)'
  BY DEF Ledger
<1>1. evq[q] \in Seq(Event) /\ EventsOnce(evq[q]) /\ <<"friend", s>> \in Handles
  BY HandleTypes DEF TypeOK, LoopOK, EventInv
<1>2. Cardinality(Removed(Dropped(evq[q], <<"friend", s>>))) = Cardinality(Removed(evq[q])) + 1
  BY <1>1, DropEffect
<1>3. evq'[q] = IF Friend[s] = q THEN Dropped(evq[q], <<"friend", s>>) ELSE evq[q]
  BY SchedsAssumption DEF LoopExit, TypeOK, LoopOK, Threads
<1>4. RemovedN(q)' = IF Friend[s] = q THEN RemovedN(q) + 1 ELSE RemovedN(q)
  BY <1>2, <1>3 DEF RemovedN
<1>5. Friends(q)' = Friends(q) \ {s} /\ (s \in Friends(q) <=> Friend[s] = q)
  BY DEF Friends, LoopExit, InLoop, TypeOK, CtlOK
<1>6. IsFiniteSet(Friends(q)) /\ FriendN(q) \in Nat
  BY Numbers
<1>7. FriendN(q)' = IF s \in Friends(q) THEN FriendN(q) - 1 ELSE FriendN(q)
  BY <1>5, <1>6, FS_RemoveElement DEF FriendN
<1>8. /\ PoolN(q)' = PoolN(q) /\ UserN(q)' = UserN(q) /\ SleepN(q)' = SleepN(q)
      /\ HomeN(q)' = HomeN(q) /\ BackN(q)' = BackN(q) /\ SentN(q)' = SentN(q)
      /\ remotes'[q] = remotes[q]
  BY NumberFrames DEF LoopExit, sleepv, msgv, taskv, poolv
<1>9. /\ PoolN(q) \in Nat /\ UserN(q) \in Nat /\ SleepN(q) \in Nat
      /\ HomeN(q) \in Nat /\ BackN(q) \in Nat /\ SentN(q) \in Nat /\ RemovedN(q) \in Nat
  BY Numbers
<1>10. remotes[q] = HeldN(q) + RemovedN(q)
  BY DEF Ledger
<1> QED
  BY <1>4, <1>5, <1>6, <1>7, <1>8, <1>9, <1>10 DEF HeldN

\* The caller of spawn_sched drops its handle.
LEMMA UserLedger ==
  ASSUME TypeOK, EventInv, Ledger, NEW s \in Scheds, DropUser(s)
  PROVE  Ledger'
<1> SUFFICES ASSUME NEW q \in Scheds PROVE remotes'[q] = HeldN(q)' + RemovedN(q)'
  BY DEF Ledger
<1>1. evq[q] \in Seq(Event) /\ EventsOnce(evq[q]) /\ <<"user", None>> \in Handles
  BY HandleTypes DEF TypeOK, LoopOK, EventInv
<1>2. Cardinality(Removed(Dropped(evq[q], <<"user", None>>))) = Cardinality(Removed(evq[q])) + 1
  BY <1>1, DropEffect
<1>3. evq'[q] = IF s = q THEN Dropped(evq[q], <<"user", None>>) ELSE evq[q]
  BY DEF DropUser, TypeOK, LoopOK
<1>4. RemovedN(q)' = IF s = q THEN RemovedN(q) + 1 ELSE RemovedN(q)
  BY <1>2, <1>3 DEF RemovedN
<1>5. UserN(q)' = (IF s = q THEN UserN(q) - 1 ELSE UserN(q)) /\ UserN(q) \in Nat
  BY DEF DropUser, UserN, Flag
<1>6. /\ PoolN(q)' = PoolN(q) /\ SleepN(q)' = SleepN(q) /\ FriendN(q)' = FriendN(q)
      /\ HomeN(q)' = HomeN(q) /\ BackN(q)' = BackN(q) /\ SentN(q)' = SentN(q)
      /\ remotes'[q] = remotes[q]
  BY NumberFrames DEF DropUser, ctlv, sleepv, msgv, taskv
<1>7. /\ PoolN(q) \in Nat /\ SleepN(q) \in Nat /\ FriendN(q) \in Nat
      /\ HomeN(q) \in Nat /\ BackN(q) \in Nat /\ SentN(q) \in Nat /\ RemovedN(q) \in Nat
  BY Numbers
<1>8. remotes[q] = HeldN(q) + RemovedN(q)
  BY DEF Ledger
<1> QED
  BY <1>4, <1>5, <1>6, <1>7, <1>8 DEF HeldN

\* A dead task is dropped with its home and its way back.
LEMMA ReapLedger ==
  ASSUME TypeOK, EventInv, Ledger, NEW s \in Scheds, NEW t \in Tasks, Reap(s, t)
  PROVE  Ledger'
<1>1. \A q \in Scheds : pc'[q] = "stopped" <=> pc[q] = "stopped"
  <2>1. SchedStep(s) /\ pc[s] = "reap"
    BY DEF SchedStep, Reap
  <2> QED
    BY <2>1, SchedPlaces DEF LoopExit, InLoop
<1> SUFFICES ASSUME NEW q \in Scheds PROVE remotes'[q] = HeldN(q)' + RemovedN(q)'
  BY DEF Ledger
<1> DEFINE q1 == IF home[t] = q THEN Dropped(evq[q], <<"temp", s>>) ELSE evq[q]
<1>2. /\ evq[q] \in Seq(Event) /\ EventsOnce(evq[q])
      /\ <<"temp", s>> \in Handles /\ <<"task", t>> \in Handles
  BY HandleTypes DEF TypeOK, LoopOK, EventInv
<1>3. IsFiniteSet(Removed(evq[q])) /\ Cardinality(Removed(evq[q])) \in Nat
  BY <1>2, RemovedFinite
<1>4. /\ Dropped(evq[q], <<"temp", s>>) \in Seq(Event) /\ EventsOnce(Dropped(evq[q], <<"temp", s>>))
      /\ Cardinality(Removed(Dropped(evq[q], <<"temp", s>>))) = Cardinality(Removed(evq[q])) + 1
  BY <1>2, DropEffect
<1>5. /\ q1 \in Seq(Event) /\ EventsOnce(q1)
      /\ Cardinality(Removed(q1)) = Cardinality(Removed(evq[q])) + Flag(home[t] = q)
  BY <1>2, <1>3, <1>4 DEF Flag
<1>6. evq'[q] = IF thandle[t] = q THEN Dropped(q1, <<"task", t>>) ELSE q1
  BY DEF Reap, DropAll
<1> HIDE DEF q1
<1>7. Cardinality(Removed(Dropped(q1, <<"task", t>>))) = Cardinality(Removed(q1)) + 1
  BY <1>2, <1>5, DropEffect
<1>8. RemovedN(q)' = RemovedN(q) + Flag(home[t] = q) + Flag(thandle[t] = q)
  BY <1>3, <1>5, <1>6, <1>7 DEF RemovedN, Flag
<1>9. /\ Homes(q)' = Homes(q) \ {t} /\ (t \in Homes(q) <=> home[t] = q)
      /\ Backs(q)' = Backs(q) \ {t} /\ (t \in Backs(q) <=> thandle[t] = q)
  <2>1. home' = [home EXCEPT ![t] = None] /\ thandle' = [thandle EXCEPT ![t] = None] /\ q # None
    BY SchedsAssumption DEF Reap, Threads
  <2> QED
    BY <2>1 DEF Homes, Backs, TypeOK, TaskOK
<1>10. /\ IsFiniteSet(Homes(q)) /\ HomeN(q) \in Nat /\ IsFiniteSet(Backs(q)) /\ BackN(q) \in Nat
  BY Numbers
<1>11. /\ HomeN(q)' = IF t \in Homes(q) THEN HomeN(q) - 1 ELSE HomeN(q)
       /\ BackN(q)' = IF t \in Backs(q) THEN BackN(q) - 1 ELSE BackN(q)
  BY <1>9, <1>10, FS_RemoveElement DEF HomeN, BackN
<1>12. /\ PoolN(q)' = PoolN(q) /\ UserN(q)' = UserN(q) /\ SleepN(q)' = SleepN(q)
       /\ FriendN(q)' = FriendN(q) /\ SentN(q)' = SentN(q) /\ remotes'[q] = remotes[q]
  BY <1>1, NumberFrames DEF Reap, sleepv, msgv, poolv
<1>13. /\ PoolN(q) \in Nat /\ UserN(q) \in Nat /\ SleepN(q) \in Nat /\ FriendN(q) \in Nat
       /\ SentN(q) \in Nat /\ RemovedN(q) \in Nat
  BY Numbers
<1>14. remotes[q] = HeldN(q) + RemovedN(q)
  BY DEF Ledger
<1>15. /\ HomeN(q)' = HomeN(q) - Flag(home[t] = q) /\ BackN(q)' = BackN(q) - Flag(thandle[t] = q)
       /\ Flag(home[t] = q) \in Nat /\ Flag(thandle[t] = q) \in Nat
  BY <1>9, <1>10, <1>11 DEF Flag
<1> QED
  BY <1>8, <1>10, <1>12, <1>13, <1>14, <1>15 DEF HeldN

\* A pinned task is given a handle of the scheduler that runs it.
LEMMA PinLedger ==
  ASSUME TypeOK, TaskInv, Ledger, NEW s \in Scheds, PinnedTask(s)
  PROVE  Ledger'
<1>1. inbox[s] # <<>> /\ Head(inbox[s]).msg.kind = "PinnedTask" /\ pc[s] # "stopped"
  BY DEF PinnedTask, Message
<1>2. PICK u \in Tasks : u = Arg(s)
  BY <1>1, PopTypes DEF TypeOK, TaskKinds, PinnedTask, Message
<1>3. s \in PinnedIn(inbox, u)
  BY <1>1, <1>2, PopTakes DEF TaskKinds
<1>4. home[u] \notin Scheds
  BY <1>3 DEF TaskInv, LifeOf
<1>5. /\ home' = [home EXCEPT ![u] = s] /\ remotes' = [remotes EXCEPT ![s] = @ + 1]
  BY <1>2 DEF PinnedTask
<1>6. \A q \in Scheds : pc'[q] = "stopped" <=> pc[q] = "stopped"
  BY <1>1 DEF PinnedTask, ResumeTask, TypeOK, CtlOK
<1> SUFFICES ASSUME NEW q \in Scheds PROVE remotes'[q] = HeldN(q)' + RemovedN(q)'
  BY DEF Ledger
<1>7. /\ q = s => Homes(q)' = Homes(q) \cup {u} /\ u \notin Homes(q)
      /\ q # s => Homes(q)' = Homes(q)
  BY <1>4, <1>5 DEF Homes, TypeOK, TaskOK
<1>8. IsFiniteSet(Homes(q)) /\ HomeN(q) \in Nat
  BY Numbers
<1>9. q = s => HomeN(q)' = HomeN(q) + 1
  BY <1>7, <1>8, FS_AddElement DEF HomeN
<1>10. HomeN(q)' = HomeN(q) + Flag(q = s)
  BY <1>7, <1>8, <1>9 DEF HomeN, Flag
<1>11. remotes'[q] = remotes[q] + Flag(q = s) /\ Flag(q = s) \in Nat
  BY <1>5 DEF TypeOK, LoopOK, Flag
<1>12. /\ PoolN(q)' = PoolN(q) /\ UserN(q)' = UserN(q) /\ SleepN(q)' = SleepN(q)
       /\ FriendN(q)' = FriendN(q) /\ SentN(q)' = SentN(q) /\ BackN(q)' = BackN(q)
       /\ RemovedN(q)' = RemovedN(q)
  BY <1>6, NumberFrames DEF PinnedTask, sleepv, poolv
<1>13. /\ PoolN(q) \in Nat /\ UserN(q) \in Nat /\ SleepN(q) \in Nat /\ FriendN(q) \in Nat
       /\ BackN(q) \in Nat /\ SentN(q) \in Nat /\ RemovedN(q) \in Nat
  BY Numbers
<1>14. remotes[q] = HeldN(q) + RemovedN(q)
  BY DEF Ledger
<1> QED
  BY <1>8, <1>10, <1>11, <1>12, <1>13, <1>14 DEF HeldN

\* A task that blocks for the first time makes its way back.
LEMMA BlockLedger ==
  ASSUME TypeOK, Ledger, NEW s \in Scheds, NEW t \in Tasks, Deschedule(s, t)
  PROVE  Ledger'
<1>1. \A q \in Scheds : pc'[q] = "stopped" <=> pc[q] = "stopped"
  <2>1. TaskStep(s)
    BY DEF TaskStep
  <2> QED
    BY <2>1, TurnPlaces
<1>2. UNCHANGED <<opc, oi, pool, userh, sleepers, home, evq>> /\ out[s].stage # "link" /\ s \in Threads
  BY DEF Deschedule, TaskTurn, Quiet, sleepv, poolv, Threads
<1>3. \A q \in Scheds : SentN(q)' = SentN(q)
  <2>1. UNCHANGED out \/ out' = [out EXCEPT ![s] = NotSending("pick")]
    BY DEF Deschedule, EnqueueTask
  <2> QED
    BY <1>2, <2>1, QuietLedger, NumberFrames
<1>4. CASE thandle[t] # None
  <2>1. UNCHANGED <<remotes, thandle>>
    BY <1>4 DEF Deschedule, MakeTaskHandle
  <2> QED
    BY <1>1, <1>2, <1>3, <2>1, NumberFrames, LedgerSame
<1>5. CASE thandle[t] = None
  <2>1. thandle' = [thandle EXCEPT ![t] = s] /\ remotes' = [remotes EXCEPT ![s] = @ + 1]
    BY <1>5 DEF Deschedule, MakeTaskHandle
  <2> SUFFICES ASSUME NEW q \in Scheds PROVE remotes'[q] = HeldN(q)' + RemovedN(q)'
    BY DEF Ledger
  <2>2. q # None
    BY SchedsAssumption DEF Threads
  <2>3. /\ q = s => Backs(q)' = Backs(q) \cup {t} /\ t \notin Backs(q)
        /\ q # s => Backs(q)' = Backs(q)
    BY <1>5, <2>1, <2>2 DEF Backs, TypeOK, TaskOK
  <2>4. IsFiniteSet(Backs(q)) /\ BackN(q) \in Nat
    BY Numbers
  <2>5. q = s => BackN(q)' = BackN(q) + 1
    BY <2>3, <2>4, FS_AddElement DEF BackN
  <2>6. BackN(q)' = BackN(q) + Flag(q = s)
    BY <2>3, <2>4, <2>5 DEF BackN, Flag
  <2>7. remotes'[q] = remotes[q] + Flag(q = s) /\ Flag(q = s) \in Nat
    BY <2>1 DEF TypeOK, LoopOK, Flag
  <2>8. /\ PoolN(q)' = PoolN(q) /\ UserN(q)' = UserN(q) /\ SleepN(q)' = SleepN(q)
        /\ FriendN(q)' = FriendN(q) /\ SentN(q)' = SentN(q) /\ HomeN(q)' = HomeN(q)
        /\ RemovedN(q)' = RemovedN(q)
    BY <1>1, <1>2, <1>3, NumberFrames
  <2>9. /\ PoolN(q) \in Nat /\ UserN(q) \in Nat /\ SleepN(q) \in Nat /\ FriendN(q) \in Nat
        /\ HomeN(q) \in Nat /\ SentN(q) \in Nat /\ RemovedN(q) \in Nat
    BY Numbers
  <2>10. remotes[q] = HeldN(q) + RemovedN(q)
    BY DEF Ledger
  <2> QED
    BY <2>4, <2>6, <2>7, <2>8, <2>9, <2>10 DEF HeldN
<1> QED
  BY <1>4, <1>5

\* A scheduler that goes to sleep puts a handle of its own on the list.
LEMMA SleepLedger ==
  ASSUME TypeOK, SleeperOnce, Ledger, NEW s \in Scheds, GoToSleep(s)
  PROVE  Ledger'
<1>1. \A q \in Scheds : pc'[q] = "stopped" <=> pc[q] = "stopped"
  BY DEF GoToSleep, StopIdling, TypeOK, CtlOK
<1>2. UNCHANGED <<opc, oi, pool, userh, home, thandle, evq, out>>
  BY DEF GoToSleep, msgv, taskv, poolv
<1>3. CASE sleepy[s] \/ nosleep[s]
  <2>1. UNCHANGED <<sleepers, remotes>>
    BY <1>3 DEF GoToSleep
  <2> QED
    BY <1>1, <1>2, <2>1, NumberFrames, LedgerSame
<1>4. CASE ~sleepy[s] /\ ~nosleep[s]
  <2>1. /\ sleepers' = Append(sleepers, s) /\ remotes' = [remotes EXCEPT ![s] = @ + 1]
        /\ sleepers \in Seq(Scheds) /\ s \notin Range(sleepers)
    BY <1>4 DEF GoToSleep, TypeOK, SleepOK, SleeperOnce
  <2> SUFFICES ASSUME NEW q \in Scheds PROVE remotes'[q] = HeldN(q)' + RemovedN(q)'
    BY DEF Ledger
  <2>2. q \in Range(sleepers') <=> q \in Range(sleepers) \/ q = s
    <3>1. Has(Append(sleepers, s), {q}) <=> Has(sleepers, {q}) \/ s \in {q}
      BY <2>1, PushHas
    <3>2. /\ q \in Range(sleepers) <=> Has(sleepers, {q})
          /\ q \in Range(Append(sleepers, s)) <=> Has(Append(sleepers, s), {q})
      BY DEF Has, Range
    <3> QED
      BY <2>1, <3>1, <3>2
  <2>3. SleepN(q)' = SleepN(q) + Flag(q = s) /\ SleepN(q) \in Nat
    BY <2>1, <2>2 DEF SleepN, Flag
  <2>4. remotes'[q] = remotes[q] + Flag(q = s) /\ Flag(q = s) \in Nat
    BY <2>1 DEF TypeOK, LoopOK, Flag
  <2>5. /\ PoolN(q)' = PoolN(q) /\ UserN(q)' = UserN(q) /\ BackN(q)' = BackN(q)
        /\ FriendN(q)' = FriendN(q) /\ SentN(q)' = SentN(q) /\ HomeN(q)' = HomeN(q)
        /\ RemovedN(q)' = RemovedN(q)
    BY <1>1, <1>2, NumberFrames
  <2>6. /\ PoolN(q) \in Nat /\ UserN(q) \in Nat /\ BackN(q) \in Nat /\ FriendN(q) \in Nat
        /\ HomeN(q) \in Nat /\ SentN(q) \in Nat /\ RemovedN(q) \in Nat
    BY Numbers
  <2>7. remotes[q] = HeldN(q) + RemovedN(q)
    BY DEF Ledger
  <2> QED
    BY <2>3, <2>4, <2>5, <2>6, <2>7 DEF HeldN
<1> QED
  BY <1>3, <1>4

\* Numbers that add up to nothing are 0.
LEMMA SumZero == \A a, b \in Nat : a + b \in Nat /\ (a + b = 0 => a = 0 /\ b = 0)
  OBVIOUS

\* The handles that are held are a number, 0 only when there are none.
LEMMA HeldZero ==
  ASSUME TypeOK, NEW q \in Scheds
  PROVE  /\ HeldN(q) \in Nat /\ RemovedN(q) \in Nat
         /\ HeldN(q) = 0 =>
              /\ PoolN(q) = 0 /\ UserN(q) = 0 /\ SleepN(q) = 0 /\ FriendN(q) = 0
              /\ HomeN(q) = 0 /\ BackN(q) = 0 /\ SentN(q) = 0
<1>1. /\ PoolN(q) \in Nat /\ UserN(q) \in Nat /\ SleepN(q) \in Nat /\ FriendN(q) \in Nat
      /\ HomeN(q) \in Nat /\ BackN(q) \in Nat /\ SentN(q) \in Nat /\ RemovedN(q) \in Nat
  BY Numbers
<1> DEFINE a == PoolN(q) + UserN(q)
           b == a + SleepN(q)
           c == b + FriendN(q)
           d == c + HomeN(q)
           e == d + BackN(q)
           f == e + SentN(q)
<1>2. HeldN(q) = f
  BY DEF HeldN
<1>3. a \in Nat /\ (a = 0 => PoolN(q) = 0 /\ UserN(q) = 0)
  BY <1>1, SumZero
<1> HIDE DEF a
<1>4. b \in Nat /\ (b = 0 => a = 0 /\ SleepN(q) = 0)
  BY <1>1, <1>3, SumZero
<1> HIDE DEF b
<1>5. c \in Nat /\ (c = 0 => b = 0 /\ FriendN(q) = 0)
  BY <1>1, <1>4, SumZero
<1> HIDE DEF c
<1>6. d \in Nat /\ (d = 0 => c = 0 /\ HomeN(q) = 0)
  BY <1>1, <1>5, SumZero
<1> HIDE DEF d
<1>7. e \in Nat /\ (e = 0 => d = 0 /\ BackN(q) = 0)
  BY <1>1, <1>6, SumZero
<1> HIDE DEF e
<1>8. f \in Nat /\ (f = 0 => e = 0 /\ SentN(q) = 0)
  BY <1>1, <1>7, SumZero
<1> HIDE DEF f
<1> QED
  BY <1>1, <1>2, <1>3, <1>4, <1>5, <1>6, <1>7, <1>8

\* When the loop counts no remote, there is no handle anywhere.
LEMMA NoHandle ==
  ASSUME TypeOK, Ledger, NEW q \in Scheds, remotes[q] = 0
  PROVE  /\ PoolN(q) = 0 /\ UserN(q) = 0 /\ SleepN(q) = 0 /\ FriendN(q) = 0
         /\ HomeN(q) = 0 /\ BackN(q) = 0 /\ SentN(q) = 0 /\ RemovedN(q) = 0
<1>1. HeldN(q) \in Nat /\ RemovedN(q) \in Nat /\ HeldN(q) + RemovedN(q) = 0
  BY HeldZero DEF Ledger
<1>2. HeldN(q) = 0 /\ RemovedN(q) = 0
  BY <1>1, SumZero
<1> QED
  BY <1>2, HeldZero

\* A scheduler that nobody had a handle of starts, with one in the pool and
\* one for the caller of spawn_sched.
LEMMA StartLedger ==
  ASSUME TypeOK, PoolInv, Ledger, StartSched
  PROVE  Ledger'
<1>1. /\ newS \in Scheds /\ pc[newS] = "off" /\ remotes[newS] = 0 /\ opc = "nn" /\ opc' = "open"
      /\ pool \in Seq(Scheds) /\ pool' = Append(pool, newS) /\ userh' = userh \cup {newS}
      /\ UNCHANGED <<sleepers, home, thandle, evq, out>>
  BY DEF StartSched, OwnerAt, TypeOK, PoolOK, PoolInv, sleepv, msgv, taskv
<1>2. \A q \in Scheds : pc'[q] = "stopped" <=> pc[q] = "stopped"
  BY <1>1 DEF StartSched, TypeOK, CtlOK
<1> SUFFICES ASSUME NEW q \in Scheds PROVE remotes'[q] = HeldN(q)' + RemovedN(q)'
  BY DEF Ledger
<1>3. /\ PoolN(q) \in Nat /\ UserN(q) \in Nat /\ SleepN(q) \in Nat /\ FriendN(q) \in Nat
      /\ HomeN(q) \in Nat /\ BackN(q) \in Nat /\ SentN(q) \in Nat /\ RemovedN(q) \in Nat
  BY Numbers
<1>4. remotes[q] = HeldN(q) + RemovedN(q)
  BY DEF Ledger
<1>5. /\ SleepN(q)' = SleepN(q) /\ BackN(q)' = BackN(q) /\ FriendN(q)' = FriendN(q)
      /\ SentN(q)' = SentN(q) /\ HomeN(q)' = HomeN(q) /\ RemovedN(q)' = RemovedN(q)
  BY <1>1, <1>2, NumberFrames
<1>6. /\ DOMAIN pool = 1 .. Len(pool) /\ Len(pool) \in Nat
      /\ DOMAIN pool' = 1 .. (Len(pool) + 1)
      /\ \A i \in 1 .. Len(pool) : pool'[i] = pool[i]
      /\ pool'[Len(pool) + 1] = newS
  BY <1>1, AppendProperties, LenProperties
<1>7. CASE q = newS
  <2>1. UserN(q)' = 1
    BY <1>1, <1>7 DEF UserN, Flag
  <2>2. PoolHeld(q)'
    BY <1>1, <1>6, <1>7 DEF PoolHeld
  <2>3. PoolN(q)' = 1 /\ remotes'[q] = 2
    BY <1>7, <2>2 DEF PoolN, Flag, StartSched, TypeOK, LoopOK
  <2>4. /\ SleepN(q) = 0 /\ FriendN(q) = 0 /\ HomeN(q) = 0 /\ BackN(q) = 0
        /\ SentN(q) = 0 /\ RemovedN(q) = 0
    BY <1>1, <1>7, NoHandle
  <2> QED
    BY <1>5, <2>1, <2>3, <2>4 DEF HeldN
<1>8. CASE q # newS
  <2>1. UserN(q)' = UserN(q)
    BY <1>1, <1>8 DEF UserN
  <2>2. PoolHeld(q)' <=> PoolHeld(q)
    BY <1>1, <1>6, <1>8 DEF PoolHeld
  <2>3. PoolN(q)' = PoolN(q) /\ remotes'[q] = remotes[q]
    BY <1>8, <2>2 DEF PoolN, Flag, StartSched, TypeOK, LoopOK
  <2> QED
    BY <1>3, <1>4, <1>5, <2>1, <2>3 DEF HeldN
<1> QED
  BY <1>7, <1>8

\* The pool's handle of a scheduler goes with the Shutdown sent through it.
LEMMA ShutdownLedger ==
  ASSUME TypeOK, PoolInv, Ledger, SendShutdown
  PROVE  Ledger'
<1>1. /\ opc = "send" /\ out[Owner].stage # "link" /\ Owner \in Threads
      /\ UNCHANGED <<pc, remotes, userh, sleepers, home, thandle, evq, pool>>
  BY DEF SendShutdown, OwnerAt, Quiet, Threads, ctlv, loopv, sleepv, taskv
<1>2. /\ pool \in Seq(Scheds) /\ DOMAIN pool = 1 .. Len(pool) /\ Len(pool) \in Nat /\ oi \in Nat
      /\ \A i, j \in DOMAIN pool : pool[i] = pool[j] => i = j
      /\ oi # 0
  BY LenProperties DEF TypeOK, PoolOK, PoolInv, IsInjective
<1>3. CASE ~(oi <= Len(pool))
  <2>1. opc' = "join" /\ UNCHANGED out
    BY <1>3 DEF SendShutdown, msgv
  <2>2. \A q \in Scheds : ~PoolHeld(q) /\ ~PoolHeld(q)'
    BY <1>1, <1>2, <1>3, <2>1 DEF PoolHeld
  <2>3. \A q \in Scheds : PoolN(q)' = PoolN(q)
    BY <2>2 DEF PoolN, Flag
  <2> QED
    BY <1>1, <2>1, <2>3, NumberFrames, LedgerSame
<1>4. CASE oi <= Len(pool)
  <2>1. /\ Send(inbox, Owner, pool[oi], Msg("Shutdown", None), <<"pool", None>>, TRUE)
        /\ oi' = oi + 1 /\ UNCHANGED opc /\ oi \in DOMAIN pool
    <3>1. oi \in DOMAIN pool
      BY <1>2, <1>4
    <3> QED
      BY <1>4, <3>1 DEF SendShutdown
  <2> DEFINE x == [stage |-> "link", to |-> pool[oi], msg |-> Msg("Shutdown", None),
                   h |-> <<"pool", None>>, last |-> TRUE]
  <2>2. out' = [out EXCEPT ![Owner] = x] /\ x.to = pool[oi] /\ x.last = TRUE
    BY <2>1 DEF Send
  <2> HIDE DEF x
  <2>3. \A q \in Scheds : SentN(q)' = IF q = pool[oi] THEN SentN(q) + 1 ELSE SentN(q)
    BY <1>1, <2>2, SendLedger
  <2> SUFFICES ASSUME NEW q \in Scheds PROVE remotes'[q] = HeldN(q)' + RemovedN(q)'
    BY DEF Ledger
  <2>4. PoolHeld(q) <=> \E j \in DOMAIN pool : pool[j] = q /\ j >= oi
    BY <1>1, <1>2 DEF PoolHeld
  <2>5. PoolHeld(q)' <=> \E j \in DOMAIN pool : pool[j] = q /\ j >= oi + 1
    BY <1>1, <1>2, <2>1 DEF PoolHeld
  <2>6. \A j \in DOMAIN pool : j >= oi <=> j = oi \/ j >= oi + 1
    BY <1>2
  <2>7. \A j \in DOMAIN pool : j >= oi + 1 => j # oi
    BY <1>2
  <2>8. /\ q = pool[oi] => PoolHeld(q) /\ ~PoolHeld(q)'
        /\ q # pool[oi] => (PoolHeld(q)' <=> PoolHeld(q))
    <3> HIDE DEF PoolHeld
    <3>1. ASSUME q = pool[oi] PROVE PoolHeld(q) /\ ~PoolHeld(q)'
      BY <1>2, <2>1, <2>4, <2>5, <2>6, <2>7, <3>1
    <3>2. ASSUME q # pool[oi] PROVE PoolHeld(q)' <=> PoolHeld(q)
      BY <1>2, <2>1, <2>4, <2>5, <2>6, <3>2
    <3> QED
      BY <3>1, <3>2
  <2>9. PoolN(q)' = IF q = pool[oi] THEN PoolN(q) - 1 ELSE PoolN(q)
    BY <2>8 DEF PoolN, Flag
  <2>10. /\ UserN(q)' = UserN(q) /\ SleepN(q)' = SleepN(q) /\ FriendN(q)' = FriendN(q)
         /\ HomeN(q)' = HomeN(q) /\ BackN(q)' = BackN(q) /\ RemovedN(q)' = RemovedN(q)
    BY <1>1, NumberFrames
  <2>11. /\ PoolN(q) \in Nat /\ UserN(q) \in Nat /\ SleepN(q) \in Nat /\ FriendN(q) \in Nat
         /\ HomeN(q) \in Nat /\ BackN(q) \in Nat /\ SentN(q) \in Nat /\ RemovedN(q) \in Nat
    BY Numbers
  <2>12. remotes'[q] = HeldN(q) + RemovedN(q)
    BY <1>1 DEF Ledger
  <2> QED
    BY <2>3, <2>9, <2>10, <2>11, <2>12 DEF HeldN
<1> QED
  BY <1>2, <1>3, <1>4

\* The other steps of the owner, of the program and of the native waker keep
\* every handle they send through.
LEMMA SendsKeepLedger ==
  ASSUME TypeOK, Ledger,
         \/ SendNewNeighbor \/ WaitForTasks \/ RecvDone \/ JoinThreads \/ StartShutdown
         \/ \E t \in Tasks : Spawn(t) \/ \E s \in Scheds : SpawnPinned(t, s)
         \/ \E s \in Scheds : SpawnSched(s)
         \/ \E u \in Tasks : ReawakenRemotely(u)
  PROVE  Ledger'
<1>1. UNCHANGED <<pc, remotes, userh, sleepers, home, thandle, evq, pool>>
  BY DEF SendNewNeighbor, WaitForTasks, RecvDone, JoinThreads, StartShutdown, Spawn, SpawnPinned,
     SpawnSched, ReawakenRemotely, ctlv, loopv, sleepv, taskv, poolv
<1>2. \A q \in Scheds : PoolN(q)' = PoolN(q)
  <2>1. /\ opc \in {"join", "done"} <=> opc' \in {"join", "done"}
        /\ (opc # "send" /\ (opc' = "send" => oi' = 1)) \/ UNCHANGED <<opc, oi>>
    BY DEF SendNewNeighbor, WaitForTasks, RecvDone, JoinThreads, StartShutdown, Spawn, SpawnPinned,
       SpawnSched, ReawakenRemotely, OwnerAt, poolv
  <2>2. \A j \in DOMAIN pool : j \in Nat /\ ~(j < 1)
    BY LenProperties DEF TypeOK, PoolOK
  <2>3. \A q \in Scheds : PoolHeld(q)' <=> PoolHeld(q)
    BY <1>1, <2>1, <2>2 DEF PoolHeld
  <2> QED
    BY <2>3 DEF PoolN, Flag
<1>3. \A q \in Scheds : SentN(q)' = SentN(q)
  <2>1. CASE UNCHANGED out
    BY <2>1, NumberFrames
  <2>2. ASSUME NEW th \in Threads, Quiet(th), NEW to, NEW m, NEW h, Send(inbox, th, to, m, h, FALSE)
        PROVE  \A q \in Scheds : SentN(q)' = SentN(q)
    <3> DEFINE x == [stage |-> "link", to |-> to, msg |-> m, h |-> h, last |-> FALSE]
    <3>1. out' = [out EXCEPT ![th] = x] /\ x.to = to /\ x.last = FALSE
      BY <2>2 DEF Send
    <3> HIDE DEF x
    <3>2. out[th].stage # "link"
      BY <2>2 DEF Quiet
    <3> QED
      BY <3>1, <3>2, SendLedger
  <2>3. \/ UNCHANGED out
        \/ Quiet(Owner) /\ \E to, m, h : Send(inbox, Owner, to, m, h, FALSE)
        \/ Quiet(Ext) /\ \E to, m, h : Send(inbox, Ext, to, m, h, FALSE)
    BY DEF SendNewNeighbor, WaitForTasks, RecvDone, JoinThreads, StartShutdown, Spawn, SpawnPinned,
       SpawnSched, ReawakenRemotely, OwnerAt, msgv
  <2> QED
    BY <2>1, <2>2, <2>3 DEF Threads
<1> QED
  BY <1>1, <1>2, <1>3, LedgerSame

\* One step of a scheduler's thread.
LEMMA LedgerSched ==
  ASSUME TypeOK, SleeperOnce, TaskInv, EventInv, Ledger, NEW s \in Scheds, SchedStep(s)
  PROVE  Ledger'
<1>1. CASE LoopExit(s)
  BY <1>1, ExitLedger
<1>2. CASE ~LoopExit(s)
  <2>1. \A q \in Scheds : pc'[q] = "stopped" <=> pc[q] = "stopped"
    BY <1>2, SchedPlaces
  <2>2. CASE \/ LoopIdle(s) \/ RunOnce(s) \/ Wake(s) \/ Shutdown(s) \/ NewNeighbor(s)
             \/ NoMessage(s) \/ WorkNone(s) \/ FillSleeper(s) \/ NotifyDone(s)
    <3>1. UNCHANGED <<remotes, userh, sleepers, home, thandle, evq, out, opc, oi, pool>>
      BY <2>2 DEF LoopIdle, RunOnce, Wake, Shutdown, NewNeighbor, NoMessage, WorkNone, FillSleeper,
         NotifyDone, loopv, sleepv, msgv, taskv, poolv
    <3> QED
      BY <2>1, <3>1, NumberFrames, LedgerSame
  <2>3. ASSUME NEW inb, NEW t \in Tasks, NEW next, Quiet(s), ProcessTask(inb, s, t, next),
               UNCHANGED <<remotes, userh, sleepers, thandle, evq, opc, oi, pool>>
        PROVE  Ledger'
    BY <2>1, <2>3, ProcessLedger, NumberFrames, LedgerKept
  <2>4. CASE TaskFromFriend(s)
    <3>1. Arg(s) \in Tasks /\ Quiet(s)
      BY <2>4, PopTypes DEF TaskFromFriend, Message, TypeOK, TaskKinds
    <3> QED
      BY <2>3, <2>4, <3>1 DEF TaskFromFriend, loopv, sleepv, poolv
  <2>5. CASE WorkOwn(s)
    <3>1. Last(wq[s]) \in Tasks /\ Quiet(s)
      BY <2>5, FrontLastTypes DEF WorkOwn, Working, TypeOK, WorkOK
    <3> QED
      BY <2>3, <2>5, <3>1 DEF WorkOwn, loopv, sleepv, poolv
  <2>6. CASE WorkSteal(s)
    <3>1. PICK v \in known[s] : wq[v] # <<>> /\ ProcessTask(inbox, s, Head(wq[v]), "msg2did")
      BY <2>6 DEF WorkSteal
    <3>2. Head(wq[v]) \in Tasks /\ Quiet(s)
      BY <2>6, <3>1, HeadTailProperties DEF WorkSteal, Working, TypeOK, WorkOK
    <3> QED
      BY <2>3, <2>6, <3>1, <3>2 DEF WorkSteal, loopv, sleepv, poolv
  <2> QED
    BY <1>2, <2>2, <2>4, <2>5, <2>6, LinkLedger, SleeperLedger, EventLedger, PinLedger, SleepLedger,
       ReapLedger DEF SchedStep, Threads
<1> QED
  BY <1>1, <1>2

\* One step of the running task.
LEMMA LedgerTask ==
  ASSUME TypeOK, Ledger, NEW s \in Scheds, TaskStep(s)
  PROVE  Ledger'
<1>1. PICK t \in Tasks :
        \/ Bootstrap(s, t) \/ YieldNow(s, t) \/ Deschedule(s, t) \/ Terminate(s, t)
        \/ \E u \in Tasks : SpawnSibling(s, t, u) \/ Reawaken(s, t, u)
  BY DEF TaskStep
<1>2. \A q \in Scheds : pc'[q] = "stopped" <=> pc[q] = "stopped"
  BY TurnPlaces
<1>3. Quiet(s) /\ s \in Threads /\ out[s].stage # "link"
  BY <1>1 DEF Bootstrap, YieldNow, Deschedule, Terminate, SpawnSibling, Reawaken, TaskTurn, Quiet, Threads
<1>4. CASE Bootstrap(s, t) \/ Terminate(s, t) \/ YieldNow(s, t)
  <2>1. /\ UNCHANGED <<remotes, userh, sleepers, home, thandle, evq, opc, oi, pool>>
        /\ UNCHANGED out \/ out' = [out EXCEPT ![s] = NotSending("pick")]
    BY <1>4 DEF Bootstrap, Terminate, YieldNow, EnqueueTask, loopv, sleepv, msgv, poolv
  <2>2. \A q \in Scheds : SentN(q)' = SentN(q)
    BY <1>3, <2>1, QuietLedger, NumberFrames
  <2> QED
    BY <1>2, <2>1, <2>2, NumberFrames, LedgerSame
<1>5. ASSUME NEW u \in Tasks, SpawnSibling(s, t, u) \/ Reawaken(s, t, u) PROVE Ledger'
  <2>1. UNCHANGED <<remotes, userh, sleepers, thandle, evq, opc, oi, pool>> /\ RunTask(s, t, u)
    BY <1>5 DEF SpawnSibling, Reawaken, sleepv, poolv
  <2>2. CASE EnqueueTask(s, t) /\ UNCHANGED home
    <3>1. \A q \in Scheds : SentN(q)' = SentN(q)
      BY <1>3, <2>2, QuietLedger DEF EnqueueTask
    <3> QED
      BY <1>2, <2>1, <2>2, <3>1, NumberFrames, LedgerSame
  <2>3. CASE SendAway(inbox, s, u)
    BY <1>2, <1>3, <2>1, <2>3, AwayLedger, NumberFrames, LedgerKept
  <2> QED
    BY <2>1, <2>2, <2>3 DEF RunTask
<1> QED
  BY <1>1, <1>4, <1>5, BlockLedger

\* Every step keeps the ledger.
LEMMA LedgerNext ==
  TypeOK /\ SleepInv /\ TaskInv /\ PoolInv /\ EventInv /\ Ledger /\ [Next]_vars => Ledger'
<1> SUFFICES ASSUME TypeOK, SleepInv, TaskInv, PoolInv, EventInv, Ledger, [Next]_vars PROVE Ledger'
  OBVIOUS
<1>1. SleeperOnce
  BY DEF SleepInv
<1>2. CASE UNCHANGED vars
  <2>1. UNCHANGED <<pc, remotes, userh, sleepers, home, thandle, evq, out, opc, oi, pool>>
    BY <1>2 DEF vars, ctlv, loopv, sleepv, msgv, taskv, poolv
  <2> QED
    BY <2>1, NumberFrames, LedgerSame
<1>3. ASSUME NEW s \in Scheds, NEW u \in Tasks, ReawakenFromLoop(s, u) PROVE Ledger'
  <2>1. /\ ProcessTask(inbox, s, u, "loop") /\ Quiet(s) /\ pc[s] = "loop"
        /\ UNCHANGED <<remotes, userh, sleepers, thandle, evq, opc, oi, pool>>
    BY <1>3 DEF ReawakenFromLoop, InLoop, loopv, sleepv, poolv
  <2>2. \A q \in Scheds : pc'[q] = "stopped" <=> pc[q] = "stopped"
    BY <2>1, ProcessPlaces
  <2> QED
    BY <2>1, <2>2, ProcessLedger, NumberFrames, LedgerKept
<1>4. ASSUME OwnerStep \/ UserStep \/ ExtStep PROVE Ledger'
  <2>1. CASE LinkAndFire(Owner) \/ LinkAndFire(Ext)
    BY <2>1, LinkLedger DEF Threads
  <2> QED
    BY <1>4, <2>1, StartLedger, ShutdownLedger, UserLedger, SendsKeepLedger DEF OwnerStep, UserStep, ExtStep
<1> QED
  BY <1>1, <1>2, <1>3, <1>4, LedgerSched, LedgerTask DEF Next, Finished

\* The handles SchedPool::new makes are all there is.
LEMMA LedgerInit == Init => Ledger
<1> SUFFICES ASSUME Init, NEW s \in Scheds PROVE remotes[s] = HeldN(s) + RemovedN(s)
  BY DEF Ledger
<1>1. /\ evq[s] = <<>> /\ sleepers = <<>> /\ userh = InitUser /\ pool = InitPool /\ opc = "open"
      /\ \A t \in Tasks : home[t] \notin Scheds /\ thandle[t] \notin Scheds
      /\ \A th \in Threads : ~out[th].last
  BY SchedsAssumption DEF Init, NotSending, Threads
<1>2. Homes(s) = {} /\ Backs(s) = {} /\ Sends(s) = {} /\ Removed(evq[s]) = {} /\ s \notin Range(sleepers)
  BY <1>1 DEF Homes, Backs, Sends, Removed, Range
<1>3. HomeN(s) = 0 /\ BackN(s) = 0 /\ SentN(s) = 0 /\ RemovedN(s) = 0 /\ SleepN(s) = 0
  BY <1>2, FS_EmptySet DEF HomeN, BackN, SentN, RemovedN, SleepN, Flag
<1>4. Friends(s) = {q \in Scheds : Friend[q] = s}
  BY DEF Friends, Init
<1>5. IsFiniteSet({q \in Scheds : Friend[q] = s})
  BY SchedsAssumption, FS_Subset
<1>6. FriendN(s) = Cardinality({q \in Scheds : Friend[q] = s}) /\ FriendN(s) \in Nat
  BY <1>4, <1>5, FS_CardinalityType DEF FriendN
<1>7. UserN(s) = IF s \in InitUser THEN 1 ELSE 0
  BY <1>1 DEF UserN, Flag
<1>8. PoolN(s) = IF s \in Range(InitPool) THEN 1 ELSE 0
  BY <1>1 DEF PoolN, PoolHeld, Flag, Range
<1>9. s \notin Range(InitPool) => FriendN(s) = 0 /\ UserN(s) = 0
  <2>1. s \notin Range(InitPool) => Friends(s) = {} /\ s \notin InitUser
    BY <1>4, FriendAssumption, PoolAssumption, SchedsAssumption DEF Threads
  <2> QED
    BY <1>7, <2>1, FS_EmptySet DEF FriendN
<1>10. remotes[s] = IF s \in Range(InitPool)
                    THEN 1 + Cardinality({q \in Scheds : Friend[q] = s})
                           + (IF s \in InitUser THEN 1 ELSE 0) ELSE 0
  BY DEF Init
<1>11. remotes[s] = PoolN(s) + UserN(s) + FriendN(s)
  BY <1>6, <1>7, <1>8, <1>9, <1>10
<1> QED
  BY <1>3, <1>6, <1>7, <1>8, <1>11 DEF HeldN

\* The ledger is balanced throughout.
LEMMA LedgerInvariant == Spec => []Ledger
  BY LedgerInit, LedgerNext, TypeCorrect, SleepInvariant, TaskInvariant, PoolInvariant,
     EventInvariant, PTL DEF Spec

-------------------------------------------------------------------------------
(* From the ledger to the count of the handles that exist *)

\* A set of handles of one more kind joins the others.
LEMMA TagUnion ==
  ASSUME NEW A, NEW K, IsFiniteSet(A), \A x \in A : x[1] \in K,
         NEW k, k \notin K, NEW S, IsFiniteSet(S)
  PROVE  LET B == A \cup {<<k, y>> : y \in S} IN
         /\ IsFiniteSet(B) /\ Cardinality(B) = Cardinality(A) + Cardinality(S)
         /\ \A x \in B : x[1] \in K \cup {k}
<1> DEFINE T == {<<k, y>> : y \in S}
           f == [y \in S |-> <<k, y>>]
<1>1. f \in [S -> T] /\ (\A a, b \in S : f[a] = f[b] => a = b) /\ \A t \in T : \E y \in S : f[y] = t
  OBVIOUS
<1>2. (\A x \in T : x[1] = k) /\ A \cap T = {}
  OBVIOUS
<1> HIDE DEF T, f
<1>3. IsFiniteSet(T) /\ Cardinality(T) = Cardinality(S)
  BY <1>1, SameSize
<1>4. /\ IsFiniteSet(A \cup T)
      /\ Cardinality(A \cup T) = Cardinality(A) + Cardinality(T) - Cardinality(A \cap T)
  BY <1>3, FS_Union
<1>5. Cardinality(A \cap T) = 0 /\ Cardinality(A) \in Nat /\ Cardinality(T) \in Nat
  BY <1>2, <1>3, FS_EmptySet, FS_CardinalityType
<1>6. Cardinality(A \cup T) = Cardinality(A) + Cardinality(S)
  BY <1>3, <1>4, <1>5
<1>7. \A x \in A \cup T : x[1] \in K \cup {k}
  BY <1>2
<1> QED
  BY <1>4, <1>6, <1>7 DEF T

\* The positions at which an element may stand once: none, or one.
LEMMA PlaceOnce ==
  ASSUME NEW P, \A i, j \in P : i = j
  PROVE  IsFiniteSet(P) /\ Cardinality(P) = Flag(P # {})
<1>1. CASE P = {}
  BY <1>1, FS_EmptySet DEF Flag
<1>2. CASE P # {}
  <2>1. PICK i : P = {i}
    BY <1>2
  <2> QED
    BY <1>2, <2>1, FS_Singleton DEF Flag
<1> QED
  BY <1>1, <1>2

\* The handles that exist, counted: the ledger's sum.
LEMMA HandlesCounted ==
  ASSUME TypeOK, SleeperOnce, PoolInv, NEW s \in Scheds
  PROVE  Cardinality(HandlesTo(s)) = HeldN(s) + RemovedN(s)
<1> DEFINE P == {j \in DOMAIN pool : pool[j] = s /\
                   ~(opc \in {"join", "done"} \/ (opc = "send" /\ j < oi))}
           V == {x \in {0} : s \in userh}
           F == Friends(s)
           H == Homes(s)
           B == Backs(s)
           W == Sends(s)
           Z == {j \in DOMAIN sleepers : sleepers[j] = s}
           R == {j \in DOMAIN evq[s] : evq[s][j].ev = "RemoveRemote"}
           A1 == {} \cup {<<"pool", i>> : i \in P}
           A2 == A1 \cup {<<"user", i>> : i \in V}
           A3 == A2 \cup {<<"friend", q>> : q \in F}
           A4 == A3 \cup {<<"home", t>> : t \in H}
           A5 == A4 \cup {<<"task", t>> : t \in B}
           A6 == A5 \cup {<<"sleeper", i>> : i \in Z}
           A7 == A6 \cup {<<"sent", th>> : th \in W}
           A8 == A7 \cup {<<"removed", i>> : i \in R}
           K1 == {"pool"}
           K2 == K1 \cup {"user"}
           K3 == K2 \cup {"friend"}
           K4 == K3 \cup {"home"}
           K5 == K4 \cup {"task"}
           K6 == K5 \cup {"sleeper"}
           K7 == K6 \cup {"sent"}
<1>1. HandlesTo(s) = A8
  BY DEF HandlesTo, Friends, Homes, Backs, Sends
<1>2. IsFiniteSet(P) /\ Cardinality(P) = PoolN(s)
  <2>1. \A i, j \in P : i = j
    BY DEF PoolInv, IsInjective
  <2>2. P # {} <=> PoolHeld(s)
    BY DEF PoolHeld
  <2> HIDE DEF P
  <2> QED
    BY <2>1, <2>2, PlaceOnce DEF PoolN, Flag
<1>3. IsFiniteSet(V) /\ Cardinality(V) = UserN(s)
  <2>1. (\A i, j \in V : i = j) /\ (V # {} <=> s \in userh)
    OBVIOUS
  <2> HIDE DEF V
  <2> QED
    BY <2>1, PlaceOnce DEF UserN, Flag
<1>4. IsFiniteSet(Z) /\ Cardinality(Z) = SleepN(s)
  <2>1. \A i, j \in Z : i = j
    BY DEF SleeperOnce, IsInjective
  <2>2. Z # {} <=> s \in Range(sleepers)
    BY DEF Range
  <2> HIDE DEF Z
  <2> QED
    BY <2>1, <2>2, PlaceOnce DEF SleepN, Flag
<1>5. IsFiniteSet(R) /\ Cardinality(R) = RemovedN(s)
  BY RemovedFinite DEF Removed, RemovedN, TypeOK, LoopOK
<1>6. /\ IsFiniteSet(F) /\ Cardinality(F) = FriendN(s) /\ IsFiniteSet(H) /\ Cardinality(H) = HomeN(s)
      /\ IsFiniteSet(B) /\ Cardinality(B) = BackN(s) /\ IsFiniteSet(W) /\ Cardinality(W) = SentN(s)
      /\ PoolN(s) \in Nat /\ UserN(s) \in Nat /\ SleepN(s) \in Nat /\ FriendN(s) \in Nat
      /\ HomeN(s) \in Nat /\ BackN(s) \in Nat /\ SentN(s) \in Nat /\ RemovedN(s) \in Nat
  BY Numbers DEF FriendN, HomeN, BackN, SentN
<1>7. /\ K2 = K1 \cup {"user"} /\ K3 = K2 \cup {"friend"} /\ K4 = K3 \cup {"home"}
      /\ K5 = K4 \cup {"task"} /\ K6 = K5 \cup {"sleeper"} /\ K7 = K6 \cup {"sent"}
      /\ "user" \notin K1 /\ "friend" \notin K2 /\ "home" \notin K3 /\ "task" \notin K4
      /\ "sleeper" \notin K5 /\ "sent" \notin K6 /\ "removed" \notin K7
  OBVIOUS
<1>8. IsFiniteSet(A1) /\ Cardinality(A1) = PoolN(s) /\ \A x \in A1 : x[1] \in K1
  <2> HIDE DEF P
  <2>1. IsFiniteSet({}) /\ Cardinality({}) = 0 /\ \A x \in {} : x[1] \in {}
    BY FS_EmptySet
  <2>2. /\ IsFiniteSet(A1) /\ Cardinality(A1) = Cardinality({}) + Cardinality(P)
        /\ \A x \in A1 : x[1] \in {} \cup {"pool"}
    BY <1>2, <2>1, TagUnion
  <2> QED
    BY <1>2, <1>6, <2>1, <2>2
<1> HIDE DEF P, V, F, H, B, Z, W, R, A1, K1, K2, K3, K4, K5, K6, K7
<1>9. IsFiniteSet(A2) /\ Cardinality(A2) = Cardinality(A1) + UserN(s) /\ \A x \in A2 : x[1] \in K2
  <2>1. "user" \notin K1 /\ K2 = K1 \cup {"user"}
    BY <1>7
  <2>2. IsFiniteSet(A1) /\ \A x \in A1 : x[1] \in K1
    BY <1>8
  <2>3. IsFiniteSet(V) /\ Cardinality(V) = UserN(s)
    BY <1>3
  <2>4. /\ IsFiniteSet(A2) /\ Cardinality(A2) = Cardinality(A1) + Cardinality(V)
        /\ \A x \in A2 : x[1] \in K1 \cup {"user"}
    BY <2>1, <2>2, <2>3, TagUnion
  <2> QED
    BY <2>1, <2>3, <2>4
<1> HIDE DEF A2
<1>10. IsFiniteSet(A3) /\ Cardinality(A3) = Cardinality(A2) + FriendN(s) /\ \A x \in A3 : x[1] \in K3
  <2>1. "friend" \notin K2 /\ K3 = K2 \cup {"friend"}
    BY <1>7
  <2>2. IsFiniteSet(A2) /\ \A x \in A2 : x[1] \in K2
    BY <1>9
  <2>3. IsFiniteSet(F) /\ Cardinality(F) = FriendN(s)
    BY <1>6
  <2>4. /\ IsFiniteSet(A3) /\ Cardinality(A3) = Cardinality(A2) + Cardinality(F)
        /\ \A x \in A3 : x[1] \in K2 \cup {"friend"}
    BY <2>1, <2>2, <2>3, TagUnion
  <2> QED
    BY <2>1, <2>3, <2>4
<1> HIDE DEF A3
<1>11. IsFiniteSet(A4) /\ Cardinality(A4) = Cardinality(A3) + HomeN(s) /\ \A x \in A4 : x[1] \in K4
  <2>1. "home" \notin K3 /\ K4 = K3 \cup {"home"}
    BY <1>7
  <2>2. IsFiniteSet(A3) /\ \A x \in A3 : x[1] \in K3
    BY <1>10
  <2>3. IsFiniteSet(H) /\ Cardinality(H) = HomeN(s)
    BY <1>6
  <2>4. /\ IsFiniteSet(A4) /\ Cardinality(A4) = Cardinality(A3) + Cardinality(H)
        /\ \A x \in A4 : x[1] \in K3 \cup {"home"}
    BY <2>1, <2>2, <2>3, TagUnion
  <2> QED
    BY <2>1, <2>3, <2>4
<1> HIDE DEF A4
<1>12. IsFiniteSet(A5) /\ Cardinality(A5) = Cardinality(A4) + BackN(s) /\ \A x \in A5 : x[1] \in K5
  <2>1. "task" \notin K4 /\ K5 = K4 \cup {"task"}
    BY <1>7
  <2>2. IsFiniteSet(A4) /\ \A x \in A4 : x[1] \in K4
    BY <1>11
  <2>3. IsFiniteSet(B) /\ Cardinality(B) = BackN(s)
    BY <1>6
  <2>4. /\ IsFiniteSet(A5) /\ Cardinality(A5) = Cardinality(A4) + Cardinality(B)
        /\ \A x \in A5 : x[1] \in K4 \cup {"task"}
    BY <2>1, <2>2, <2>3, TagUnion
  <2> QED
    BY <2>1, <2>3, <2>4
<1> HIDE DEF A5
<1>13. IsFiniteSet(A6) /\ Cardinality(A6) = Cardinality(A5) + SleepN(s) /\ \A x \in A6 : x[1] \in K6
  <2>1. "sleeper" \notin K5 /\ K6 = K5 \cup {"sleeper"}
    BY <1>7
  <2>2. IsFiniteSet(A5) /\ \A x \in A5 : x[1] \in K5
    BY <1>12
  <2>3. IsFiniteSet(Z) /\ Cardinality(Z) = SleepN(s)
    BY <1>4
  <2>4. /\ IsFiniteSet(A6) /\ Cardinality(A6) = Cardinality(A5) + Cardinality(Z)
        /\ \A x \in A6 : x[1] \in K5 \cup {"sleeper"}
    BY <2>1, <2>2, <2>3, TagUnion
  <2> QED
    BY <2>1, <2>3, <2>4
<1> HIDE DEF A6
<1>14. IsFiniteSet(A7) /\ Cardinality(A7) = Cardinality(A6) + SentN(s) /\ \A x \in A7 : x[1] \in K7
  <2>1. "sent" \notin K6 /\ K7 = K6 \cup {"sent"}
    BY <1>7
  <2>2. IsFiniteSet(A6) /\ \A x \in A6 : x[1] \in K6
    BY <1>13
  <2>3. IsFiniteSet(W) /\ Cardinality(W) = SentN(s)
    BY <1>6
  <2>4. /\ IsFiniteSet(A7) /\ Cardinality(A7) = Cardinality(A6) + Cardinality(W)
        /\ \A x \in A7 : x[1] \in K6 \cup {"sent"}
    BY <2>1, <2>2, <2>3, TagUnion
  <2> QED
    BY <2>1, <2>3, <2>4
<1> HIDE DEF A7
<1>15. IsFiniteSet(A8) /\ Cardinality(A8) = Cardinality(A7) + RemovedN(s)
  <2>1. "removed" \notin K7
    BY <1>7
  <2>2. IsFiniteSet(A7) /\ \A x \in A7 : x[1] \in K7
    BY <1>14
  <2>3. IsFiniteSet(R) /\ Cardinality(R) = RemovedN(s)
    BY <1>5
  <2>4. /\ IsFiniteSet(A8) /\ Cardinality(A8) = Cardinality(A7) + Cardinality(R)
        /\ \A x \in A8 : x[1] \in K7 \cup {"removed"}
    BY <2>1, <2>2, <2>3, TagUnion
  <2> QED
    BY <2>1, <2>3, <2>4
<1> HIDE DEF A8
<1> QED
  BY <1>1, <1>6, <1>8, <1>9, <1>10, <1>11, <1>12, <1>13, <1>14, <1>15 DEF HeldN

\* The loop's count of remotes is exactly the handles of the scheduler that
\* exist or whose removal is queued, for every pool, every interleaving of
\* sends, steals and deaths of tasks, and both event loops: the loop neither
\* exits under a live handle nor is kept alive by a lost one.
THEOREM RemotesAreExact == Spec => []RemotesExact
<1>1. TypeOK /\ SleepInv /\ PoolInv /\ Ledger => RemotesExact
  BY HandlesCounted DEF SleepInv, Ledger, RemotesExact
<1> QED
  BY <1>1, TypeCorrect, SleepInvariant, PoolInvariant, LedgerInvariant, PTL

===============================================================================

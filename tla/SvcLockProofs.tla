---------------------------- MODULE SvcLockProofs ----------------------------
(***************************************************************************)
(* Proofs about SvcLock: types, the exclusion that the pending list gives  *)
(* when requests are served one at a time, and what is left of it when     *)
(* they race.                                                              *)
(***************************************************************************)
EXTENDS SvcLock, SequenceTheorems, FunctionTheorems, FiniteSetTheorems, TLAPS

\* Two requests are never served at once, and none dies before its row is inserted.
OneAtATime == (\A g, h \in Handlers : g = h) /\ MaxDeaths = 0

\* Tables, queue and handlers that start empty have their types.
LEMMA LockTypeInit == LockInit => LockTypeOK
BY SvcLockAssumption DEF LockInit, LockTypeOK

\* No request, no step of a worker and no death breaks a type.
LEMMA LockTypeStep == LockTypeOK /\ [LockNext]_lockVars => LockTypeOK'
<1> SUFFICES ASSUME LockTypeOK, [LockNext]_lockVars PROVE LockTypeOK'
  OBVIOUS
<1> USE SvcLockAssumption DEF LockTypeOK
<1>1. ASSUME NEW h \in Handlers, NEW t \in Tasks, Ask(h, t) PROVE LockTypeOK'
  BY <1>1 DEF Ask
<1>2. ASSUME NEW h \in Handlers, NEW s \in Services, Refuse(h, s) PROVE LockTypeOK'
  BY <1>2 DEF Refuse
<1>3. ASSUME NEW h \in Handlers, Publish(h) PROVE LockTypeOK'
  <2>1. asked[h] \in Tasks
    BY <1>3 DEF Publish
  <2>2. Append(queue, asked[h]) \in Seq(Tasks)
    BY <2>1, AppendProperties
  <2> QED
    BY <1>3, <2>1, <2>2 DEF Publish
<1>4. ASSUME NEW h \in Handlers, Insert(h) PROVE LockTypeOK'
  <2>1. asked[h].svc \in Services
    BY <1>4 DEF Insert, Tasks
  <2> QED
    BY <1>4, <2>1 DEF Insert
<1>5. ASSUME NEW h \in Handlers, RequestDies(h) PROVE LockTypeOK'
  BY <1>5 DEF RequestDies
<1>6. ASSUME NEW w \in Workers, Take(w) PROVE LockTypeOK'
  <2>1. Head(queue) \in Tasks /\ Tail(queue) \in Seq(Tasks)
    BY <1>6, HeadTailProperties DEF Take
  <2> QED
    BY <1>6, <2>1 DEF Take
<1>7. ASSUME NEW w \in Workers, NEW raised \in BOOLEAN, Finish(w, raised) PROVE LockTypeOK'
  <2>1. work[w].svc \in Services
    BY <1>7 DEF Finish, Tasks
  <2>2. Close(work[w].svc) \in Nat
    BY <2>1 DEF Close
  <2>3. open' \in [Services -> Nat]
    BY <1>7, <2>1, <2>2 DEF Finish
  <2> QED
    BY <1>7, <2>3 DEF Finish
<1>8. ASSUME NEW w \in Workers, WorkerCrash(w) PROVE LockTypeOK'
  BY <1>8 DEF WorkerCrash
<1>9. CASE UNCHANGED lockVars
  BY <1>9 DEF lockVars
<1> QED
  BY <1>1, <1>2, <1>3, <1>4, <1>5, <1>6, <1>7, <1>8, <1>9 DEF LockNext, RequestStep

\* The pending list, the queue, the requests and the workers of the service manager
\* keep their types, for any number of services, requests and workers.
THEOREM LockTypeCorrect == LockSpec => []LockTypeOK
BY LockTypeInit, LockTypeStep, PTL DEF LockSpec

-----------------------------------------------------------------------------
(* Exclusion. *)

\* The service manager starts without tasks and requests.
LEMMA SerialInit == LockInit => SerialInv
BY DEF LockInit, SerialInv, AtMostOneTask, Busy, Queued, RunBy

\* Taking the head of a queue leaves the other tasks, each one place further.
LEMMA TakeQueued ==
  ASSUME NEW q \in Seq(Tasks), q # <<>>, NEW i \in 1..Len(Tail(q))
  PROVE  i + 1 \in 1..Len(q) /\ Tail(q)[i] = q[i + 1] /\ 1 \in 1..Len(q) /\ Head(q) = q[1]
BY HeadTailProperties, EmptySeq

\* With requests served one at a time and none that dies, no step publishes a task of a
\* service that has one or leaves a service that has one without a row.
LEMMA SerialStep ==
  OneAtATime /\ LockTypeOK /\ SerialInv /\ [LockNext]_lockVars => SerialInv'
<1> SUFFICES ASSUME OneAtATime, LockTypeOK, SerialInv, [LockNext]_lockVars
             PROVE  SerialInv'
  OBVIOUS
<1> USE SvcLockAssumption
<1>1. ASSUME NEW h \in Handlers, NEW t \in Tasks, Ask(h, t) PROVE SerialInv'
  <2>1. t.svc \in Services
    BY DEF Tasks
  <2>2. Inserting(t.svc) = {}
    BY <1>1 DEF Ask, Inserting, OneAtATime
  <2>3. ~Busy(t.svc)
    BY <1>1, <2>1, <2>2 DEF Ask, SerialInv
  <2>4. asked'[h] = t /\ \A g \in Handlers : g = h
    BY <1>1 DEF Ask, LockTypeOK, OneAtATime
  <2>5. Queued(t.svc)' = Queued(t.svc) /\ RunBy(t.svc)' = RunBy(t.svc)
    BY <1>1 DEF Ask, Queued, RunBy
  <2>6. AtMostOneTask'
    BY <1>1 DEF Ask, SerialInv, AtMostOneTask, Queued, RunBy
  <2>7. ASSUME NEW s \in Services, Busy(s)' PROVE Pending(s)' \/ Inserting(s)' # {}
    <3>1. Busy(s) /\ (Inserting(s) = {})
      BY <1>1, <2>7, <2>4 DEF Ask, Busy, Queued, RunBy, Inserting
    <3> QED
      BY <1>1, <3>1 DEF SerialInv, Ask, Pending
  <2>8. ASSUME NEW g \in Handlers PROVE ~Busy(asked[g].svc)'
    BY <2>3, <2>4, <2>5 DEF Busy
  <2> QED
    BY <2>6, <2>7, <2>8 DEF SerialInv
<1>2. ASSUME NEW h \in Handlers, NEW s \in Services, Refuse(h, s) PROVE SerialInv'
  <2>1. \A r \in Services : Inserting(r) \subseteq Inserting(r)'
    BY <1>2 DEF Refuse, Inserting, LockTypeOK
  <2>2. \A g \in Handlers : pc'[g] = "publish" => pc[g] = "publish"
    BY <1>2 DEF Refuse, LockTypeOK
  <2> QED
    BY <1>2, <2>1, <2>2
    DEF Refuse, SerialInv, AtMostOneTask, Busy, Queued, RunBy, Pending
<1>3. ASSUME NEW h \in Handlers, Publish(h) PROVE SerialInv'
  <2>0. PICK t \in Tasks : t = asked[h]
    BY <1>3 DEF Publish, LockTypeOK
  <2>1. t.svc \in Services /\ pc[h] = "publish" /\ t = asked[h]
    BY <1>3, <2>0 DEF Publish, LockTypeOK, Tasks
  <2>2. ~Busy(t.svc)
    BY <2>1 DEF SerialInv
  <2>3. /\ Len(queue') = Len(queue) + 1
        /\ \A i \in 1..Len(queue) : queue'[i] = queue[i]
        /\ queue'[Len(queue) + 1] = t
    BY <1>3, <2>1, AppendProperties DEF Publish, LockTypeOK
  <2>4. Len(queue) \in Nat
    BY LenProperties DEF LockTypeOK
  <2>5. ASSUME NEW s \in Services PROVE RunBy(s)' = RunBy(s)
    BY <1>3 DEF Publish, RunBy
  <2>6. Queued(t.svc)' = {Len(queue) + 1}
    BY <2>2, <2>3, <2>4 DEF Busy, Queued
  <2>7. ASSUME NEW s \in Services, s # t.svc PROVE Queued(s)' = Queued(s)
    BY <2>3, <2>4, <2>7 DEF Queued
  <2>8. AtMostOneTask'
    <3>1. ASSUME NEW s \in Services
          PROVE  /\ \A i, j \in Queued(s)' : i = j
                 /\ \A v, w \in RunBy(s)' : v = w
                 /\ Queued(s)' = {} \/ RunBy(s)' = {}
      <4>1. CASE s = t.svc
        BY <4>1, <2>1, <2>2, <2>5, <2>6 DEF Busy
      <4>2. CASE s # t.svc
        BY <4>2, <2>5, <2>7 DEF SerialInv, AtMostOneTask
      <4> QED
        BY <4>1, <4>2
    <3> QED
      BY <3>1 DEF AtMostOneTask
  <2>9. ASSUME NEW s \in Services, Busy(s)' PROVE Pending(s)' \/ Inserting(s)' # {}
    <3>1. CASE s = t.svc
      BY <3>1, <2>1, <1>3 DEF Publish, Inserting, LockTypeOK
    <3>2. CASE s # t.svc
      <4>1. Busy(s)
        BY <3>2, <2>5, <2>7, <2>9 DEF Busy
      <4>2. Inserting(s) \subseteq Inserting(s)'
        BY <1>3 DEF Publish, Inserting, LockTypeOK
      <4> QED
        BY <1>3, <4>1, <4>2 DEF SerialInv, Publish, Pending
    <3> QED
      BY <3>1, <3>2
  <2>10. ASSUME NEW g \in Handlers PROVE pc'[g] # "publish"
    BY <1>3 DEF Publish, LockTypeOK, OneAtATime
  <2> QED
    BY <2>8, <2>9, <2>10 DEF SerialInv
<1>4. ASSUME NEW h \in Handlers, Insert(h) PROVE SerialInv'
  <2>0. PICK r \in Services : r = asked[h].svc
    BY <1>4 DEF Insert, LockTypeOK, Tasks
  <2>1. open \in [Services -> Nat] /\ open' = [open EXCEPT ![r] = @ + 1]
    BY <1>4, <2>0 DEF Insert, LockTypeOK
  <2>2. \A s \in Services : Pending(s) => Pending(s)'
    BY <2>1 DEF Pending
  <2>3. Pending(r)'
    BY <2>1 DEF Pending
  <2>4. \A s \in Services : Inserting(s) # {} => s = r
    BY <1>4, <2>0 DEF Inserting, OneAtATime
  <2>5. \A g \in Handlers : pc'[g] # "publish"
    BY <1>4 DEF Insert, LockTypeOK, OneAtATime
  <2>6. \A s \in Services : Queued(s)' = Queued(s) /\ RunBy(s)' = RunBy(s)
    BY <1>4 DEF Insert, Queued, RunBy
  <2> QED
    BY <2>2, <2>3, <2>4, <2>5, <2>6 DEF SerialInv, AtMostOneTask, Busy
<1>5. ASSUME NEW h \in Handlers, RequestDies(h) PROVE SerialInv'
  BY <1>5 DEF RequestDies, LockTypeOK, OneAtATime
<1>6. ASSUME NEW w \in Workers, Take(w) PROVE SerialInv'
  <2>0. PICK t \in Tasks : t = Head(queue)
    BY <1>6, HeadTailProperties DEF Take, LockTypeOK
  <2>1. /\ queue \in Seq(Tasks) /\ queue # <<>> /\ queue' = Tail(queue)
        /\ work[w] = NoTask /\ work' = [work EXCEPT ![w] = t]
    BY <1>6, <2>0 DEF Take, LockTypeOK
  <2>2. 1 \in 1..Len(queue) /\ t = queue[1] /\ t # NoTask /\ t.svc \in Services
    BY <2>0, <2>1, HeadTailProperties, EmptySeq, SvcLockAssumption DEF Tasks
  <2>3. /\ Len(queue) \in Nat /\ Len(queue') = Len(queue) - 1
        /\ \A i \in 1..Len(queue') : queue'[i] = queue[i + 1] /\ i + 1 \in 1..Len(queue)
    BY <2>1, <2>2, HeadTailProperties, TakeQueued
  <2>4. 1 \in Queued(t.svc) /\ RunBy(t.svc) = {} /\ \A i \in Queued(t.svc) : i = 1
    BY <2>2 DEF Queued, SerialInv, AtMostOneTask
  <2>5. Queued(t.svc)' = {}
    <3> SUFFICES ASSUME NEW i \in 1..Len(queue'), queue'[i].svc = t.svc PROVE FALSE
      BY DEF Queued
    <3>1. i + 1 \in Queued(t.svc) /\ i \in Nat \ {0}
      BY <2>3 DEF Queued
    <3> QED
      BY <3>1, <2>4
  <2>6. RunBy(t.svc)' = {w}
    BY <2>1, <2>2, <2>4 DEF RunBy, LockTypeOK
  <2>7. ASSUME NEW s \in Services, s # t.svc
        PROVE  /\ RunBy(s)' = RunBy(s)
               /\ \A i \in Queued(s)' : i + 1 \in Queued(s) /\ i \in Nat
    BY <2>1, <2>2, <2>3, <2>7 DEF RunBy, Queued, LockTypeOK
  <2>8. AtMostOneTask'
    <3>1. ASSUME NEW s \in Services
          PROVE  /\ \A i, j \in Queued(s)' : i = j
                 /\ \A v, x \in RunBy(s)' : v = x
                 /\ Queued(s)' = {} \/ RunBy(s)' = {}
      <4>1. CASE s = t.svc
        BY <4>1, <2>5, <2>6
      <4>2. CASE s # t.svc
        <5>1. ASSUME NEW i \in Queued(s)', NEW j \in Queued(s)' PROVE i = j
          BY <4>2, <2>7, <5>1 DEF SerialInv, AtMostOneTask
        <5>2. Queued(s)' = {} \/ RunBy(s)' = {}
          BY <4>2, <2>7 DEF SerialInv, AtMostOneTask
        <5> QED
          BY <4>2, <2>7, <5>1, <5>2 DEF SerialInv, AtMostOneTask
      <4> QED
        BY <4>1, <4>2
    <3> QED
      BY <3>1 DEF AtMostOneTask
  <2>9. ASSUME NEW s \in Services, Busy(s)' PROVE Busy(s)
    BY <2>4, <2>7, <2>9 DEF Busy
  <2>10. \A s \in Services : Inserting(s)' = Inserting(s) /\ (Pending(s)' <=> Pending(s))
    BY <1>6 DEF Take, Inserting, Pending
  <2>11. ASSUME NEW g \in Handlers, pc'[g] = "publish" PROVE ~Busy(asked[g].svc)'
    <3>1. pc[g] = "publish" /\ asked'[g] = asked[g] /\ asked[g].svc \in Services
      BY <1>6, <2>11 DEF Take, LockTypeOK, Tasks
    <3> QED
      BY <3>1, <2>9 DEF SerialInv
  <2> QED
    BY <2>8, <2>9, <2>10, <2>11 DEF SerialInv
<1>7. ASSUME NEW w \in Workers, work[w] # NoTask, work' = [work EXCEPT ![w] = NoTask],
             UNCHANGED <<queue, pc, asked>>,
             \A s \in Services : s # work[w].svc => open'[s] = open[s]
      PROVE SerialInv'
  <2>0. PICK r \in Services : r = work[w].svc
    BY <1>7 DEF LockTypeOK, Tasks
  <2>1. w \in RunBy(r)
    BY <1>7, <2>0 DEF RunBy
  <2>2. ~Busy(r)'
    <3>1. Queued(r) = {} /\ \A v \in RunBy(r) : v = w
      BY <2>1 DEF SerialInv, AtMostOneTask
    <3>2. Queued(r)' = Queued(r)
      BY <1>7 DEF Queued
    <3>3. RunBy(r)' \subseteq RunBy(r) \ {w}
      BY <1>7 DEF RunBy, LockTypeOK
    <3> QED
      BY <3>1, <3>2, <3>3 DEF Busy
  <2>3. ASSUME NEW s \in Services
        PROVE  Queued(s)' = Queued(s) /\ RunBy(s)' \subseteq RunBy(s) /\ Inserting(s)' = Inserting(s)
    BY <1>7 DEF Queued, RunBy, Inserting, LockTypeOK
  <2>4. AtMostOneTask'
    BY <2>3 DEF SerialInv, AtMostOneTask
  <2>5. ASSUME NEW s \in Services, Busy(s)' PROVE Pending(s)' \/ Inserting(s)' # {}
    <3>1. s # r /\ Busy(s)
      BY <2>2, <2>3, <2>5 DEF Busy
    <3> QED
      BY <1>7, <2>0, <2>3, <3>1 DEF SerialInv, Pending
  <2>6. ASSUME NEW g \in Handlers, pc'[g] = "publish" PROVE ~Busy(asked[g].svc)'
    <3>1. pc[g] = "publish" /\ asked'[g] = asked[g] /\ asked[g].svc \in Services
      BY <1>7, <2>6 DEF LockTypeOK, Tasks
    <3> QED
      BY <3>1, <2>3 DEF SerialInv, Busy
  <2> QED
    BY <2>4, <2>5, <2>6 DEF SerialInv
<1>8. ASSUME NEW w \in Workers, NEW raised \in BOOLEAN, Finish(w, raised) PROVE SerialInv'
  BY <1>7, <1>8 DEF Finish, LockTypeOK
<1>9. ASSUME NEW w \in Workers, WorkerCrash(w) PROVE SerialInv'
  BY <1>7, <1>9 DEF WorkerCrash
<1>10. CASE UNCHANGED lockVars
  BY <1>10 DEF lockVars, SerialInv, AtMostOneTask, Busy, Pending, Queued, RunBy, Inserting
<1> QED
  BY <1>1, <1>2, <1>3, <1>4, <1>5, <1>6, <1>8, <1>9, <1>10 DEF LockNext, RequestStep

\* When requests are served one at a time and none dies, a service has at most one task in
\* the queue or with a worker, for any number of workers that finish in any order, raise or
\* die, and whether or not an error releases the row: the pending list is a lock.
THEOREM OneTaskOneAtATime == OneAtATime => (LockSpec => []AtMostOneTask)
<1> SUFFICES ASSUME OneAtATime PROVE LockSpec => []AtMostOneTask
  OBVIOUS
<1>1. LockTypeOK /\ SerialInv /\ [LockNext]_lockVars => SerialInv'
  BY SerialStep
<1>2. SerialInv => AtMostOneTask
  BY DEF SerialInv
<1> QED
  BY <1>1, <1>2, LockTypeCorrect, SerialInit, PTL DEF LockSpec

-----------------------------------------------------------------------------
(* Counting tasks. *)

\* Places of a queue that hold a task of s.
Places(q, s) == {i \in 1..Len(q) : q[i].svc = s}

\* Only finitely many places of a queue hold a task.
LEMMA PlacesFinite ==
  ASSUME NEW q \in Seq(Tasks), NEW s
  PROVE  IsFiniteSet(Places(q, s)) /\ Cardinality(Places(q, s)) \in Nat
<1>1. IsFiniteSet(1..Len(q))
  BY FS_Interval
<1>2. Places(q, s) \in SUBSET (1..Len(q))
  BY DEF Places
<1> QED
  BY <1>1, <1>2, FS_Subset, FS_CardinalityType

\* A task that is appended is one task more of its service.
LEMMA AppendCount ==
  ASSUME NEW q \in Seq(Tasks), NEW t \in Tasks, NEW s
  PROVE  Cardinality(Places(Append(q, t), s)) <=
           Cardinality(Places(q, s)) + (IF t.svc = s THEN 1 ELSE 0)
<1> DEFINE n == Len(q) + 1
           r == Append(q, t)
<1>1. Len(r) = n /\ r[n] = t /\ \A i \in 1..Len(q) : r[i] = q[i]
  BY AppendProperties
<1>2. Len(q) \in Nat
  BY LenProperties
<1>3. CASE t.svc = s
  <2>1. Places(r, s) = Places(q, s) \cup {n} /\ n \notin Places(q, s)
    BY <1>1, <1>2, <1>3 DEF Places
  <2>2. IsFiniteSet(Places(q, s)) /\ Cardinality(Places(q, s)) \in Nat
    BY PlacesFinite
  <2>3. Cardinality(Places(q, s) \cup {n}) = Cardinality(Places(q, s)) + 1
    BY <2>1, <2>2, FS_AddElement
  <2>4. Cardinality(Places(r, s)) = Cardinality(Places(q, s)) + 1
    BY <2>1, <2>3
  <2>5. (IF t.svc = s THEN 1 ELSE 0) = 1
    BY <1>3
  <2> QED
    BY <2>2, <2>4, <2>5
<1>4. CASE t.svc # s
  <2>1. Places(r, s) = Places(q, s)
    BY <1>1, <1>2, <1>4 DEF Places
  <2> QED
    BY <1>4, <2>1, PlacesFinite
<1> QED
  BY <1>3, <1>4

\* The head that is taken off is one task less of its service.
LEMMA TailCount ==
  ASSUME NEW q \in Seq(Tasks), q # <<>>, NEW s
  PROVE  Cardinality(Places(Tail(q), s)) =
           Cardinality(Places(q, s)) - (IF Head(q).svc = s THEN 1 ELSE 0)
<1> DEFINE old == Places(q, s) \ {1}
           rest == Places(Tail(q), s)
           f == [i \in old |-> i - 1]
<1>0. /\ Len(q) \in Nat \ {0} /\ Tail(q) \in Seq(Tasks) /\ Len(Tail(q)) = Len(q) - 1
      /\ Head(q) = q[1] /\ \A i \in 1..Len(Tail(q)) : Tail(q)[i] = q[i + 1]
  BY HeadTailProperties, LenProperties, EmptySeq
<1>1. \A i \in old : i \in Nat /\ i > 1 /\ i - 1 \in rest
  BY <1>0 DEF Places
<1>2. \A j \in rest : j \in Nat /\ j + 1 \in old
  BY <1>0 DEF Places
<1>3. f \in [old -> rest]
  BY <1>1
<1>4. \A i, j \in old : f[i] = f[j] => i = j
  BY <1>1
<1>5. \A j \in rest : \E i \in old : f[i] = j
  <2> TAKE j \in rest
  <2>1. j + 1 \in old /\ f[j + 1] = j
    BY <1>2
  <2> QED
    BY <2>1
<1>6. f \in Bijection(old, rest)
  BY <1>3, <1>4, <1>5 DEF Bijection, Injection, IsInjective, Surjection
<1>7. ExistsBijection(old, rest)
  BY <1>6 DEF ExistsBijection
<1>8. /\ IsFiniteSet(old)
      /\ Cardinality(old) = IF 1 \in Places(q, s) THEN Cardinality(Places(q, s)) - 1
                                                  ELSE Cardinality(Places(q, s))
  BY PlacesFinite, FS_RemoveElement
<1>9. Cardinality(rest) = Cardinality(old)
  BY <1>7, <1>8, FS_Bijection
<1>10. 1 \in Places(q, s) <=> Head(q).svc = s
  BY <1>0 DEF Places
<1> QED
  BY <1>8, <1>9, <1>10, PlacesFinite

\* Requests for a service that passed the check are distinct, whether they published
\* their task or not.
LEMMA HandlersShared ==
  ASSUME NEW P \in SUBSET Handlers, NEW I \in SUBSET Handlers, P \cap I = {}
  PROVE  Cardinality(P) + Cardinality(I) <= Cardinality(Handlers)
<1>1. IsFiniteSet(P) /\ IsFiniteSet(I) /\ P \cup I \in SUBSET Handlers
  BY FiniteAssumption, FS_Subset
<1>2. Cardinality(P \cup I) <= Cardinality(Handlers)
  BY <1>1, FiniteAssumption, FS_Subset
<1>3. Cardinality(P \cup I) = Cardinality(P) + Cardinality(I) - Cardinality(P \cap I)
  BY <1>1, FS_Union
<1>4. Cardinality(P \cap I) = 0 /\ Cardinality(P) \in Nat /\ Cardinality(I) \in Nat
  BY <1>1, FS_EmptySet, FS_CardinalityType
<1> QED
  BY <1>2, <1>3, <1>4

\* The sets that are counted are finite.
LEMMA Finite ==
  ASSUME LockTypeOK, NEW s
  PROVE  /\ IsFiniteSet(Queued(s)) /\ Cardinality(Queued(s)) \in Nat
         /\ IsFiniteSet(RunBy(s)) /\ Cardinality(RunBy(s)) \in Nat
         /\ IsFiniteSet(Inserting(s)) /\ Cardinality(Inserting(s)) \in Nat
         /\ IsFiniteSet(Publishing(s)) /\ Cardinality(Publishing(s)) \in Nat
<1>1. queue \in Seq(Tasks) /\ Queued(s) = Places(queue, s)
  BY DEF LockTypeOK, Queued, Places
<1>2. /\ RunBy(s) \in SUBSET Workers /\ Inserting(s) \in SUBSET Handlers
      /\ Publishing(s) \in SUBSET Handlers
  BY DEF RunBy, Inserting, Publishing
<1>3. IsFiniteSet(RunBy(s)) /\ IsFiniteSet(Inserting(s)) /\ IsFiniteSet(Publishing(s))
  BY <1>2, FiniteAssumption, FS_Subset
<1> QED
  BY <1>1, <1>3, PlacesFinite, FS_CardinalityType

\* The two bounds for one service.
Covered(s) ==
  Cardinality(Queued(s)) + Cardinality(RunBy(s)) <= open[s] + Cardinality(Inserting(s)) + deaths
Bounded(s) ==
  Cardinality(Queued(s)) + Cardinality(RunBy(s)) + Cardinality(Publishing(s))
    <= Cardinality(Handlers) + deaths

\* There are no tasks at first.
LEMMA CountInit == LockInit => LockCoversTasks /\ TasksBounded
<1> SUFFICES ASSUME LockInit, NEW s \in Services PROVE Covered(s) /\ Bounded(s)
  BY DEF LockCoversTasks, TasksBounded, Covered, Bounded
<1>1. Queued(s) = {} /\ RunBy(s) = {} /\ Publishing(s) = {} /\ Inserting(s) = {}
  BY DEF LockInit, Queued, RunBy, Publishing, Inserting
<1>2. Cardinality(Handlers) \in Nat /\ Cardinality({}) = 0
  BY FiniteAssumption, FS_CardinalityType, FS_EmptySet
<1> QED
  BY <1>1, <1>2 DEF LockInit, Covered, Bounded

\* What is enough for a service whose tasks and requests did not change in number.
LEMMA SameCounts ==
  ASSUME NEW s \in Services, LockTypeOK, LockTypeOK', Covered(s), Bounded(s),
         Cardinality(Queued(s)') + Cardinality(RunBy(s)')
           <= Cardinality(Queued(s)) + Cardinality(RunBy(s)),
         Inserting(s)' = Inserting(s), Publishing(s)' = Publishing(s),
         open'[s] >= open[s], deaths' = deaths
  PROVE  Covered(s)' /\ Bounded(s)'
<1>1. /\ Cardinality(Queued(s)) \in Nat /\ Cardinality(RunBy(s)) \in Nat
      /\ Cardinality(Inserting(s)) \in Nat /\ Cardinality(Publishing(s)) \in Nat
      /\ Cardinality(Handlers) \in Nat
  BY Finite, FiniteAssumption, FS_CardinalityType
<1>2. Cardinality(Queued(s)') \in Nat /\ Cardinality(RunBy(s)') \in Nat
  <2>1. queue' \in Seq(Tasks) /\ Queued(s)' = Places(queue', s)
    BY DEF LockTypeOK, Queued, Places
  <2>2. RunBy(s)' \in SUBSET Workers
    BY DEF RunBy
  <2> QED
    BY <2>1, <2>2, PlacesFinite, FiniteAssumption, FS_Subset, FS_CardinalityType
<1>3. open[s] \in Nat /\ open'[s] \in Nat /\ deaths \in Nat
  BY DEF LockTypeOK
<1> QED
  BY <1>1, <1>2, <1>3 DEF Covered, Bounded

\* No step adds a task without a request that is to insert its row, or a request
\* beyond those the webapp serves at once.
LEMMA CountStep ==
  LockTypeOK /\ LockTypeOK' /\ LockCoversTasks /\ TasksBounded /\ [LockNext]_lockVars
    => LockCoversTasks' /\ TasksBounded'
<1> SUFFICES ASSUME LockTypeOK, LockTypeOK', LockCoversTasks, TasksBounded, [LockNext]_lockVars,
                    NEW s \in Services
             PROVE  Covered(s)' /\ Bounded(s)'
  BY DEF LockCoversTasks, TasksBounded, Covered, Bounded
<1>a. Covered(s) /\ Bounded(s)
  BY DEF LockCoversTasks, TasksBounded, Covered, Bounded
<1>b. /\ IsFiniteSet(Queued(s)) /\ Cardinality(Queued(s)) \in Nat
      /\ IsFiniteSet(RunBy(s)) /\ Cardinality(RunBy(s)) \in Nat
      /\ IsFiniteSet(Inserting(s)) /\ Cardinality(Inserting(s)) \in Nat
      /\ IsFiniteSet(Publishing(s)) /\ Cardinality(Publishing(s)) \in Nat
      /\ Cardinality(Handlers) \in Nat /\ open[s] \in Nat /\ deaths \in Nat
  BY Finite, FiniteAssumption, FS_CardinalityType DEF LockTypeOK
<1>1. ASSUME NEW h \in Handlers, NEW t \in Tasks, Ask(h, t) PROVE Covered(s)' /\ Bounded(s)'
  <2>1. /\ Queued(s)' = Queued(s) /\ RunBy(s)' = RunBy(s) /\ Inserting(s)' = Inserting(s)
        /\ UNCHANGED <<open, deaths>>
    BY <1>1 DEF Ask, Queued, RunBy, Inserting, LockTypeOK
  <2>2. CASE t.svc = s
    <3>1. open[s] = 0
      BY <1>1, <1>b, <2>2 DEF Ask, Pending
    <3>2. /\ Publishing(s)' \in SUBSET Handlers /\ Inserting(s)' \in SUBSET Handlers
          /\ Publishing(s)' \cap Inserting(s)' = {}
      BY DEF Publishing, Inserting
    <3>3. /\ Cardinality(Publishing(s)') + Cardinality(Inserting(s)') <= Cardinality(Handlers)
          /\ Cardinality(Publishing(s)') \in Nat
      BY <3>2, HandlersShared, FiniteAssumption, FS_Subset, FS_CardinalityType
    <3> QED
      BY <1>a, <1>b, <2>1, <3>1, <3>3 DEF Covered, Bounded
  <2>3. CASE t.svc # s
    <3>1. Publishing(s)' = Publishing(s)
      BY <1>1, <2>3 DEF Ask, Publishing, LockTypeOK
    <3> QED
      BY <1>a, <1>b, <2>1, <3>1 DEF Covered, Bounded
  <2> QED
    BY <2>2, <2>3
<1>2. ASSUME NEW h \in Handlers, NEW r \in Services, Refuse(h, r) PROVE Covered(s)' /\ Bounded(s)'
  <2>1. /\ Queued(s)' = Queued(s) /\ RunBy(s)' = RunBy(s) /\ Inserting(s)' = Inserting(s)
        /\ Publishing(s)' = Publishing(s) /\ UNCHANGED <<open, deaths>>
    BY <1>2 DEF Refuse, Queued, RunBy, Inserting, Publishing, LockTypeOK
  <2> QED
    BY <1>a, <1>b, <2>1 DEF Covered, Bounded
<1>3. ASSUME NEW h \in Handlers, Publish(h) PROVE Covered(s)' /\ Bounded(s)'
  <2>1. asked[h] \in Tasks /\ pc[h] = "publish" /\ queue \in Seq(Tasks)
    BY <1>3 DEF Publish, LockTypeOK
  <2>2. /\ RunBy(s)' = RunBy(s) /\ UNCHANGED <<open, deaths>>
        /\ Queued(s) = Places(queue, s) /\ Queued(s)' = Places(Append(queue, asked[h]), s)
    BY <1>3 DEF Publish, RunBy, Queued, Places
  <2>3. /\ Cardinality(Queued(s)') <= Cardinality(Queued(s)) + (IF asked[h].svc = s THEN 1 ELSE 0)
        /\ Cardinality(Queued(s)') \in Nat
    <3>1. Append(queue, asked[h]) \in Seq(Tasks)
      BY <2>1, AppendProperties
    <3> QED
      BY <2>1, <2>2, <3>1, AppendCount, PlacesFinite
  <2>4. CASE asked[h].svc = s
    <3>1. /\ Publishing(s)' = Publishing(s) \ {h} /\ h \in Publishing(s)
          /\ Inserting(s)' = Inserting(s) \cup {h} /\ h \notin Inserting(s)
      BY <1>3, <2>1, <2>4 DEF Publish, Publishing, Inserting, LockTypeOK
    <3>2. /\ Cardinality(Publishing(s)') = Cardinality(Publishing(s)) - 1
          /\ Cardinality(Inserting(s)') = Cardinality(Inserting(s)) + 1
      <4>1. Cardinality(Publishing(s) \ {h}) = Cardinality(Publishing(s)) - 1
        BY <1>b, <3>1, FS_RemoveElement
      <4>2. Cardinality(Inserting(s) \cup {h}) = Cardinality(Inserting(s)) + 1
        BY <1>b, <3>1, FS_AddElement
      <4> QED
        BY <3>1, <4>1, <4>2
    <3>3. Cardinality(Queued(s)') <= Cardinality(Queued(s)) + 1
      BY <2>3, <2>4
    <3> QED
      BY <1>a, <1>b, <2>2, <2>3, <3>2, <3>3 DEF Covered, Bounded
  <2>5. CASE asked[h].svc # s
    <3>1. Publishing(s)' = Publishing(s) /\ Inserting(s)' = Inserting(s)
      BY <1>3, <2>5 DEF Publish, Publishing, Inserting, LockTypeOK
    <3>2. Cardinality(Queued(s)') <= Cardinality(Queued(s))
      BY <1>b, <2>3, <2>5
    <3> QED
      BY <1>a, <1>b, <2>2, <2>3, <3>1, <3>2 DEF Covered, Bounded
  <2> QED
    BY <2>4, <2>5
<1>4. ASSUME NEW h \in Handlers, Insert(h) PROVE Covered(s)' /\ Bounded(s)'
  <2>1. /\ Queued(s)' = Queued(s) /\ RunBy(s)' = RunBy(s) /\ UNCHANGED deaths
        /\ Publishing(s)' = Publishing(s)
    BY <1>4 DEF Insert, Queued, RunBy, Publishing, LockTypeOK
  <2>2. CASE asked[h].svc = s
    <3>1. Inserting(s)' = Inserting(s) \ {h} /\ h \in Inserting(s)
      BY <1>4, <2>2 DEF Insert, Inserting, LockTypeOK
    <3>2. Cardinality(Inserting(s)') = Cardinality(Inserting(s)) - 1
      BY <1>b, <3>1, FS_RemoveElement
    <3>3. open'[s] = open[s] + 1
      BY <1>4, <2>2 DEF Insert, LockTypeOK
    <3> QED
      BY <1>a, <1>b, <2>1, <3>2, <3>3 DEF Covered, Bounded
  <2>3. CASE asked[h].svc # s
    <3>1. Inserting(s)' = Inserting(s) /\ open'[s] = open[s]
      BY <1>4, <2>3 DEF Insert, Inserting, LockTypeOK
    <3> QED
      BY <1>a, <1>b, <2>1, <3>1 DEF Covered, Bounded
  <2> QED
    BY <2>2, <2>3
<1>5. ASSUME NEW h \in Handlers, RequestDies(h) PROVE Covered(s)' /\ Bounded(s)'
  <2>1. /\ Queued(s)' = Queued(s) /\ RunBy(s)' = RunBy(s) /\ UNCHANGED open
        /\ deaths' = deaths + 1
    BY <1>5 DEF RequestDies, Queued, RunBy
  <2>2. Inserting(s)' = Inserting(s) \ {h} /\ Publishing(s)' = Publishing(s) \ {h}
    BY <1>5 DEF RequestDies, Inserting, Publishing, LockTypeOK
  <2>3. /\ Cardinality(Inserting(s)') >= Cardinality(Inserting(s)) - 1
        /\ Cardinality(Publishing(s)') <= Cardinality(Publishing(s))
        /\ Cardinality(Inserting(s)') \in Int /\ Cardinality(Publishing(s)') \in Int
    <3>1. /\ Cardinality(Inserting(s) \ {h}) >= Cardinality(Inserting(s)) - 1
          /\ Cardinality(Inserting(s) \ {h}) \in Int
      <4>1. Cardinality(Inserting(s) \ {h}) = IF h \in Inserting(s) THEN Cardinality(Inserting(s)) - 1
                                                                   ELSE Cardinality(Inserting(s))
        BY <1>b, FS_RemoveElement
      <4> QED
        BY <1>b, <4>1
    <3>2. /\ Cardinality(Publishing(s) \ {h}) <= Cardinality(Publishing(s))
          /\ Cardinality(Publishing(s) \ {h}) \in Int
      BY <1>b, FS_RemoveElement
    <3> QED
      BY <2>2, <3>1, <3>2
  <2> QED
    BY <1>a, <1>b, <2>1, <2>3 DEF Covered, Bounded
<1>6. ASSUME NEW w \in Workers, Take(w) PROVE Covered(s)' /\ Bounded(s)'
  <2>1. /\ queue \in Seq(Tasks) /\ queue # <<>> /\ Head(queue) \in Tasks
        /\ Queued(s) = Places(queue, s) /\ Queued(s)' = Places(Tail(queue), s)
        /\ work[w] = NoTask /\ work' = [work EXCEPT ![w] = Head(queue)]
    BY <1>6, HeadTailProperties DEF Take, Queued, Places, LockTypeOK
  <2>2. /\ Inserting(s)' = Inserting(s) /\ Publishing(s)' = Publishing(s)
        /\ UNCHANGED <<open, deaths>>
    BY <1>6 DEF Take, Inserting, Publishing
  <2>3. CASE Head(queue).svc = s
    <3>1. RunBy(s)' = RunBy(s) \cup {w} /\ w \notin RunBy(s)
      BY <2>1, <2>3, SvcLockAssumption DEF RunBy, LockTypeOK
    <3>2. Cardinality(RunBy(s)') = Cardinality(RunBy(s)) + 1
      BY <1>b, <3>1, FS_AddElement
    <3>3. Cardinality(Queued(s)') = Cardinality(Queued(s)) - 1
      BY <2>1, <2>3, TailCount
    <3> QED
      BY <1>a, <1>b, <2>2, <3>2, <3>3, SameCounts
  <2>4. CASE Head(queue).svc # s
    <3>1. RunBy(s)' = RunBy(s)
      BY <2>1, <2>4 DEF RunBy, LockTypeOK
    <3>2. Cardinality(Queued(s)') = Cardinality(Queued(s))
      BY <1>b, <2>1, <2>4, TailCount
    <3> QED
      BY <1>a, <1>b, <2>2, <3>1, <3>2, SameCounts
  <2> QED
    BY <2>3, <2>4
\* A worker that ends its task may close a row of the service, one that dies does not.
<1>7. ASSUME NEW w \in Workers, work[w] # NoTask, work' = [work EXCEPT ![w] = NoTask],
             UNCHANGED <<queue, pc, asked, deaths>>,
             open'[s] >= open[s] - (IF work[w].svc = s THEN 1 ELSE 0)
      PROVE Covered(s)' /\ Bounded(s)'
  <2>1. /\ Queued(s)' = Queued(s) /\ Inserting(s)' = Inserting(s) /\ Publishing(s)' = Publishing(s)
    BY <1>7 DEF Queued, Inserting, Publishing
  <2>2. open'[s] \in Nat
    BY DEF LockTypeOK
  <2>3. CASE work[w].svc = s
    <3>1. RunBy(s)' = RunBy(s) \ {w} /\ w \in RunBy(s)
      BY <1>7, <2>3 DEF RunBy, LockTypeOK
    <3>2. Cardinality(RunBy(s)') = Cardinality(RunBy(s)) - 1
      BY <1>b, <3>1, FS_RemoveElement
    <3>3. open'[s] >= open[s] - 1
      BY <1>7, <2>3
    <3> QED
      BY <1>7, <1>a, <1>b, <2>1, <2>2, <3>2, <3>3 DEF Covered, Bounded
  <2>4. CASE work[w].svc # s
    <3>1. RunBy(s)' = RunBy(s)
      BY <1>7, <2>4 DEF RunBy, LockTypeOK
    <3>2. open'[s] >= open[s]
      BY <1>7, <1>b, <2>4
    <3> QED
      BY <1>7, <1>a, <1>b, <2>1, <2>2, <3>1, <3>2 DEF Covered, Bounded
  <2> QED
    BY <2>3, <2>4
<1>8. ASSUME NEW w \in Workers, NEW raised \in BOOLEAN, Finish(w, raised)
      PROVE Covered(s)' /\ Bounded(s)'
  <2>1. work[w] # NoTask /\ work' = [work EXCEPT ![w] = NoTask]
        /\ UNCHANGED <<queue, pc, asked, deaths>> /\ work[w].svc \in Services
    BY <1>8 DEF Finish, LockTypeOK, Tasks
  <2>2. open'[s] >= open[s] - (IF work[w].svc = s THEN 1 ELSE 0)
    <3>1. CASE Releases(raised) /\ work[w].svc = s
      <4>1. open'[s] = Close(s)
        BY <1>8, <3>1 DEF Finish, LockTypeOK
      <4> QED
        BY <1>b, <3>1, <4>1 DEF Close
    <3>2. CASE ~(Releases(raised) /\ work[w].svc = s)
      <4>1. open'[s] = open[s]
        BY <1>8, <2>1, <3>2 DEF Finish, LockTypeOK
      <4> QED
        BY <1>b, <4>1
    <3> QED
      BY <3>1, <3>2
  <2> QED
    BY <1>7, <2>1, <2>2
<1>9. ASSUME NEW w \in Workers, WorkerCrash(w) PROVE Covered(s)' /\ Bounded(s)'
  <2>1. work[w] # NoTask /\ work' = [work EXCEPT ![w] = NoTask]
        /\ UNCHANGED <<queue, pc, asked, deaths, open>>
    BY <1>9 DEF WorkerCrash
  <2>2. open'[s] >= open[s] - (IF work[w].svc = s THEN 1 ELSE 0)
    BY <1>b, <2>1
  <2> QED
    BY <1>7, <2>1, <2>2
<1>10. CASE UNCHANGED lockVars
  <2>1. /\ Queued(s)' = Queued(s) /\ RunBy(s)' = RunBy(s) /\ Inserting(s)' = Inserting(s)
        /\ Publishing(s)' = Publishing(s) /\ UNCHANGED <<open, deaths>>
    BY <1>10 DEF lockVars, Queued, RunBy, Inserting, Publishing
  <2> QED
    BY <1>a, <1>b, <2>1 DEF Covered, Bounded
<1> QED
  BY <1>1, <1>2, <1>3, <1>4, <1>5, <1>6, <1>8, <1>9, <1>10 DEF LockNext, RequestStep

\* However many requests race and in whatever order rows are inserted and tasks end, the
\* tasks of a service have their rows, or requests about to insert them, but for one task of
\* each request that died.
THEOREM RowsCoverTasks == LockSpec => []LockCoversTasks
BY CountInit, CountStep, LockTypeCorrect, PTL DEF LockSpec

\* A service never has more tasks than the webapp serves requests at once, and one of each
\* request that died.
THEOREM TasksStayBounded == LockSpec => []TasksBounded
BY CountInit, CountStep, LockTypeCorrect, PTL DEF LockSpec

\* Both at once, as the run of sshcontainer_vm checks them.
THEOREM TasksAreCovered == LockSpec => []TasksCovered
<1>1. LockCoversTasks /\ TasksBounded => TasksCovered
  BY DEF TasksCovered
<1> QED
  BY <1>1, RowsCoverTasks, TasksStayBounded, PTL
=============================================================================

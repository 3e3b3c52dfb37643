--------------------------- MODULE K8sServiceProofs ---------------------------
(***************************************************************************)
(* Proofs about K8sService: types, the locking discipline of SvcLock, the  *)
(* ways in which a service loses its ports, and that a service at rest has *)
(* what its row says, for any number of teams, services and workers.       *)
(***************************************************************************)
EXTENDS K8sService, SvcLockProofs

\* Every step of a worker on a service is a step of SvcLock, or changes nothing of it.
LEMMA StepImplementsLock == [Next]_vars => [LockNext]_lockVars
<1> SUFFICES ASSUME [Next]_vars PROVE [LockNext]_lockVars
  OBVIOUS
<1>1. CASE \E h \in Handlers : RequestStep(h) /\ UNCHANGED k8sVars
  BY <1>1 DEF LockNext
<1>2. ASSUME NEW w \in Workers, StartTask(w) PROVE LockNext
  BY <1>2 DEF StartTask, LockNext
<1>3. ASSUME NEW w \in Workers, EndTask(w) PROVE LockNext
  <2>1. (step[w] = "raised") \in BOOLEAN
    OBVIOUS
  <2> QED
    BY <1>3, <2>1 DEF EndTask, LockNext
<1>4. ASSUME NEW w \in Workers, Die(w) PROVE LockNext
  BY <1>4 DEF Die, LockNext
<1>5. ASSUME NEW w \in Workers,
             \/ Raise(w) \/ CreateConfigMap(w) \/ CreateDeployment(w) \/ InsertRow(w)
             \/ ReadLoadBalancer(w) \/ ReadFails(w) \/ WriteLoadBalancer(w)
             \/ DeleteDeployment(w) \/ DeleteConfigMap(w) \/ DeleteRow(w) \/ PatchDeployment(w)
      PROVE UNCHANGED lockVars
  BY <1>5 DEF Raise, CreateConfigMap, CreateDeployment, InsertRow, ReadLoadBalancer, ReadFails,
              WriteLoadBalancer, DeleteDeployment, DeleteConfigMap, DeleteRow, PatchDeployment
<1>6. CASE UNCHANGED vars
  BY <1>6 DEF vars
<1> QED
  BY <1>1, <1>2, <1>3, <1>4, <1>5, <1>6 DEF Next, TaskStep

\* full_k8s_gcp implements SvcLock: whatever a task does to a service, its row in the pending
\* list is inserted, and closed unless the task raised.
THEOREM K8sImplementsLock == Spec => ImplementsLock
<1>1. Init => LockInit
  BY DEF Init
<1> QED
  BY <1>1, StepImplementsLock, PTL DEF Spec, LockSpec, ImplementsLock

-----------------------------------------------------------------------------
(* Types. *)

\* What a task remembers of the load balancer.
ReadType == [failed : BOOLEAN, seen : SUBSET Services]

\* Every worker starts idle, and every team without load balancer.
LEMMA TypeInit == Init => TypeOK
<1> SUFFICES ASSUME Init PROVE TypeOK
  OBVIOUS
<1>1. LockTypeOK
  BY LockTypeInit DEF Init
<1>2. NothingRead \in ReadType
  BY DEF NothingRead, ReadType
<1> QED
  BY <1>1, <1>2 DEF Init, TypeOK, LockInit, Steps, ReadType

\* No step of a task breaks a type.
LEMMA TypeStep == TypeOK /\ [Next]_vars => TypeOK'
<1> SUFFICES ASSUME TypeOK, [Next]_vars PROVE TypeOK'
  OBVIOUS
<1> USE K8sServiceAssumption, SvcLockAssumption
<1>a. LockTypeOK'
  BY StepImplementsLock, LockTypeStep DEF TypeOK
<1>b. ASSUME NEW w \in Workers, work[w] # NoTask
      PROVE  Svc(w) \in Services /\ TeamOf[Svc(w)] \in Teams /\ Prefixed[Svc(w)] \subseteq Services
  BY <1>b DEF TypeOK, LockTypeOK, Tasks, Svc
<1>c. NothingRead \in ReadType
  BY DEF NothingRead, ReadType
<1>1. CASE \E h \in Handlers : RequestStep(h) /\ UNCHANGED k8sVars
  <2>1. UNCHANGED work
    BY <1>1 DEF RequestStep, Ask, Refuse, Publish, Insert, RequestDies
  <2> QED
    BY <1>a, <1>1, <2>1 DEF TypeOK, k8sVars
\* A worker that takes a task, ends it or dies.
<1>2. ASSUME NEW w \in Workers, NEW to \in Steps, NEW t,
             step' = [step EXCEPT ![w] = to], work' = [work EXCEPT ![w] = t],
             to = "idle" <=> t = NoTask,
             UNCHANGED <<row, config, deployed, lb, key, read, made, faults, stale>>
      PROVE  TypeOK'
  <2>1. \A v \in Workers : step'[v] = "idle" <=> work'[v] = NoTask
    BY <1>2 DEF TypeOK, LockTypeOK
  <2>2. step' \in [Workers -> Steps]
    BY <1>2 DEF TypeOK
  <2> QED
    BY <1>a, <1>2, <2>1, <2>2 DEF TypeOK
<1>3. ASSUME NEW w \in Workers, StartTask(w) PROVE TypeOK'
  <2>1. Head(queue) # NoTask
    BY <1>3, HeadTailProperties DEF StartTask, Take, TypeOK, LockTypeOK
  <2>2. FirstStep(Head(queue).act) \in Steps \ {"idle"}
    BY DEF FirstStep, Steps
  <2> QED
    BY <1>2, <1>3, <2>1, <2>2 DEF StartTask, Take, Goto
<1>4. ASSUME NEW w \in Workers, EndTask(w) \/ Die(w) PROVE TypeOK'
  <2>1. "idle" \in Steps
    BY DEF Steps
  <2> QED
    BY <1>2, <1>4, <2>1 DEF EndTask, Die, Finish, WorkerCrash, Goto
\* A worker that goes on with its task.
<1>5. ASSUME NEW w \in Workers, UNCHANGED lockVars, work[w] # NoTask,
             NEW to \in Steps \ {"idle"}, Goto(w, to),
             row' \in [Services -> Nat], config' \in [Services -> Nat], deployed' \subseteq Services,
             lb' \in [Teams -> SUBSET Services], key' \in [Workers -> Nat],
             read' \in [Workers -> ReadType], made' \in Nat, faults' \in Nat, stale' \subseteq Teams
      PROVE  TypeOK'
  <2>1. \A v \in Workers : step'[v] = "idle" <=> work'[v] = NoTask
    BY <1>5 DEF TypeOK, LockTypeOK, Goto, lockVars
  <2>2. step' \in [Workers -> Steps]
    BY <1>5 DEF TypeOK, Goto
  <2> QED
    BY <1>a, <1>5, <2>1, <2>2 DEF TypeOK, ReadType
<1>d. faults + 1 \in Nat /\ made + 1 \in Nat
  BY DEF TypeOK
<1>6. ASSUME NEW w \in Workers, Raise(w) PROVE TypeOK'
  <2>1. /\ work[w] # NoTask /\ UNCHANGED lockVars /\ Goto(w, "raised") /\ faults' = faults + 1
        /\ UNCHANGED <<row, config, deployed, lb, key, read, made, stale>>
    BY <1>6 DEF Raise, Fault
  <2>2. "raised" \in Steps \ {"idle"}
    BY DEF Steps
  <2> QED
    BY <1>5, <1>d, <2>1, <2>2 DEF TypeOK, ReadType
<1>7. ASSUME NEW w \in Workers, CreateConfigMap(w) PROVE TypeOK'
  <2>1. config' \in [Services -> Nat] /\ faults' \in Nat
    BY <1>7, <1>b, <1>d DEF CreateConfigMap, At, NoFault, Fault, TypeOK
  <2>2. key' \in [Workers -> Nat] /\ made' \in Nat
    BY <1>7, <1>d DEF CreateConfigMap, TypeOK
  <2>3. /\ work[w] # NoTask /\ UNCHANGED lockVars /\ Goto(w, "deploy") /\ "deploy" \in Steps \ {"idle"}
        /\ UNCHANGED <<row, deployed, lb, read, stale>>
    BY <1>7 DEF CreateConfigMap, At, Steps
  <2> QED
    BY <1>5, <2>1, <2>2, <2>3 DEF TypeOK, ReadType
<1>8. ASSUME NEW w \in Workers, CreateDeployment(w) PROVE TypeOK'
  <2>1. deployed' \subseteq Services /\ faults' \in Nat
    BY <1>8, <1>b, <1>d DEF CreateDeployment, At, NoFault, Fault, TypeOK
  <2>2. /\ work[w] # NoTask /\ UNCHANGED lockVars /\ Goto(w, "read") /\ "read" \in Steps \ {"idle"}
        /\ UNCHANGED <<row, config, lb, key, read, made, stale>>
    BY <1>8 DEF CreateDeployment, At, Steps
  <2> QED
    BY <1>5, <2>1, <2>2 DEF TypeOK, ReadType
<1>9. ASSUME NEW w \in Workers, InsertRow(w) PROVE TypeOK'
  <2>1. row' \in [Services -> Nat] /\ \E to \in {"done", "raised"} : Goto(w, to)
    BY <1>9, <1>b DEF InsertRow, At, TypeOK
  <2>2. /\ work[w] # NoTask /\ UNCHANGED lockVars /\ {"done", "raised"} \subseteq Steps \ {"idle"}
        /\ UNCHANGED <<config, deployed, lb, key, read, made, faults, stale>>
    BY <1>9 DEF InsertRow, At, Steps
  <2> QED
    BY <1>5, <2>1, <2>2 DEF TypeOK, ReadType
<1>10. ASSUME NEW w \in Workers, ReadLoadBalancer(w) \/ ReadFails(w) PROVE TypeOK'
  <2>1. Lb(Svc(w)) \subseteq Services
    BY <1>10, <1>b DEF ReadLoadBalancer, ReadFails, At, TypeOK, Lb
  <2>2. PICK r \in ReadType : read' = [read EXCEPT ![w] = r]
    BY <1>10, <2>1 DEF ReadLoadBalancer, ReadFails, ReadType
  <2>3. read' \in [Workers -> ReadType]
    BY <2>2 DEF TypeOK, ReadType
  <2>4. faults' \in Nat /\ \E to \in {"unconfigure", "write"} : Goto(w, to)
    BY <1>10, <1>d DEF ReadLoadBalancer, ReadFails, Fault, TypeOK
  <2>5. /\ work[w] # NoTask /\ UNCHANGED lockVars /\ {"unconfigure", "write"} \subseteq Steps \ {"idle"}
        /\ UNCHANGED <<row, config, deployed, lb, key, made, stale>>
    BY <1>10 DEF ReadLoadBalancer, ReadFails, At, Steps
  <2> QED
    BY <1>5, <2>3, <2>4, <2>5 DEF TypeOK
<1>11. ASSUME NEW w \in Workers, WriteLoadBalancer(w) PROVE TypeOK'
  <2>1. /\ Svc(w) \in Services /\ TeamOf[Svc(w)] \in Teams /\ Lb(Svc(w)) \subseteq Services
        /\ read[w].seen \subseteq Services
    BY <1>11, <1>b DEF WriteLoadBalancer, At, TypeOK, Lb
  <2>2. NewLb(w) \subseteq Services
    BY <2>1 DEF NewLb, Written, Ports, Kept
  <2>3. lb' \in [Teams -> SUBSET Services] /\ stale' \subseteq Teams /\ faults' \in Nat
    <3>1. CASE NoFault /\ lb' = [lb EXCEPT ![TeamOf[Svc(w)]] = NewLb(w)] /\ NoteStale(w)
      BY <2>1, <2>2, <3>1 DEF NoFault, NoteStale, TypeOK
    <3>2. CASE Fault /\ UNCHANGED <<lb, stale>>
      BY <1>d, <3>2 DEF Fault, TypeOK
    <3> QED
      BY <1>11, <3>1, <3>2 DEF WriteLoadBalancer
  <2>4. read' \in [Workers -> ReadType]
    BY <1>11, <1>c DEF WriteLoadBalancer, TypeOK, ReadType
  <2>5. /\ work[w] # NoTask /\ UNCHANGED lockVars /\ Goto(w, AfterWrite(w))
        /\ AfterWrite(w) \in Steps \ {"idle"}
        /\ UNCHANGED <<row, config, deployed, key, made>>
    BY <1>11 DEF WriteLoadBalancer, At, AfterWrite, Steps
  <2> QED
    BY <1>5, <2>3, <2>4, <2>5 DEF TypeOK
<1>12. ASSUME NEW w \in Workers, DeleteDeployment(w) PROVE TypeOK'
  <2>1. deployed' \subseteq Services /\ faults' \in Nat
    BY <1>12, <1>d DEF DeleteDeployment, NoFault, Fault, TypeOK
  <2>2. /\ work[w] # NoTask /\ UNCHANGED lockVars /\ Goto(w, "read") /\ "read" \in Steps \ {"idle"}
        /\ UNCHANGED <<row, config, lb, key, read, made, stale>>
    BY <1>12 DEF DeleteDeployment, At, Steps
  <2> QED
    BY <1>5, <2>1, <2>2 DEF TypeOK, ReadType
<1>13. ASSUME NEW w \in Workers, DeleteConfigMap(w) PROVE TypeOK'
  <2>1. config' \in [Services -> Nat] /\ faults' \in Nat
    BY <1>13, <1>b, <1>d DEF DeleteConfigMap, ConfigGone, At, NoFault, Fault, TypeOK
  <2>2. /\ work[w] # NoTask /\ UNCHANGED lockVars /\ Goto(w, "unrow") /\ "unrow" \in Steps \ {"idle"}
        /\ UNCHANGED <<row, deployed, lb, key, read, made, stale>>
    BY <1>13 DEF DeleteConfigMap, At, Steps
  <2> QED
    BY <1>5, <2>1, <2>2 DEF TypeOK, ReadType
<1>14. ASSUME NEW w \in Workers, DeleteRow(w) \/ PatchDeployment(w) PROVE TypeOK'
  <2>1. row' \in [Services -> Nat]
    BY <1>14, <1>b DEF DeleteRow, PatchDeployment, At, TypeOK
  <2>2. /\ work[w] # NoTask /\ UNCHANGED lockVars /\ Goto(w, "done") /\ "done" \in Steps \ {"idle"}
        /\ UNCHANGED <<config, deployed, lb, key, read, made, faults, stale>>
    BY <1>14 DEF DeleteRow, PatchDeployment, At, Steps
  <2> QED
    BY <1>5, <2>1, <2>2 DEF TypeOK, ReadType
<1>15. CASE UNCHANGED vars
  BY <1>a, <1>15 DEF TypeOK, vars, k8sVars, lockVars
<1> QED
  BY <1>1, <1>3, <1>4, <1>6, <1>7, <1>8, <1>9, <1>10, <1>11, <1>12, <1>13, <1>14, <1>15
  DEF Next, TaskStep

\* Rows, load balancers and the workers' locals keep their types, for any number of teams,
\* services, requests and workers.
THEOREM TypeCorrect == Spec => []TypeOK
BY TypeInit, TypeStep, PTL DEF Spec

-----------------------------------------------------------------------------
(* The load balancer of a team. *)

\* No worker has a task yet.
LEMMA ReadInit == Init => ReadInv
BY DEF Init, ReadInv

\* A task that is neither a provision nor a delete begins elsewhere.
LEMMA ReadStep == TypeOK /\ ReadInv /\ [Next]_vars => ReadInv'
<1> SUFFICES ASSUME TypeOK, ReadInv, [Next]_vars PROVE ReadInv'
  OBVIOUS
<1> DEFINE ToWrite == {"configure", "deploy", "undeploy", "read", "write"}
<1>1. CASE \E h \in Handlers : RequestStep(h) /\ UNCHANGED k8sVars
  <2>1. UNCHANGED work
    BY <1>1 DEF RequestStep, Ask, Refuse, Publish, Insert, RequestDies
  <2> QED
    BY <1>1, <2>1 DEF ReadInv, k8sVars, Act
\* The worker w alone moves.
<1>2. ASSUME NEW w \in Workers,
             \A v \in Workers \ {w} : step'[v] = step[v] /\ work'[v] = work[v],
             step'[w] \in ToWrite => Act(w)' \in {"provision", "delete"}
      PROVE  ReadInv'
  BY <1>2 DEF ReadInv, Act
<1>3. ASSUME NEW w \in Workers, StartTask(w) PROVE ReadInv'
  <2>1. /\ work' = [work EXCEPT ![w] = Head(queue)]
        /\ step' = [step EXCEPT ![w] = FirstStep(Head(queue).act)]
    BY <1>3 DEF StartTask, Take, Goto
  <2>2. step'[w] = FirstStep(Head(queue).act) /\ Act(w)' = Head(queue).act
    BY <2>1 DEF TypeOK, LockTypeOK, Act
  <2> QED
    BY <1>2, <2>1, <2>2 DEF TypeOK, LockTypeOK, FirstStep
<1>4. ASSUME NEW w \in Workers, EndTask(w) \/ Die(w) PROVE ReadInv'
  <2>1. work' = [work EXCEPT ![w] = NoTask] /\ step' = [step EXCEPT ![w] = "idle"]
    BY <1>4 DEF EndTask, Die, Finish, WorkerCrash, Goto
  <2> QED
    BY <1>2, <2>1 DEF TypeOK, LockTypeOK
\* A task that goes on.
<1>5. ASSUME NEW w \in Workers, NEW to, Goto(w, to), UNCHANGED lockVars,
             to \in ToWrite => step[w] \in ToWrite
      PROVE  ReadInv'
  <2>1. /\ UNCHANGED work /\ Act(w)' = Act(w) /\ step'[w] = to
        /\ \A v \in Workers \ {w} : step'[v] = step[v]
    BY <1>5 DEF lockVars, Goto, Act, TypeOK
  <2> QED
    BY <1>2, <1>5, <2>1 DEF ReadInv
<1>6. ASSUME NEW w \in Workers,
             \/ Raise(w) \/ CreateConfigMap(w) \/ CreateDeployment(w) \/ InsertRow(w)
             \/ ReadLoadBalancer(w) \/ ReadFails(w) \/ WriteLoadBalancer(w)
             \/ DeleteDeployment(w) \/ DeleteConfigMap(w) \/ DeleteRow(w) \/ PatchDeployment(w)
      PROVE ReadInv'
  BY <1>5, <1>6 DEF Raise, CreateConfigMap, CreateDeployment, InsertRow, ReadLoadBalancer,
                    ReadFails, WriteLoadBalancer, AfterWrite, DeleteDeployment,
                    DeleteConfigMap, DeleteRow, PatchDeployment, At
<1>7. CASE UNCHANGED vars
  BY <1>7 DEF vars, k8sVars, lockVars, ReadInv, Act
<1> QED
  BY <1>1, <1>3, <1>4, <1>6, <1>7 DEF Next, TaskStep

\* Whatever fails and however tasks interleave, a service loses its ports to its own delete, to
\* a service whose slug its own begins with, or to a task whose read failed or is out of date.
THEOREM PortsLostOnlySo == Spec => PortsLost
<1>1. TypeOK /\ ReadInv /\ [Next]_vars
        => [\A s \in Services :
              s \in Lb(s) /\ s \notin lb'[TeamOf[s]] =>
                \E w \in Workers :
                  /\ At(w, "write") /\ step'[w] # "write" /\ TeamOf[Svc(w)] = TeamOf[s]
                  /\ \/ Svc(w) = s /\ Act(w) = "delete"
                     \/ s \in Prefixed[Svc(w)]
                     \/ read[w].failed
                     \/ read[w].seen # Lb(s)]_vars
  <2> SUFFICES ASSUME TypeOK, ReadInv, Next, NEW s \in Services,
                      s \in Lb(s), s \notin lb'[TeamOf[s]]
               PROVE  \E w \in Workers :
                        /\ At(w, "write") /\ step'[w] # "write" /\ TeamOf[Svc(w)] = TeamOf[s]
                        /\ \/ Svc(w) = s /\ Act(w) = "delete"
                           \/ s \in Prefixed[Svc(w)]
                           \/ read[w].failed
                           \/ read[w].seen # Lb(s)
    OBVIOUS
  <2>1. PICK w \in Workers : WriteLoadBalancer(w) /\ lb' # lb
    <3>1. lb' # lb
      BY DEF Lb
    <3> QED
      BY <3>1 DEF Next, TaskStep, k8sVars, StartTask, EndTask, Die, Raise, CreateConfigMap,
         CreateDeployment, InsertRow, ReadLoadBalancer, ReadFails, DeleteDeployment,
         DeleteConfigMap, DeleteRow, PatchDeployment
  <2>2. At(w, "write") /\ step'[w] # "write"
    BY <2>1 DEF WriteLoadBalancer, Goto, AfterWrite, TypeOK
  <2>3. lb' = [lb EXCEPT ![TeamOf[Svc(w)]] = NewLb(w)]
    BY <2>1 DEF WriteLoadBalancer
  <2>4. TeamOf[Svc(w)] = TeamOf[s] /\ s \notin NewLb(w)
    BY <2>3, K8sServiceAssumption DEF TypeOK, Lb
  <2>5. ASSUME ~read[w].failed, read[w].seen = Lb(s), s \notin Prefixed[Svc(w)]
        PROVE  Svc(w) = s /\ Act(w) = "delete"
    <3>1. Act(w) \in {"provision", "delete"} /\ Lb(Svc(w)) = Lb(s)
      BY <2>2, <2>4 DEF ReadInv, At, Lb
    <3>2. NewLb(w) = Ports(w)
      BY <2>5, <3>1 DEF NewLb, Written, Found
    <3>3. s \notin Ports(w)
      BY <2>4, <3>2
    <3> QED
      BY <2>5, <3>1, <3>3 DEF Ports, Kept, Covers
  <2> QED
    BY <2>2, <2>4, <2>5
<1> QED
  BY <1>1, ReadInit, ReadStep, TypeCorrect, PTL DEF Spec, PortsLost

-----------------------------------------------------------------------------
(* A service at rest. *)

\* No request to Kubernetes failed, no task raised for its own reasons, no worker or request died.
Calm == faults = 0 /\ crashes = 0 /\ deaths = 0

\* A worker runs a task of s.
On(w, s) == work[w] # NoTask /\ Svc(w) = s

\* The slug of s begins with that of no other service.
NoPrefix(s) == \A v \in Services : s \notin Prefixed[v]

Together(s) ==
  /\ s \in deployed <=> row[s] # 0
  /\ NoPrefix(s) => (s \in Lb(s) <=> row[s] # 0)
  /\ config[s] = row[s]

\* Which steps belong to which operation.
StepsInv ==
  \A w \in Workers :
    /\ step[w] \in {"configure", "deploy", "insert"} => Act(w) = "provision"
    /\ step[w] \in {"undeploy", "unconfigure", "unrow"} => Act(w) = "delete"

\* The key of s between the config map and the row of a provision or delete.
KeyAt(w, s) ==
  CASE step[w] \in {"deploy", "insert"} \/ (step[w] \in {"read", "write"} /\ Act(w) = "provision") ->
         key[w] # 0 /\ config[s] = IF row[s] = 0 THEN key[w] ELSE row[s]
    [] step[w] = "unrow" -> config[s] = 0
    [] OTHER -> config[s] = row[s]

\* The deployment of s, which is made or removed before the rest.
DeployedAt(w, s) ==
  s \in deployed <=> IF step[w] \in {"read", "write", "insert", "unconfigure", "unrow"}
                     THEN Act(w) = "provision" ELSE row[s] # 0

\* The ports of s, once the load balancer is written.
PortsAt(w, s) ==
  s \in Lb(s) <=> CASE step[w] = "insert" -> TRUE
                    [] step[w] \in {"unconfigure", "unrow"} -> FALSE
                    [] OTHER -> row[s] # 0

\* Row, config map, deployment and ports of s go together, except for what a task of s is
\* in the middle of.
RestInv(s) ==
  /\ (\A w \in Workers : ~On(w, s)) => Together(s)
  /\ \A w \in Workers :
       On(w, s) => KeyAt(w, s) /\ DeployedAt(w, s) /\ (NoPrefix(s) => PortsAt(w, s))

\* What a task remembers of the load balancer was read.
NoReadFailed == \A w \in Workers : ~read[w].failed

\* Nothing has failed before if nothing has failed yet, and what fails is not taken.
LEMMA CalmBefore ==
  ASSUME TypeOK, [Next]_vars, Calm'
  PROVE  Calm /\ ~Fault /\ \A w \in Workers : ~Die(w)
<1>1. /\ UNCHANGED faults \/ faults' = faults + 1
      /\ UNCHANGED crashes \/ crashes' = crashes + 1
      /\ UNCHANGED deaths \/ deaths' = deaths + 1
  BY DEF Next, RequestStep, Ask, Refuse, Publish, Insert, RequestDies, TaskStep, StartTask, Take, EndTask,
     Finish, Die, WorkerCrash, Raise, CreateConfigMap, CreateDeployment, InsertRow, ReadLoadBalancer,
     ReadFails, WriteLoadBalancer, DeleteDeployment, DeleteConfigMap, DeleteRow, PatchDeployment,
     Fault, NoFault, vars, lockVars, k8sVars
<1>2. faults \in Nat /\ crashes \in Nat /\ deaths \in Nat
  BY DEF TypeOK, LockTypeOK
<1> QED
  BY <1>1, <1>2 DEF Calm, Fault, Die, WorkerCrash

\* With at most one task of a service in flight, two workers never run tasks of one.
LEMMA OneWorker ==
  ASSUME AtMostOneTask, NEW s \in Services, NEW v \in Workers, NEW w \in Workers, On(v, s), On(w, s)
  PROVE  v = w
<1>1. v \in RunBy(s) /\ w \in RunBy(s)
  BY DEF RunBy, On, Svc
<1> QED
  BY <1>1 DEF AtMostOneTask

\* A step of one worker is no step of another, and a team whose load balancer was changed in
\* between stays so.
LEMMA OthersSame ==
  ASSUME TypeOK, NEW w \in Workers, TaskStep(w)
  PROVE  /\ stale \subseteq stale'
         /\ \A v \in Workers \ {w} :
              work'[v] = work[v] /\ step'[v] = step[v] /\ key'[v] = key[v] /\ read'[v] = read[v]
<1>1. CASE StartTask(w) \/ EndTask(w) \/ Die(w)
  BY <1>1 DEF TypeOK, StartTask, Take, EndTask, Finish, Die, WorkerCrash, Goto, LockTypeOK
<1>2. CASE Raise(w) \/ CreateConfigMap(w) \/ CreateDeployment(w) \/ InsertRow(w)
  BY <1>2 DEF TypeOK, Raise, CreateConfigMap, CreateDeployment, InsertRow, Goto, lockVars
<1>3. CASE ReadLoadBalancer(w) \/ ReadFails(w) \/ WriteLoadBalancer(w)
  BY <1>3 DEF TypeOK, ReadLoadBalancer, ReadFails, WriteLoadBalancer, NoteStale, Goto, lockVars
<1>4. CASE DeleteDeployment(w) \/ DeleteConfigMap(w) \/ DeleteRow(w) \/ PatchDeployment(w)
  BY <1>4 DEF TypeOK, DeleteDeployment, DeleteConfigMap, DeleteRow, PatchDeployment, Goto, lockVars
<1> QED
  BY <1>1, <1>2, <1>3, <1>4 DEF TaskStep

\* What a task knows of its service.
LEMMA TaskOf ==
  ASSUME TypeOK, NEW w \in Workers, work[w] # NoTask
  PROVE  Svc(w) \in Services /\ TeamOf[Svc(w)] \in Teams
BY K8sServiceAssumption DEF TypeOK, LockTypeOK, Tasks, Svc

\* A task enters the steps of its own operation only.
LEMMA StepsStep == TypeOK /\ StepsInv /\ ReadInv /\ [Next]_vars => StepsInv'
<1> SUFFICES ASSUME TypeOK, StepsInv, ReadInv, [Next]_vars PROVE StepsInv'
  OBVIOUS
<1>1. CASE \E h \in Handlers : RequestStep(h) /\ UNCHANGED k8sVars
  <2>1. UNCHANGED work
    BY <1>1 DEF RequestStep, Ask, Refuse, Publish, Insert, RequestDies
  <2> QED
    BY <1>1, <2>1 DEF StepsInv, k8sVars, Act
<1>2. CASE UNCHANGED vars
  BY <1>2 DEF vars, lockVars, k8sVars, StepsInv, Act
<1>3. ASSUME NEW w \in Workers, TaskStep(w) PROVE StepsInv'
  <2> SUFFICES /\ step'[w] \in {"configure", "deploy", "insert"} => Act(w)' = "provision"
               /\ step'[w] \in {"undeploy", "unconfigure", "unrow"} => Act(w)' = "delete"
    BY <1>3, OthersSame DEF StepsInv, Act
  <2>1. CASE StartTask(w)
    BY <2>1 DEF StartTask, Take, FirstStep, Goto, Act, TypeOK, LockTypeOK
  <2>2. CASE EndTask(w) \/ Die(w)
    BY <2>2 DEF EndTask, Die, Goto, TypeOK
  <2>3. CASE Raise(w) \/ CreateConfigMap(w) \/ CreateDeployment(w) \/ InsertRow(w)
             \/ DeleteDeployment(w) \/ DeleteConfigMap(w) \/ DeleteRow(w) \/ PatchDeployment(w)
    BY <2>3 DEF Raise, CreateConfigMap, CreateDeployment, InsertRow, DeleteDeployment, DeleteConfigMap,
       DeleteRow, PatchDeployment, At, Goto, Act, lockVars, TypeOK, StepsInv
  <2>4. CASE ReadLoadBalancer(w) \/ ReadFails(w) \/ WriteLoadBalancer(w)
    <3>1. Act(w)' = Act(w) /\ Act(w) \in {"provision", "delete"}
      BY <2>4 DEF ReadLoadBalancer, ReadFails, WriteLoadBalancer, At, Act, lockVars, ReadInv
    <3> QED
      BY <2>4, <3>1 DEF ReadLoadBalancer, ReadFails, WriteLoadBalancer, AfterWrite, Goto, TypeOK
  <2> QED
    BY <1>3, <2>1, <2>2, <2>3, <2>4 DEF TaskStep
<1> QED
  BY <1>1, <1>2, <1>3 DEF Next

\* A read that did not fail is remembered so.
LEMMA ReadsStep == TypeOK /\ NoReadFailed /\ [Next]_vars /\ ~Fault => NoReadFailed'
<1> SUFFICES ASSUME TypeOK, NoReadFailed, [Next]_vars, ~Fault PROVE NoReadFailed'
  OBVIOUS
<1>1. CASE UNCHANGED read
  BY <1>1 DEF NoReadFailed
<1>2. ASSUME NEW w \in Workers, ReadLoadBalancer(w) \/ WriteLoadBalancer(w) PROVE NoReadFailed'
  <2>1. PICK r : ~r.failed /\ read' = [read EXCEPT ![w] = r]
    BY <1>2 DEF ReadLoadBalancer, WriteLoadBalancer, NothingRead
  <2> QED
    BY <2>1 DEF NoReadFailed, TypeOK
<1> QED
  BY <1>1, <1>2 DEF Next, TaskStep, StartTask, EndTask, Die, Raise, CreateConfigMap, CreateDeployment,
     InsertRow, ReadFails, DeleteDeployment, DeleteConfigMap, DeleteRow, PatchDeployment, k8sVars, vars

\* The load balancer that a task without faults writes, from what is still there: the ports of
\* another service stay as they are, unless its slug begins with that of the task's service.
LEMMA WriteKeeps ==
  ASSUME NEW w \in Workers, ~read[w].failed, read[w].seen = Lb(Svc(w)), NEW s
  PROVE  /\ s \notin Covers(Svc(w)) => (s \in NewLb(w) <=> s \in Lb(Svc(w)))
         /\ Act(w) = "provision" => Svc(w) \in NewLb(w)
         /\ Act(w) = "delete" => Svc(w) \notin NewLb(w)
<1>1. NewLb(w) = Ports(w)
  BY DEF NewLb, Written, Found, Ports, Kept
<1> QED
  BY <1>1 DEF Ports, Kept, Covers

\* A worker that does not work for s changes nothing of it, but for its ports when the load
\* balancer has changed since it was read.
LEMMA ServicesSame ==
  ASSUME TypeOK, NoReadFailed, ~Fault, NEW w \in Workers, TaskStep(w),
         NEW s \in Services, ~On(w, s), TeamOf[s] \notin stale'
  PROVE  /\ row'[s] = row[s] /\ config'[s] = config[s] /\ (s \in deployed' <=> s \in deployed)
         /\ NoPrefix(s) => (s \in Lb(s)' <=> s \in Lb(s))
<1>a. work[w] # NoTask => Svc(w) \in Services /\ TeamOf[Svc(w)] \in Teams /\ s # Svc(w)
  BY TaskOf DEF On
<1>b. row \in [Services -> Nat] /\ config \in [Services -> Nat] /\ lb \in [Teams -> SUBSET Services]
  BY DEF TypeOK
<1>1. CASE StartTask(w) \/ EndTask(w) \/ Die(w) \/ Raise(w) \/ ReadLoadBalancer(w) \/ ReadFails(w)
           \/ PatchDeployment(w)
  BY <1>1 DEF StartTask, EndTask, Die, Raise, ReadLoadBalancer, ReadFails, PatchDeployment, Lb
<1>2. CASE CreateConfigMap(w) \/ DeleteConfigMap(w) \/ InsertRow(w) \/ DeleteRow(w)
  BY <1>a, <1>b, <1>2 DEF CreateConfigMap, DeleteConfigMap, InsertRow, DeleteRow, At, Lb
<1>3. CASE CreateDeployment(w) \/ DeleteDeployment(w)
  BY <1>a, <1>3 DEF CreateDeployment, DeleteDeployment, At, Lb
<1>4. CASE WriteLoadBalancer(w)
  <2>1. /\ work[w] # NoTask /\ lb' = [lb EXCEPT ![TeamOf[Svc(w)]] = NewLb(w)] /\ NoteStale(w)
        /\ UNCHANGED <<row, config, deployed>>
    BY <1>4 DEF WriteLoadBalancer, At
  <2>2. ASSUME NoPrefix(s), TeamOf[Svc(w)] = TeamOf[s] PROVE s \in Lb(s)' <=> s \in Lb(s)
    <3>1. read[w].seen = Lb(Svc(w)) /\ ~read[w].failed
      BY <2>1, <2>2 DEF NoteStale, NoReadFailed
    <3>2. s \notin Covers(Svc(w))
      BY <1>a, <2>1, <2>2 DEF NoPrefix, Covers
    <3>3. Lb(s)' = NewLb(w) /\ Lb(Svc(w)) = Lb(s)
      BY <1>a, <1>b, <2>1, <2>2 DEF Lb
    <3> QED
      BY <3>1, <3>2, <3>3, WriteKeeps
  <2>3. TeamOf[Svc(w)] # TeamOf[s] => Lb(s)' = Lb(s)
    BY <1>b, <2>1 DEF Lb
  <2> QED
    BY <2>1, <2>2, <2>3
<1> QED
  BY <1>1, <1>2, <1>3, <1>4 DEF TaskStep

\* The step of a worker that does not work for s.
LEMMA RestSame ==
  ASSUME NEW s \in Services, RestInv(s), NEW w \in Workers,
         \A v \in Workers \ {w} : work'[v] = work[v] /\ step'[v] = step[v] /\ key'[v] = key[v],
         row'[s] = row[s], config'[s] = config[s], s \in deployed' <=> s \in deployed,
         NoPrefix(s) => (s \in Lb(s)' <=> s \in Lb(s)), ~On(w, s), ~On(w, s)'
  PROVE  RestInv(s)'
<1>1. \A v \in Workers : (On(v, s)' <=> On(v, s)) /\ (On(v, s) => v # w)
  BY DEF On, Svc
<1>2. \A v \in Workers \ {w} : Act(v)' = Act(v)
  BY DEF Act
<1>3. ASSUME NEW v \in Workers, On(v, s)'
      PROVE  KeyAt(v, s)' /\ DeployedAt(v, s)' /\ (NoPrefix(s) => PortsAt(v, s)')
  <2>1. On(v, s) /\ v # w /\ Act(v)' = Act(v) /\ step'[v] = step[v] /\ key'[v] = key[v]
    BY <1>1, <1>2, <1>3
  <2>2. KeyAt(v, s)'
    BY <2>1 DEF RestInv, KeyAt
  <2>3. DeployedAt(v, s)'
    BY <2>1 DEF RestInv, DeployedAt
  <2>4. NoPrefix(s) => PortsAt(v, s)'
    BY <2>1 DEF RestInv, PortsAt
  <2> QED
    BY <2>2, <2>3, <2>4
<1>4. NoPrefix(s)' <=> NoPrefix(s)
  BY DEF NoPrefix
<1>5. (\A v \in Workers : ~On(v, s)') => Together(s)'
  BY <1>1, <1>4 DEF RestInv, Together
<1> QED
  BY <1>3, <1>4, <1>5 DEF RestInv

\* The step of the one worker that works for s: what it has to keep.
LEMMA RestOwn ==
  ASSUME NEW s \in Services, NEW w \in Workers, \A v \in Workers : On(v, s)' => v = w, On(w, s)',
         KeyAt(w, s)', DeployedAt(w, s)', NoPrefix(s) => PortsAt(w, s)'
  PROVE  RestInv(s)'
<1>1. NoPrefix(s)' <=> NoPrefix(s)
  BY DEF NoPrefix
<1> QED
  BY <1>1 DEF RestInv

\* No step that succeeds leaves row, config map, deployment and ports of a service apart.
LEMMA RestStep ==
  AtMostOneTask /\ AtMostOneTask' /\ TypeOK /\ TypeOK' /\ ReadInv /\ StepsInv
    /\ (Calm => NoReadFailed /\ \A s \in Services : TeamOf[s] \notin stale => RestInv(s))
    /\ [Next]_vars
  => (Calm => \A s \in Services : TeamOf[s] \notin stale => RestInv(s))'
<1> SUFFICES ASSUME AtMostOneTask, AtMostOneTask', TypeOK, TypeOK', ReadInv, StepsInv,
                    Calm => NoReadFailed /\ \A s \in Services : TeamOf[s] \notin stale => RestInv(s),
                    [Next]_vars, Calm', NEW s \in Services, TeamOf[s] \notin stale'
             PROVE  RestInv(s)'
  OBVIOUS
<1>a. Calm /\ ~Fault /\ NoReadFailed /\ \A w \in Workers : ~Die(w)
  BY CalmBefore
<1>b. \A v, w \in Workers : On(v, s) /\ On(w, s) => v = w
  BY OneWorker
<1>c. \A v, w \in Workers : On(v, s)' /\ On(w, s)' => v = w
  <2>1. ASSUME NEW v \in Workers, NEW w \in Workers, On(v, s)', On(w, s)' PROVE v = w
    <3>1. v \in RunBy(s)' /\ w \in RunBy(s)'
      BY <2>1 DEF RunBy, On, Svc
    <3> QED
      BY <3>1 DEF AtMostOneTask
  <2> QED
    BY <2>1
<1>1. ASSUME NEW h \in Handlers, RequestStep(h), UNCHANGED k8sVars PROVE RestInv(s)'
  <2>1. UNCHANGED work
    BY <1>1 DEF RequestStep, Ask, Refuse, Publish, Insert, RequestDies
  <2>2. RestInv(s)
    BY <1>1, <1>a DEF k8sVars
  <2> QED
    BY <1>1, <2>1, <2>2
    DEF RestInv, KeyAt, DeployedAt, PortsAt, Together, NoPrefix, k8sVars, On, Svc, Act, Lb
<1>2. CASE UNCHANGED vars
  <2>1. RestInv(s)
    BY <1>2, <1>a DEF vars, k8sVars
  <2> QED
    BY <1>2, <2>1
    DEF vars, lockVars, RestInv, KeyAt, DeployedAt, PortsAt, Together, NoPrefix, k8sVars, On, Svc, Act, Lb
<1>3. ASSUME NEW w \in Workers, TaskStep(w) PROVE RestInv(s)'
  <2>a. \A v \in Workers \ {w} : work'[v] = work[v] /\ step'[v] = step[v] /\ key'[v] = key[v]
    BY <1>3, OthersSame
  <2>b. RestInv(s)
    BY <1>3, <1>a, OthersSame
  <2>c. NoPrefix(s)' <=> NoPrefix(s)
    BY DEF NoPrefix
  <2>1. CASE StartTask(w)
    <3>1. /\ work[w] = NoTask /\ step'[w] \in {"configure", "undeploy", "patch"}
          /\ UNCHANGED <<row, config, deployed, lb>>
      BY <2>1 DEF StartTask, Take, FirstStep, Goto, TypeOK
    <3>2. CASE ~On(w, s)'
      BY <2>a, <2>b, <3>1, <3>2, RestSame DEF On, Lb
    <3>3. CASE On(w, s)'
      <4>1. \A v \in Workers : On(v, s)' => v = w
        BY <1>c, <3>3
      <4>2. \A v \in Workers : ~On(v, s)
        BY <2>a, <3>1, <4>1 DEF On, Svc
      <4>3. Together(s)
        BY <2>b, <4>2 DEF RestInv
      <4>4. KeyAt(w, s)' /\ DeployedAt(w, s)' /\ (NoPrefix(s) => PortsAt(w, s)')
        BY <3>1, <4>3 DEF Together, KeyAt, DeployedAt, PortsAt, Lb
      <4> QED
        BY <3>3, <4>1, <4>4, RestOwn
    <3> QED
      BY <3>2, <3>3
  <2>2. CASE ~On(w, s) /\ ~StartTask(w)
    <3>1. work'[w] \in {work[w], NoTask}
      BY <1>3, <2>2 DEF TaskStep, EndTask, Finish, Die, WorkerCrash, Raise, CreateConfigMap,
         CreateDeployment, InsertRow, ReadLoadBalancer, ReadFails, WriteLoadBalancer, DeleteDeployment,
         DeleteConfigMap, DeleteRow, PatchDeployment, lockVars, TypeOK, LockTypeOK
    <3>2. ~On(w, s)'
      BY <2>2, <3>1 DEF On, Svc
    <3> QED
      BY <1>3, <1>a, <2>a, <2>b, <2>2, <3>2, ServicesSame, RestSame
  <2>3. CASE On(w, s) /\ EndTask(w)
    <3>1. /\ work'[w] = NoTask /\ step[w] \in {"done", "raised"}
          /\ UNCHANGED <<row, config, deployed, lb>>
      BY <2>3 DEF EndTask, Finish, TypeOK, LockTypeOK
    <3>2. \A v \in Workers : ~On(v, s)'
      BY <1>b, <2>a, <2>3, <3>1 DEF On, Svc
    <3>3. Together(s)
      BY <2>b, <2>3, <3>1 DEF RestInv, KeyAt, DeployedAt, PortsAt, Together
    <3> QED
      BY <2>c, <3>1, <3>2, <3>3 DEF RestInv, Together, Lb
  <2>4. CASE On(w, s) /\ ~StartTask(w) /\ ~EndTask(w)
    <3>a. /\ Svc(w) = s /\ work[w] # NoTask /\ TeamOf[s] \in Teams
          /\ KeyAt(w, s) /\ DeployedAt(w, s) /\ (NoPrefix(s) => PortsAt(w, s))
      BY <2>b, <2>4, TaskOf DEF RestInv, On
    <3>b. UNCHANGED lockVars
      BY <1>3, <1>a, <2>4 DEF TaskStep, Raise, CreateConfigMap, CreateDeployment, InsertRow,
         ReadLoadBalancer, ReadFails, WriteLoadBalancer, DeleteDeployment, DeleteConfigMap, DeleteRow,
         PatchDeployment
    <3>c. On(w, s)' /\ (\A v \in Workers : On(v, s)' => v = w) /\ Act(w)' = Act(w)
      BY <1>c, <2>4, <3>b DEF lockVars, On, Svc, Act
    <3> SUFFICES KeyAt(w, s)' /\ DeployedAt(w, s)' /\ (NoPrefix(s) => PortsAt(w, s)')
      BY <3>c, RestOwn
    <3>1. CASE CreateConfigMap(w)
      <4>1. /\ step[w] = "configure" /\ step'[w] = "deploy" /\ key'[w] = made + 1 /\ made + 1 # 0
            /\ config'[s] = IF config[s] = 0 THEN made + 1 ELSE config[s]
            /\ UNCHANGED <<row, deployed, lb>>
        BY <3>1, <3>a, <1>a DEF CreateConfigMap, At, Goto, TypeOK
      <4> QED
        BY <3>a, <4>1 DEF KeyAt, DeployedAt, PortsAt, Lb
    <3>2. CASE CreateDeployment(w)
      <4>1. /\ step[w] = "deploy" /\ step'[w] = "read" /\ s \in deployed'
            /\ Act(w) = "provision" /\ UNCHANGED <<row, config, lb, key>>
        BY <3>2, <3>a, <1>a DEF CreateDeployment, At, Goto, TypeOK, StepsInv
      <4>2. KeyAt(w, s)' /\ DeployedAt(w, s)'
        BY <3>a, <3>c, <4>1 DEF KeyAt, DeployedAt
      <4> QED
        BY <3>a, <4>1, <4>2 DEF PortsAt, Lb
    <3>3. CASE InsertRow(w)
      <4>1. /\ step[w] = "insert" /\ step'[w] \in {"done", "raised"} /\ Act(w) = "provision"
            /\ row'[s] = IF row[s] = 0 THEN key[w] ELSE row[s]
            /\ UNCHANGED <<config, deployed, lb>>
        BY <3>3, <3>a DEF InsertRow, At, Goto, TypeOK, StepsInv
      <4>2. row'[s] # 0 /\ config[s] = row'[s]
        BY <3>a, <4>1 DEF KeyAt
      <4>3. KeyAt(w, s)' /\ DeployedAt(w, s)'
        BY <3>a, <4>1, <4>2 DEF KeyAt, DeployedAt
      <4> QED
        BY <3>a, <4>1, <4>2, <4>3 DEF PortsAt, Lb
    <3>4. CASE ReadLoadBalancer(w)
      <4>1. /\ step[w] = "read" /\ Act(w) \in {"provision", "delete"}
            /\ step'[w] = IF Act(w) = "delete" /\ Lb(s) = {} THEN "unconfigure" ELSE "write"
            /\ UNCHANGED <<row, config, deployed, lb, key>>
        BY <3>4, <3>a DEF ReadLoadBalancer, At, Goto, TypeOK, ReadInv
      <4>2. KeyAt(w, s)'
        BY <3>a, <3>c, <4>1 DEF KeyAt
      <4>3. DeployedAt(w, s)'
        BY <3>a, <3>c, <4>1 DEF DeployedAt
      <4> QED
        BY <3>a, <4>1, <4>2, <4>3 DEF PortsAt, Lb
    <3>5. CASE WriteLoadBalancer(w)
      <4>1. /\ step[w] = "write" /\ Act(w) \in {"provision", "delete"}
            /\ step'[w] = IF Act(w) = "delete" THEN "unconfigure" ELSE "insert"
            /\ lb' = [lb EXCEPT ![TeamOf[s]] = NewLb(w)] /\ NoteStale(w)
            /\ UNCHANGED <<row, config, deployed, key>>
        BY <3>5, <3>a, <1>a DEF WriteLoadBalancer, AfterWrite, At, Goto, TypeOK, ReadInv
      <4>2. read[w].seen = Lb(s) /\ ~read[w].failed
        BY <3>a, <4>1, <1>a DEF NoteStale, NoReadFailed
      <4>3. Lb(s)' = NewLb(w)
        BY <3>a, <4>1 DEF Lb, TypeOK
      <4>4. s \in Lb(s)' <=> Act(w) = "provision"
        BY <3>a, <4>1, <4>2, <4>3, WriteKeeps
      <4>5. KeyAt(w, s)'
        BY <3>a, <3>c, <4>1 DEF KeyAt
      <4>6. DeployedAt(w, s)'
        BY <3>a, <3>c, <4>1 DEF DeployedAt
      <4> QED
        BY <4>1, <4>4, <4>5, <4>6 DEF PortsAt
    <3>6. CASE DeleteDeployment(w)
      <4>1. /\ step[w] = "undeploy" /\ step'[w] = "read" /\ s \notin deployed'
            /\ Act(w) = "delete" /\ UNCHANGED <<row, config, lb, key>>
        BY <3>6, <3>a, <1>a DEF DeleteDeployment, At, Goto, TypeOK, StepsInv
      <4>2. KeyAt(w, s)' /\ DeployedAt(w, s)'
        BY <3>a, <3>c, <4>1 DEF KeyAt, DeployedAt
      <4> QED
        BY <3>a, <4>1, <4>2 DEF PortsAt, Lb
    <3>7. CASE DeleteConfigMap(w)
      <4>1. /\ step[w] = "unconfigure" /\ step'[w] = "unrow" /\ config'[s] = 0
            /\ UNCHANGED <<row, deployed, lb>>
        BY <3>7, <3>a, <1>a DEF DeleteConfigMap, ConfigGone, At, Goto, TypeOK
      <4>2. KeyAt(w, s)' /\ DeployedAt(w, s)'
        BY <3>a, <3>c, <4>1 DEF KeyAt, DeployedAt
      <4> QED
        BY <3>a, <4>1, <4>2 DEF PortsAt, Lb
    <3>8. CASE DeleteRow(w)
      <4>1. /\ step[w] = "unrow" /\ step'[w] = "done" /\ row'[s] = 0 /\ Act(w) = "delete"
            /\ UNCHANGED <<config, deployed, lb>>
        BY <3>8, <3>a DEF DeleteRow, At, Goto, TypeOK, StepsInv
      <4>2. KeyAt(w, s)' /\ DeployedAt(w, s)'
        BY <3>a, <4>1 DEF KeyAt, DeployedAt
      <4> QED
        BY <3>a, <4>1, <4>2 DEF PortsAt, Lb
    <3>9. CASE PatchDeployment(w)
      <4>1. /\ step[w] = "patch" /\ step'[w] = "done" /\ UNCHANGED <<row, config, deployed, lb>>
        BY <3>9 DEF PatchDeployment, At, Goto, TypeOK
      <4> QED
        BY <3>a, <4>1 DEF KeyAt, DeployedAt, PortsAt, Lb
    <3> QED
      BY <1>3, <1>a, <2>4, <3>1, <3>2, <3>3, <3>4, <3>5, <3>6, <3>7, <3>8, <3>9
      DEF TaskStep, Raise, ReadFails
  <2> QED
    BY <2>1, <2>2, <2>3, <2>4
<1> QED
  BY <1>1, <1>2, <1>3 DEF Next

\* When requests are served one at a time, nothing fails or dies, and no load balancer changed
\* between a read and a write of another task, a service without tasks has its deployment, its
\* config map and its ports exactly when it has a row, and the key of its row (do_provision,
\* do_delete).
THEOREM RestIsConsistent == OneAtATime => (Spec => []RestConsistent)
<1> SUFFICES ASSUME OneAtATime PROVE Spec => []RestConsistent
  OBVIOUS
<1> DEFINE Rested == Calm => NoReadFailed /\ \A s \in Services : TeamOf[s] \notin stale => RestInv(s)
<1>1. Spec => []AtMostOneTask
  BY K8sImplementsLock, OneTaskOneAtATime, PTL DEF ImplementsLock
<1>2. Init => StepsInv /\ Rested
  BY K8sServiceAssumption DEF Init, LockInit, StepsInv, NoReadFailed, NothingRead, RestInv, Together, On, Lb
<1>3. TypeOK /\ Rested /\ [Next]_vars => (Calm => NoReadFailed)'
  BY CalmBefore, ReadsStep
<1>4. AtMostOneTask /\ AtMostOneTask' /\ TypeOK /\ TypeOK' /\ ReadInv /\ StepsInv /\ Rested /\ [Next]_vars
        => Rested'
  BY <1>3, RestStep
<1>5. Rested => RestConsistent
  <2> SUFFICES ASSUME Rested, Calm, NEW s \in Services, ~Busy(s), TeamOf[s] \notin stale
               PROVE  Together(s)
    BY DEF RestConsistent, Calm, Together, NoPrefix
  <2>1. \A w \in Workers : ~On(w, s)
    BY DEF Busy, RunBy, On, Svc
  <2> QED
    BY <2>1 DEF RestInv
<1> HIDE DEF Rested
<1> QED
  BY <1>1, <1>2, <1>4, <1>5, ReadInit, ReadStep, StepsStep, TypeCorrect, PTL DEF Spec
=============================================================================

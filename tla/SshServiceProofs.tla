--------------------------- MODULE SshServiceProofs ---------------------------
(***************************************************************************)
(* Proofs about SshService: types, the locking discipline of SvcLock, and  *)
(* that a reset restores a service and a service at rest has what its row *)
(* says, when requests are served one at a time and workers share a host.  *)
(***************************************************************************)
EXTENDS SshService, SvcLockProofs

OneHost == \A x, y \in Hosts : x = y

\* Every step of a worker on a service is a step of SvcLock, or changes nothing of it.
LEMMA StepImplementsLock == [Next]_vars => [LockNext]_lockVars
<1> SUFFICES ASSUME [Next]_vars PROVE [LockNext]_lockVars
  OBVIOUS
<1>1. CASE \E h \in Handlers : RequestStep(h) /\ UNCHANGED sshVars
  BY <1>1 DEF LockNext
<1>2. ASSUME NEW w \in Workers, StartTask(w) PROVE LockNext
  BY <1>2 DEF StartTask, LockNext
<1>3. ASSUME NEW w \in Workers, EndTask(w) PROVE LockNext
  <2>1. (step[w] = "raised") \in BOOLEAN
    OBVIOUS
  <2> QED
    BY <1>3, <2>1 DEF EndTask, LockNext
<1>4. ASSUME NEW w \in Workers, Die(w) PROVE LockNext
  BY <1>4 DEF Die, LockNext
<1>5. ASSUME NEW w \in Workers,
             \/ ProvisionCheck(w) \/ Prepare(w) \/ PrepareFails(w) \/ Flush(w) \/ Commit(w)
             \/ RunContainer(w) \/ RunFails(w) \/ NothingToRun(w)
             \/ DeleteContainer(w) \/ DeleteFails(w) \/ DeleteRow(w) \/ RestartContainer(w)
             \/ NotFound(w) \/ AssetMissing(w) \/ MachineLost(w)
      PROVE UNCHANGED lockVars
  BY <1>5 DEF ProvisionCheck, Prepare, PrepareFails, Flush, Commit, RunContainer, RunFails,
              NothingToRun, DeleteContainer, DeleteFails, DeleteRow, RestartContainer,
              NotFound, AssetMissing, MachineLost
<1>6. CASE UNCHANGED vars
  BY <1>6 DEF vars
<1> QED
  BY <1>1, <1>2, <1>3, <1>4, <1>5, <1>6 DEF Next, TaskStep

\* sshcontainer_vm implements SvcLock: whatever a task does to a service, its row in the
\* pending list is inserted and closed as SvcLock says.
THEOREM SshImplementsLock == Spec => ImplementsLock
<1>1. Init => LockInit
  BY DEF Init
<1> QED
  BY <1>1, StepImplementsLock, PTL DEF Spec, LockSpec, ImplementsLock

\* Every worker starts idle and every service without a row.
LEMMA TypeInit == Init => TypeOK
BY LockTypeInit, SshServiceAssumption DEF Init, TypeOK, Steps, LockInit

\* No step of a task breaks a type.
LEMMA TypeStep == TypeOK /\ [Next]_vars => TypeOK'
<1> SUFFICES ASSUME TypeOK, [Next]_vars PROVE TypeOK'
  OBVIOUS
<1> USE SshServiceAssumption, SvcLockAssumption
<1>a. LockTypeOK'
  BY StepImplementsLock, LockTypeStep DEF TypeOK
<1>b. ASSUME NEW w \in Workers, work[w] # NoTask
      PROVE  Svc(w) \in Services /\ HostOf[w] \in Hosts /\ step[w] # "idle"
  BY <1>b DEF TypeOK, LockTypeOK, Tasks, Svc
<1>1. CASE \E h \in Handlers : RequestStep(h) /\ UNCHANGED sshVars
  <2>1. UNCHANGED work
    BY <1>1 DEF RequestStep, Ask, Refuse, Publish, Insert, RequestDies
  <2> QED
    BY <1>a, <1>1, <2>1 DEF TypeOK, sshVars
<1>2. ASSUME NEW w \in Workers, StartTask(w) PROVE TypeOK'
  <2>1. Head(queue) # NoTask
    BY <1>2, HeadTailProperties DEF StartTask, Take, TypeOK, LockTypeOK
  <2>2. /\ work' = [work EXCEPT ![w] = Head(queue)]
        /\ step' = [step EXCEPT ![w] = "start"]
        /\ work[w] = NoTask
        /\ UNCHANGED <<row, archive, folder, up, new, made, faults>>
    BY <1>2 DEF StartTask, Take, Goto
  <2>3. \A v \in Workers : step'[v] = "idle" <=> work'[v] = NoTask
    BY <2>1, <2>2 DEF TypeOK, LockTypeOK
  <2> QED
    BY <1>a, <2>2, <2>3 DEF TypeOK, Steps
<1>3. ASSUME NEW w \in Workers, EndTask(w) PROVE TypeOK'
  <2>1. /\ work' = [work EXCEPT ![w] = NoTask]
        /\ step' = [step EXCEPT ![w] = "idle"]
        /\ UNCHANGED <<row, archive, folder, up, new, made, faults>>
    BY <1>3 DEF EndTask, Finish, Goto
  <2>2. \A v \in Workers : step'[v] = "idle" <=> work'[v] = NoTask
    BY <2>1 DEF TypeOK, LockTypeOK
  <2> QED
    BY <1>a, <2>1, <2>2 DEF TypeOK, Steps
<1>4. ASSUME NEW w \in Workers, Die(w) PROVE TypeOK'
  <2>1. /\ work' = [work EXCEPT ![w] = NoTask]
        /\ step' = [step EXCEPT ![w] = "idle"]
        /\ new' = [new EXCEPT ![w] = 0]
        /\ UNCHANGED <<row, archive, folder, up, made, faults>>
    BY <1>4 DEF Die, WorkerCrash, Goto
  <2>2. \A v \in Workers : step'[v] = "idle" <=> work'[v] = NoTask
    BY <2>1 DEF TypeOK, LockTypeOK
  <2> QED
    BY <1>a, <2>1, <2>2 DEF TypeOK, Steps
<1>5. ASSUME NEW w \in Workers, UNCHANGED lockVars, work[w] # NoTask,
             NEW to \in Steps \ {"idle"}, Goto(w, to),
             row' \in [Services -> Nat], archive' \in [Hosts -> [Services -> Nat]],
             folder' \in [Services -> Nat], up' \in [Services -> Nat],
             new' \in [Workers -> Nat], made' \in Nat, faults' \in Nat
      PROVE  TypeOK'
  <2>1. \A v \in Workers : step'[v] = "idle" <=> work'[v] = NoTask
    BY <1>5 DEF TypeOK, LockTypeOK, Goto, lockVars
  <2>2. step' \in [Workers -> Steps]
    BY <1>5 DEF TypeOK, Goto
  <2> QED
    BY <1>a, <1>5, <2>1, <2>2 DEF TypeOK
<1>6. ASSUME NEW w \in Workers, ProvisionCheck(w) PROVE TypeOK'
  <2>1. Goto(w, "done") \/ Goto(w, "prepare")
    BY <1>6 DEF ProvisionCheck
  <2> QED
    BY <1>5, <1>6, <2>1 DEF ProvisionCheck, At, TypeOK, Steps
<1>7. ASSUME NEW w \in Workers, Prepare(w) PROVE TypeOK'
  <2>1. HostOf[w] \in Hosts /\ Svc(w) \in Services /\ made + 1 \in Nat
    BY <1>7, <1>b DEF Prepare, At, TypeOK
  <2>2. /\ archive' \in [Hosts -> [Services -> Nat]] /\ new' \in [Workers -> Nat]
        /\ made' \in Nat /\ faults' \in Nat
    BY <1>7, <2>1 DEF Prepare, TypeOK, NoFault
  <2>3. /\ row' \in [Services -> Nat] /\ folder' \in [Services -> Nat] /\ up' \in [Services -> Nat]
        /\ work[w] # NoTask /\ UNCHANGED lockVars /\ Goto(w, "flush") /\ "flush" \in Steps \ {"idle"}
    BY <1>7 DEF Prepare, At, TypeOK, Steps
  <2> QED
    BY <1>5, <2>2, <2>3
<1>8. ASSUME NEW w \in Workers, PrepareFails(w) PROVE TypeOK'
  <2>1. HostOf[w] \in Hosts /\ Svc(w) \in Services /\ made + 1 \in Nat
    BY <1>8, <1>b DEF PrepareFails, At, TypeOK
  <2>2. archive' \in [Hosts -> [Services -> Nat]] /\ made' \in Nat
    <3>1. CASE UNCHANGED <<archive, made>>
      BY <3>1 DEF TypeOK
    <3>2. CASE /\ made' = made + 1
               /\ archive' = [archive EXCEPT ![HostOf[w]][Svc(w)] = made + 1]
      BY <2>1, <3>2 DEF TypeOK
    <3> QED
      BY <1>8, <3>1, <3>2 DEF PrepareFails
  <2>3. /\ row' \in [Services -> Nat] /\ folder' \in [Services -> Nat] /\ up' \in [Services -> Nat]
        /\ new' \in [Workers -> Nat] /\ faults' \in Nat
        /\ work[w] # NoTask /\ UNCHANGED lockVars /\ Goto(w, "done") /\ "done" \in Steps \ {"idle"}
    BY <1>8 DEF PrepareFails, At, TypeOK, Steps, Fault
  <2> QED
    BY <1>5, <2>2, <2>3
<1>9. ASSUME NEW w \in Workers, Flush(w) PROVE TypeOK'
  <2>1. new' \in [Workers -> Nat] /\ \E to \in {"run", "done"} : Goto(w, to)
    BY <1>9 DEF Flush, TypeOK
  <2>2. /\ row' \in [Services -> Nat] /\ archive' \in [Hosts -> [Services -> Nat]]
        /\ folder' \in [Services -> Nat] /\ up' \in [Services -> Nat]
        /\ made' \in Nat /\ faults' \in Nat /\ work[w] # NoTask /\ UNCHANGED lockVars
    BY <1>9 DEF Flush, At, TypeOK
  <2>3. {"run", "done"} \subseteq Steps \ {"idle"}
    BY DEF Steps
  <2> QED
    BY <1>5, <2>1, <2>2, <2>3
<1>10. ASSUME NEW w \in Workers, Commit(w) PROVE TypeOK'
  <2>1. /\ row' \in [Services -> Nat] /\ new' \in [Workers -> Nat]
        /\ archive' \in [Hosts -> [Services -> Nat]] /\ folder' \in [Services -> Nat]
        /\ up' \in [Services -> Nat] /\ made' \in Nat /\ faults' \in Nat
    BY <1>10, <1>b DEF Commit, At, TypeOK
  <2>2. work[w] # NoTask /\ UNCHANGED lockVars /\ Goto(w, "done") /\ "done" \in Steps \ {"idle"}
    BY <1>10 DEF Commit, At, Steps
  <2> QED
    BY <1>5, <2>1, <2>2
<1>c. \A w \in Workers : AfterRun(w) \in Steps \ {"idle"} /\ AfterDown(w) \in Steps \ {"idle"}
  BY DEF AfterRun, AfterDown, Steps
<1>11. ASSUME NEW w \in Workers, RunContainer(w) PROVE TypeOK'
  <2>1. /\ folder' \in [Services -> Nat] /\ up' \in [Services -> Nat]
    BY <1>11, <1>b DEF RunContainer, At, TypeOK
  <2> QED
    BY <1>5, <1>11, <1>c, <2>1 DEF RunContainer, At, TypeOK
<1>12. ASSUME NEW w \in Workers, RunFails(w) PROVE TypeOK'
  <2>1. folder' \in [Services -> Nat]
    BY <1>12, <1>b DEF RunFails, At, TypeOK
  <2>2. /\ row' \in [Services -> Nat] /\ archive' \in [Hosts -> [Services -> Nat]]
        /\ up' \in [Services -> Nat] /\ new' \in [Workers -> Nat] /\ made' \in Nat /\ faults' \in Nat
        /\ work[w] # NoTask /\ UNCHANGED lockVars /\ Goto(w, AfterRun(w))
    BY <1>12 DEF RunFails, At, TypeOK, Fault
  <2> QED
    BY <1>5, <1>c, <2>1, <2>2
<1>13. ASSUME NEW w \in Workers, NothingToRun(w) PROVE TypeOK'
  BY <1>5, <1>13, <1>c DEF NothingToRun, At, TypeOK
<1>14. ASSUME NEW w \in Workers, DeleteContainer(w) PROVE TypeOK'
  <2>1. /\ folder' \in [Services -> Nat] /\ up' \in [Services -> Nat]
    BY <1>14, <1>b DEF DeleteContainer, At, TypeOK
  <2> QED
    BY <1>5, <1>14, <1>c, <2>1 DEF DeleteContainer, At, TypeOK
<1>15. ASSUME NEW w \in Workers, DeleteFails(w) PROVE TypeOK'
  <2>1. folder' \in [Services -> Nat] /\ up' \in [Services -> Nat]
    <3>1. folder' = folder \/ folder' = [folder EXCEPT ![Svc(w)] = 0]
      BY <1>15 DEF DeleteFails
    <3>2. up' = up \/ up' = [up EXCEPT ![Svc(w)] = 0]
      BY <1>15 DEF DeleteFails
    <3>3. folder \in [Services -> Nat] /\ up \in [Services -> Nat]
      BY DEF TypeOK
    <3>4. folder' \in [Services -> Nat]
      BY <3>1, <3>3
    <3>5. up' \in [Services -> Nat]
      BY <3>2, <3>3
    <3> QED
      BY <3>4, <3>5
  <2>2. /\ row' \in [Services -> Nat] /\ archive' \in [Hosts -> [Services -> Nat]]
        /\ new' \in [Workers -> Nat] /\ made' \in Nat /\ faults' \in Nat
        /\ work[w] # NoTask /\ UNCHANGED lockVars /\ Goto(w, AfterDown(w))
    BY <1>15 DEF DeleteFails, At, TypeOK, Fault
  <2> QED
    BY <1>5, <1>c, <2>1, <2>2
<1>16. ASSUME NEW w \in Workers, DeleteRow(w) PROVE TypeOK'
  BY <1>5, <1>16, <1>b DEF DeleteRow, At, TypeOK, Steps
<1>17. ASSUME NEW w \in Workers, RestartContainer(w) PROVE TypeOK'
  BY <1>5, <1>17 DEF RestartContainer, At, TypeOK, Steps
<1>18. ASSUME NEW w \in Workers, NotFound(w) PROVE TypeOK'
  BY <1>5, <1>18 DEF NotFound, At, TypeOK, Steps
<1>19. ASSUME NEW w \in Workers, AssetMissing(w) PROVE TypeOK'
  <2>1. /\ row' \in [Services -> Nat] /\ archive' \in [Hosts -> [Services -> Nat]]
        /\ folder' \in [Services -> Nat] /\ up' \in [Services -> Nat]
        /\ new' \in [Workers -> Nat] /\ made' \in Nat /\ faults' \in Nat
    BY <1>19 DEF AssetMissing, Fault, TypeOK
  <2>2. work[w] # NoTask /\ UNCHANGED lockVars /\ Goto(w, "raised") /\ "raised" \in Steps \ {"idle"}
    BY <1>19 DEF AssetMissing, At, Steps
  <2> QED
    BY <1>5, <2>1, <2>2
<1>20. ASSUME NEW w \in Workers, MachineLost(w) PROVE TypeOK'
  <2>1. /\ row' \in [Services -> Nat] /\ archive' \in [Hosts -> [Services -> Nat]]
        /\ folder' \in [Services -> Nat] /\ up' \in [Services -> Nat]
        /\ new' \in [Workers -> Nat] /\ made' \in Nat /\ faults' \in Nat
    BY <1>20 DEF MachineLost, Fault, TypeOK
  <2>2. work[w] # NoTask /\ UNCHANGED lockVars /\ "raised" \in Steps \ {"idle"} /\ "done" \in Steps \ {"idle"}
    BY <1>20 DEF MachineLost, At, Steps
  <2>3. Goto(w, "raised") \/ Goto(w, "done")
    BY <1>20 DEF MachineLost
  <2>4. CASE Goto(w, "raised")
    BY <1>5, <2>1, <2>2, <2>4
  <2>5. CASE Goto(w, "done")
    BY <1>5, <2>1, <2>2, <2>5
  <2> QED
    BY <2>3, <2>4, <2>5
<1>21. CASE UNCHANGED vars
  BY <1>a, <1>21 DEF TypeOK, vars, sshVars, lockVars
<1> QED
  BY <1>1, <1>2, <1>3, <1>4, <1>6, <1>7, <1>8, <1>9, <1>10, <1>11, <1>12, <1>13, <1>14,
     <1>15, <1>16, <1>17, <1>18, <1>19, <1>20, <1>21 DEF Next, TaskStep

\* Rows, archives, containers and the workers' locals keep their types, for any number of
\* services, requests, workers and hosts.
THEOREM TypeCorrect == Spec => []TypeOK
BY TypeInit, TypeStep, PTL DEF Spec

-----------------------------------------------------------------------------
(* A reset restores. *)

\* With at most one task of a service in flight, two workers never run tasks of one.
LEMMA OneWorker ==
  ASSUME AtMostOneTask, TypeOK, NEW v \in Workers, NEW w \in Workers,
         work[v] # NoTask, work[w] # NoTask, Svc(v) = Svc(w)
  PROVE  v = w
<1>1. Svc(w) \in Services
  BY DEF TypeOK, LockTypeOK, Tasks, Svc
<1>2. v \in RunBy(Svc(w)) /\ w \in RunBy(Svc(w))
  BY DEF RunBy, Svc
<1> QED
  BY <1>1, <1>2 DEF AtMostOneTask

\* There is no service yet.
LEMMA ArchiveInit == Init => ArchiveInv
BY DEF Init, LockInit, ArchiveInv, ArchiveIsCurrent

\* With one task of a service at a time, only the worker that provisions a service
\* changes its archive, and only while the service has no row.
LEMMA ArchiveStep ==
  OneHost /\ AtMostOneTask /\ TypeOK /\ TypeOK' /\ ArchiveInv /\ [Next]_vars => ArchiveInv'
<1> SUFFICES ASSUME OneHost, AtMostOneTask, TypeOK, TypeOK', ArchiveInv, [Next]_vars
             PROVE  ArchiveInv'
  OBVIOUS
<1> USE SshServiceAssumption, SvcLockAssumption
<1>b. ASSUME NEW w \in Workers, work[w] # NoTask
      PROVE  Svc(w) \in Services /\ HostOf[w] \in Hosts
  BY <1>b DEF TypeOK, LockTypeOK, Tasks, Svc
\* The worker w alone moves, from one place in its task to another.
<1>0. ASSUME NEW w \in Workers, NEW to \in Steps, step' = [step EXCEPT ![w] = to],
             UNCHANGED <<row, archive, work>>,
             \A v \in Workers : v # w => new'[v] = new[v],
             to \in {"prepare", "flush", "commit"} => Act(w) = "provision" /\ row[Svc(w)] = 0,
             to = "run" /\ Act(w) = "provision" => row[Svc(w)] = 0,
             to \in {"flush", "commit"} \/ (to = "run" /\ Act(w) = "provision")
               => archive[HostOf[w]][Svc(w)] = new'[w],
             new'[w] # 0 => to \in {"flush", "commit", "run"} /\ Act(w) = "provision"
      PROVE ArchiveInv'
  <2>1. ArchiveIsCurrent'
    BY <1>0 DEF ArchiveInv, ArchiveIsCurrent
  <2>2. ASSUME NEW v \in Workers
        PROVE  /\ step'[v] = IF v = w THEN to ELSE step[v]
               /\ Svc(v)' = Svc(v) /\ Act(v)' = Act(v)
    BY <1>0 DEF TypeOK, Svc, Act
  <2> QED
    BY <1>0, <2>1, <2>2 DEF ArchiveInv
<1>1. CASE \E h \in Handlers : RequestStep(h) /\ UNCHANGED sshVars
  <2>1. UNCHANGED work
    BY <1>1 DEF RequestStep, Ask, Refuse, Publish, Insert, RequestDies
  <2> QED
    BY <1>1, <2>1 DEF ArchiveInv, ArchiveIsCurrent, sshVars, Svc, Act
\* A worker that takes a task, ends it or dies.
<1>2. ASSUME NEW w \in Workers, NEW to \in {"start", "idle"}, NEW t, new'[w] = 0,
             step' = [step EXCEPT ![w] = to], work' = [work EXCEPT ![w] = t],
             \A v \in Workers : v # w => new'[v] = new[v],
             UNCHANGED <<row, archive>>
      PROVE ArchiveInv'
  <2>1. ArchiveIsCurrent'
    BY <1>2 DEF ArchiveInv, ArchiveIsCurrent
  <2>2. ASSUME NEW v \in Workers, v # w
        PROVE  step'[v] = step[v] /\ Svc(v)' = Svc(v) /\ Act(v)' = Act(v) /\ new'[v] = new[v]
    BY <1>2, <2>2 DEF TypeOK, LockTypeOK, Svc, Act
  <2>3. step'[w] \in {"start", "idle"} /\ new'[w] = 0
    BY <1>2 DEF TypeOK
  <2> QED
    BY <1>2, <2>1, <2>2, <2>3 DEF ArchiveInv
<1>3. ASSUME NEW w \in Workers, StartTask(w) PROVE ArchiveInv'
  <2>1. step[w] = "idle"
    BY <1>3 DEF StartTask, Take, TypeOK
  <2>2. new[w] = 0
    BY <2>1 DEF ArchiveInv
  <2> QED
    BY <1>2, <1>3, <2>2 DEF StartTask, Take, Goto
<1>4. ASSUME NEW w \in Workers, EndTask(w) PROVE ArchiveInv'
  <2>1. new[w] = 0
    BY <1>4 DEF EndTask, ArchiveInv
  <2> QED
    BY <1>2, <1>4, <2>1 DEF EndTask, Finish, Goto
<1>5. ASSUME NEW w \in Workers, Die(w) PROVE ArchiveInv'
  <2>1. new'[w] = 0 /\ \A v \in Workers : v # w => new'[v] = new[v]
    BY <1>5 DEF Die, TypeOK
  <2> QED
    BY <1>2, <1>5, <2>1 DEF Die, WorkerCrash, Goto
<1>6. ASSUME NEW w \in Workers, ProvisionCheck(w) PROVE ArchiveInv'
  <2>1. /\ UNCHANGED <<row, archive, work, new>> /\ Act(w) = "provision" /\ step[w] = "start"
        /\ \/ step' = [step EXCEPT ![w] = "done"]
           \/ step' = [step EXCEPT ![w] = "prepare"] /\ row[Svc(w)] = 0
    BY <1>6 DEF ProvisionCheck, At, Goto, Existing, lockVars
  <2>2. new[w] = 0 /\ "done" \in Steps /\ "prepare" \in Steps
    BY <2>1 DEF ArchiveInv, Steps
  <2> QED
    BY <1>0, <2>1, <2>2
\* An archive is written while its service has no row.
<1>7. ASSUME NEW w \in Workers, work[w] # NoTask, step[w] = "prepare",
             NEW to \in {"flush", "done"}, step' = [step EXCEPT ![w] = to],
             NEW n \in Nat, archive' = [archive EXCEPT ![HostOf[w]][Svc(w)] = n],
             UNCHANGED <<row, work>>,
             \A v \in Workers : v # w => new'[v] = new[v],
             IF to = "flush" THEN new'[w] = n ELSE new'[w] = 0
      PROVE ArchiveInv'
  <2>1. Act(w) = "provision" /\ row[Svc(w)] = 0 /\ Svc(w) \in Services /\ HostOf[w] \in Hosts
    BY <1>b, <1>7 DEF ArchiveInv
  <2>2. \A x \in Hosts, s \in Services : s # Svc(w) => archive'[x][s] = archive[x][s]
    BY <1>7, <2>1 DEF TypeOK
  <2>3. archive'[HostOf[w]][Svc(w)] = n
    BY <1>7, <2>1 DEF TypeOK
  <2>4. ArchiveIsCurrent'
    BY <1>7, <2>1, <2>2 DEF ArchiveInv, ArchiveIsCurrent
  <2>5. ASSUME NEW v \in Workers, v # w
        PROVE  /\ step'[v] = step[v] /\ Svc(v)' = Svc(v) /\ Act(v)' = Act(v) /\ new'[v] = new[v]
               /\ step[v] # "idle" => archive'[HostOf[v]][Svc(v)] = archive[HostOf[v]][Svc(v)]
    <3>1. step'[v] = step[v] /\ Svc(v)' = Svc(v) /\ Act(v)' = Act(v) /\ new'[v] = new[v]
      BY <1>7, <2>5 DEF TypeOK, Svc, Act
    <3>2. ASSUME step[v] # "idle" PROVE archive'[HostOf[v]][Svc(v)] = archive[HostOf[v]][Svc(v)]
      <4>1. work[v] # NoTask
        BY <3>2 DEF TypeOK
      <4>2. Svc(v) # Svc(w)
        BY <1>7, <2>5, <4>1, OneWorker
      <4> QED
        BY <1>b, <2>2, <4>1, <4>2
    <3> QED
      BY <3>1, <3>2
  <2>6. step'[w] = to /\ Svc(w)' = Svc(w) /\ Act(w)' = Act(w)
    BY <1>7 DEF TypeOK, Svc, Act
  <2>7. ASSUME NEW v \in Workers
        PROVE  (/\ step[v] \in {"prepare", "flush", "commit"} => Act(v) = "provision" /\ row[Svc(v)] = 0
                /\ step[v] = "run" /\ Act(v) = "provision" => row[Svc(v)] = 0
                /\ step[v] \in {"flush", "commit"} \/ (step[v] = "run" /\ Act(v) = "provision")
                     => archive[HostOf[v]][Svc(v)] = new[v]
                /\ new[v] # 0 => step[v] \in {"flush", "commit", "run"} /\ Act(v) = "provision")'
    <3>1. CASE v = w
      BY <1>7, <2>1, <2>3, <2>6, <3>1
    <3>2. CASE v # w
      BY <1>7, <2>5, <3>2 DEF ArchiveInv
    <3> QED
      BY <3>1, <3>2
  <2> QED
    BY <2>4, <2>7 DEF ArchiveInv
<1>8. ASSUME NEW w \in Workers, Prepare(w) PROVE ArchiveInv'
  <2>1. new'[w] = made + 1 /\ (\A v \in Workers : v # w => new'[v] = new[v]) /\ made + 1 \in Nat
    BY <1>8 DEF Prepare, TypeOK
  <2> QED
    BY <1>7, <1>8, <2>1 DEF Prepare, At, Goto, lockVars
<1>9. ASSUME NEW w \in Workers, PrepareFails(w) PROVE ArchiveInv'
  <2>1. new[w] = 0 /\ UNCHANGED <<row, work, new>> /\ "done" \in Steps
    BY <1>9 DEF PrepareFails, At, ArchiveInv, lockVars, Steps
  <2>2. CASE UNCHANGED archive
    BY <1>0, <1>9, <2>1, <2>2 DEF PrepareFails, Goto
  <2>3. CASE archive' = [archive EXCEPT ![HostOf[w]][Svc(w)] = made + 1]
    <3>1. made + 1 \in Nat
      BY DEF TypeOK
    <3> QED
      BY <1>7, <1>9, <2>1, <2>3, <3>1 DEF PrepareFails, At, Goto
  <2> QED
    BY <1>9, <2>2, <2>3 DEF PrepareFails
<1>10. ASSUME NEW w \in Workers, Flush(w) PROVE ArchiveInv'
  <2>1. /\ UNCHANGED <<row, archive, work>> /\ step[w] = "flush"
        /\ \A v \in Workers : v # w => new'[v] = new[v]
        /\ \/ step' = [step EXCEPT ![w] = "run"] /\ row[Svc(w)] = 0 /\ new'[w] = new[w]
           \/ step' = [step EXCEPT ![w] = "done"] /\ new'[w] = 0
    BY <1>10 DEF Flush, At, Goto, lockVars, TypeOK
  <2>2. /\ Act(w) = "provision" /\ archive[HostOf[w]][Svc(w)] = new[w]
        /\ "run" \in Steps /\ "done" \in Steps
    BY <2>1 DEF ArchiveInv, Steps
  <2> QED
    BY <1>0, <2>1, <2>2
\* The row of a service changes in the hands of the one worker that has its task.
<1>11. ASSUME NEW w \in Workers, work[w] # NoTask, step' = [step EXCEPT ![w] = "done"],
              NEW n \in Nat, row' = [row EXCEPT ![Svc(w)] = n],
              n # 0 => \A x \in Hosts : archive[x][Svc(w)] = n,
              UNCHANGED <<archive, work>>, new'[w] = 0,
              \A v \in Workers : v # w => new'[v] = new[v]
       PROVE ArchiveInv'
  <2>1. ArchiveIsCurrent'
    BY <1>b, <1>11 DEF ArchiveInv, ArchiveIsCurrent, TypeOK
  <2>2. ASSUME NEW v \in Workers, v # w
        PROVE  /\ step'[v] = step[v] /\ Svc(v)' = Svc(v) /\ Act(v)' = Act(v) /\ new'[v] = new[v]
               /\ step[v] # "idle" => row'[Svc(v)] = row[Svc(v)]
    <3>1. step'[v] = step[v] /\ Svc(v)' = Svc(v) /\ Act(v)' = Act(v) /\ new'[v] = new[v]
      BY <1>11, <2>2 DEF TypeOK, Svc, Act
    <3>2. ASSUME step[v] # "idle" PROVE row'[Svc(v)] = row[Svc(v)]
      <4>1. work[v] # NoTask
        BY <3>2 DEF TypeOK
      <4>2. Svc(v) # Svc(w)
        BY <1>11, <2>2, <4>1, OneWorker
      <4> QED
        BY <1>b, <1>11, <4>1, <4>2 DEF TypeOK
    <3> QED
      BY <3>1, <3>2
  <2>3. step'[w] = "done" /\ new'[w] = 0
    BY <1>11 DEF TypeOK
  <2>4. ASSUME NEW v \in Workers
        PROVE  (/\ step[v] \in {"prepare", "flush", "commit"} => Act(v) = "provision" /\ row[Svc(v)] = 0
                /\ step[v] = "run" /\ Act(v) = "provision" => row[Svc(v)] = 0
                /\ step[v] \in {"flush", "commit"} \/ (step[v] = "run" /\ Act(v) = "provision")
                     => archive[HostOf[v]][Svc(v)] = new[v]
                /\ new[v] # 0 => step[v] \in {"flush", "commit", "run"} /\ Act(v) = "provision")'
    <3>1. CASE v = w
      BY <2>3, <3>1
    <3>2. CASE v # w
      BY <1>11, <2>2, <3>2 DEF ArchiveInv
    <3> QED
      BY <3>1, <3>2
  <2> QED
    BY <2>1, <2>4 DEF ArchiveInv
<1>12. ASSUME NEW w \in Workers, Commit(w) PROVE ArchiveInv'
  <2>1. archive[HostOf[w]][Svc(w)] = new[w] /\ HostOf[w] \in Hosts /\ new[w] \in Nat
    BY <1>b, <1>12 DEF Commit, At, ArchiveInv, TypeOK
  <2>2. \A x \in Hosts : archive[x][Svc(w)] = new[w]
    BY <2>1 DEF OneHost
  <2>3. new'[w] = 0 /\ \A v \in Workers : v # w => new'[v] = new[v]
    BY <1>12 DEF Commit, TypeOK
  <2>4. /\ work[w] # NoTask /\ step' = [step EXCEPT ![w] = "done"]
        /\ row' = [row EXCEPT ![Svc(w)] = new[w]] /\ UNCHANGED <<archive, work>>
    BY <1>12 DEF Commit, At, Goto, lockVars
  <2> QED
    BY <1>11, <2>1, <2>2, <2>3, <2>4
<1>13. ASSUME NEW w \in Workers, DeleteRow(w) PROVE ArchiveInv'
  <2>1. new[w] = 0
    BY <1>13 DEF DeleteRow, At, ArchiveInv
  <2>2. /\ work[w] # NoTask /\ step' = [step EXCEPT ![w] = "done"]
        /\ row' = [row EXCEPT ![Svc(w)] = 0] /\ UNCHANGED <<archive, work, new>>
    BY <1>13 DEF DeleteRow, At, Goto, lockVars
  <2>3. new'[w] = 0 /\ \A v \in Workers : v # w => new'[v] = new[v]
    BY <2>1, <2>2
  <2>4. /\ 0 \in Nat /\ (0 # 0 => \A x \in Hosts : archive[x][Svc(w)] = 0)
        /\ UNCHANGED <<archive, work>>
    BY <2>2
  <2> QED
    BY <1>11, <2>2, <2>3, <2>4
\* The remote commands change neither rows nor archives.
<1>14. ASSUME NEW w \in Workers, RunContainer(w) \/ RunFails(w) \/ NothingToRun(w) PROVE ArchiveInv'
  <2>1. /\ UNCHANGED <<row, archive, work, new>> /\ step[w] = "run"
        /\ step' = [step EXCEPT ![w] = AfterRun(w)]
    BY <1>14 DEF RunContainer, RunFails, NothingToRun, At, Goto, lockVars
  <2>2. CASE Act(w) = "provision"
    <3>1. /\ AfterRun(w) = "commit" /\ "commit" \in Steps
          /\ row[Svc(w)] = 0 /\ archive[HostOf[w]][Svc(w)] = new[w]
      BY <2>1, <2>2 DEF AfterRun, Steps, ArchiveInv
    <3> QED
      BY <1>0, <2>1, <2>2, <3>1
  <2>3. CASE Act(w) # "provision"
    <3>1. AfterRun(w) = "done" /\ "done" \in Steps /\ new[w] = 0
      BY <2>1, <2>3 DEF AfterRun, Steps, ArchiveInv
    <3> QED
      BY <1>0, <2>1, <2>3, <3>1
  <2> QED
    BY <2>2, <2>3
<1>15. ASSUME NEW w \in Workers, DeleteContainer(w) \/ DeleteFails(w) PROVE ArchiveInv'
  <2>1. /\ UNCHANGED <<row, archive, work, new>> /\ step[w] = "start" /\ Act(w) # "provision"
        /\ step' = [step EXCEPT ![w] = AfterDown(w)]
    BY <1>15 DEF DeleteContainer, DeleteFails, At, Goto, lockVars
  <2>2. new[w] = 0 /\ AfterDown(w) \in {"unrow", "run"} /\ AfterDown(w) \in Steps
    BY <2>1 DEF ArchiveInv, AfterDown, Steps
  <2> QED
    BY <1>0, <2>1, <2>2
<1>16. ASSUME NEW w \in Workers, RestartContainer(w) \/ NotFound(w) \/ AssetMissing(w)
      PROVE ArchiveInv'
  <2>1. /\ UNCHANGED <<row, archive, work, new>>
        /\ step' = [step EXCEPT ![w] = "done"] \/ step' = [step EXCEPT ![w] = "raised"]
        /\ new[w] = 0
    BY <1>16 DEF RestartContainer, NotFound, AssetMissing, At, Goto, lockVars, ArchiveInv, Deployed
  <2>2. "done" \in Steps /\ "raised" \in Steps
    BY DEF Steps
  <2> QED
    BY <1>0, <2>1, <2>2
<1>17. ASSUME NEW w \in Workers, MachineLost(w) PROVE ArchiveInv'
  <2>1. /\ UNCHANGED <<row, archive, work>>
        /\ step' = [step EXCEPT ![w] = "done"] \/ step' = [step EXCEPT ![w] = "raised"]
        /\ new'[w] = 0 /\ \A v \in Workers : v # w => new'[v] = new[v]
    BY <1>17 DEF MachineLost, Goto, lockVars, TypeOK
  <2>2. "done" \in Steps /\ "raised" \in Steps
    BY DEF Steps
  <2> QED
    BY <1>0, <2>1, <2>2
<1>18. CASE UNCHANGED vars
  BY <1>18 DEF vars, sshVars, lockVars, ArchiveInv, ArchiveIsCurrent, Svc, Act
<1> QED
  BY <1>1, <1>3, <1>4, <1>5, <1>6, <1>8, <1>9, <1>10, <1>12, <1>13, <1>14, <1>15, <1>16, <1>17,
     <1>18 DEF Next, TaskStep

\* When requests are served one at a time, the list of pending requests is a lock for the
\* services of sshcontainer_vm too.
LEMMA SshOneTask == OneAtATime => (Spec => []AtMostOneTask)
BY SshImplementsLock, OneTaskOneAtATime, PTL DEF ImplementsLock

\* When requests are served one at a time and all workers share a host, the archive of a
\* service that has a row is the one it was provisioned with, whatever commands fail and
\* whichever workers die.
THEOREM ArchiveStaysCurrent == OneAtATime /\ OneHost => (Spec => []ArchiveIsCurrent)
<1> SUFFICES ASSUME OneAtATime, OneHost PROVE Spec => []ArchiveIsCurrent
  OBVIOUS
<1>1. Spec => []AtMostOneTask
  BY SshOneTask
<1>2. AtMostOneTask /\ TypeOK /\ TypeOK' /\ ArchiveInv /\ [Next]_vars => ArchiveInv'
  BY ArchiveStep
<1>3. ArchiveInv => ArchiveIsCurrent
  BY DEF ArchiveInv
<1> QED
  BY <1>1, <1>2, <1>3, ArchiveInit, TypeCorrect, PTL DEF Spec

\* Under the same conditions a reset whose commands do not fail leaves the container running
\* with the password of its row, whatever failed before.
THEOREM ResetAlwaysRestores == OneAtATime /\ OneHost => (Spec => ResetRestores)
<1> SUFFICES ASSUME OneAtATime, OneHost PROVE Spec => ResetRestores
  OBVIOUS
<1>1. Spec => []AtMostOneTask
  BY SshOneTask
<1>2. AtMostOneTask /\ TypeOK /\ TypeOK' /\ ArchiveInv /\ [Next]_vars => ArchiveInv'
  BY ArchiveStep
<1>3. AtMostOneTask /\ TypeOK /\ ArchiveInv /\ [Next]_vars
        => [\A w \in Workers :
              At(w, "run") /\ Act(w) = "reset" /\ step'[w] = "done" /\ faults' = faults
                => up'[Svc(w)] = row[Svc(w)]]_vars
  <2> SUFFICES ASSUME AtMostOneTask, TypeOK, ArchiveInv, Next, NEW w \in Workers,
                      At(w, "run"), Act(w) = "reset", step'[w] = "done", faults' = faults
               PROVE  up'[Svc(w)] = row[Svc(w)]
    OBVIOUS
  <2>1. step[w] = "run" /\ new[w] = 0 /\ Svc(w) \in Services /\ HostOf[w] \in Hosts
    BY SshServiceAssumption DEF At, ArchiveInv, TypeOK, LockTypeOK, Tasks, Svc
  <2>2. \A v \in Workers : TaskStep(v) => v = w
    BY <2>1 DEF TaskStep, StartTask, EndTask, Die, ProvisionCheck, Prepare, PrepareFails, Flush,
       Commit, RunContainer, RunFails, NothingToRun, DeleteContainer, DeleteFails, DeleteRow,
       RestartContainer, NotFound, AssetMissing, MachineLost, Goto, TypeOK
  <2>3. ~\E h \in Handlers : RequestStep(h) /\ UNCHANGED sshVars
    BY <2>1 DEF sshVars
  <2>4. TaskStep(w)
    BY <2>2, <2>3 DEF Next
  <2>5. RunContainer(w) \/ NothingToRun(w)
    <3>1. ~Fault
      BY DEF Fault, TypeOK
    <3>2. work[w] # NoTask
      BY DEF At
    <3> QED
      BY <2>1, <2>4, <3>1, <3>2
      DEF TaskStep, StartTask, Take, EndTask, Die, ProvisionCheck, Prepare, PrepareFails, Flush, Commit,
          RunFails, DeleteContainer, DeleteFails, DeleteRow, RestartContainer, NotFound,
          AssetMissing, MachineLost, At, Goto, TypeOK
  <2>6. row[Svc(w)] # 0
    BY <2>1, <2>5 DEF RunContainer, NothingToRun, Deployed
  <2>7. archive[HostOf[w]][Svc(w)] = row[Svc(w)]
    BY <2>1, <2>6 DEF ArchiveInv, ArchiveIsCurrent
  <2>8. RunContainer(w)
    BY <2>5, <2>6, <2>7 DEF NothingToRun
  <2> QED
    BY <2>1, <2>7, <2>8 DEF RunContainer, TypeOK
<1> QED
  BY <1>1, <1>2, <1>3, ArchiveInit, TypeCorrect, PTL DEF Spec, ResetRestores

-----------------------------------------------------------------------------
(* A service at rest. *)

\* No command failed and no worker died.
Calm == faults = 0 /\ crashes = 0

\* A worker runs a task of s.
On(w, s) == work[w] # NoTask /\ Svc(w) = s

\* Where a task has changed the container and not the row, or the other way round.
Between == {"run", "commit", "unrow"}

Together(s) == up[s] = row[s] /\ folder[s] = row[s]

\* What a task of s at its step has done: a provision has generated a password, and has the
\* container when it is to commit; a delete or reset has removed the container of a service
\* that has a row.
HalfDone(w, s) ==
  /\ step[w] = "flush" \/ (step[w] = "run" /\ Act(w) = "provision") => new[w] # 0
  /\ step[w] = "run" /\ Act(w) # "provision" => row[s] # 0
  /\ step[w] = "commit" => up[s] = new[w] /\ folder[s] = new[w]
  /\ step[w] = "unrow" => up[s] = 0 /\ folder[s] = 0

\* Row and container of s go together, except for what a task of s is in the middle of.
RestInv(s) ==
  /\ (\A w \in Workers : On(w, s) => step[w] \notin Between) => Together(s)
  /\ \A w \in Workers : On(w, s) => HalfDone(w, s)

\* Nothing has failed before if nothing has failed yet, and what fails is not taken.
LEMMA CalmBefore ==
  ASSUME TypeOK, [Next]_vars, Calm'
  PROVE  Calm /\ ~Fault /\ \A w \in Workers : ~Die(w)
<1>1. /\ UNCHANGED faults \/ faults' = faults + 1
      /\ UNCHANGED crashes \/ crashes' = crashes + 1
  BY DEF Next, RequestStep, Ask, Refuse, Publish, Insert, RequestDies, TaskStep, StartTask, Take, EndTask,
     Finish, Die, WorkerCrash, AssetMissing, MachineLost, ProvisionCheck, Prepare, PrepareFails, Flush,
     Commit, RunContainer, RunFails, NothingToRun, DeleteContainer, DeleteFails, DeleteRow,
     RestartContainer, NotFound, Fault, NoFault, vars, lockVars, sshVars
<1>2. faults \in Nat /\ crashes \in Nat
  BY DEF TypeOK, LockTypeOK
<1> QED
  BY <1>1, <1>2 DEF Calm, Fault, Die, WorkerCrash

\* A step of one worker is no step of another.
LEMMA OthersSame ==
  ASSUME TypeOK, NEW w \in Workers, TaskStep(w)
  PROVE  \A v \in Workers \ {w} : work'[v] = work[v] /\ step'[v] = step[v] /\ new'[v] = new[v]
<1>1. CASE StartTask(w) \/ EndTask(w) \/ Die(w)
  BY <1>1 DEF TypeOK, StartTask, Take, EndTask, Finish, Die, WorkerCrash, Goto, LockTypeOK
<1>2. CASE AssetMissing(w) \/ MachineLost(w) \/ ProvisionCheck(w) \/ NotFound(w)
  BY <1>2 DEF TypeOK, AssetMissing, MachineLost, ProvisionCheck, NotFound, Goto, lockVars
<1>3. CASE Prepare(w) \/ PrepareFails(w) \/ Flush(w) \/ Commit(w)
  BY <1>3 DEF TypeOK, Prepare, PrepareFails, Flush, Commit, Goto, lockVars
<1>4. CASE RunContainer(w) \/ RunFails(w) \/ NothingToRun(w)
  BY <1>4 DEF TypeOK, RunContainer, RunFails, NothingToRun, Goto, lockVars
<1>5. CASE DeleteContainer(w) \/ DeleteFails(w) \/ DeleteRow(w) \/ RestartContainer(w)
  BY <1>5 DEF TypeOK, DeleteContainer, DeleteFails, DeleteRow, RestartContainer, Goto, lockVars
<1> QED
  BY <1>1, <1>2, <1>3, <1>4, <1>5 DEF TaskStep

\* A step of a worker changes the row and the container of the service it works for only.
LEMMA ServicesSame ==
  ASSUME TypeOK, NEW w \in Workers, TaskStep(w), NEW s \in Services, ~On(w, s)
  PROVE  row'[s] = row[s] /\ up'[s] = up[s] /\ folder'[s] = folder[s]
<1>a. work[w] # NoTask => Svc(w) \in Services /\ s # Svc(w)
  BY DEF TypeOK, LockTypeOK, Tasks, Svc, On
<1>b. row \in [Services -> Nat] /\ up \in [Services -> Nat] /\ folder \in [Services -> Nat]
  BY DEF TypeOK
<1>1. CASE StartTask(w) \/ EndTask(w) \/ Die(w) \/ AssetMissing(w) \/ MachineLost(w)
           \/ ProvisionCheck(w) \/ NotFound(w) \/ Prepare(w) \/ PrepareFails(w) \/ Flush(w)
           \/ NothingToRun(w) \/ RestartContainer(w)
  BY <1>1 DEF StartTask, EndTask, Die, AssetMissing, MachineLost, ProvisionCheck, NotFound, Prepare,
     PrepareFails, Flush, NothingToRun, RestartContainer
<1>2. CASE Commit(w) \/ DeleteRow(w)
  BY <1>a, <1>b, <1>2 DEF Commit, DeleteRow, At
<1>3. CASE RunContainer(w) \/ RunFails(w)
  BY <1>a, <1>b, <1>3 DEF RunContainer, RunFails, At
<1>4. CASE DeleteContainer(w) \/ DeleteFails(w)
  BY <1>a, <1>b, <1>4 DEF DeleteContainer, DeleteFails, At
<1> QED
  BY <1>1, <1>2, <1>3, <1>4 DEF TaskStep

\* The step of a worker that does not work for s.
LEMMA RestSame ==
  ASSUME NEW s \in Services, RestInv(s), NEW w \in Workers,
         \A v \in Workers \ {w} : work'[v] = work[v] /\ step'[v] = step[v] /\ new'[v] = new[v],
         row'[s] = row[s], up'[s] = up[s], folder'[s] = folder[s], ~On(w, s), ~On(w, s)'
  PROVE  RestInv(s)'
<1>1. \A v \in Workers : (On(v, s)' <=> On(v, s)) /\ (On(v, s) => v # w)
  BY DEF On, Svc
<1>2. \A v \in Workers \ {w} : Act(v)' = Act(v)
  BY DEF Act
<1>3. ASSUME NEW v \in Workers, On(v, s)' PROVE HalfDone(v, s)'
  BY <1>1, <1>2, <1>3 DEF RestInv, HalfDone
<1> QED
  BY <1>1, <1>3 DEF RestInv, Together

\* The step of the one worker that works for s: what it has to keep.
LEMMA RestOwn ==
  ASSUME NEW s \in Services, NEW w \in Workers, \A v \in Workers : On(v, s)' => v = w,
         On(w, s)', step'[w] \notin Between => Together(s)', HalfDone(w, s)'
  PROVE  RestInv(s)'
BY DEF RestInv

\* No step whose commands succeed leaves row and container of a service apart, when it has
\* at most one task and the archive is the one of the row.
LEMMA RestStep ==
  AtMostOneTask /\ AtMostOneTask' /\ TypeOK /\ TypeOK' /\ ArchiveInv
    /\ (Calm => \A s \in Services : RestInv(s)) /\ [Next]_vars
  => (Calm => \A s \in Services : RestInv(s))'
<1> SUFFICES ASSUME AtMostOneTask, AtMostOneTask', TypeOK, TypeOK', ArchiveInv,
                    Calm => \A s \in Services : RestInv(s), [Next]_vars, Calm', NEW s \in Services
             PROVE  RestInv(s)'
  OBVIOUS
<1>a. RestInv(s) /\ ~Fault /\ \A w \in Workers : ~Die(w)
  BY CalmBefore
<1>b. \A v, w \in Workers : On(v, s) /\ On(w, s) => v = w
  BY OneWorker DEF On
<1>1. ASSUME NEW h \in Handlers, RequestStep(h), UNCHANGED sshVars PROVE RestInv(s)'
  <2>1. UNCHANGED work
    BY <1>1 DEF RequestStep, Ask, Refuse, Publish, Insert, RequestDies
  <2> QED
    BY <1>a, <1>1, <2>1 DEF RestInv, HalfDone, Together, sshVars, On, Svc, Act
<1>2. CASE UNCHANGED vars
  BY <1>a, <1>2 DEF vars, lockVars, sshVars, RestInv, HalfDone, Together, On, Svc, Act
<1>3. ASSUME NEW w \in Workers, TaskStep(w) PROVE RestInv(s)'
  <2>a. \A v \in Workers \ {w} : work'[v] = work[v] /\ step'[v] = step[v] /\ new'[v] = new[v]
    BY <1>3, OthersSame
  <2>1. CASE StartTask(w)
    <3>1. work[w] = NoTask /\ step'[w] = "start" /\ UNCHANGED <<row, up, folder, new>>
      BY <2>1 DEF StartTask, Take, Goto, TypeOK
    <3>2. CASE ~On(w, s)'
      BY <1>a, <2>a, <3>1, <3>2, RestSame DEF On
    <3>3. CASE On(w, s)'
      <4>1. \A v \in Workers : On(v, s)' => v = w
        <5>1. ASSUME NEW v \in Workers, On(v, s)' PROVE v = w
          <6>1. v \in RunBy(s)' /\ w \in RunBy(s)'
            BY <3>3, <5>1 DEF RunBy, On, Svc
          <6> QED
            BY <6>1 DEF AtMostOneTask
        <5> QED
          BY <5>1
      <4>2. \A v \in Workers : ~On(v, s)
        BY <2>a, <3>1, <4>1 DEF On, Svc
      <4>3. Together(s)' /\ HalfDone(w, s)'
        BY <1>a, <3>1, <4>2 DEF RestInv, Together, HalfDone
      <4> QED
        BY <3>3, <4>1, <4>3, RestOwn
    <3> QED
      BY <3>2, <3>3
  <2>2. CASE ~On(w, s) /\ ~StartTask(w)
    <3>1. work'[w] \in {work[w], NoTask}
      BY <1>3, <2>2 DEF TaskStep, EndTask, Finish, Die, WorkerCrash, AssetMissing, MachineLost,
         ProvisionCheck, Prepare, PrepareFails, Flush, Commit, RunContainer, RunFails, NothingToRun,
         DeleteContainer, DeleteFails, DeleteRow, RestartContainer, NotFound, lockVars, TypeOK, LockTypeOK
    <3>2. ~On(w, s)'
      BY <2>2, <3>1 DEF On, Svc
    <3> QED
      BY <1>3, <1>a, <2>a, <2>2, <3>2, ServicesSame, RestSame
  <2>3. CASE On(w, s) /\ EndTask(w)
    <3>1. work'[w] = NoTask /\ step[w] \in {"done", "raised"} /\ UNCHANGED <<row, up, folder>>
      BY <2>3 DEF EndTask, Finish, TypeOK, LockTypeOK
    <3>2. \A v \in Workers : ~On(v, s)'
      BY <1>b, <2>a, <2>3, <3>1 DEF On, Svc
    <3>3. Together(s)
      BY <1>a, <1>b, <2>3, <3>1 DEF RestInv, Between
    <3> QED
      BY <3>1, <3>2, <3>3 DEF RestInv, Together
  <2>4. CASE On(w, s) /\ ~StartTask(w) /\ ~EndTask(w)
    <3>a. Svc(w) = s /\ HalfDone(w, s) /\ (step[w] \notin Between => Together(s))
      BY <1>a, <1>b, <2>4 DEF RestInv, On
    <3>b. UNCHANGED lockVars
      BY <1>3, <1>a, <2>4 DEF TaskStep, AssetMissing, MachineLost, ProvisionCheck, Prepare, PrepareFails,
         Flush, Commit, RunContainer, RunFails, NothingToRun, DeleteContainer, DeleteFails, DeleteRow,
         RestartContainer, NotFound
    <3>c. On(w, s)' /\ (\A v \in Workers : On(v, s)' => v = w) /\ Act(w)' = Act(w)
      BY <1>b, <2>4, <3>b DEF lockVars, On, Svc, Act
    <3>d. step[w] \in {"start", "done", "raised"} => new[w] = 0
      BY DEF ArchiveInv
    <3>e. Act(w) \in {"provision", "delete", "reset", "restart"} /\ HostOf[w] \in Hosts
      BY <2>4, SshServiceAssumption DEF On, Act, TypeOK, LockTypeOK, Tasks
    <3> SUFFICES (step'[w] \notin Between => Together(s)') /\ HalfDone(w, s)'
      BY <3>c, RestOwn
    <3>1. CASE ProvisionCheck(w)
      <4>1. step[w] = "start" /\ step'[w] \in {"done", "prepare"} /\ UNCHANGED <<row, up, folder>>
        BY <3>1 DEF ProvisionCheck, At, Goto, TypeOK
      <4> QED
        BY <3>a, <4>1 DEF Together, HalfDone, Between
    <3>2. CASE Prepare(w)
      <4>1. /\ step[w] = "prepare" /\ step'[w] = "flush" /\ new'[w] = made + 1 /\ made + 1 # 0
            /\ UNCHANGED <<row, up, folder>>
        BY <3>2 DEF Prepare, At, Goto, TypeOK
      <4> QED
        BY <3>a, <4>1 DEF Together, HalfDone, Between
    <3>3. CASE Flush(w)
      <4>1. /\ step[w] = "flush" /\ UNCHANGED <<row, up, folder>>
            /\ (step'[w] = "run" /\ new'[w] = new[w]) \/ step'[w] = "done"
        BY <3>3 DEF Flush, At, Goto, TypeOK
      <4>2. Act(w) = "provision" /\ new[w] # 0
        BY <3>a, <4>1 DEF ArchiveInv, HalfDone
      <4> QED
        BY <3>a, <3>c, <4>1, <4>2 DEF Together, HalfDone, Between
    <3>4. CASE Commit(w)
      <4>1. step[w] = "commit" /\ step'[w] = "done" /\ row'[s] = new[w] /\ UNCHANGED <<up, folder>>
        BY <3>4, <3>a DEF Commit, At, Goto, TypeOK
      <4> QED
        BY <3>a, <4>1 DEF Together, HalfDone, Between
    <3>5. CASE RunContainer(w) \/ NothingToRun(w)
      <4>1. step[w] = "run" /\ step'[w] = AfterRun(w) /\ UNCHANGED <<row, new>>
        BY <3>5 DEF RunContainer, NothingToRun, At, Goto, TypeOK
      <4>2. CASE Act(w) = "provision"
        <5>1. archive[HostOf[w]][s] = new[w] /\ new[w] # 0
          BY <3>a, <4>1, <4>2 DEF ArchiveInv, HalfDone
        <5>2. up'[s] = new[w] /\ folder'[s] = new[w]
          BY <3>5, <3>a, <5>1 DEF RunContainer, NothingToRun, TypeOK
        <5> QED
          BY <4>1, <4>2, <5>2 DEF AfterRun, HalfDone, Between
      <4>3. CASE Act(w) # "provision"
        <5>1. row[s] # 0 /\ archive[HostOf[w]][s] = row[s]
          BY <3>a, <3>e, <4>1, <4>3 DEF ArchiveInv, ArchiveIsCurrent, HalfDone
        <5>2. up'[s] = row[s] /\ folder'[s] = row[s]
          BY <3>5, <3>a, <5>1 DEF RunContainer, NothingToRun, TypeOK
        <5> QED
          BY <4>1, <4>3, <5>2 DEF AfterRun, HalfDone, Together
      <4> QED
        BY <4>2, <4>3
    <3>6. CASE DeleteContainer(w)
      <4>1. /\ step[w] = "start" /\ step'[w] \in {"unrow", "run"} /\ UNCHANGED row
            /\ Act(w) # "provision" /\ Deployed(w)
        BY <3>6 DEF DeleteContainer, AfterDown, At, Goto, TypeOK
      <4>2. row[s] # 0 /\ folder[s] = row[s]
        BY <3>a, <3>d, <4>1 DEF Deployed, Together, Between
      <4>3. up'[s] = 0 /\ folder'[s] = 0
        BY <3>6, <3>a, <4>2 DEF DeleteContainer, TypeOK
      <4> QED
        BY <3>c, <4>1, <4>2, <4>3 DEF HalfDone, Between
    <3>7. CASE DeleteRow(w)
      <4>1. /\ step[w] = "unrow" /\ step'[w] = "done" /\ row'[s] = 0 /\ UNCHANGED <<up, folder>>
        BY <3>7, <3>a DEF DeleteRow, At, Goto, TypeOK
      <4> QED
        BY <3>a, <4>1 DEF Together, HalfDone
    <3>8. CASE RestartContainer(w)
      <4>1. step[w] = "start" /\ step'[w] = "done" /\ UNCHANGED <<row, up, folder>>
        BY <3>8 DEF RestartContainer, At, Goto, TypeOK
      <4> QED
        BY <3>a, <4>1 DEF Together, HalfDone, Between
    <3>9. CASE NotFound(w)
      <4>1. /\ step[w] \in {"start", "run", "unrow"} /\ step'[w] = "raised" /\ UNCHANGED <<row, up, folder>>
            /\ row[s] = 0 /\ new[w] = 0
        BY <3>9, <3>a DEF NotFound, Deployed, At, Goto, TypeOK
      <4>2. step[w] # "run"
        BY <3>a, <4>1 DEF HalfDone
      <4> QED
        BY <3>a, <4>1, <4>2 DEF Together, HalfDone, Between
    <3> QED
      BY <1>3, <1>a, <2>4, <3>1, <3>2, <3>3, <3>4, <3>5, <3>6, <3>7, <3>8, <3>9
      DEF TaskStep, AssetMissing, MachineLost, PrepareFails, RunFails, DeleteFails
  <2> QED
    BY <2>1, <2>2, <2>3, <2>4
<1> QED
  BY <1>1, <1>2, <1>3 DEF Next

\* When requests are served one at a time, all workers share a host, and no command fails
\* and no worker dies, a service without tasks has a row exactly when it has a container,
\* which has the password of the row (do_provision, do_delete, do_reset, do_restart).
THEOREM RestIsConsistent == OneAtATime /\ OneHost => (Spec => []RestConsistent)
<1> SUFFICES ASSUME OneAtATime, OneHost PROVE Spec => []RestConsistent
  OBVIOUS
<1> DEFINE Quiet == Calm => \A s \in Services : RestInv(s)
<1>1. Spec => []AtMostOneTask
  BY SshOneTask
<1>2. AtMostOneTask /\ TypeOK /\ TypeOK' /\ ArchiveInv /\ [Next]_vars => ArchiveInv'
  BY ArchiveStep
<1>3. Init => Quiet
  BY DEF Init, LockInit, RestInv, Together, On
<1>4. AtMostOneTask /\ AtMostOneTask' /\ TypeOK /\ TypeOK' /\ ArchiveInv /\ Quiet /\ [Next]_vars => Quiet'
  BY RestStep
<1>5. Quiet => RestConsistent
  <2> SUFFICES ASSUME Quiet, Calm, NEW s \in Services, ~Busy(s) PROVE Together(s)
    BY DEF RestConsistent, Calm, Together
  <2>1. \A w \in Workers : ~On(w, s)
    BY DEF Busy, RunBy, On, Svc
  <2> QED
    BY <2>1 DEF RestInv
<1> HIDE DEF Quiet
<1> QED
  BY <1>1, <1>2, <1>3, <1>4, <1>5, ArchiveInit, TypeCorrect, PTL DEF Spec
=============================================================================

---------------------------- MODULE AwsServiceProofs ----------------------------
(***************************************************************************)
(* Proofs about AwsService: types, that the keys in the rows open the      *)
(* machines they are shown for, that a team at rest has a machine exactly  *)
(* when it has a row, and the accounting of the reset queue.               *)
(***************************************************************************)
EXTENDS AwsService, SequenceTheorems, FunctionTheorems, FiniteSetTheorems, TLAPS

\* A lock belongs to the modes with a queue of resets, and so do the other differences.
LEMMA ModeFields ==
  ASSUME mode \in Modes
  PROVE  /\ mode.request.actions \in SUBSET Acts
         /\ mode.request.reset \in {"insert", "publish"}
         /\ mode.network.ownKey \in BOOLEAN
         /\ mode.provision.ifExists \in {"done", "machine"}
         /\ mode.provision.afterMachine \in {"share", "stack"}
         /\ mode.reset.afterRemake \in {"release", "done"}
         /\ mode.reset.afterRemake = "release" => mode.request.reset = "insert"
<1>1. CASE mode = Mode(AwsEc2Request, AwsEc2Machine, AwsEc2Provision, AwsEc2Reset)
  BY <1>1 DEF Mode, AwsEc2Request, AwsEc2Machine, AwsEc2Provision, AwsEc2Reset
<1>2. CASE mode = Mode(LksnRequest, LksnMachine, LksnProvision, LksnReset)
  BY <1>2 DEF Mode, LksnRequest, LksnMachine, LksnProvision, LksnReset
<1>3. CASE mode = Mode(FullRootChallRequest, FullRootChallMachine, FullRootChallProvision, FullRootChallReset)
  BY <1>3 DEF Mode, FullRootChallRequest, FullRootChallMachine, FullRootChallProvision, FullRootChallReset
<1>4. CASE mode = Mode(FullRootUserRequest, FullRootUserMachine, FullRootUserProvision, FullRootUserReset)
  BY <1>4 DEF Mode, FullRootUserRequest, FullRootUserMachine, FullRootUserProvision, FullRootUserReset
<1> QED
  BY <1>1, <1>2, <1>3, <1>4 DEF Modes

-----------------------------------------------------------------------------
(* Types. *)

WebTypes ==
  /\ open \in [Services -> Nat] /\ queue \in Seq(Tasks)
  /\ pc \in [Handlers -> {"idle", "insert", "publish", "refused"}]
  /\ asked \in [Handlers -> Tasks \union {NoTask}]
  /\ \A h \in Handlers : pc[h] \in {"insert", "publish"} <=> asked[h] # NoTask
  /\ requests \in Nat /\ deaths \in Nat

TaskTypes ==
  /\ work \in [Workers -> Tasks \union {NoTask}] /\ step \in [Workers -> Steps]
  /\ \A w \in Workers : step[w] = "idle" <=> work[w] = NoTask
  /\ key \in [Workers -> Nat] /\ faults \in Nat /\ crashes \in Nat

CloudTypes ==
  /\ row \in [Services -> Nat] /\ machine \in Nat
  /\ stack \in [Stacks -> Nat] /\ broken \subseteq Stacks /\ shares \subseteq Services
  /\ made \in Nat

GhostTypes ==
  givenUp \in [Services -> Nat] /\ overlap \subseteq Stacks /\ redone \subseteq Services

\* The type invariant in four parts, one for each group of variables.
LEMMA TypeParts ==
  TypeOK <=> mode \in Modes /\ WebTypes /\ TaskTypes /\ CloudTypes /\ GhostTypes
BY DEF TypeOK, WebTypes, TaskTypes, CloudTypes, GhostTypes

\* And of the next state.
LEMMA NextTypes ==
  mode' \in Modes /\ WebTypes' /\ TaskTypes' /\ CloudTypes' /\ GhostTypes' => TypeOK'
BY DEF TypeOK, WebTypes, TaskTypes, CloudTypes, GhostTypes

\* Tables, queue, handlers and workers start with their types.
LEMMA TypeInit == Init => TypeOK
BY AwsAssumption DEF Init, TypeOK, Steps

\* What a task that is not over knows of its worker.
LEMMA TaskOf ==
  ASSUME TaskTypes, NEW w \in Workers, work[w] # NoTask
  PROVE  work[w] \in Tasks /\ Svc(w) \in Services /\ Act(w) \in Acts /\ Svc(w) # Infra
BY AwsAssumption DEF TaskTypes, Tasks, Svc, Act

\* A step of a request keeps the types.
LEMMA RequestTypes ==
  ASSUME TypeOK, NEW h \in Handlers, RequestStep(h)
  PROVE  TypeOK'
<1> USE AwsAssumption
<1>a. mode \in Modes /\ WebTypes /\ TaskTypes /\ CloudTypes /\ GhostTypes
  BY TypeParts
<1>1. ASSUME NEW t \in Tasks, Ask(h, t) PROVE TypeOK'
  <2>1. (IF t.act = "reset" THEN mode.request.reset ELSE "publish") \in {"insert", "publish"}
    BY ModeFields, <1>a
  <2> HIDE DEF Tasks
  <2>2. WebTypes'
    BY <1>1, <1>a, <2>1 DEF Ask, WebTypes
  <2> QED
    BY <1>1, <1>a, <2>2, NextTypes DEF Ask, TaskTypes, CloudTypes, GhostTypes,
      taskVars, cloudVars, ghostVars
<1>2. ASSUME NEW s \in Services, Refuse(h, s) PROVE TypeOK'
  <2>1. WebTypes'
    BY <1>2, <1>a DEF Refuse, WebTypes
  <2> QED
    BY <1>2, <1>a, <2>1, NextTypes DEF Refuse, TaskTypes, CloudTypes, GhostTypes,
      taskVars, cloudVars, ghostVars
<1>3. CASE InsertReset(h)
  <2>1. asked[h].svc \in Services
    BY <1>3, <1>a DEF InsertReset, WebTypes, Tasks
  <2>2. WebTypes'
    BY <1>3, <1>a, <2>1 DEF InsertReset, WebTypes
  <2> QED
    BY <1>3, <1>a, <2>2, NextTypes DEF InsertReset, TaskTypes, CloudTypes, GhostTypes,
      taskVars, cloudVars, ghostVars
<1>4. CASE Publish(h)
  <2>1. asked[h] \in Tasks
    BY <1>4, <1>a DEF Publish, WebTypes
  <2>2. Append(queue, asked[h]) \in Seq(Tasks)
    BY <1>a, <2>1, AppendProperties DEF WebTypes
  <2>3. WebTypes'
    BY <1>4, <1>a, <2>2 DEF Publish, WebTypes
  <2> QED
    BY <1>4, <1>a, <2>3, NextTypes DEF Publish, TaskTypes, CloudTypes, GhostTypes,
      taskVars, cloudVars, ghostVars
<1>5. CASE RequestDies(h)
  <2>1. asked[h].svc \in Services
    BY <1>5, <1>a DEF RequestDies, WebTypes, Tasks
  <2>2. WebTypes' /\ GhostTypes'
    BY <1>5, <1>a, <2>1 DEF RequestDies, WebTypes, GhostTypes
  <2> QED
    BY <1>5, <1>a, <2>2, NextTypes DEF RequestDies, TaskTypes, CloudTypes, taskVars, cloudVars
<1> QED
  BY <1>1, <1>2, <1>3, <1>4, <1>5 DEF RequestStep

\* A task that goes on to another step keeps the types if what it writes has them.
LEMMA GoesOn ==
  ASSUME TypeOK, NEW w \in Workers, work[w] # NoTask,
         NEW to \in Steps \ {"idle"}, Goto(w, to),
         UNCHANGED <<mode, webVars, work, crashes>>,
         key' \in [Workers -> Nat], faults' \in Nat, CloudTypes', GhostTypes'
  PROVE  TypeOK'
<1>1. TaskTypes'
  BY TypeParts DEF TaskTypes, Goto
<1>2. WebTypes'
  BY TypeParts DEF WebTypes, webVars
<1>3. mode' \in Modes
  BY TypeParts
<1> QED
  BY <1>1, <1>2, <1>3, NextTypes

\* A call of AWS that failed or not leaves the counter of failures a number.
LEMMA FaultTypes == (Fault \/ NoFault) /\ faults \in Nat => faults' \in Nat
BY DEF Fault, NoFault

\* So do all that calls of AWS do to a stack.
LEMMA StackTypes ==
  ASSUME CloudTypes, faults \in Nat, NEW x \in Stacks, NEW k \in Nat,
         (Written(x, k) /\ NoFault) \/ NotWritten(x, k) \/ Deleted(x) \/ DeleteRaises(x)
  PROVE  stack' \in [Stacks -> Nat] /\ broken' \subseteq Stacks /\ faults' \in Nat
<1>1. CASE Written(x, k) /\ NoFault
  BY <1>1 DEF Written, NoFault, CloudTypes
<1>2. CASE NotWritten(x, k)
  BY <1>2, FaultTypes DEF NotWritten, NoFault, CloudTypes
<1>3. CASE Deleted(x)
  BY <1>3, FaultTypes DEF Deleted, Gone, NoFault, CloudTypes
<1>4. CASE DeleteRaises(x)
  BY <1>4, FaultTypes DEF DeleteRaises, Gone, CloudTypes
<1> QED
  BY <1>1, <1>2, <1>3, <1>4

\* The end of a task keeps the types.
LEMMA LeaveTypes ==
  ASSUME TypeOK, NEW w \in Workers, Leave(w), work[w] # NoTask,
         UNCHANGED <<mode, webVars, faults, cloudVars, overlap, redone>>, crashes' \in Nat
  PROVE  TypeOK'
<1>a. mode \in Modes /\ WebTypes /\ TaskTypes /\ CloudTypes /\ GhostTypes
  BY TypeParts
<1>1. Svc(w) \in Services
  BY <1>a, TaskOf
<1>2. /\ work' = [work EXCEPT ![w] = NoTask] /\ step' = [step EXCEPT ![w] = "idle"]
      /\ key' = [key EXCEPT ![w] = 0] /\ faults' = faults
  BY DEF Leave, Goto
<1>3. TaskTypes'
  BY <1>a, <1>2 DEF TaskTypes, Steps
<1>4. GhostTypes'
  BY <1>a, <1>1 DEF Leave, GhostTypes
<1> QED
  BY <1>a, <1>3, <1>4, NextTypes DEF WebTypes, webVars, CloudTypes, cloudVars

\* A step of a worker keeps the types.
LEMMA WorkTypes ==
  ASSUME TypeOK, NEW w \in Workers, Work(w) \/ Die(w)
  PROVE  TypeOK'
<1>a. mode \in Modes /\ WebTypes /\ TaskTypes /\ CloudTypes /\ GhostTypes
  BY TypeParts
<1>b. ASSUME work[w] # NoTask
      PROVE  Svc(w) \in Services /\ Svc(w) \in Stacks /\ Act(w) \in Acts
  BY <1>a, <1>b, TaskOf DEF Stacks
<1>c. /\ key \in [Workers -> Nat] /\ faults \in Nat /\ made \in Nat /\ machine \in Nat
      /\ row \in [Services -> Nat] /\ stack \in [Stacks -> Nat] /\ crashes \in Nat
      /\ made + 1 \in Nat /\ InfraKey \in Nat /\ Infra \in Stacks
  BY <1>a DEF TaskTypes, CloudTypes, InfraKey, Stacks
<1>d. /\ mode.provision.ifExists \in Steps \ {"idle"}
      /\ AfterMachine(w) \in Steps \ {"idle"}
      /\ mode.reset.afterRemake \in Steps \ {"idle"}
      /\ AfterUnstack(w) \in Steps \ {"idle"}
  BY <1>a, ModeFields DEF Steps, AfterMachine, AfterUnstack
<1>1. CASE Start(w)
  <2>1. Head(queue) \in Tasks /\ Tail(queue) \in Seq(Tasks)
    BY <1>1, <1>a, HeadTailProperties DEF Start, WebTypes
  <2>2. Head(queue) # NoTask /\ Head(queue).svc \in Stacks
    BY <2>1, AwsAssumption DEF Tasks, Stacks
  <2>3. WebTypes'
    BY <1>1, <1>a, <2>1 DEF Start, WebTypes
  <2>4. TaskTypes'
    BY <1>1, <1>a, <2>1, <2>2 DEF Start, TaskTypes, Goto, Steps
  <2>5. GhostTypes'
    BY <1>1, <1>a, <2>2 DEF Start, GhostTypes
  <2> QED
    BY <1>1, <1>a, <2>3, <2>4, <2>5, NextTypes DEF Start, CloudTypes, cloudVars
<1>2. CASE Begin(w)
  <2>1. work[w] # NoTask
    BY <1>2 DEF Begin, At
  <2>2. FirstStep(w) \in Steps \ {"idle"}
    BY <1>b, <1>d, <2>1 DEF FirstStep, Acts, Steps, Allowed
  <2>3. Goto(w, FirstStep(w)) \/ Goto(w, "done")
    BY <1>2 DEF Begin
  <2>4. faults' \in Nat /\ key' \in [Workers -> Nat] /\ CloudTypes' /\ GhostTypes'
    BY <1>2, <1>a, <1>c, FaultTypes DEF Begin, CloudTypes, GhostTypes, cloudVars, ghostVars
  <2> QED
    BY <1>2, <2>1, <2>2, <2>3, <2>4, GoesOn DEF Begin, Steps
<1>3. CASE End(w)
  BY <1>3, <1>c, LeaveTypes DEF End, At
<1>4. CASE Release(w)
  <2>1. work[w] # NoTask /\ Svc(w) \in Services
    BY <1>4, <1>b DEF Release, At
  <2>2. Close(Svc(w)) \in Nat
    BY <1>a, <2>1 DEF Close, WebTypes
  <2>3. WebTypes'
    BY <1>4, <1>a, <2>1, <2>2 DEF Release, WebTypes
  <2>4. TaskTypes'
    BY <1>4, <1>a DEF Release, TaskTypes, Goto, Steps
  <2> QED
    BY <1>4, <1>a, <2>3, <2>4, NextTypes DEF Release, CloudTypes, GhostTypes, cloudVars, ghostVars
<1>5. CASE FindMachine(w)
  <2>1. \E to \in Steps \ {"idle"} : Goto(w, to)
    BY <1>5, <1>d DEF FindMachine, Steps
  <2>2. CloudTypes' /\ GhostTypes' /\ faults' \in Nat /\ key' \in [Workers -> Nat]
    BY <1>5, <1>a, <1>c DEF FindMachine, CloudTypes, GhostTypes, cloudVars, Stacks
  <2> QED
    BY <1>5, <2>1, <2>2, GoesOn DEF FindMachine, At
<1>6. CASE MakeInfra(w)
  <2>1. \E to \in Steps \ {"idle"} : Goto(w, to)
    BY <1>6 DEF MakeInfra, Steps
  <2>2. stack' \in [Stacks -> Nat] /\ broken' \subseteq Stacks /\ faults' \in Nat
    BY <1>6, <1>a, <1>c, StackTypes DEF MakeInfra
  <2>3. CloudTypes' /\ GhostTypes' /\ key' \in [Workers -> Nat]
    BY <1>6, <1>a, <1>c, <2>2 DEF MakeInfra, CloudTypes, GhostTypes, ghostVars
  <2> QED
    BY <1>6, <2>1, <2>2, <2>3, GoesOn DEF MakeInfra, At
<1>7. CASE Register(w)
  <2>1. \E to \in Steps \ {"idle"} : Goto(w, to)
    BY <1>7, <1>d DEF Register, Steps
  <2>2. CloudTypes' /\ GhostTypes' /\ faults' \in Nat /\ key' \in [Workers -> Nat]
    BY <1>7, <1>a, <1>c DEF Register, CloudTypes, GhostTypes, ghostVars
  <2> QED
    BY <1>7, <2>1, <2>2, GoesOn DEF Register, At
<1>8. CASE Share(w)
  <2>1. \E to \in Steps \ {"idle"} : Goto(w, to)
    BY <1>8 DEF Share, Steps
  <2>2. faults' \in Nat
    BY <1>8, <1>c, FaultTypes DEF Share
  <2>3. CloudTypes' /\ GhostTypes' /\ key' \in [Workers -> Nat]
    BY <1>8, <1>a, <1>b, <1>c DEF Share, At, CloudTypes, GhostTypes, ghostVars
  <2> QED
    BY <1>8, <2>1, <2>2, <2>3, GoesOn DEF Share, At
<1>9. CASE MakeStack(w)
  <2>1. \E to \in Steps \ {"idle"} : Goto(w, to)
    BY <1>9 DEF MakeStack, Steps
  <2>2. stack' \in [Stacks -> Nat] /\ broken' \subseteq Stacks /\ faults' \in Nat
    BY <1>9, <1>a, <1>b, <1>c, StackTypes DEF MakeStack, At
  <2>3. CloudTypes' /\ GhostTypes' /\ key' \in [Workers -> Nat]
    BY <1>9, <1>a, <1>b, <1>c, <2>2 DEF MakeStack, At, CloudTypes, GhostTypes
  <2> QED
    BY <1>9, <2>1, <2>2, <2>3, GoesOn DEF MakeStack, At
<1>10. CASE InsertRow(w)
  <2>1. \E to \in Steps \ {"idle"} : Goto(w, to)
    BY <1>10 DEF InsertRow, Steps
  <2>2. CloudTypes' /\ GhostTypes' /\ faults' \in Nat /\ key' \in [Workers -> Nat]
    BY <1>10, <1>a, <1>b, <1>c DEF InsertRow, At, CloudTypes, GhostTypes, ghostVars
  <2> QED
    BY <1>10, <2>1, <2>2, GoesOn DEF InsertRow, At
<1>11. CASE DeleteRow(w)
  <2>1. \E to \in Steps \ {"idle"} : Goto(w, to)
    BY <1>11 DEF DeleteRow, Steps
  <2>2. CloudTypes' /\ GhostTypes' /\ faults' \in Nat /\ key' \in [Workers -> Nat]
    BY <1>11, <1>a, <1>b, <1>c DEF DeleteRow, At, CloudTypes, GhostTypes, ghostVars
  <2> QED
    BY <1>11, <2>1, <2>2, GoesOn DEF DeleteRow, At
<1>12. CASE Describe(w)
  <2>1. \E to \in Steps \ {"idle"} : Goto(w, to)
    BY <1>12 DEF Describe, Steps
  <2>2. faults' \in Nat /\ key' \in [Workers -> Nat]
    BY <1>12, <1>b, <1>c, FaultTypes DEF Describe, At
  <2>3. CloudTypes' /\ GhostTypes'
    BY <1>12, <1>a DEF Describe, CloudTypes, GhostTypes, cloudVars, ghostVars
  <2> QED
    BY <1>12, <2>1, <2>2, <2>3, GoesOn DEF Describe, At
<1>13. CASE DeleteStack(w)
  <2>1. \E to \in Steps \ {"idle"} : Goto(w, to)
    BY <1>13, <1>d DEF DeleteStack, Steps
  <2>2. stack' \in [Stacks -> Nat] /\ broken' \subseteq Stacks /\ faults' \in Nat
    BY <1>13, <1>a, <1>b, <1>c, StackTypes DEF DeleteStack, At
  <2>3. CloudTypes' /\ GhostTypes' /\ key' \in [Workers -> Nat]
    BY <1>13, <1>a, <1>c, <2>2 DEF DeleteStack, CloudTypes, GhostTypes, ghostVars
  <2> QED
    BY <1>13, <2>1, <2>2, <2>3, GoesOn DEF DeleteStack, At
<1>14. CASE RemakeStack(w)
  <2>1. \E to \in Steps \ {"idle"} : Goto(w, to)
    BY <1>14, <1>d DEF RemakeStack
  <2>2. stack' \in [Stacks -> Nat] /\ broken' \subseteq Stacks /\ faults' \in Nat
    <3>1. ResetKey(w) \in Nat
      BY <1>c DEF ResetKey
    <3> QED
      BY <1>14, <1>a, <1>b, <1>c, <3>1, StackTypes DEF RemakeStack, At
  <2>3. CloudTypes' /\ GhostTypes' /\ key' \in [Workers -> Nat]
    BY <1>14, <1>a, <1>c, <2>2 DEF RemakeStack, CloudTypes, GhostTypes, ghostVars
  <2> QED
    BY <1>14, <2>1, <2>2, <2>3, GoesOn DEF RemakeStack, At
<1>15. CASE Die(w)
  <2>1. crashes' \in Nat
    BY <1>15, <1>c DEF Die
  <2> QED
    BY <1>15, <2>1, LeaveTypes DEF Die
<1> QED
  BY <1>1, <1>2, <1>3, <1>4, <1>5, <1>6, <1>7, <1>8, <1>9, <1>10, <1>11, <1>12, <1>13, <1>14, <1>15
  DEF Work

\* No request, no step of a worker and no death breaks a type.
LEMMA TypeStep == TypeOK /\ [Next]_vars => TypeOK'
<1> SUFFICES ASSUME TypeOK, [Next]_vars PROVE TypeOK'
  OBVIOUS
<1>1. CASE UNCHANGED vars
  BY <1>1 DEF vars, webVars, taskVars, cloudVars, ghostVars, TypeOK
<1> QED
  BY <1>1, RequestTypes, WorkTypes DEF Next

\* Rows, requests, tasks and stacks of the four AWS modes keep their types, for any
\* number of teams, requests and workers, whatever fails.
THEOREM TypeCorrect == Spec => []TypeOK
BY TypeInit, TypeStep, PTL DEF Spec

-----------------------------------------------------------------------------
(* What a step of a worker leaves alone. *)

\* The steps that belong to one operation only.
TaskFields ==
  \A w \in Workers :
    /\ step[w] \in {"share", "stack"} => Act(w) = "provision"
    /\ step[w] \in {"remake", "release"} => Act(w) = "reset"
    /\ step[w] = "release" => mode.request.reset = "insert"

\* A step of one worker is no step of another.
LEMMA OthersSame ==
  ASSUME TypeOK, NEW w \in Workers, Work(w) \/ Die(w)
  PROVE  /\ mode' = mode /\ overlap \subseteq overlap'
         /\ \A v \in Workers \ {w} : work'[v] = work[v] /\ step'[v] = step[v] /\ key'[v] = key[v]
<1> USE TypeParts DEF TaskTypes, Goto
<1>1. CASE Start(w) BY <1>1 DEF Start
<1>2. CASE Begin(w) BY <1>2 DEF Begin, ghostVars
<1>3. CASE End(w) BY <1>3 DEF End, Leave
<1>4. CASE Release(w) BY <1>4 DEF Release, ghostVars
<1>5. CASE FindMachine(w) BY <1>5 DEF FindMachine
<1>6. CASE MakeInfra(w) BY <1>6 DEF MakeInfra, ghostVars
<1>7. CASE Register(w) BY <1>7 DEF Register, ghostVars
<1>8. CASE Share(w) BY <1>8 DEF Share, ghostVars
<1>9. CASE MakeStack(w) BY <1>9 DEF MakeStack
<1>10. CASE InsertRow(w) BY <1>10 DEF InsertRow, ghostVars
<1>11. CASE DeleteRow(w) BY <1>11 DEF DeleteRow, ghostVars
<1>12. CASE Describe(w) BY <1>12 DEF Describe, ghostVars
<1>13. CASE DeleteStack(w) BY <1>13 DEF DeleteStack, ghostVars
<1>14. CASE RemakeStack(w) BY <1>14 DEF RemakeStack, ghostVars
<1>15. CASE Die(w) BY <1>15 DEF Die, Leave
<1> QED
  BY <1>1, <1>2, <1>3, <1>4, <1>5, <1>6, <1>7, <1>8, <1>9, <1>10, <1>11, <1>12, <1>13, <1>14, <1>15
  DEF Work

\* A call of AWS is about one stack.
LEMMA OneStack ==
  ASSUME CloudTypes, NEW x \in Stacks, NEW k,
         Written(x, k) \/ NotWritten(x, k) \/ Deleted(x) \/ DeleteRaises(x)
  PROVE  \A y \in Stacks \ {x} : stack'[y] = stack[y]
BY DEF Written, NotWritten, Deleted, DeleteRaises, Gone, CloudTypes

\* A step of a worker changes the rows and the stack of the team it works for only.
LEMMA TeamsSame ==
  ASSUME TypeOK, NEW w \in Workers, Work(w) \/ Die(w),
         NEW s \in Services, work[w] = NoTask \/ Svc(w) # s
  PROVE  row'[s] = row[s] /\ stack'[s] = stack[s] /\ (s \in redone' <=> s \in redone)
<1>a. TaskTypes /\ CloudTypes
  BY TypeParts
<1>b. s \in Stacks /\ s # Infra /\ Infra \in Stacks
  BY AwsAssumption DEF Stacks
<1>c. work[w] # NoTask => Svc(w) \in Services /\ Svc(w) \in Stacks /\ s # Svc(w)
  BY <1>a, TaskOf DEF Stacks
<1>1. CASE Start(w) BY <1>1 DEF Start, cloudVars
<1>2. CASE Begin(w) BY <1>2 DEF Begin, cloudVars, ghostVars
<1>3. CASE End(w) BY <1>3 DEF End, cloudVars
<1>4. CASE Release(w) BY <1>4 DEF Release, cloudVars, ghostVars
<1>5. CASE FindMachine(w) BY <1>5 DEF FindMachine, cloudVars
<1>6. CASE MakeInfra(w)
  BY <1>6, <1>a, <1>b, OneStack DEF MakeInfra, ghostVars
<1>7. CASE Register(w) BY <1>7 DEF Register, ghostVars
<1>8. CASE Share(w) BY <1>8 DEF Share, ghostVars
<1>9. CASE MakeStack(w)
  BY <1>9, <1>a, <1>b, <1>c, OneStack DEF MakeStack, At
<1>10. CASE InsertRow(w) BY <1>10, <1>a, <1>c DEF InsertRow, At, ghostVars, CloudTypes
<1>11. CASE DeleteRow(w) BY <1>11, <1>a, <1>c DEF DeleteRow, At, ghostVars, CloudTypes
<1>12. CASE Describe(w) BY <1>12 DEF Describe, cloudVars, ghostVars
<1>13. CASE DeleteStack(w)
  BY <1>13, <1>a, <1>b, <1>c, OneStack DEF DeleteStack, At, ghostVars
<1>14. CASE RemakeStack(w)
  BY <1>14, <1>a, <1>b, <1>c, OneStack DEF RemakeStack, At, ghostVars
<1>15. CASE Die(w) BY <1>15 DEF Die, cloudVars
<1> QED
  BY <1>1, <1>2, <1>3, <1>4, <1>5, <1>6, <1>7, <1>8, <1>9, <1>10, <1>11, <1>12, <1>13, <1>14, <1>15
  DEF Work

\* A request changes nothing that a worker works on.
LEMMA RequestSame ==
  ASSUME NEW h \in Handlers, RequestStep(h)
  PROVE  UNCHANGED <<mode, work, step, key, row, machine, stack, overlap, redone>>
BY DEF RequestStep, Ask, Refuse, InsertReset, Publish, RequestDies, taskVars, cloudVars, ghostVars

\* Where a task goes first.
LEMMA FirstSteps ==
  ASSUME TypeOK, NEW w \in Workers, work[w] # NoTask
  PROVE  /\ FirstStep(w) \in {"done", "machine", "unrow", "describe"}
         /\ FirstStep(w) = "machine" =>
              Act(w) = "infraprovision" \/ mode.provision.ifExists = "machine" \/ row[Svc(w)] = 0
<1>1. mode \in Modes /\ Act(w) \in Acts
  BY TypeParts, TaskOf
<1> QED
  BY <1>1, ModeFields DEF FirstStep, Acts

\* The steps of an operation are entered by its own tasks only.
LEMMA FieldsStep == TypeOK /\ TaskFields /\ [Next]_vars => TaskFields'
<1> SUFFICES ASSUME TypeOK, TaskFields, [Next]_vars PROVE TaskFields'
  OBVIOUS
<1>1. ASSUME NEW h \in Handlers, RequestStep(h) PROVE TaskFields'
  BY <1>1, RequestSame DEF TaskFields, Act
<1>2. CASE UNCHANGED vars
  BY <1>2 DEF vars, taskVars, TaskFields, Act
<1>3. ASSUME NEW w \in Workers, Work(w) \/ Die(w) PROVE TaskFields'
  <2>a. mode \in Modes /\ TaskTypes
    BY TypeParts
  <2>b. mode' = mode /\ \A v \in Workers \ {w} : work'[v] = work[v] /\ step'[v] = step[v]
    BY <1>3, OthersSame
  <2> SUFFICES /\ step'[w] \in {"share", "stack"} => Act(w)' = "provision"
               /\ step'[w] \in {"remake", "release"} => Act(w)' = "reset"
               /\ step'[w] = "release" => mode.request.reset = "insert"
    BY <2>b DEF TaskFields, Act
  <2> USE <2>a, ModeFields DEF TaskTypes, TaskFields, Goto, Act
  <2>1. CASE Start(w) BY <2>1 DEF Start
  <2>2. CASE Begin(w) BY <2>2, FirstSteps DEF Begin, At
  <2>3. CASE End(w) BY <2>3 DEF End, Leave
  <2>4. CASE Release(w) BY <2>4 DEF Release
  <2>5. CASE FindMachine(w) BY <2>5 DEF FindMachine, AfterMachine
  <2>6. CASE MakeInfra(w) BY <2>6 DEF MakeInfra
  <2>7. CASE Register(w) BY <2>7 DEF Register, AfterMachine
  <2>8. CASE Share(w) BY <2>8 DEF Share, At
  <2>9. CASE MakeStack(w) BY <2>9 DEF MakeStack
  <2>10. CASE InsertRow(w) BY <2>10 DEF InsertRow
  <2>11. CASE DeleteRow(w) BY <2>11 DEF DeleteRow
  <2>12. CASE Describe(w) BY <2>12 DEF Describe
  <2>13. CASE DeleteStack(w) BY <2>13 DEF DeleteStack, AfterUnstack
  <2>14. CASE RemakeStack(w) BY <2>14 DEF RemakeStack, At
  <2>15. CASE Die(w) BY <2>15 DEF Die, Leave
  <2> QED
    BY <1>3, <2>1, <2>2, <2>3, <2>4, <2>5, <2>6, <2>7, <2>8, <2>9, <2>10, <2>11, <2>12, <2>13, <2>14,
       <2>15 DEF Work
<1> QED
  BY <1>1, <1>2, <1>3 DEF Next

-----------------------------------------------------------------------------
(* Keys. *)

\* One worker at a time makes the infrastructure, while no machine is registered, and what
\* it is about to register is what it made.
InfraInv ==
  /\ \A v, w \in Workers :
       step[v] \in {"infra", "register"} /\ step[w] \in {"infra", "register"} => v = w
  /\ \A w \in Workers : step[w] \in {"infra", "register"} => machine = 0
  /\ \A w \in Workers : mode.network.ownKey /\ step[w] = "register" => key[w] = stack[Infra]
  /\ ServerKeyKnown \/ Infra \in overlap

\* A step that does not touch the infrastructure and does not begin to make it.
LEMMA InfraSame ==
  ASSUME InfraInv, NEW w \in Workers, Infra \notin overlap, mode' = mode,
         \A v \in Workers \ {w} : step'[v] = step[v] /\ key'[v] = key[v],
         step'[w] \notin {"infra", "register"},
         machine' = machine, stack'[Infra] = stack[Infra]
  PROVE  InfraInv'
BY DEF InfraInv, ServerKeyKnown

\* No step makes the infrastructure a second time, unless it overlaps with the first.
LEMMA InfraStep ==
  TypeOK /\ TaskFields /\ (Infra \in overlap \/ InfraInv) /\ [Next]_vars
    => (Infra \in overlap \/ InfraInv)'
<1> SUFFICES ASSUME TypeOK, TaskFields, Infra \in overlap \/ InfraInv, [Next]_vars,
                    Infra \notin overlap'
             PROVE  InfraInv'
  OBVIOUS
<1>1. ASSUME NEW h \in Handlers, RequestStep(h) PROVE InfraInv'
  BY <1>1, RequestSame DEF InfraInv, ServerKeyKnown
<1>2. CASE UNCHANGED vars
  BY <1>2 DEF vars, taskVars, cloudVars, ghostVars, InfraInv, ServerKeyKnown
<1>3. ASSUME NEW w \in Workers, Work(w) \/ Die(w) PROVE InfraInv'
  <2>a. mode \in Modes /\ TaskTypes /\ CloudTypes
    BY TypeParts
  <2>b. /\ mode' = mode /\ Infra \notin overlap /\ InfraInv
        /\ \A v \in Workers \ {w} : work'[v] = work[v] /\ step'[v] = step[v] /\ key'[v] = key[v]
    BY <1>3, OthersSame
  <2>c. work[w] # NoTask => Svc(w) \in Stacks /\ Infra # Svc(w)
    BY <2>a, TaskOf DEF Stacks
  <2>d. Infra \in Stacks
    BY DEF Stacks
  <2>e. /\ AfterMachine(w) \notin {"infra", "register"}
        /\ AfterUnstack(w) \notin {"infra", "register"}
        /\ mode.reset.afterRemake \notin {"infra", "register"}
        /\ FirstStep(w) \notin {"infra", "register"} \/ work[w] = NoTask
    BY <2>a, FirstSteps, ModeFields DEF AfterMachine, AfterUnstack
  <2>1. CASE Start(w)
    BY <2>1, <2>a, <2>b, InfraSame DEF Start, Goto, TaskTypes, cloudVars
  <2>2. CASE Begin(w)
    BY <2>2, <2>a, <2>b, <2>e, InfraSame DEF Begin, At, Goto, TaskTypes, cloudVars
  <2>3. CASE End(w) \/ Die(w)
    BY <2>3, <2>a, <2>b, InfraSame DEF End, Die, Leave, Goto, TaskTypes, cloudVars
  <2>4. CASE Release(w)
    BY <2>4, <2>a, <2>b, InfraSame DEF Release, Goto, TaskTypes, cloudVars
  <2>5. CASE FindMachine(w)
    <3>1. CASE machine # 0
      BY <2>5, <2>a, <2>b, <2>e, <3>1, InfraSame DEF FindMachine, Goto, TaskTypes, cloudVars
    <3>2. CASE machine = 0
      <4>1. \A v \in Workers : step[v] \notin {"infra", "register"}
        BY <2>5, <3>2 DEF FindMachine
      <4>2. step' = [step EXCEPT ![w] = "infra"] /\ UNCHANGED <<key, machine, stack>>
        BY <2>5, <3>2 DEF FindMachine, Goto, cloudVars
      <4> QED
        BY <2>a, <2>b, <3>2, <4>1, <4>2 DEF InfraInv, ServerKeyKnown, TaskTypes
    <3> QED
      BY <3>1, <3>2
  <2>6. CASE MakeInfra(w)
    <3>1. /\ machine = 0 /\ machine' = 0
          /\ \A v \in Workers \ {w} : step'[v] \notin {"infra", "register"}
      BY <2>6, <2>b DEF MakeInfra, At, InfraInv
    <3>2. step'[w] = "register" => key'[w] = stack'[Infra]
      <4>1. step' = [step EXCEPT ![w] = "register"] => Written(Infra, InfraKey)
        BY <2>6, <2>a DEF MakeInfra, Goto, TaskTypes
      <4>2. step'[w] = "register" => Written(Infra, InfraKey)
        BY <2>6, <2>a DEF MakeInfra, Goto, TaskTypes
      <4>3. key'[w] = InfraKey
        BY <2>6, <2>a DEF MakeInfra, TaskTypes
      <4> QED
        BY <2>a, <2>d, <4>2, <4>3 DEF Written, CloudTypes
    <3> QED
      BY <2>b, <3>1, <3>2 DEF InfraInv, ServerKeyKnown
  <2>7. CASE Register(w)
    <3>1. /\ machine = 0 /\ machine' = key[w] /\ stack' = stack
          /\ step' = [step EXCEPT ![w] = AfterMachine(w)]
      BY <2>7, <2>b DEF Register, At, Goto, InfraInv
    <3>2. mode.network.ownKey => machine' = stack'[Infra]
      BY <2>7, <2>b, <3>1 DEF Register, At, InfraInv
    <3>3. \A v \in Workers : step'[v] \notin {"infra", "register"}
      BY <2>7, <2>a, <2>b, <2>e, <3>1 DEF Register, At, InfraInv, TaskTypes
    <3> QED
      BY <2>b, <3>2, <3>3 DEF InfraInv, ServerKeyKnown
  <2>8. CASE Share(w)
    BY <2>8, <2>a, <2>b, InfraSame DEF Share, Goto, TaskTypes
  <2>9. CASE MakeStack(w)
    <3>1. stack'[Infra] = stack[Infra]
      BY <2>9, <2>a, <2>c, <2>d, OneStack DEF MakeStack, At
    <3> QED
      BY <2>9, <2>a, <2>b, <3>1, InfraSame DEF MakeStack, Goto, TaskTypes
  <2>10. CASE InsertRow(w) \/ DeleteRow(w)
    BY <2>10, <2>a, <2>b, InfraSame DEF InsertRow, DeleteRow, Goto, TaskTypes
  <2>11. CASE Describe(w)
    BY <2>11, <2>a, <2>b, InfraSame DEF Describe, Goto, TaskTypes, cloudVars
  <2>12. CASE DeleteStack(w)
    <3>1. stack'[Infra] = stack[Infra]
      BY <2>12, <2>a, <2>c, <2>d, OneStack DEF DeleteStack, At
    <3> QED
      BY <2>12, <2>a, <2>b, <2>e, <3>1, InfraSame DEF DeleteStack, Goto, TaskTypes
  <2>13. CASE RemakeStack(w)
    <3>1. stack'[Infra] = stack[Infra]
      BY <2>13, <2>a, <2>c, <2>d, OneStack DEF RemakeStack, At
    <3> QED
      BY <2>13, <2>a, <2>b, <2>e, <3>1, InfraSame DEF RemakeStack, Goto, TaskTypes
  <2> QED
    BY <1>3, <2>1, <2>2, <2>3, <2>4, <2>5, <2>6, <2>7, <2>8, <2>9, <2>10, <2>11, <2>12, <2>13 DEF Work
<1> QED
  BY <1>1, <1>2, <1>3 DEF Next

\* A worker works for team s.
On(w, s) == work[w] # NoTask /\ Svc(w) = s

\* The steps of a provision up to the new stack.
BeforeRow == {"machine", "infra", "register", "share", "stack"}

\* One worker at a time works for a team.  A provision that minds the row has found
\* none, what is about to be inserted is the key of the stack, and what a reset
\* remembers is the key of the row.
TeamInv(s) ==
  /\ \A v, w \in Workers : On(v, s) /\ On(w, s) => v = w
  /\ s \notin redone => row[s] = 0 \/ stack[s] \in {0, row[s]}
  /\ s \in redone => mode.provision.ifExists = "machine"
  /\ \A w \in Workers : On(w, s) =>
       /\ step[w] \in BeforeRow /\ Act(w) = "provision" /\ mode.provision.ifExists = "done"
            => row[s] = 0
       /\ step[w] = "insert" => stack[s] = key[w]
       /\ step[w] \in {"unstack", "remake"} /\ Act(w) = "reset" /\ s \notin redone
            => row[s] = 0 \/ key[w] = row[s]

\* A step of w that leaves row, stack and history of s alone, and takes w to a step about
\* which the invariant says nothing, or which it has reached before.
LEMMA TeamSame ==
  ASSUME NEW s \in Services, TeamInv(s), NEW w \in Workers, mode' = mode,
         \A v \in Workers \ {w} : work'[v] = work[v] /\ step'[v] = step[v] /\ key'[v] = key[v],
         row'[s] = row[s], stack'[s] = stack[s], s \in redone' <=> s \in redone,
         On(w, s)' => /\ On(w, s) /\ work'[w] = work[w]
                      /\ step'[w] # "insert"
                      /\ step'[w] \in BeforeRow =>
                           \/ step[w] \in BeforeRow
                           \/ Act(w) # "provision" \/ mode.provision.ifExists # "done" \/ row[s] = 0
                      /\ step'[w] \in {"unstack", "remake"} =>
                           \/ step[w] \in {"unstack", "remake"} /\ key'[w] = key[w]
                           \/ key'[w] = stack[s] /\ stack[s] # 0
                           \/ Act(w) # "reset"
  PROVE  TeamInv(s)'
<1>1. \A v \in Workers \ {w} : (On(v, s)' <=> On(v, s)) /\ Act(v)' = Act(v)
  BY DEF On, Svc, Act
<1>2. On(w, s)' => On(w, s) /\ Act(w)' = Act(w)
  BY DEF On, Svc, Act
<1>3. /\ (\A v, u \in Workers : On(v, s) /\ On(u, s) => v = u)'
      /\ (s \notin redone => row[s] = 0 \/ stack[s] \in {0, row[s]})'
      /\ (s \in redone => mode.provision.ifExists = "machine")'
  BY <1>1, <1>2 DEF TeamInv
<1>4. ASSUME NEW v \in Workers, On(v, s)'
      PROVE  /\ step'[v] \in BeforeRow /\ Act(v)' = "provision" /\ mode'.provision.ifExists = "done"
                  => row'[s] = 0
             /\ step'[v] = "insert" => stack'[s] = key'[v]
             /\ step'[v] \in {"unstack", "remake"} /\ Act(v)' = "reset" /\ s \notin redone'
                  => row'[s] = 0 \/ key'[v] = row'[s]
  <2>1. CASE v # w
    BY <1>1, <1>4, <2>1 DEF TeamInv
  <2>2. CASE v = w
    <3>1. On(w, s) /\ Act(w)' = Act(w)
      BY <1>2, <1>4, <2>2
    <3>2. step'[w] \in {"unstack", "remake"} /\ Act(w)' = "reset" /\ s \notin redone'
            => row'[s] = 0 \/ key'[w] = row'[s]
      BY <1>4, <2>2, <3>1 DEF TeamInv
    <3>3. step'[w] \in BeforeRow /\ Act(w)' = "provision" /\ mode'.provision.ifExists = "done"
            => row'[s] = 0
      BY <1>4, <2>2, <3>1 DEF TeamInv
    <3> QED
      BY <1>4, <2>2, <3>2, <3>3
  <2> QED
    BY <2>1, <2>2
<1> QED
  BY <1>3, <1>4 DEF TeamInv

\* A step of the one worker that works for s: what it has to keep.
LEMMA TeamOwn ==
  ASSUME NEW s \in Services, TeamInv(s), NEW w \in Workers, On(w, s),
         mode' = mode, work' = work,
         \A v \in Workers \ {w} : step'[v] = step[v] /\ key'[v] = key[v],
         s \notin redone' => row'[s] = 0 \/ stack'[s] \in {0, row'[s]},
         s \in redone' => mode.provision.ifExists = "machine",
         step'[w] \in BeforeRow
           => row'[s] = 0 \/ mode.provision.ifExists # "done",
         step'[w] = "insert" => stack'[s] = key'[w],
         step'[w] \in {"unstack", "remake"} /\ Act(w) = "reset" /\ s \notin redone'
           => row'[s] = 0 \/ key'[w] = row'[s]
  PROVE  TeamInv(s)'
<1>1. \A v \in Workers : (On(v, s)' <=> On(v, s)) /\ Act(v)' = Act(v)
  BY DEF On, Svc, Act
<1>2. \A v \in Workers : On(v, s) => v = w
  BY DEF TeamInv
<1> QED
  BY <1>1, <1>2 DEF TeamInv

\* What a call of AWS can make of its stack.
LEMMA StackAfter ==
  ASSUME CloudTypes, NEW x \in Stacks, NEW k
  PROVE  /\ Written(x, k) => stack'[x] = k
         /\ NotWritten(x, k) => stack'[x] \in {stack[x], k} /\ (stack' # stack => stack'[x] = k)
         /\ Deleted(x) \/ DeleteRaises(x) => stack'[x] \in {0, stack[x]}
BY DEF Written, NotWritten, Deleted, DeleteRaises, Gone, CloudTypes

\* No step shows a team a key that does not open its machine, unless tasks of the team
\* overlap.
LEMMA TeamStep ==
  ASSUME TypeOK, TaskFields, \A s \in Services \ overlap : TeamInv(s), [Next]_vars,
         NEW s \in Services \ overlap'
  PROVE  TeamInv(s)'
<1>1. ASSUME NEW h \in Handlers, RequestStep(h) PROVE TeamInv(s)'
  BY <1>1, RequestSame DEF TeamInv, On, Svc, Act
<1>2. CASE UNCHANGED vars
  BY <1>2 DEF vars, taskVars, cloudVars, ghostVars, TeamInv, On, Svc, Act
<1>3. ASSUME NEW w \in Workers, Work(w) \/ Die(w) PROVE TeamInv(s)'
  <2>a. mode \in Modes /\ TaskTypes /\ CloudTypes
    BY TypeParts
  <2>b. /\ mode' = mode /\ overlap \subseteq overlap'
        /\ \A v \in Workers \ {w} : work'[v] = work[v] /\ step'[v] = step[v] /\ key'[v] = key[v]
    BY <1>3, OthersSame
  <2>c. TeamInv(s)
    BY <2>b
  <2>d. s \in Stacks /\ s # Infra /\ Infra \in Stacks
    BY AwsAssumption DEF Stacks
  <2>1. CASE Start(w)
    <3>1. row'[s] = row[s] /\ stack'[s] = stack[s] /\ redone' = redone
      BY <2>1 DEF Start, cloudVars
    <3>2. work'[w] = Head(queue) /\ step'[w] = "start" /\ work[w] = NoTask
      BY <2>1, <2>a DEF Start, Goto, TaskTypes
    <3>3. On(w, s)' => \A v \in Workers \ {w} : ~On(v, s)'
      <4>1. SUFFICES ASSUME On(w, s)', NEW v \in Workers \ {w}, On(v, s)' PROVE FALSE
        OBVIOUS
      <4>2. Head(queue).svc = s /\ work[v] # NoTask /\ Svc(v) = s
        BY <2>b, <3>2, <4>1 DEF On, Svc
      <4>3. s \in overlap'
        BY <2>1, <4>2 DEF Start
      <4> QED
        BY <4>3
    <3>4. \A v \in Workers \ {w} : (On(v, s)' <=> On(v, s)) /\ Act(v)' = Act(v)
      BY <2>b DEF On, Svc, Act
    <3> QED
      BY <2>b, <2>c, <3>1, <3>2, <3>3, <3>4 DEF TeamInv, BeforeRow
  <2>2. CASE ~On(w, s) /\ ~Start(w)
    <3>1. row'[s] = row[s] /\ stack'[s] = stack[s] /\ (s \in redone' <=> s \in redone)
      BY <1>3, <2>2, TeamsSame DEF On
    <3>2. work'[w] \in {work[w], NoTask}
      BY <1>3, <2>2, <2>a DEF Work, Begin, End, Release, FindMachine, MakeInfra, Register, Share,
         MakeStack, InsertRow, DeleteRow, Describe, DeleteStack, RemakeStack, Die, Leave, TaskTypes
    <3>3. ~On(w, s)'
      BY <2>2, <3>2 DEF On, Svc
    <3> QED
      BY <2>b, <2>c, <3>1, <3>3, TeamSame
  <2>3. CASE On(w, s) /\ ~Start(w)
    <3>a. Svc(w) = s /\ work[w] # NoTask
      BY <2>3 DEF On
    <3>b. \A v \in Workers \ {w} : step'[v] = step[v] /\ key'[v] = key[v]
      BY <2>b
    <3>c. /\ AfterMachine(w) \in {"share", "stack", "done"}
          /\ AfterUnstack(w) \in {"remake", "done"}
          /\ mode.reset.afterRemake \in {"release", "done"}
      BY <2>a, ModeFields DEF AfterMachine, AfterUnstack
    <3>1. CASE End(w) \/ Die(w) \/ Release(w)
      <4>1. work'[w] = NoTask /\ row' = row /\ stack' = stack /\ redone' = redone
        BY <3>1, <2>a DEF End, Die, Leave, Release, cloudVars, ghostVars, TaskTypes
      <4> QED
        BY <2>b, <2>c, <4>1, TeamSame DEF On
    <3>2. CASE Begin(w)
      <4>1. step'[w] \in {FirstStep(w), "done"} /\ UNCHANGED <<work, key, row, stack, redone>>
        BY <3>2, <2>a DEF Begin, Goto, cloudVars, ghostVars, TaskTypes
      <4>2. /\ step'[w] \in {"done", "machine", "unrow", "describe"}
            /\ step'[w] = "machine" =>
                 Act(w) # "provision" \/ mode.provision.ifExists # "done" \/ row[s] = 0
        BY <3>a, <4>1, FirstSteps
      <4> QED
        BY <2>b, <2>c, <2>3, <4>1, <4>2, TeamSame DEF BeforeRow
    <3>3. CASE FindMachine(w) \/ Register(w) \/ Share(w)
      <4>1. /\ step[w] \in {"machine", "register", "share"}
            /\ step'[w] \in {"infra", "share", "stack", "done"}
            /\ UNCHANGED <<work, row, stack, redone>>
        BY <3>3, <3>c, <2>a DEF FindMachine, Register, Share, At, Goto, cloudVars, ghostVars, TaskTypes
      <4> QED
        BY <2>b, <2>c, <2>3, <4>1, TeamSame DEF BeforeRow
    <3>4. CASE MakeInfra(w)
      <4>1. stack'[s] = stack[s]
        BY <3>4, <2>a, <2>d, OneStack DEF MakeInfra
      <4>2. /\ step[w] = "infra" /\ step'[w] \in {"register", "done"}
            /\ UNCHANGED <<work, row, redone>>
        BY <3>4, <2>a DEF MakeInfra, At, Goto, ghostVars, TaskTypes
      <4> QED
        BY <2>b, <2>c, <2>3, <4>1, <4>2, TeamSame DEF BeforeRow
    <3>5. CASE MakeStack(w)
      <4>1. /\ step[w] = "stack" /\ Act(w) = "provision" /\ key'[w] = made + 1
            /\ UNCHANGED <<work, row>>
        BY <3>5, <2>a DEF MakeStack, At, TaskTypes, TaskFields
      <4>2. redone' = IF row[s] # 0 /\ stack' # stack THEN redone \union {s} ELSE redone
        BY <3>5, <3>a DEF MakeStack
      <4>3. step'[w] \in {"insert", "done"} /\ (step'[w] = "insert" => Written(s, made + 1))
        BY <3>5, <3>a, <2>a DEF MakeStack, Goto, TaskTypes
      <4>4. step'[w] = "insert" => stack'[s] = key'[w]
        BY <4>1, <4>3, <2>a, <2>d, StackAfter
      <4>5. s \in redone' => mode.provision.ifExists = "machine"
        <5>1. CASE s \in redone
          BY <5>1, <2>c DEF TeamInv
        <5>2. CASE row[s] # 0
          BY <5>2, <4>1, <2>c, <2>3, <2>a, ModeFields DEF TeamInv, BeforeRow
        <5> QED
          BY <5>1, <5>2, <4>2
      <4>6. s \notin redone' => row'[s] = 0 \/ stack'[s] \in {0, row'[s]}
        BY <4>1, <4>2, <2>c DEF TeamInv
      <4> QED
        BY <2>b, <2>c, <2>3, <3>b, <4>1, <4>3, <4>4, <4>5, <4>6, TeamOwn DEF BeforeRow
    <3>6. CASE InsertRow(w)
      <4>1. /\ step[w] = "insert" /\ step'[w] = "done"
            /\ UNCHANGED <<work, key, stack, redone>>
            /\ row'[s] = IF row[s] = 0 THEN key[w] ELSE row[s]
        BY <3>6, <3>a, <2>a DEF InsertRow, At, Goto, ghostVars, TaskTypes, CloudTypes
      <4>2. stack[s] = key[w]
        BY <4>1, <2>c, <2>3 DEF TeamInv
      <4>3. s \notin redone' => row'[s] = 0 \/ stack'[s] \in {0, row'[s]}
        BY <4>1, <4>2, <2>c DEF TeamInv
      <4>4. s \in redone' => mode.provision.ifExists = "machine"
        BY <4>1, <2>c DEF TeamInv
      <4> QED
        BY <2>b, <2>c, <2>3, <3>b, <4>1, <4>3, <4>4, TeamOwn DEF BeforeRow
    <3>7. CASE DeleteRow(w)
      <4>1. /\ step'[w] = "unstack" /\ row'[s] = 0
            /\ UNCHANGED <<work, key, stack, redone>>
        BY <3>7, <3>a, <2>a DEF DeleteRow, At, Goto, ghostVars, TaskTypes, CloudTypes
      <4>2. s \in redone' => mode.provision.ifExists = "machine"
        BY <4>1, <2>c DEF TeamInv
      <4> QED
        BY <2>b, <2>c, <2>3, <3>b, <4>1, <4>2, TeamOwn DEF BeforeRow
    <3>8. CASE Describe(w)
      <4>1. /\ step'[w] \in {"unstack", "done"}
            /\ step'[w] = "unstack" => key'[w] = stack[s] /\ stack[s] # 0
            /\ UNCHANGED <<work, row, stack, redone>>
        BY <3>8, <3>a, <2>a DEF Describe, At, Goto, cloudVars, ghostVars, TaskTypes
      <4> QED
        BY <2>b, <2>c, <2>3, <4>1, TeamSame DEF BeforeRow
    <3>9. CASE DeleteStack(w)
      <4>1. /\ step[w] = "unstack" /\ step'[w] \in {"remake", "done"}
            /\ UNCHANGED <<work, key, row, redone>>
        BY <3>9, <3>c, <2>a DEF DeleteStack, At, Goto, ghostVars, TaskTypes
      <4>2. stack'[s] \in {0, stack[s]}
        BY <3>9, <3>a, <2>a, <2>d, StackAfter DEF DeleteStack
      <4>3. /\ s \notin redone' => row'[s] = 0 \/ stack'[s] \in {0, row'[s]}
            /\ s \in redone' => mode.provision.ifExists = "machine"
        BY <4>1, <4>2, <2>c DEF TeamInv
      <4>4. Act(w) = "reset" /\ s \notin redone' => row'[s] = 0 \/ key'[w] = row'[s]
        BY <4>1, <2>c, <2>3 DEF TeamInv
      <4> QED
        BY <2>b, <2>c, <2>3, <3>b, <4>1, <4>3, <4>4, TeamOwn DEF BeforeRow
    <3>10. CASE RemakeStack(w)
      <4>1. /\ step[w] = "remake" /\ Act(w) = "reset" /\ step'[w] \in {"release", "done"}
            /\ UNCHANGED <<work, key, row, redone>>
        BY <3>10, <3>c, <2>a DEF RemakeStack, At, Goto, ghostVars, TaskTypes, TaskFields
      <4>2. stack'[s] \in {key[w], stack[s]}
        BY <3>10, <3>a, <2>a, <2>d, StackAfter DEF RemakeStack, ResetKey
      <4>3. s \notin redone => row[s] = 0 \/ key[w] = row[s]
        BY <4>1, <2>c, <2>3 DEF TeamInv
      <4>4. /\ s \notin redone' => row'[s] = 0 \/ stack'[s] \in {0, row'[s]}
            /\ s \in redone' => mode.provision.ifExists = "machine"
        BY <4>1, <4>2, <4>3, <2>c DEF TeamInv
      <4> QED
        BY <2>b, <2>c, <2>3, <3>b, <4>1, <4>4, TeamOwn DEF BeforeRow
    <3> QED
      BY <1>3, <2>3, <3>1, <3>2, <3>3, <3>4, <3>5, <3>6, <3>7, <3>8, <3>9, <3>10 DEF Work
  <2> QED
    BY <2>1, <2>2, <2>3
<1> QED
  BY <1>1, <1>2, <1>3 DEF Next

\* The inductive invariant of the keys.
KeysInv ==
  /\ TypeOK /\ TaskFields
  /\ Infra \in overlap \/ InfraInv
  /\ \A s \in Services \ overlap : TeamInv(s)

\* No key is out at the start.
LEMMA KeysInit == Init => KeysInv
<1> SUFFICES ASSUME Init PROVE KeysInv
  OBVIOUS
<1>1. TypeOK
  BY TypeInit
<1> QED
  BY <1>1 DEF Init, KeysInv, TaskFields, InfraInv, ServerKeyKnown, TeamInv, On

\* No step gives one out that opens nothing.
LEMMA KeysStep == KeysInv /\ [Next]_vars => KeysInv'
<1> SUFFICES ASSUME KeysInv, [Next]_vars PROVE KeysInv'
  OBVIOUS
<1>1. TypeOK' /\ TaskFields' /\ (Infra \in overlap \/ InfraInv)'
  BY TypeStep, FieldsStep, InfraStep DEF KeysInv
<1>2. \A s \in Services \ overlap' : TeamInv(s)'
  BY TeamStep DEF KeysInv
<1> QED
  BY <1>1, <1>2 DEF KeysInv

\* For any number of teams, requests and workers, whatever fails or dies, the rows show
\* the keys that open the machines, in all four modes: of the file server unless it was
\* made twice at once, and of a team unless its tasks overlapped or, in
\* full_rootuser_aws, its stack was rewritten (create_or_get_provision_machine,
\* do_provision, do_reset).
THEOREM KeysOpenMachines == Spec => []KeysShown
<1>1. KeysInv => KeysShown
  BY DEF KeysInv, KeysShown, ServerKeyKnown, KeyShown, InfraInv, TeamInv
<1> QED
  BY <1>1, KeysInit, KeysStep, PTL DEF Spec

-----------------------------------------------------------------------------
(* Teams at rest. *)

\* Nothing failed, no worker died, and the infrastructure was made once.
Calm == faults = 0 /\ crashes = 0 /\ Infra \notin overlap

\* The steps at which a task has done one half of its work on row and stack.
Between == {"insert", "unstack", "remake"}

Sharing == mode.provision.afterMachine = "share"

\* A registration has a key to register, and the server is there before it is used.
ServerReady ==
  \A w \in Workers :
    /\ step[w] = "register" => key[w] # 0
    /\ step[w] = "share" => machine # 0

\* What a task of s at its step has done to row and stack.
HalfDone(w, s) ==
  /\ step[w] \in {"stack", "insert"} /\ Sharing => s \in shares
  /\ step[w] = "insert" => stack[s] # 0
  /\ step[w] = "unrow" => Act(w) = "delete"
  /\ step[w] = "describe" => Act(w) = "reset" /\ row[s] # 0
  /\ step[w] = "unstack" => \/ Act(w) = "delete" /\ row[s] = 0
                            \/ Act(w) = "reset" /\ row[s] # 0 /\ key[w] # 0
  /\ step[w] = "remake" => row[s] # 0 /\ key[w] # 0 /\ stack[s] = 0

\* Row and stack of s go together, except for what a task of s is in the middle of.
RestInv(s) ==
  /\ row[s] # 0 /\ Sharing => s \in shares
  /\ (\A w \in Workers : On(w, s) => step[w] \notin Between) => (row[s] = 0 <=> stack[s] = 0)
  /\ \A w \in Workers : On(w, s) => HalfDone(w, s)

\* A call of AWS without a fault does what it was called for, or cannot be made.
LEMMA FaultlessCalls ==
  ASSUME CloudTypes, faults \in Nat, NEW x \in Stacks, NEW k, faults' = faults
  PROVE  /\ Written(x, k) => stack'[x] = k
         /\ NotWritten(x, k) => stack' = stack /\ stack[x] # 0
         /\ Deleted(x) => stack'[x] = 0
         /\ ~DeleteRaises(x)
BY DEF Written, NotWritten, Writable, Deleted, DeleteRaises, Gone, Fault, NoFault, CloudTypes

\* Nothing has failed before if nothing has failed yet, and no worker dies.
LEMMA CalmBefore ==
  ASSUME TypeOK, [Next]_vars, Calm'
  PROVE  Calm /\ faults' = faults /\ \A w \in Workers : ~Die(w)
<1>a. TaskTypes
  BY TypeParts
<1>1. ASSUME NEW h \in Handlers, RequestStep(h) PROVE UNCHANGED <<faults, crashes, overlap>>
  BY <1>1 DEF RequestStep, Ask, Refuse, InsertReset, Publish, RequestDies, taskVars, ghostVars
<1>2. CASE UNCHANGED vars
  <2>1. UNCHANGED <<faults, crashes, overlap>>
    BY <1>2 DEF vars, taskVars, ghostVars
  <2>2. \A w \in Workers : ~Die(w)
    BY <2>1, <1>a DEF Die, TaskTypes
  <2> QED
    BY <2>1, <2>2 DEF Calm
<1>3. ASSUME NEW w \in Workers, Work(w) \/ Die(w)
      PROVE  Calm /\ faults' = faults
  <2>1. overlap \subseteq overlap'
    BY <1>3, OthersSame
  <2>2. faults' = faults \/ faults' = faults + 1
    BY <1>3 DEF Work, Die, Start, Begin, End, Release, FindMachine, MakeInfra, Register, Share, MakeStack,
       InsertRow, DeleteRow, Describe, DeleteStack, RemakeStack, Fault, NoFault, NotWritten, Deleted,
       DeleteRaises
  <2>3. crashes' = crashes \/ crashes' = crashes + 1
    BY <1>3 DEF Work, Die, Start, Begin, End, Release, FindMachine, MakeInfra, Register, Share, MakeStack,
       InsertRow, DeleteRow, Describe, DeleteStack, RemakeStack
  <2> QED
    BY <1>a, <2>1, <2>2, <2>3 DEF Calm, TaskTypes
<1>4. \A w \in Workers : ~Die(w)
  BY <1>a DEF Die, Calm, TaskTypes
<1>5. CASE \E h \in Handlers : RequestStep(h)
  BY <1>1, <1>4, <1>5 DEF Calm
<1> QED
  BY <1>2, <1>3, <1>4, <1>5 DEF Next

\* The server is used only when there is one.
LEMMA ServerStep ==
  ASSUME TypeOK, TaskFields, ServerReady, [Next]_vars
  PROVE  ServerReady'
<1>1. ASSUME NEW h \in Handlers, RequestStep(h) PROVE ServerReady'
  BY <1>1, RequestSame DEF ServerReady
<1>2. CASE UNCHANGED vars
  BY <1>2 DEF vars, taskVars, cloudVars, ServerReady
<1>3. ASSUME NEW w \in Workers, Work(w) \/ Die(w) PROVE ServerReady'
  <2>a. mode \in Modes /\ TaskTypes /\ CloudTypes
    BY TypeParts
  <2>b. \A v \in Workers \ {w} : step'[v] = step[v] /\ key'[v] = key[v]
    BY <1>3, OthersSame
  <2>c. work[w] # NoTask => FirstStep(w) \notin {"register", "share"}
    BY FirstSteps
  <2>d. /\ AfterUnstack(w) \notin {"register", "share"}
        /\ AfterMachine(w) # "register"
        /\ mode.reset.afterRemake \notin {"register", "share"}
    BY <2>a, ModeFields DEF AfterUnstack, AfterMachine
  <2>1. machine' = machine \/ machine = 0
    BY <1>3 DEF Work, Die, Start, Begin, End, Release, FindMachine, MakeInfra, Register, Share, MakeStack,
       InsertRow, DeleteRow, Describe, DeleteStack, RemakeStack, cloudVars
  <2> SUFFICES /\ step'[w] = "register" => key'[w] # 0
               /\ step'[w] = "share" => machine' # 0
    BY <2>b, <2>1 DEF ServerReady
  <2>2. CASE FindMachine(w)
    <3>1. step'[w] # "register" /\ (step'[w] = "share" => machine' # 0)
      BY <2>2, <2>a, <2>d DEF FindMachine, Goto, cloudVars, TaskTypes
    <3> QED
      BY <3>1
  <2>3. CASE MakeInfra(w)
    <3>1. step'[w] # "share" /\ key'[w] = InfraKey
      BY <2>3, <2>a DEF MakeInfra, Goto, TaskTypes
    <3>2. InfraKey # 0
      BY <2>a DEF InfraKey, CloudTypes
    <3> QED
      BY <3>1, <3>2
  <2>4. CASE Register(w)
    <3>1. step'[w] # "register" /\ (step'[w] = "share" => machine' = key[w])
      BY <2>4, <2>a, <2>d DEF Register, Goto, TaskTypes
    <3>2. key[w] # 0
      BY <2>4 DEF Register, At, ServerReady
    <3> QED
      BY <3>1, <3>2
  <2>5. CASE ~FindMachine(w) /\ ~MakeInfra(w) /\ ~Register(w)
    <3> SUFFICES step'[w] \notin {"register", "share"}
      OBVIOUS
    <3>1. CASE Start(w)
      BY <3>1, <2>a DEF Start, Goto, TaskTypes
    <3>2. CASE Begin(w)
      BY <3>2, <2>a, <2>c DEF Begin, At, Goto, TaskTypes
    <3>3. CASE End(w) \/ Die(w) \/ Release(w)
      BY <3>3, <2>a DEF End, Die, Leave, Release, Goto, TaskTypes
    <3>4. CASE Share(w) \/ MakeStack(w) \/ InsertRow(w)
      BY <3>4, <2>a DEF Share, MakeStack, InsertRow, Goto, TaskTypes
    <3>5. CASE DeleteRow(w) \/ Describe(w)
      BY <3>5, <2>a DEF DeleteRow, Describe, Goto, TaskTypes
    <3>6. CASE DeleteStack(w) \/ RemakeStack(w)
      BY <3>6, <2>a, <2>d DEF DeleteStack, RemakeStack, Goto, TaskTypes
    <3> QED
      BY <1>3, <2>5, <3>1, <3>2, <3>3, <3>4, <3>5, <3>6 DEF Work
  <2> QED
    BY <2>2, <2>3, <2>4, <2>5
<1> QED
  BY <1>1, <1>2, <1>3 DEF Next

\* A share is never taken away.
LEMMA SharesStay ==
  ASSUME TypeOK, NEW w \in Workers, Work(w) \/ Die(w)
  PROVE  shares \subseteq shares'
BY DEF Work, Die, Start, Begin, End, Release, FindMachine, MakeInfra, Register, Share, MakeStack,
   InsertRow, DeleteRow, Describe, DeleteStack, RemakeStack, cloudVars

\* The step of a worker that does not work for s.
LEMMA RestSame ==
  ASSUME NEW s \in Services, RestInv(s), NEW w \in Workers, mode' = mode,
         \A v \in Workers \ {w} : work'[v] = work[v] /\ step'[v] = step[v] /\ key'[v] = key[v],
         row'[s] = row[s], stack'[s] = stack[s], shares \subseteq shares',
         ~On(w, s), ~On(w, s)'
  PROVE  RestInv(s)'
<1>1. \A v \in Workers : (On(v, s)' <=> On(v, s)) /\ (On(v, s) => v # w)
  BY DEF On, Svc
<1>2. \A v \in Workers \ {w} : Act(v)' = Act(v)
  BY DEF Act
<1>3. (row[s] # 0 /\ Sharing => s \in shares)'
  BY DEF RestInv, Sharing
<1>4. (\A v \in Workers : On(v, s)' => step'[v] \notin Between) => (row'[s] = 0 <=> stack'[s] = 0)
  BY <1>1 DEF RestInv
<1>5. ASSUME NEW v \in Workers, On(v, s)' PROVE HalfDone(v, s)'
  BY <1>1, <1>2, <1>5 DEF RestInv, HalfDone, Sharing
<1> QED
  BY <1>3, <1>4, <1>5 DEF RestInv

\* The step of the one worker that works for s: what it has to keep.
LEMMA RestOwn ==
  ASSUME NEW s \in Services, TeamInv(s), NEW w \in Workers, On(w, s), work' = work,
         (row[s] # 0 /\ Sharing => s \in shares)',
         step'[w] \notin Between => (row'[s] = 0 <=> stack'[s] = 0),
         HalfDone(w, s)'
  PROVE  RestInv(s)'
<1>1. \A v \in Workers : (On(v, s)' <=> On(v, s)) /\ (On(v, s) => v = w)
  BY DEF On, Svc, TeamInv
<1> QED
  BY <1>1 DEF RestInv

\* No step that succeeds leaves row and stack of a team apart.
LEMMA RestStep ==
  ASSUME KeysInv, Calm => ServerReady /\ \A s \in Services \ overlap : RestInv(s),
         [Next]_vars, Calm', NEW s \in Services \ overlap'
  PROVE  RestInv(s)'
<1>a. Calm /\ faults' = faults /\ (\A w \in Workers : ~Die(w)) /\ TypeOK /\ TaskFields
  BY CalmBefore DEF KeysInv
<1>b. mode \in Modes /\ TaskTypes /\ CloudTypes /\ ServerReady
  BY <1>a, TypeParts
<1>1. ASSUME NEW h \in Handlers, RequestStep(h) PROVE RestInv(s)'
  <2>1. UNCHANGED <<mode, work, step, key, row, stack, overlap, shares>>
    BY <1>1, RequestSame DEF RequestStep, Ask, Refuse, InsertReset, Publish, RequestDies, cloudVars
  <2> QED
    BY <1>a, <2>1 DEF RestInv, HalfDone, Sharing, On, Svc, Act
<1>2. CASE UNCHANGED vars
  BY <1>a, <1>2 DEF vars, taskVars, cloudVars, ghostVars, RestInv, HalfDone, Sharing, On, Svc, Act
<1>3. ASSUME NEW w \in Workers, Work(w) PROVE RestInv(s)'
  <2>b. /\ mode' = mode /\ overlap \subseteq overlap'
        /\ \A v \in Workers \ {w} : work'[v] = work[v] /\ step'[v] = step[v] /\ key'[v] = key[v]
    BY <1>3, <1>a, OthersSame
  <2>c. RestInv(s) /\ TeamInv(s)
    BY <1>a, <2>b DEF KeysInv
  <2>d. s \in Stacks /\ s # Infra /\ Infra \in Stacks
    BY AwsAssumption DEF Stacks
  <2>e. shares \subseteq shares'
    BY <1>3, <1>a, SharesStay
  <2>1. CASE Start(w)
    <3>1. UNCHANGED <<row, stack, shares>>
      BY <2>1 DEF Start, cloudVars
    <3>2. work'[w] = Head(queue) /\ step'[w] = "start" /\ work[w] = NoTask
      BY <2>1, <1>b DEF Start, Goto, TaskTypes
    <3>3. CASE ~On(w, s)'
      BY <2>b, <2>c, <3>1, <3>2, <3>3, RestSame DEF On
    <3>4. CASE On(w, s)'
      <4>1. ASSUME NEW v \in Workers, On(v, s) PROVE FALSE
        <5>1. v # w /\ Head(queue).svc = s /\ work[v] # NoTask /\ Svc(v) = s
          BY <3>2, <3>4, <4>1 DEF On, Svc
        <5>2. s \in overlap'
          BY <2>1, <5>1 DEF Start
        <5> QED
          BY <5>2
      <4>2. row[s] = 0 <=> stack[s] = 0
        BY <2>c, <4>1 DEF RestInv
      <4>3. \A v \in Workers : On(v, s)' => v = w
        BY <2>b, <4>1 DEF On, Svc
      <4>4. HalfDone(w, s)'
        BY <3>2 DEF HalfDone
      <4>5. (row[s] # 0 /\ Sharing => s \in shares)'
        BY <2>b, <2>c, <3>1 DEF RestInv, Sharing
      <4> QED
        BY <3>1, <4>2, <4>3, <4>4, <4>5 DEF RestInv
    <3> QED
      BY <3>3, <3>4
  <2>2. CASE ~On(w, s) /\ ~Start(w)
    <3>1. row'[s] = row[s] /\ stack'[s] = stack[s]
      BY <1>3, <1>a, <2>2, TeamsSame DEF On
    <3>2. work'[w] \in {work[w], NoTask}
      BY <1>3, <2>2, <1>b DEF Work, Begin, End, Release, FindMachine, MakeInfra, Register, Share,
         MakeStack, InsertRow, DeleteRow, Describe, DeleteStack, RemakeStack, Leave, TaskTypes
    <3>3. ~On(w, s)'
      BY <2>2, <3>2 DEF On, Svc
    <3> QED
      BY <2>b, <2>c, <2>e, <2>2, <3>1, <3>3, RestSame
  <2>3. CASE On(w, s) /\ ~Start(w)
    <3>a. Svc(w) = s /\ work[w] # NoTask /\ Act(w) \in Acts
      BY <2>3, <1>b, TaskOf DEF On
    <3>b. HalfDone(w, s) /\ (row[s] # 0 /\ Sharing => s \in shares)
      BY <2>3, <2>c DEF RestInv
    <3>c. step[w] \notin Between => (row[s] = 0 <=> stack[s] = 0)
      BY <2>3, <2>c DEF RestInv, TeamInv
    <3>d. /\ mode.reset.afterRemake \in {"release", "done"}
          /\ AfterUnstack(w) = IF Act(w) = "reset" THEN "remake" ELSE "done"
          /\ AfterMachine(w) \in {"share", "stack", "done"}
          /\ AfterMachine(w) = "stack" => ~Sharing
      BY <1>b, ModeFields DEF AfterUnstack, AfterMachine, Sharing
    <3>e. (row'[s] # 0 => row[s] # 0) => (row[s] # 0 /\ Sharing => s \in shares)'
      BY <2>b, <2>e, <3>b DEF Sharing
    <3>1. CASE End(w) \/ Release(w)
      <4>1. /\ work'[w] = NoTask /\ step[w] \in {"done", "release"}
            /\ UNCHANGED <<row, stack>>
        BY <3>1, <1>b DEF End, Leave, Release, At, cloudVars, TaskTypes
      <4>2. \A v \in Workers : ~On(v, s)'
        BY <2>b, <2>c, <2>3, <4>1 DEF On, Svc, TeamInv
      <4>3. row'[s] = 0 <=> stack'[s] = 0
        BY <3>c, <4>1 DEF Between
      <4> QED
        BY <3>e, <4>1, <4>2, <4>3 DEF RestInv
    <3>2. CASE Begin(w)
      <4>1. step'[w] \in {FirstStep(w), "done"} /\ step[w] = "start" /\ UNCHANGED <<work, row, stack>>
        BY <3>2, <1>b DEF Begin, At, Goto, cloudVars, TaskTypes
      <4>2. /\ FirstStep(w) \in {"done", "machine", "unrow", "describe"}
            /\ FirstStep(w) = "unrow" => Act(w) = "delete"
            /\ FirstStep(w) = "describe" => Act(w) = "reset" /\ row[s] # 0
        BY <3>a, <1>a, <1>b, ModeFields, FirstSteps DEF FirstStep, Acts
      <4>3. HalfDone(w, s)'
        BY <4>1, <4>2 DEF HalfDone, Act
      <4> QED
        BY <2>c, <2>3, <3>c, <3>e, <4>1, <4>3, RestOwn DEF Between
    <3>3. CASE FindMachine(w) \/ MakeInfra(w) \/ Register(w)
      <4>1. stack'[s] = stack[s] /\ UNCHANGED <<work, row>>
        BY <3>3, <1>b, <2>d, OneStack DEF FindMachine, MakeInfra, Register, cloudVars
      <4>2. /\ step[w] \in {"machine", "infra", "register"}
            /\ step'[w] \in {"infra", "register", "done", AfterMachine(w)}
        BY <3>3, <1>b DEF FindMachine, MakeInfra, Register, At, Goto, TaskTypes
      <4>3. HalfDone(w, s)'
        BY <2>b, <3>d, <4>2 DEF HalfDone, Sharing
      <4> QED
        BY <2>c, <2>3, <3>c, <3>d, <3>e, <4>1, <4>2, <4>3, RestOwn DEF Between
    <3>4. CASE Share(w)
      <4>1. /\ step[w] = "share" /\ step'[w] = "stack" /\ UNCHANGED <<work, row, stack>>
            /\ shares' = IF stack[Infra] = machine THEN shares \union {s} ELSE shares
        BY <3>4, <3>a, <1>a, <1>b DEF Share, At, Goto, TaskTypes, NoFault, Fault
      <4>2. Sharing => mode.network.ownKey
        BY <1>b DEF Modes, Mode, Sharing, AwsEc2Machine, AwsEc2Provision, LksnMachine, LksnProvision,
           FullRootChallMachine, FullRootChallProvision, FullRootUserMachine, FullRootUserProvision
      <4>3. Sharing => stack[Infra] = machine
        BY <1>a, <1>b, <4>1, <4>2 DEF ServerReady, KeysInv, InfraInv, ServerKeyKnown, Calm
      <4>4. HalfDone(w, s)'
        BY <2>b, <4>1, <4>3 DEF HalfDone, Sharing
      <4> QED
        BY <2>c, <2>3, <3>c, <3>e, <4>1, <4>4, RestOwn DEF Between
    <3>5. CASE MakeStack(w)
      <4>1. step[w] = "stack" /\ UNCHANGED <<work, row>> /\ made + 1 # 0
        BY <3>5, <1>b DEF MakeStack, At, CloudTypes
      <4>2. \/ Written(s, made + 1) /\ step'[w] = "insert"
            \/ NotWritten(s, made + 1) /\ step'[w] = "done"
        BY <3>5, <3>a, <1>b DEF MakeStack, Goto, TaskTypes
      <4>3. \/ stack'[s] = made + 1 /\ step'[w] = "insert"
            \/ stack' = stack /\ step'[w] = "done"
        BY <1>a, <1>b, <2>d, <4>2, FaultlessCalls DEF TaskTypes
      <4>4. HalfDone(w, s)'
        BY <2>b, <2>e, <3>b, <4>1, <4>3 DEF HalfDone, Sharing
      <4> QED
        BY <2>c, <2>3, <3>c, <3>e, <4>1, <4>3, <4>4, RestOwn DEF Between
    <3>6. CASE InsertRow(w)
      <4>1. /\ step[w] = "insert" /\ step'[w] = "done"
            /\ UNCHANGED <<work, stack, shares>>
            /\ row'[s] = IF row[s] = 0 THEN key[w] ELSE row[s]
        BY <3>6, <3>a, <1>b DEF InsertRow, At, Goto, TaskTypes, CloudTypes
      <4>2. stack[s] = key[w] /\ stack[s] # 0
        BY <4>1, <2>c, <2>3, <3>b DEF TeamInv, HalfDone
      <4>3. row'[s] # 0 /\ stack'[s] # 0
        BY <4>1, <4>2
      <4>4. (row[s] # 0 /\ Sharing => s \in shares)'
        BY <2>b, <3>b, <4>1 DEF HalfDone, Sharing
      <4>5. HalfDone(w, s)'
        BY <4>1 DEF HalfDone
      <4> QED
        BY <2>c, <2>3, <4>1, <4>3, <4>4, <4>5, RestOwn
    <3>7. CASE DeleteRow(w)
      <4>1. /\ step[w] = "unrow" /\ step'[w] = "unstack" /\ row'[s] = 0 /\ UNCHANGED work
        BY <3>7, <3>a, <1>b DEF DeleteRow, At, Goto, TaskTypes, CloudTypes
      <4>2. HalfDone(w, s)'
        BY <3>b, <4>1 DEF HalfDone, Act
      <4> QED
        BY <2>c, <2>3, <3>e, <4>1, <4>2, RestOwn DEF Between
    <3>8. CASE Describe(w)
      <4>1. /\ step[w] = "describe" /\ UNCHANGED <<work, row, stack>>
            /\ \/ step'[w] = "unstack" /\ key'[w] = stack[s] /\ stack[s] # 0
               \/ step'[w] = "done"
        BY <3>8, <3>a, <1>b DEF Describe, At, Goto, cloudVars, TaskTypes
      <4>2. HalfDone(w, s)'
        BY <3>b, <4>1 DEF HalfDone, Act
      <4> QED
        BY <2>c, <2>3, <3>c, <3>e, <4>1, <4>2, RestOwn DEF Between
    <3>9. CASE DeleteStack(w)
      <4>1. /\ step[w] = "unstack" /\ UNCHANGED <<work, key, row>>
            /\ \/ Deleted(s) /\ step'[w] = AfterUnstack(w)
               \/ DeleteRaises(s)
        BY <3>9, <3>a, <1>b DEF DeleteStack, At, Goto, TaskTypes
      <4>2. stack'[s] = 0 /\ step'[w] = AfterUnstack(w)
        BY <1>a, <1>b, <2>d, <4>1, FaultlessCalls DEF TaskTypes
      <4>3. HalfDone(w, s)'
        BY <3>b, <3>d, <4>1, <4>2 DEF HalfDone
      <4>4. step'[w] \notin Between => row'[s] = 0
        BY <3>b, <3>d, <4>1, <4>2 DEF HalfDone, Between
      <4> QED
        BY <2>c, <2>3, <3>e, <4>1, <4>2, <4>3, <4>4, RestOwn
    <3>10. CASE RemakeStack(w)
      <4>1. /\ step[w] = "remake" /\ step'[w] \in {"release", "done"} /\ UNCHANGED <<work, row>>
            /\ Written(s, key[w]) \/ NotWritten(s, key[w])
        BY <3>10, <3>a, <3>d, <1>b DEF RemakeStack, ResetKey, At, Goto, TaskTypes
      <4>2. row[s] # 0 /\ key[w] # 0 /\ stack[s] = 0
        BY <3>b, <4>1 DEF HalfDone
      <4>3. stack'[s] = key[w]
        BY <1>a, <1>b, <2>d, <4>1, <4>2, FaultlessCalls DEF TaskTypes
      <4>4. HalfDone(w, s)'
        BY <4>1 DEF HalfDone
      <4> QED
        BY <2>c, <2>3, <3>e, <4>1, <4>2, <4>3, <4>4, RestOwn
    <3> QED
      BY <1>3, <2>3, <3>1, <3>2, <3>3, <3>4, <3>5, <3>6, <3>7, <3>8, <3>9, <3>10 DEF Work
  <2> QED
    BY <2>1, <2>2, <2>3
<1> QED
  BY <1>1, <1>2, <1>3, <1>a DEF Next

\* The inductive invariant of teams at rest.
QuietInv == KeysInv /\ (Calm => ServerReady /\ \A s \in Services \ overlap : RestInv(s))

\* For any number of teams, requests and workers, in all four modes: when nothing fails
\* and tasks do not overlap, a team at rest has a machine exactly when it has a row, and,
\* where flags are handed out over the file server, a share (do_provision, do_delete,
\* do_reset).
THEOREM RestIsConsistent == Spec => []RestConsistent
<1>1. Init => QuietInv
  <2> SUFFICES ASSUME Init PROVE QuietInv
    OBVIOUS
  <2>1. KeysInv
    BY KeysInit
  <2>2. ServerReady
    BY DEF Init, ServerReady
  <2>3. \A s \in Services \ overlap : RestInv(s)
    BY DEF Init, RestInv, On, Stacks
  <2> QED
    BY <2>1, <2>2, <2>3 DEF QuietInv
<1>2. QuietInv /\ [Next]_vars => QuietInv'
  <2> SUFFICES ASSUME QuietInv, [Next]_vars PROVE QuietInv'
    OBVIOUS
  <2>1. KeysInv'
    BY KeysStep DEF QuietInv
  <2>2. ASSUME Calm' PROVE ServerReady'
    BY <2>2, CalmBefore, ServerStep DEF QuietInv, KeysInv
  <2>3. ASSUME Calm', NEW s \in Services \ overlap' PROVE RestInv(s)'
    BY <2>3, RestStep DEF QuietInv
  <2> QED
    BY <2>1, <2>2, <2>3 DEF QuietInv
<1>3. QuietInv => RestConsistent
  <2> SUFFICES ASSUME QuietInv, Calm, NEW s \in Services \ overlap, ~Busy(s)
               PROVE  /\ row[s] = 0 <=> stack[s] = 0
                      /\ row[s] # 0 /\ Sharing => s \in shares
    BY DEF RestConsistent, Calm, Sharing
  <2> QED
    BY DEF QuietInv, RestInv, Busy, On
<1> QED
  BY <1>1, <1>2, <1>3, PTL DEF Spec

-----------------------------------------------------------------------------
(* The accounting of the reset queue. *)

\* Places of a queue that hold a task of a set.
Places(q, M) == {i \in 1..Len(q) : q[i] \in M}

\* Resets of a team that have a row.
Mine(s) == {t \in Tasks : Locks(t) /\ t.svc = s}

\* Counting one more.
LEMMA CountMore ==
  ASSUME NEW S, NEW x, IsFiniteSet(S), x \notin S
  PROVE  Cardinality(S \cup {x}) = Cardinality(S) + 1
BY FS_AddElement

\* And one less, if it was there.
LEMMA CountLess ==
  ASSUME NEW S, NEW x, IsFiniteSet(S)
  PROVE  Cardinality(S \ {x}) = Cardinality(S) - (IF x \in S THEN 1 ELSE 0)
<1>1. Cardinality(S) \in Nat
  BY FS_CardinalityType
<1>2. CASE x \in S
  BY <1>1, <1>2, FS_RemoveElement
<1>3. CASE x \notin S
  BY <1>1, <1>3, FS_RemoveElement
<1> QED
  BY <1>2, <1>3

\* Only finitely many places of a queue are taken.
LEMMA PlacesFinite ==
  ASSUME NEW q \in Seq(Tasks), NEW M
  PROVE  IsFiniteSet(Places(q, M)) /\ Cardinality(Places(q, M)) \in Nat
<1>1. Len(q) \in Nat
  BY LenProperties
<1>2. IsFiniteSet(1..Len(q))
  BY <1>1, FS_Interval
<1>3. Places(q, M) \in SUBSET (1..Len(q))
  BY DEF Places
<1> QED
  BY <1>2, <1>3, FS_Subset, FS_CardinalityType

\* A task that is published takes one place more.
LEMMA AppendCount ==
  ASSUME NEW q \in Seq(Tasks), NEW t \in Tasks, NEW M
  PROVE  /\ Append(q, t) \in Seq(Tasks)
         /\ Cardinality(Places(Append(q, t), M)) =
              Cardinality(Places(q, M)) + (IF t \in M THEN 1 ELSE 0)
<1> DEFINE n == Len(q) + 1
           r == Append(q, t)
<1>1. Len(r) = n /\ r[n] = t /\ r \in Seq(Tasks) /\ \A i \in 1..Len(q) : r[i] = q[i]
  BY AppendProperties
<1>2. Len(q) \in Nat
  BY LenProperties
<1>3. IsFiniteSet(Places(q, M)) /\ Cardinality(Places(q, M)) \in Nat
  BY PlacesFinite
<1>6. n \notin Places(q, M)
  BY <1>2 DEF Places
<1>4. CASE t \in M
  <2>1. Places(r, M) = Places(q, M) \cup {n}
    BY <1>1, <1>2, <1>4 DEF Places
  <2>2. Cardinality(Places(q, M) \cup {n}) = Cardinality(Places(q, M)) + 1
    BY <1>3, <1>6, CountMore
  <2> QED
    BY <1>1, <1>4, <2>1, <2>2
<1>5. CASE t \notin M
  <2>1. Places(r, M) = Places(q, M)
    BY <1>1, <1>2, <1>5 DEF Places
  <2> QED
    BY <1>1, <1>3, <1>5, <2>1
<1> QED
  BY <1>4, <1>5

\* A task that is taken leaves one place less.
LEMMA TailCount ==
  ASSUME NEW q \in Seq(Tasks), q # <<>>, NEW M
  PROVE  /\ Head(q) \in Tasks
         /\ Cardinality(Places(Tail(q), M)) =
              Cardinality(Places(q, M)) - (IF Head(q) \in M THEN 1 ELSE 0)
<1> DEFINE old == Places(q, M) \ {1}
           rest == Places(Tail(q), M)
           f == [i \in old |-> i - 1]
<1>0. /\ Len(q) \in Nat \ {0} /\ Tail(q) \in Seq(Tasks) /\ Len(Tail(q)) = Len(q) - 1
      /\ Head(q) = q[1] /\ Head(q) \in Tasks /\ \A i \in 1..Len(Tail(q)) : Tail(q)[i] = q[i + 1]
  BY HeadTailProperties, LenProperties, EmptySeq
<1>1. \A i \in old : i \in Nat /\ i > 1 /\ i - 1 \in rest
  BY <1>0 DEF Places
<1>2. \A j \in rest : j \in Nat /\ j + 1 \in old
  BY <1>0 DEF Places
<1>3. f \in [old -> rest] /\ (\A i, j \in old : f[i] = f[j] => i = j)
  BY <1>1
<1>4. \A j \in rest : \E i \in old : f[i] = j
  <2> TAKE j \in rest
  <2>1. j + 1 \in old /\ f[j + 1] = j
    BY <1>2
  <2> QED
    BY <2>1
<1>5. ExistsBijection(old, rest)
  <2>1. f \in Bijection(old, rest)
    BY <1>3, <1>4 DEF Bijection, Injection, IsInjective, Surjection
  <2> QED
    BY <2>1 DEF ExistsBijection
<1>6. /\ IsFiniteSet(old)
      /\ Cardinality(old) = IF 1 \in Places(q, M) THEN Cardinality(Places(q, M)) - 1
                                                  ELSE Cardinality(Places(q, M))
  BY PlacesFinite, FS_RemoveElement
<1>7. Cardinality(rest) = Cardinality(old)
  BY <1>5, <1>6, FS_Bijection
<1>8. 1 \in Places(q, M) <=> Head(q) \in M
  BY <1>0 DEF Places
<1> QED
  BY <1>0, <1>6, <1>7, <1>8, PlacesFinite

\* The three sets that are counted are finite.
LEMMA CountsFinite ==
  ASSUME TypeOK, NEW s
  PROVE  /\ Queued(s) = Places(queue, Mine(s))
         /\ IsFiniteSet(Queued(s)) /\ Cardinality(Queued(s)) \in Nat
         /\ IsFiniteSet(RunBy(s)) /\ Cardinality(RunBy(s)) \in Nat
         /\ IsFiniteSet(Publishing(s)) /\ Cardinality(Publishing(s)) \in Nat
<1>1. queue \in Seq(Tasks) /\ \A i \in 1..Len(queue) : queue[i] \in Tasks
  BY ElementOfSeq DEF TypeOK
<1>2. Queued(s) = Places(queue, Mine(s))
  BY <1>1 DEF Queued, Places, Mine
<1>3. RunBy(s) \in SUBSET Workers /\ Publishing(s) \in SUBSET Handlers
  BY DEF RunBy, Publishing
<1> QED
  BY <1>1, <1>2, <1>3, PlacesFinite, AwsFinite, FS_Subset, FS_CardinalityType

\* A request that is about to insert a row is for a reset in a mode with a queue of resets.
InsertsLock == \A h \in Handlers : pc[h] = "insert" => Locks(asked[h])

Accounted(s) ==
  open[s] = Cardinality(Publishing(s)) + Cardinality(Queued(s)) + Cardinality(RunBy(s)) + givenUp[s]

\* A worker changes no request.
LEMMA WebSame ==
  ASSUME NEW w \in Workers, Work(w) \/ Die(w)
  PROVE  UNCHANGED <<pc, asked>>
BY DEF Work, Start, Begin, End, Release, FindMachine, MakeInfra, Register, Share,
   MakeStack, InsertRow, DeleteRow, Describe, DeleteStack, RemakeStack, Die, webVars

\* Only such a request goes on to insert one.
LEMMA InsertStep == TypeOK /\ InsertsLock /\ [Next]_vars => InsertsLock'
<1> SUFFICES ASSUME TypeOK, InsertsLock, [Next]_vars PROVE InsertsLock'
  OBVIOUS
<1>a. mode \in Modes /\ WebTypes
  BY TypeParts
<1>1. ASSUME NEW h \in Handlers, RequestStep(h) PROVE InsertsLock'
  <2>1. mode' = mode
    BY <1>1, RequestSame
  <2>2. \A g \in Handlers \ {h} : pc'[g] = pc[g] /\ asked'[g] = asked[g]
    BY <1>1, <1>a DEF RequestStep, Ask, Refuse, InsertReset, Publish, RequestDies, WebTypes
  <2>3. pc'[h] = "insert" => Locks(asked'[h])
    BY <1>1, <1>a, ModeFields DEF RequestStep, Ask, Refuse, InsertReset, Publish, RequestDies, WebTypes, Locks
  <2> QED
    BY <2>1, <2>2, <2>3 DEF InsertsLock, Locks
<1>2. ASSUME NEW w \in Workers, Work(w) \/ Die(w) PROVE InsertsLock'
  BY <1>2, OthersSame, WebSame DEF InsertsLock, Locks
<1>3. CASE UNCHANGED vars
  BY <1>3 DEF vars, webVars, InsertsLock, Locks
<1> QED
  BY <1>1, <1>2, <1>3 DEF Next

\* A step of a request keeps the account: a row comes with a request that is going to
\* publish, and goes over to the task, or to those that have given up.
LEMMA RequestAccounts ==
  ASSUME TypeOK, TypeOK', InsertsLock, NEW s \in Services, Accounted(s),
         NEW h \in Handlers, RequestStep(h)
  PROVE  Accounted(s)'
<1>a. mode \in Modes /\ WebTypes /\ GhostTypes
  BY TypeParts
<1>b. mode' = mode /\ work' = work
  BY RequestSame
<1>c. /\ RunBy(s)' = RunBy(s) /\ Mine(s)' = Mine(s)
      /\ \A t : Locks(t)' <=> Locks(t)
  BY <1>b DEF RunBy, Mine, Locks, Svc
<1>d. /\ open[s] \in Nat /\ givenUp[s] \in Nat
      /\ \A g \in Handlers : pc[g] \in {"insert", "publish"} =>
           asked[g] \in Tasks /\ asked[g].svc \in Services
  BY <1>a DEF WebTypes, GhostTypes, Tasks
<1>h. Queued(s)' = Places(queue', Mine(s))
  <2>1. \A i \in 1..Len(queue') : queue'[i] \in Tasks
    BY ElementOfSeq DEF TypeOK
  <2>2. Queued(s)' = Places(queue', Mine(s)')
    BY <2>1 DEF Queued, Places, Mine
  <2> QED
    BY <1>c, <2>2
<1>e. /\ Queued(s) = Places(queue, Mine(s))
      /\ IsFiniteSet(Queued(s)) /\ Cardinality(Queued(s)) \in Nat
      /\ IsFiniteSet(RunBy(s)) /\ Cardinality(RunBy(s)) \in Nat
      /\ IsFiniteSet(Publishing(s)) /\ Cardinality(Publishing(s)) \in Nat
  BY CountsFinite
<1>1. ASSUME NEW t \in Tasks, Ask(h, t) PROVE Accounted(s)'
  <2>1. /\ pc[h] \in {"idle", "refused"} /\ UNCHANGED <<open, queue, givenUp>>
        /\ pc' = [pc EXCEPT ![h] = IF t.act = "reset" THEN mode.request.reset ELSE "publish"]
        /\ asked' = [asked EXCEPT ![h] = t]
    BY <1>1 DEF Ask, ghostVars
  <2>2. /\ pc'[h] = "insert" <=> Locks(t)
        /\ asked'[h] = t
        /\ \A g \in Handlers \ {h} : pc'[g] = pc[g] /\ asked'[g] = asked[g]
    BY <1>a, <2>1, ModeFields DEF Locks, WebTypes
  <2>3. Publishing(s)' = Publishing(s)
    BY <1>c, <2>1, <2>2 DEF Publishing
  <2> QED
    BY <1>c, <1>e, <1>h, <2>1, <2>3 DEF Accounted
<1>2. ASSUME NEW r \in Services, Refuse(h, r) PROVE Accounted(s)'
  <2>1. /\ pc[h] = "idle" /\ UNCHANGED <<open, queue, asked, givenUp>>
        /\ pc'[h] = "refused" /\ \A g \in Handlers \ {h} : pc'[g] = pc[g]
    BY <1>2, <1>a DEF Refuse, ghostVars, WebTypes
  <2>2. Publishing(s)' = Publishing(s)
    BY <1>c, <2>1 DEF Publishing
  <2> QED
    BY <1>c, <1>e, <1>h, <2>1, <2>2 DEF Accounted
<1>3. CASE InsertReset(h)
  <2>1. /\ pc[h] = "insert" /\ UNCHANGED <<queue, asked, givenUp>>
        /\ pc'[h] = "publish" /\ (\A g \in Handlers \ {h} : pc'[g] = pc[g])
        /\ open'[s] = IF asked[h].svc = s THEN open[s] + 1 ELSE open[s]
    BY <1>3, <1>a, <1>d DEF InsertReset, ghostVars, WebTypes
  <2>2. Locks(asked[h]) /\ h \notin Publishing(s)
    BY <2>1 DEF InsertsLock, Publishing
  <2>3. CASE asked[h].svc = s
    <3>1. Publishing(s)' = Publishing(s) \cup {h}
      BY <1>c, <2>1, <2>2, <2>3 DEF Publishing
    <3>2. Cardinality(Publishing(s)') = Cardinality(Publishing(s)) + 1
      BY <1>e, <2>2, <3>1, FS_AddElement
    <3> QED
      BY <1>c, <1>d, <1>e, <1>h, <2>1, <2>2, <2>3, <3>2 DEF Accounted
  <2>4. CASE asked[h].svc # s
    <3>1. Publishing(s)' = Publishing(s)
      BY <1>c, <2>1, <2>4 DEF Publishing
    <3> QED
      BY <1>c, <1>e, <1>h, <2>1, <2>2, <2>4, <3>1 DEF Accounted
  <2> QED
    BY <2>3, <2>4
<1>4. CASE Publish(h)
  <2>1. /\ pc[h] = "publish" /\ UNCHANGED <<open, givenUp>>
        /\ queue' = Append(queue, asked[h]) /\ pc'[h] = "idle"
        /\ \A g \in Handlers \ {h} : pc'[g] = pc[g] /\ asked'[g] = asked[g]
    BY <1>4, <1>a DEF Publish, ghostVars, WebTypes
  <2>2. asked[h] \in Mine(s) <=> h \in Publishing(s)
    BY <1>d, <2>1 DEF Mine, Publishing
  <2>3. Publishing(s)' = Publishing(s) \ {h}
    BY <1>c, <2>1 DEF Publishing
  <2>4. Cardinality(Publishing(s)') = Cardinality(Publishing(s)) - (IF asked[h] \in Mine(s) THEN 1 ELSE 0)
    BY <1>e, <2>2, <2>3, CountLess
  <2>5. Cardinality(Queued(s)') = Cardinality(Queued(s)) + (IF asked[h] \in Mine(s) THEN 1 ELSE 0)
    BY <1>a, <1>d, <1>e, <1>h, <2>1, AppendCount DEF WebTypes
  <2> QED
    BY <1>c, <1>d, <1>e, <2>1, <2>3, <2>4, <2>5 DEF Accounted
<1>5. CASE RequestDies(h)
  <2>1. /\ pc[h] \in {"publish", "insert"} /\ UNCHANGED <<open, queue>> /\ pc'[h] = "idle"
        /\ \A g \in Handlers \ {h} : pc'[g] = pc[g] /\ asked'[g] = asked[g]
    BY <1>5, <1>a DEF RequestDies, WebTypes
  <2>2. givenUp'[s] = givenUp[s] + (IF h \in Publishing(s) THEN 1 ELSE 0)
    BY <1>5, <1>a, <1>d DEF RequestDies, GhostTypes, Publishing
  <2>3. Publishing(s)' = Publishing(s) \ {h}
    BY <1>c, <2>1 DEF Publishing
  <2>4. Cardinality(Publishing(s)') = Cardinality(Publishing(s)) - (IF h \in Publishing(s) THEN 1 ELSE 0)
    BY <1>e, <2>3, CountLess
  <2> QED
    BY <1>c, <1>d, <1>e, <1>h, <2>1, <2>2, <2>3, <2>4 DEF Accounted
<1> QED
  BY <1>1, <1>2, <1>3, <1>4, <1>5 DEF RequestStep

\* A step of a worker keeps the account: a task takes its row along, and closes one, or
\* leaves it to those that have given up.
LEMMA WorkAccounts ==
  ASSUME TypeOK, TypeOK', TaskFields, InsertsLock, NEW s \in Services, Accounted(s),
         NEW w \in Workers, Work(w) \/ Die(w)
  PROVE  Accounted(s)'
<1>a. WebTypes /\ TaskTypes /\ GhostTypes
  BY TypeParts
<1>b. mode' = mode /\ (\A v \in Workers \ {w} : work'[v] = work[v]) /\ UNCHANGED <<pc, asked>>
  BY OthersSame, WebSame
<1>c. Mine(s)' = Mine(s) /\ Publishing(s)' = Publishing(s)
  BY <1>b DEF Mine, Publishing, Locks
<1>d. open[s] \in Nat /\ givenUp[s] \in Nat
  BY <1>a DEF WebTypes, GhostTypes
<1>h. Queued(s)' = Places(queue', Mine(s))
  <2>1. \A i \in 1..Len(queue') : queue'[i] \in Tasks
    BY ElementOfSeq DEF TypeOK
  <2>2. Queued(s)' = Places(queue', Mine(s)')
    BY <2>1 DEF Queued, Places, Mine
  <2> QED
    BY <1>c, <2>2
<1>e. /\ Queued(s) = Places(queue, Mine(s))
      /\ IsFiniteSet(Queued(s)) /\ Cardinality(Queued(s)) \in Nat
      /\ IsFiniteSet(RunBy(s)) /\ Cardinality(RunBy(s)) \in Nat
      /\ IsFiniteSet(Publishing(s)) /\ Cardinality(Publishing(s)) \in Nat
  BY CountsFinite
<1>f. \A v \in Workers : v \in RunBy(s) <=> work[v] \in Mine(s)
  BY <1>a, AwsAssumption DEF RunBy, Mine, TaskTypes, Svc
<1>g. \A v \in Workers : v \in RunBy(s)' <=> work'[v] \in Mine(s)
  <2>1. TaskTypes' /\ Mine(s)' = Mine(s)
    BY <1>c, TypeParts DEF TypeOK, TaskTypes
  <2> QED
    BY <2>1, AwsAssumption DEF RunBy, Mine, TaskTypes, Svc
<1>1. CASE Start(w)
  <2>1. /\ work[w] = NoTask /\ queue # <<>> /\ work'[w] = Head(queue) /\ queue' = Tail(queue)
        /\ UNCHANGED <<open, givenUp>>
    BY <1>1, <1>a DEF Start, TaskTypes
  <2>2. w \notin RunBy(s)
    BY <2>1 DEF RunBy
  <2>3. Cardinality(Queued(s)') = Cardinality(Queued(s)) - (IF Head(queue) \in Mine(s) THEN 1 ELSE 0)
    BY <1>a, <1>e, <1>h, <2>1, TailCount DEF WebTypes
  <2>4. RunBy(s)' = IF Head(queue) \in Mine(s) THEN RunBy(s) \cup {w} ELSE RunBy(s)
    <3>1. RunBy(s) \subseteq Workers /\ RunBy(s)' \subseteq Workers
      BY DEF RunBy
    <3>2. /\ w \in RunBy(s)' <=> Head(queue) \in Mine(s)
          /\ \A v \in Workers \ {w} : v \in RunBy(s)' <=> v \in RunBy(s)
      BY <1>b, <1>f, <1>g, <2>1
    <3> QED
      BY <2>2, <3>1, <3>2
  <2>5. Cardinality(RunBy(s)') = Cardinality(RunBy(s)) + (IF Head(queue) \in Mine(s) THEN 1 ELSE 0)
    <3>1. Cardinality(RunBy(s) \cup {w}) = Cardinality(RunBy(s)) + 1
      BY <1>e, <2>2, CountMore
    <3> QED
      BY <1>e, <2>4, <3>1
  <2> QED
    BY <1>c, <1>d, <1>e, <2>1, <2>3, <2>5 DEF Accounted
<1>2. CASE End(w) \/ Die(w) \/ Release(w)
  <2>1. work[w] # NoTask /\ work'[w] = NoTask /\ queue' = queue
    BY <1>2, <1>a DEF End, Die, Release, Leave, At, webVars, TaskTypes
  <2>2. NoTask \notin Mine(s)
    BY AwsAssumption DEF Mine
  <2>3. RunBy(s)' = RunBy(s) \ {w}
    <3>1. RunBy(s) \subseteq Workers /\ RunBy(s)' \subseteq Workers
      BY DEF RunBy
    <3>2. w \notin RunBy(s)' /\ \A v \in Workers \ {w} : v \in RunBy(s)' <=> v \in RunBy(s)
      BY <1>b, <1>f, <1>g, <2>1, <2>2
    <3> QED
      BY <3>1, <3>2
  <2>4. Cardinality(RunBy(s)') = Cardinality(RunBy(s)) - (IF w \in RunBy(s) THEN 1 ELSE 0)
    BY <1>e, <2>3, CountLess
  <2>5. Queued(s)' = Queued(s)
    BY <1>e, <1>h, <2>1
  <2>6. CASE End(w) \/ Die(w)
    <3>1. open' = open /\ givenUp'[s] = givenUp[s] + (IF w \in RunBy(s) THEN 1 ELSE 0)
      BY <2>6, <1>a, <1>d, <2>1, TaskOf DEF End, Die, Leave, webVars, GhostTypes, RunBy
    <3> QED
      BY <1>c, <1>d, <1>e, <2>4, <2>5, <3>1 DEF Accounted
  <2>7. CASE Release(w)
    <3>1. givenUp' = givenUp /\ open' = [open EXCEPT ![Svc(w)] = Close(Svc(w))] /\ step[w] = "release"
      BY <2>7 DEF Release, ghostVars, At
    <3>2. Locks(work[w])
      BY <3>1 DEF TaskFields, Locks, Act
    <3>3. w \in RunBy(s) <=> Svc(w) = s
      BY <2>1, <3>2 DEF RunBy
    <3>4. w \in RunBy(s) => Cardinality(RunBy(s)) > 0
      BY <1>e, <2>3, FS_EmptySet
    <3>5. open'[s] = open[s] - (IF w \in RunBy(s) THEN 1 ELSE 0)
      <4>1. CASE w \in RunBy(s)
        <5>1. open[s] > 0
          BY <1>d, <1>e, <3>4, <4>1 DEF Accounted
        <5> QED
          BY <1>a, <1>d, <3>1, <3>3, <4>1, <5>1 DEF Close, WebTypes
      <4>2. CASE w \notin RunBy(s)
        BY <1>a, <1>d, <3>1, <3>3, <4>2 DEF WebTypes
      <4> QED
        BY <4>1, <4>2
    <3> QED
      BY <1>c, <1>d, <1>e, <2>4, <2>5, <3>1, <3>5 DEF Accounted
  <2> QED
    BY <1>2, <2>6, <2>7
<1>3. CASE ~(Start(w) \/ End(w) \/ Die(w) \/ Release(w))
  <2>1. UNCHANGED <<open, queue, givenUp, work>>
    BY <1>3 DEF Work, Begin, FindMachine, MakeInfra, Register, Share, MakeStack, InsertRow,
       DeleteRow, Describe, DeleteStack, RemakeStack, webVars, ghostVars
  <2>2. RunBy(s)' = RunBy(s)
    <3>1. RunBy(s) \subseteq Workers /\ RunBy(s)' \subseteq Workers
      BY DEF RunBy
    <3> QED
      BY <1>f, <1>g, <2>1, <3>1
  <2> QED
    BY <1>c, <1>e, <1>h, <2>1, <2>2 DEF Accounted
<1> QED
  BY <1>1, <1>2, <1>3

\* For any number of teams, requests and workers, every open row of the reset queue
\* belongs to a reset on its way or to one that has given up, and do_reset finds a row to
\* close (handler_svcmanager_request, do_reset).
THEOREM EveryRowAccounted == Spec => []ResetsAccounted
<1> DEFINE Inv == TypeOK /\ TaskFields /\ InsertsLock /\ \A s \in Services : Accounted(s)
<1>1. Init => Inv
  <2> SUFFICES ASSUME Init PROVE Inv
    OBVIOUS
  <2>1. TypeOK /\ TaskFields /\ InsertsLock
    BY TypeInit DEF Init, TaskFields, InsertsLock
  <2>2. ASSUME NEW s \in Services PROVE Accounted(s)
    <3>1. Publishing(s) = {} /\ Queued(s) = {} /\ RunBy(s) = {}
      BY DEF Init, Publishing, Queued, RunBy
    <3>2. open[s] = 0 /\ givenUp[s] = 0
      BY DEF Init
    <3> QED
      BY <3>1, <3>2, FS_EmptySet DEF Accounted
  <2> QED
    BY <2>1, <2>2
<1>2. Inv /\ [Next]_vars => Inv'
  <2> SUFFICES ASSUME Inv, [Next]_vars PROVE Inv'
    OBVIOUS
  <2>1. TypeOK' /\ TaskFields' /\ InsertsLock'
    BY TypeStep, FieldsStep, InsertStep
  <2>2. CASE UNCHANGED vars
    <3> SUFFICES ASSUME NEW s \in Services PROVE Accounted(s)'
      BY <2>1
    <3>1. Accounted(s)
      OBVIOUS
    <3> QED
      BY <2>2, <3>1 DEF vars, webVars, taskVars, ghostVars, Accounted, Publishing, Queued, RunBy, Locks, Svc
  <2>3. ASSUME NEW h \in Handlers, RequestStep(h) PROVE \A s \in Services : Accounted(s)'
    BY <2>1, <2>3, RequestAccounts
  <2>4. ASSUME NEW w \in Workers, Work(w) \/ Die(w) PROVE \A s \in Services : Accounted(s)'
    BY <2>1, <2>4, WorkAccounts
  <2> QED
    BY <2>1, <2>2, <2>3, <2>4 DEF Next
<1>3. Inv => ResetsAccounted
  BY DEF ResetsAccounted, Accounted
<1> QED
  BY <1>1, <1>2, <1>3, PTL DEF Spec
=============================================================================

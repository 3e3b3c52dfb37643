-------------------------- MODULE FlagPipelineProofs --------------------------
(***************************************************************************)
(* Proofs about FlagPipeline: types, the order of the flags of a service,  *)
(* what its row shows of the flag on it, the flags of the defence phase    *)
(* and the results of the checker tasks.                                   *)
(***************************************************************************)
EXTENDS FlagPipeline, SequenceTheorems, FiniteSetTheorems, TLAPS

\* The position after the defence phase is a round and a tick.
LEMMA PositionFacts ==
  ASSUME now \in Positions
  PROVE  /\ Defence \in Positions
         /\ now # Defence =>
              /\ now[1] \in 1..(NumberRound + NumberTick) /\ now[2] \in 1..NumberTick
              /\ RotatedTo \in Positions /\ RotatedTo # Defence
              /\ RotatedTo[1] \in 1..(NumberRound + NumberTick)
<1>1. Defence \in Positions
  BY DEF Positions
<1>2. NumberTick \in Nat \ {0} /\ NumberRound \in Nat \ {0}
  BY PipelineAssumption
<1>3. ASSUME now # Defence
      PROVE  now[1] \in 1..(NumberRound + NumberTick) /\ now[2] \in 1..NumberTick
  <2>1. now \in (1..NumberRound) \X (1..NumberTick) \/ now \in (1..NumberTick) \X (1..NumberTick)
    BY <1>3 DEF Positions
  <2> QED
    BY <1>2, <2>1
<1>4. ASSUME now # Defence
      PROVE  /\ RotatedTo \in Positions /\ RotatedTo # Defence
             /\ RotatedTo[1] \in 1..(NumberRound + NumberTick)
  <2>1. RotatedTo = <<now[2], now[2]>> /\ now[2] \in 1..NumberTick
    BY <1>3, <1>4 DEF RotatedTo
  <2>2. RotatedTo \in (1..NumberTick) \X (1..NumberTick)
    BY <2>1
  <2>3. RotatedTo # Defence
    BY <1>2, <2>1 DEF Defence
  <2> QED
    BY <1>2, <2>1, <2>2, <2>3 DEF Positions
<1> QED
  BY <1>1, <1>3, <1>4

\* The services of a loop are those of a set.
LEMMA OrderOf ==
  ASSUME NEW S \in SUBSET Services
  PROVE  Order[S] \in Seq(Services) /\ {Order[S][i] : i \in 1..Len(Order[S])} = S
BY PipelineAssumption

\* A worker's task is none of the tasks of a queue when it has none.
LEMMA TasksAreSome == None \notin FlagTasks /\ None \notin CheckTasks
BY PipelineAssumption DEF None, FlagTasks, CheckTasks

-----------------------------------------------------------------------------
(* Types. *)

ContestTypes ==
  /\ mode \in Modes /\ now \in Positions /\ due \in BOOLEAN
  /\ exists \subseteq Services /\ dry \subseteq Services
  /\ faults \in Nat /\ restarts \in Nat /\ changes \in Nat

RowTypes ==
  /\ planted \in [Services -> [pos : Positions, val : Nat]]
  /\ stored \in [Services -> [Positions -> Nat]]
  /\ missed \subseteq Nat /\ overlap \subseteq Services /\ made \in Nat

RotatorSteps == {"idle", "plant", "look", "update", "insert", "ack", "stuck"}

RotatorTypes ==
  /\ flagQ \in Seq(FlagTasks) /\ rot \in [Rotators -> FlagTasks \union {None}]
  /\ rstep \in [Rotators -> RotatorSteps]
  /\ \A r \in Rotators : rstep[r] = "idle" <=> rot[r] = None

CheckerTypes ==
  /\ results \in [Services -> [Positions -> Nat]] /\ checks \in [Services -> [Positions -> Nat]]
  /\ checkQ \in Seq(CheckTasks) /\ chk \in [Checkers -> CheckTasks \union {None}]
  /\ cstep \in [Checkers -> {"idle", "read", "try", "ack"}]
  /\ \A c \in Checkers : cstep[c] = "idle" <=> chk[c] = None
  /\ cread \in [Checkers -> Nat] /\ calls \in Nat

\* The type invariant in four parts, one for each group of variables.
LEMMA TypeParts == TypeOK <=> ContestTypes /\ RowTypes /\ RotatorTypes /\ CheckerTypes
BY DEF TypeOK, ContestTypes, RowTypes, RotatorTypes, RotatorSteps, CheckerTypes

\* And of the next state.
LEMMA NextTypes == ContestTypes' /\ RowTypes' /\ RotatorTypes' /\ CheckerTypes' => TypeOK'
BY DEF TypeOK, ContestTypes, RowTypes, RotatorTypes, RotatorSteps, CheckerTypes

\* The contest, the queues and the workers start with their types.
LEMMA TypeInit == Init => TypeOK
<1> SUFFICES ASSUME Init PROVE TypeOK
  OBVIOUS
<1>1. ContestTypes
  BY DEF Init, ContestTypes, Positions
<1>2. RowTypes
  BY DEF Init, RowTypes, NoFlag, Positions
<1>3. RotatorTypes
  BY EmptySeq DEF Init, RotatorTypes, RotatorSteps
<1>4. CheckerTypes
  BY EmptySeq DEF Init, CheckerTypes
<1> QED
  BY <1>1, <1>2, <1>3, <1>4, TypeParts

\* The flags that a loop over S generates.
NewFlags(S, p) ==
  [i \in 1..Len(Order[S]) |-> [svc |-> Order[S][i], pos |-> p, val |-> made + i]]

\* A function on the first numbers is a sequence.
LEMMA FunctionIsSeq ==
  ASSUME NEW n \in Nat, NEW T, NEW f \in [1..n -> T]
  PROVE  f \in Seq(T) /\ Len(f) = n
OBVIOUS

\* What is behind the last place of a queue is what was put there.
LEMMA PutBehind ==
  ASSUME NEW T, NEW q \in Seq(T), NEW new \in Seq(T)
  PROVE  /\ q \o new \in Seq(T) /\ Len(q \o new) = Len(q) + Len(new)
         /\ Len(q) \in Nat /\ Len(new) \in Nat
         /\ \A i \in 1..Len(q) : (q \o new)[i] = q[i]
         /\ \A i \in 1..Len(q \o new) : i > Len(q) =>
              i - Len(q) \in 1..Len(new) /\ (q \o new)[i] = new[i - Len(q)]
BY ConcatProperties, LenProperties

\* They are put behind those of the queue, numbered on.
LEMMA FlagsAdded ==
  ASSUME TypeOK, NEW S \in SUBSET Services, NEW p \in Positions, PublishFlags(S, p)
  PROVE  /\ flagQ' \in Seq(FlagTasks) /\ made' \in Nat /\ made' = made + Len(Order[S])
         /\ Len(Order[S]) \in Nat /\ Len(flagQ') = Len(flagQ) + Len(Order[S])
         /\ \A i \in 1..Len(flagQ) : flagQ'[i] = flagQ[i]
         /\ \A i \in 1..Len(flagQ') : i > Len(flagQ) =>
              flagQ'[i] = [svc |-> Order[S][i - Len(flagQ)], pos |-> p, val |-> made + (i - Len(flagQ))]
<1>1. made \in Nat /\ flagQ \in Seq(FlagTasks)
  BY DEF TypeOK
<1>2. Order[S] \in Seq(Services) /\ Len(Order[S]) \in Nat
  BY OrderOf, LenProperties
<1>3. NewFlags(S, p) \in Seq(FlagTasks) /\ Len(NewFlags(S, p)) = Len(Order[S])
  <2>1. \A i \in 1..Len(Order[S]) : [svc |-> Order[S][i], pos |-> p, val |-> made + i] \in FlagTasks
    BY <1>1, <1>2, ElementOfSeq DEF FlagTasks
  <2>2. NewFlags(S, p) \in [1..Len(Order[S]) -> FlagTasks]
    BY <2>1 DEF NewFlags
  <2> QED
    BY <1>2, <2>2, FunctionIsSeq
<1>4. \A k \in 1..Len(Order[S]) :
        NewFlags(S, p)[k] = [svc |-> Order[S][k], pos |-> p, val |-> made + k]
  BY DEF NewFlags
<1>5. flagQ' = flagQ \o NewFlags(S, p) /\ made' = made + Len(Order[S])
  BY DEF PublishFlags, NewFlags
<1>6. /\ flagQ' \in Seq(FlagTasks) /\ Len(flagQ') = Len(flagQ) + Len(Order[S])
      /\ \A i \in 1..Len(flagQ) : flagQ'[i] = flagQ[i]
      /\ \A i \in 1..Len(flagQ') : i > Len(flagQ) =>
           i - Len(flagQ) \in 1..Len(Order[S]) /\ flagQ'[i] = NewFlags(S, p)[i - Len(flagQ)]
  <2> DEFINE new == NewFlags(S, p)
  <2>1. new \in Seq(FlagTasks) /\ Len(new) = Len(Order[S]) /\ flagQ' = flagQ \o new
    BY <1>3, <1>5
  <2> HIDE DEF new
  <2>2. flagQ' \in Seq(FlagTasks)
    BY <1>1, <2>1, PutBehind
  <2>3. Len(flagQ') = Len(flagQ) + Len(new)
    BY <1>1, <2>1, PutBehind
  <2>4. \A i \in 1..Len(flagQ) : flagQ'[i] = flagQ[i]
    BY <1>1, <2>1, PutBehind
  <2>5. \A i \in 1..Len(flagQ') : i > Len(flagQ) =>
             i - Len(flagQ) \in 1..Len(new) /\ flagQ'[i] = new[i - Len(flagQ)]
    BY <1>1, <2>1, PutBehind
  <2> QED
    BY <2>1, <2>2, <2>3, <2>4, <2>5, Zenon DEF new
<1> QED
  BY <1>1, <1>2, <1>4, <1>5, <1>6

\* The tasks of a position for some services.
NewChecks(chosen, p, slug) ==
  [i \in 1..Len(chosen) |-> [svc |-> chosen[i], pos |-> p, slug |-> slug]]

\* Places of a queue that hold a task of a service and a position.
Places(q, s, p) == {i \in 1..Len(q) : q[i].svc = s /\ q[i].pos = p}

LEMMA PlacesFinite ==
  ASSUME NEW T, NEW q \in Seq(T), NEW s, NEW p
  PROVE  IsFiniteSet(Places(q, s, p)) /\ Cardinality(Places(q, s, p)) \in Nat
<1>1. Len(q) \in Nat
  BY LenProperties
<1>2. IsFiniteSet(1..Len(q))
  BY <1>1, FS_Interval
<1>3. Places(q, s, p) \in SUBSET (1..Len(q))
  BY DEF Places
<1> QED
  BY <1>2, <1>3, FS_Subset, FS_CardinalityType

\* Checker tasks are put behind those of the queue, and the table counts them.
LEMMA ChecksAdded ==
  ASSUME TypeOK, NEW chosen \in Seq(Services), NEW p \in Positions, NEW slug \in BOOLEAN,
         PublishChecks(chosen, p, slug)
  PROVE  /\ NewChecks(chosen, p, slug) \in Seq(CheckTasks)
         /\ checkQ' = checkQ \o NewChecks(chosen, p, slug) /\ checkQ' \in Seq(CheckTasks)
         /\ checks' \in [Services -> [Positions -> Nat]] /\ calls' \in Nat
         /\ \A s \in Services, x \in Positions :
              checks'[s][x] = checks[s][x] + Cardinality(Places(NewChecks(chosen, p, slug), s, x))
<1> DEFINE new == NewChecks(chosen, p, slug)
           N(s) == Cardinality({i \in 1..Len(chosen) : chosen[i] = s})
<1>1. Len(chosen) \in Nat /\ \A i \in 1..Len(chosen) : chosen[i] \in Services
  BY LenProperties, ElementOfSeq
<1>2. new \in Seq(CheckTasks) /\ Len(new) = Len(chosen)
  <2>1. \A i \in 1..Len(chosen) : [svc |-> chosen[i], pos |-> p, slug |-> slug] \in CheckTasks
    BY <1>1 DEF CheckTasks
  <2> QED
    BY <1>1, <2>1 DEF NewChecks
<1>3. checkQ' = checkQ \o new /\ checkQ' \in Seq(CheckTasks)
  BY <1>2, ConcatProperties DEF PublishChecks, NewChecks, TypeOK
<1>4. \A s \in Services : Places(new, s, p) = {i \in 1..Len(chosen) : chosen[i] = s}
  BY <1>1, <1>2 DEF Places, NewChecks
<1>5. \A s \in Services : \A x \in Positions \ {p} : Places(new, s, x) = {}
  BY <1>1, <1>2 DEF Places, NewChecks
<1>6. \A s \in Services : N(s) \in Nat /\ N(s) = Cardinality(Places(new, s, p))
  BY <1>2, <1>4, PlacesFinite
<1>7. checks \in [Services -> [Positions -> Nat]]
  BY DEF TypeOK
<1>8. checks' = [s \in Services |-> [checks[s] EXCEPT ![p] = @ + N(s)]]
  BY DEF PublishChecks
<1> HIDE DEF N, new
<1>9. checks' \in [Services -> [Positions -> Nat]]
  BY <1>6, <1>7, <1>8
<1>10. ASSUME NEW s \in Services, NEW x \in Positions
       PROVE  checks'[s][x] = checks[s][x] + Cardinality(Places(new, s, x))
  <2>1. CASE x = p
    BY <1>6, <1>7, <1>8, <2>1
  <2>2. CASE x # p
    <3>1. Cardinality(Places(new, s, x)) = 0
      BY <1>5, <2>2, FS_EmptySet
    <3> QED
      BY <1>7, <1>8, <2>2, <3>1
  <2> QED
    BY <2>1, <2>2
<1>11. calls' \in Nat
  BY DEF PublishChecks, TypeOK
<1> QED
  BY <1>2, <1>3, <1>9, <1>10, <1>11 DEF new

\* A step of the keepers or of an administrator keeps the types.
LEMMA ContestStepTypes ==
  ASSUME TypeOK, Contest
  PROVE  TypeOK'
<1>a. ContestTypes /\ RowTypes /\ RotatorTypes /\ CheckerTypes
  BY TypeParts
<1>b. ASSUME NEW S \in SUBSET Services, NEW p \in Positions, PublishFlags(S, p),
             UNCHANGED <<planted, stored, rot, rstep, missed, overlap>>
      PROVE  RowTypes' /\ RotatorTypes'
  <2>1. flagQ' \in Seq(FlagTasks) /\ made' \in Nat
    BY <1>b, FlagsAdded
  <2> QED
    BY <1>a, <1>b, <2>1 DEF RowTypes, RotatorTypes
<1>c. ASSUME NEW chosen \in Seq(Services), NEW p \in Positions, NEW slug \in BOOLEAN,
             PublishChecks(chosen, p, slug), UNCHANGED <<results, chk, cstep, cread>>
      PROVE  CheckerTypes'
  <2>1. /\ checkQ' \in Seq(CheckTasks) /\ calls' \in Nat
        /\ checks' \in [Services -> [Positions -> Nat]]
    BY <1>c, ChecksAdded
  <2> QED
    BY <1>a, <1>c, <2>1 DEF CheckerTypes
<1>d. /\ now \in Positions /\ Defence \in Positions /\ Services \in SUBSET Services
      /\ now # Defence => /\ Released[now[1]] \in SUBSET Services
                          /\ RotatedTo \in Positions /\ Released[RotatedTo[1]] \in SUBSET Services
  BY <1>a, PositionFacts, PipelineAssumption DEF ContestTypes
<1>1. CASE Advance
  <2>1. now' \in Positions
    <3>1. NumberTick \in Nat \ {0} /\ NumberRound \in Nat \ {0}
      BY PipelineAssumption
    <3>2. CASE now = Defence
      <4>1. now' = <<1, 1>>
        BY <1>1, <3>2 DEF Advance
      <4> QED
        BY <3>1, <4>1 DEF Positions
    <3>3. CASE now # Defence /\ now[2] < NumberTick
      <4>1. now' = <<now[1], now[2] + 1>>
        BY <1>1, <3>3 DEF Advance
      <4>2. now \in (1..NumberRound) \X (1..NumberTick) \/ now \in (1..NumberTick) \X (1..NumberTick)
        BY <1>d, <3>3 DEF Positions
      <4> QED
        BY <3>1, <3>3, <4>1, <4>2 DEF Positions
    <3>4. CASE now # Defence /\ ~(now[2] < NumberTick)
      <4>1. now' = <<now[1] + 1, 1>> /\ now[1] < NumberRound
        BY <1>1, <3>4 DEF Advance
      <4>2. now[1] \in 1..(NumberRound + NumberTick)
        BY <1>d, <3>4, PositionFacts
      <4> QED
        BY <3>1, <4>1, <4>2 DEF Positions
    <3> QED
      BY <3>2, <3>3, <3>4
  <2>2. ContestTypes'
    BY <1>1, <1>a, <2>1 DEF Advance, ContestTypes
  <2> QED
    BY <1>1, <1>a, <2>2, NextTypes
    DEF Advance, RowTypes, RotatorTypes, CheckerTypes, flagVars, checkVars
<1>2. CASE FlagKeeper
  <2>1. PICK S \in SUBSET Services, p \in Positions : PublishFlags(S, p)
    BY <1>2, <1>d DEF FlagKeeper
  <2>2. RowTypes' /\ RotatorTypes'
    BY <1>2, <1>b, <2>1 DEF FlagKeeper
  <2>3. ContestTypes'
    BY <1>2, <1>a DEF FlagKeeper, ContestTypes
  <2> QED
    BY <1>2, <1>a, <2>2, <2>3, NextTypes DEF FlagKeeper, CheckerTypes, checkVars
<1>3. CASE CheckerKeeper
  <2>1. now # Defence => Order[Released[now[1]]] \in Seq(Services)
    BY <1>d, OrderOf
  <2>2. PICK chosen \in Seq(Services) : PublishChecks(chosen, now, TRUE)
    BY <1>3, <2>1, PipelineAssumption DEF CheckerKeeper
  <2>3. CheckerTypes'
    BY <1>3, <1>c, <1>d, <2>2 DEF CheckerKeeper
  <2> QED
    BY <1>3, <1>a, <2>3, NextTypes
    DEF CheckerKeeper, ContestTypes, RowTypes, RotatorTypes, contestVars, flagVars
<1>4. CASE RotateFlag
  <2>1. RowTypes' /\ RotatorTypes'
    BY <1>4, <1>b, <1>d DEF RotateFlag
  <2> QED
    BY <1>4, <1>a, <2>1, NextTypes
    DEF RotateFlag, ContestTypes, CheckerTypes, contestVars, checkVars
<1>5. ASSUME NEW S \in SUBSET Services, DryRun(S) PROVE TypeOK'
  <2>1. RowTypes' /\ RotatorTypes'
    BY <1>5, <1>b, <1>d DEF DryRun
  <2>2. CheckerTypes'
    BY <1>5, <1>c, <1>d, OrderOf DEF DryRun
  <2>3. ContestTypes'
    BY <1>5, <1>a DEF DryRun, ContestTypes
  <2> QED
    BY <2>1, <2>2, <2>3, NextTypes
<1>6. ASSUME NEW s \in Services, Deploy(s) PROVE TypeOK'
  <2>1. NoFlag \in [pos : Positions, val : Nat]
    BY <1>d DEF NoFlag
  <2>2. planted' \in [Services -> [pos : Positions, val : Nat]]
    BY <1>6, <1>a, <2>1 DEF Deploy, RowTypes
  <2>3. ContestTypes' /\ RowTypes'
    BY <1>6, <1>a, <2>2 DEF Deploy, ContestTypes, RowTypes
  <2> QED
    BY <1>6, <1>a, <2>3, NextTypes DEF Deploy, RotatorTypes, CheckerTypes, checkVars
<1>7. CASE ResetGame
  <2>1. ContestTypes'
    <3>1. /\ changes' = changes + 1 /\ now' = Defence /\ due' = FALSE
          /\ UNCHANGED <<mode, exists, dry, faults, restarts>>
      BY <1>7 DEF ResetGame
    <3>2. now' \in Positions /\ due' \in BOOLEAN
      BY <1>d, <3>1
    <3>3. changes' \in Nat
      BY <1>a, <3>1 DEF ContestTypes
    <3> QED
      BY <1>a, <3>1, <3>2, <3>3 DEF ContestTypes
  <2>2. stored' \in [Services -> [Positions -> Nat]]
    BY <1>7 DEF ResetGame
  <2>3. RowTypes'
    BY <1>7, <1>a, <2>2 DEF ResetGame, RowTypes
  <2>4. CheckerTypes'
    <3>1. results' \in [Services -> [Positions -> Nat]]
      BY <1>7 DEF ResetGame
    <3> QED
      BY <1>7, <1>a, <3>1 DEF ResetGame, CheckerTypes
  <2> QED
    BY <1>7, <1>a, <2>1, <2>3, <2>4, NextTypes DEF ResetGame, RotatorTypes
<1> QED
  BY <1>1, <1>2, <1>3, <1>4, <1>5, <1>6, <1>7 DEF Contest

\* What a rotator or a checker that is at a task knows of it.
LEMMA TaskOf ==
  ASSUME TypeOK
  PROVE  /\ \A r \in Rotators : rot[r] # None =>
              /\ rot[r] \in FlagTasks /\ rot[r].svc \in Services
              /\ rot[r].pos \in Positions /\ rot[r].val \in Nat
         /\ \A c \in Checkers : chk[c] # None =>
              /\ chk[c] \in CheckTasks /\ chk[c].svc \in Services /\ chk[c].pos \in Positions
         /\ \A i \in 1..Len(flagQ) :
              /\ flagQ[i] \in FlagTasks /\ flagQ[i].svc \in Services
              /\ flagQ[i].pos \in Positions /\ flagQ[i].val \in Nat
<1>1. \A i \in 1..Len(flagQ) : flagQ[i] \in FlagTasks
  BY ElementOfSeq DEF TypeOK
<1> QED
  BY <1>1 DEF TypeOK, FlagTasks, CheckTasks

\* A task goes back to the head of its queue.
LEMMA PutAhead ==
  ASSUME NEW T, NEW q \in Seq(T), NEW t \in T
  PROVE  /\ <<t>> \o q \in Seq(T) /\ Len(<<t>> \o q) = Len(q) + 1 /\ Len(q) \in Nat
         /\ (<<t>> \o q)[1] = t
         /\ \A i \in 1..Len(<<t>> \o q) : i > 1 =>
              i - 1 \in 1..Len(q) /\ (<<t>> \o q)[i] = q[i - 1]
<1>1. <<t>> \in Seq(T) /\ Len(<<t>>) = 1 /\ <<t>>[1] = t
  OBVIOUS
<1> QED
  BY <1>1, ConcatProperties, LenProperties

\* A step of a rotator keeps the types.
LEMMA RotatorStepTypes ==
  ASSUME TypeOK, NEW r \in Rotators, Rotate(r) \/ RestartRotator(r)
  PROVE  TypeOK'
<1>a. ContestTypes /\ RowTypes /\ RotatorTypes /\ CheckerTypes
  BY TypeParts
<1>b. rstep[r] # "idle" => /\ rot[r] # None /\ rot[r] \in FlagTasks /\ rot[r].svc \in Services
                           /\ rot[r].pos \in Positions /\ rot[r].val \in Nat
  BY <1>a, TaskOf DEF RotatorTypes
<1>c. ASSUME UNCHANGED checkVars PROVE CheckerTypes'
  BY <1>a, <1>c DEF CheckerTypes, checkVars
<1>d. ASSUME NEW to \in RotatorSteps \ {"idle"}, rot[r] # None,
             rstep' = [rstep EXCEPT ![r] = to], UNCHANGED <<flagQ, rot>>
      PROVE  RotatorTypes'
  BY <1>a, <1>d DEF RotatorTypes, RotatorSteps
<1>e. ASSUME UNCHANGED <<contestVars, faults, restarts>> PROVE ContestTypes'
  BY <1>a, <1>e DEF ContestTypes, contestVars
<1>1. CASE TakeFlag(r)
  <2>1. Head(flagQ) \in FlagTasks /\ Tail(flagQ) \in Seq(FlagTasks)
    BY <1>1, <1>a, HeadTailProperties DEF TakeFlag, RotatorTypes
  <2>2. Head(flagQ) # None /\ Head(flagQ).svc \in Services
    BY <2>1, TasksAreSome DEF FlagTasks
  <2>3. RotatorTypes'
    BY <1>1, <1>a, <2>1, <2>2 DEF TakeFlag, RotatorTypes, RotatorSteps
  <2>4. RowTypes'
    BY <1>1, <1>a, <2>2 DEF TakeFlag, RowTypes
  <2> QED
    BY <1>1, <1>c, <1>e, <2>3, <2>4, NextTypes DEF TakeFlag
<1>2. CASE Plant(r)
  <2>1. rstep[r] # "idle"
    BY <1>2 DEF Plant, Rotator
  <2>2. [pos |-> rot[r].pos, val |-> rot[r].val] \in [pos : Positions, val : Nat]
    BY <1>b, <2>1
  <2>3. RowTypes'
    BY <1>2, <1>a, <1>b, <2>1, <2>2 DEF Plant, RowTypes
  <2>4. RotatorTypes'
    BY <1>2, <1>b, <1>d, <2>1 DEF Plant, Rotator, RotatorSteps
  <2> QED
    BY <1>2, <1>c, <1>e, <2>3, <2>4, NextTypes DEF Plant
<1>3. CASE PlantFails(r)
  <2>1. rstep[r] # "idle"
    BY <1>3 DEF PlantFails, Rotator
  <2>2. RowTypes'
    BY <1>3, <1>a, <1>b, <2>1 DEF PlantFails, RowTypes
  <2>3. RotatorTypes'
    BY <1>3, <1>b, <1>d, <2>1 DEF PlantFails, Rotator, RotatorSteps
  <2>4. ContestTypes'
    BY <1>3, <1>a DEF PlantFails, ContestTypes, Fault, NoFault, contestVars
  <2> QED
    BY <1>3, <1>c, <2>2, <2>3, <2>4, NextTypes DEF PlantFails
<1>4. CASE PlantRaises(r) \/ Look(r) \/ StoreRaises(r)
  <2>1. /\ rstep[r] # "idle" /\ UNCHANGED <<contestVars, faults, restarts, checkVars>>
        /\ UNCHANGED <<planted, stored, flagQ, rot, made, missed, overlap>>
        /\ \E to \in RotatorSteps \ {"idle"} : rstep' = [rstep EXCEPT ![r] = to]
    BY <1>4 DEF PlantRaises, Look, StoreRaises, Rotator, RotatorSteps
  <2>2. RotatorTypes' /\ RowTypes'
    BY <1>a, <1>b, <1>d, <2>1 DEF RowTypes
  <2> QED
    BY <1>c, <1>e, <2>1, <2>2, NextTypes
<1>5. CASE UpdateFlag(r) \/ InsertFlag(r)
  <2>1. /\ rstep[r] # "idle" /\ UNCHANGED <<contestVars, faults, restarts, checkVars>>
        /\ UNCHANGED <<planted, flagQ, rot, made, missed, overlap>>
        /\ rstep' = [rstep EXCEPT ![r] = "ack"] /\ stored' = Store(r)
    BY <1>5 DEF UpdateFlag, InsertFlag, Rotator
  <2>2. stored' \in [Services -> [Positions -> Nat]]
    BY <1>a, <1>b, <2>1 DEF Store, RowTypes
  <2>3. RotatorTypes' /\ RowTypes'
    BY <1>a, <1>b, <1>d, <2>1, <2>2 DEF RowTypes, RotatorSteps
  <2> QED
    BY <1>c, <1>e, <2>1, <2>3, NextTypes
<1>6. CASE AckFlag(r)
  <2>1. RotatorTypes' /\ RowTypes'
    BY <1>6, <1>a DEF AckFlag, Rotator, RotatorTypes, RotatorSteps, RowTypes
  <2> QED
    BY <1>6, <1>c, <1>e, <2>1, NextTypes DEF AckFlag
<1>7. CASE RestartRotator(r)
  <2>1. rot[r] \in FlagTasks
    BY <1>7, <1>a, <1>b DEF RestartRotator, RotatorTypes
  <2>2. flagQ' \in Seq(FlagTasks)
    BY <1>7, <1>a, <2>1, PutAhead DEF RestartRotator, Requeued, RotatorTypes
  <2>3. RotatorTypes' /\ RowTypes'
    BY <1>7, <1>a, <2>2 DEF RestartRotator, RotatorTypes, RotatorSteps, RowTypes
  <2>4. ContestTypes'
    BY <1>7, <1>a DEF RestartRotator, ContestTypes, contestVars
  <2> QED
    BY <1>7, <1>c, <2>3, <2>4, NextTypes DEF RestartRotator
<1> QED
  BY <1>1, <1>2, <1>3, <1>4, <1>5, <1>6, <1>7 DEF Rotate

\* A step of a checker keeps the types.
LEMMA CheckerStepTypes ==
  ASSUME TypeOK, NEW c \in Checkers, Check(c) \/ RestartChecker(c)
  PROVE  TypeOK'
<1>a. ContestTypes /\ RowTypes /\ RotatorTypes /\ CheckerTypes
  BY TypeParts
<1>b. cstep[c] # "idle" => /\ chk[c] # None /\ chk[c] \in CheckTasks
                           /\ chk[c].svc \in Services /\ chk[c].pos \in Positions
  BY <1>a, TaskOf DEF CheckerTypes
<1>c. ASSUME UNCHANGED flagVars PROVE RowTypes' /\ RotatorTypes'
  BY <1>a, <1>c DEF RowTypes, RotatorTypes, flagVars
<1>d. ASSUME UNCHANGED <<contestVars, faults, restarts>> PROVE ContestTypes'
  BY <1>a, <1>d DEF ContestTypes, contestVars
<1>1. CASE TakeCheck(c)
  <2>1. Head(checkQ) \in CheckTasks /\ Tail(checkQ) \in Seq(CheckTasks)
    BY <1>1, <1>a, HeadTailProperties DEF TakeCheck, CheckerTypes
  <2>2. Head(checkQ) # None
    BY <2>1, TasksAreSome
  <2>3. CheckerTypes'
    BY <1>1, <1>a, <2>1, <2>2 DEF TakeCheck, CheckerTypes
  <2> QED
    BY <1>1, <1>c, <1>d, <2>3, NextTypes DEF TakeCheck
<1>2. CASE ReadFlags(c)
  <2>1. chk[c] # None /\ FlagRow(c) \in Nat
    BY <1>2, <1>a, <1>b DEF ReadFlags, Checker, FlagRow, RowTypes
  <2>2. CheckerTypes'
    BY <1>2, <1>a, <2>1 DEF ReadFlags, Checker, CheckerTypes
  <2> QED
    BY <1>2, <1>c, <1>d, <2>2, NextTypes DEF ReadFlags
<1>3. CASE Reject(c)
  <2>1. checkQ' \in Seq(CheckTasks)
    BY <1>3, <1>a, <1>b, PutAhead DEF Reject, Checker, CheckerTypes
  <2>2. CheckerTypes'
    BY <1>3, <1>a, <2>1 DEF Reject, Checker, CheckerTypes
  <2> QED
    BY <1>3, <1>c, <1>d, <2>2, NextTypes DEF Reject
<1>4. CASE Drop(c)
  <2>1. CheckerTypes'
    BY <1>4, <1>a DEF Drop, Checker, CheckerTypes
  <2>2. ContestTypes'
    BY <1>4, <1>a DEF Drop, ContestTypes, Fault, NoFault, contestVars
  <2> QED
    BY <1>4, <1>c, <2>1, <2>2, NextTypes DEF Drop
<1>5. CASE Judge(c)
  <2>1. results' \in [Services -> [Positions -> Nat]]
    BY <1>5, <1>a, <1>b DEF Judge, Checker, CheckerTypes
  <2>2. CheckerTypes'
    BY <1>5, <1>a, <2>1 DEF Judge, Checker, CheckerTypes
  <2> QED
    BY <1>5, <1>c, <1>d, <2>2, NextTypes DEF Judge
<1>6. CASE AckCheck(c)
  <2>1. CheckerTypes'
    BY <1>6, <1>a DEF AckCheck, Checker, CheckerTypes
  <2> QED
    BY <1>6, <1>c, <1>d, <2>1, NextTypes DEF AckCheck
<1>7. CASE RestartChecker(c)
  <2>1. chk[c] \in CheckTasks
    BY <1>7, <1>a, <1>b DEF RestartChecker, CheckerTypes
  <2>2. checkQ' \in Seq(CheckTasks)
    BY <1>7, <1>a, <2>1, PutAhead DEF RestartChecker, Requeued, CheckerTypes
  <2>3. CheckerTypes'
    BY <1>7, <1>a, <2>2 DEF RestartChecker, CheckerTypes
  <2>4. ContestTypes'
    BY <1>7, <1>a DEF RestartChecker, ContestTypes, contestVars
  <2> QED
    BY <1>7, <1>c, <2>3, <2>4, NextTypes DEF RestartChecker
<1> QED
  BY <1>1, <1>2, <1>3, <1>4, <1>5, <1>6, <1>7 DEF Check

LEMMA TypeStep == TypeOK /\ [Next]_vars => TypeOK'
<1> SUFFICES ASSUME TypeOK, [Next]_vars PROVE TypeOK'
  OBVIOUS
<1>1. CASE UNCHANGED vars
  BY <1>1 DEF TypeOK, vars, contestVars, flagVars, checkVars
<1> QED
  BY <1>1, ContestStepTypes, RotatorStepTypes, CheckerStepTypes DEF Next

\* Whatever the contest, the rotators and the checkers do, every row, queue and worker
\* keeps its type (keepers.py, worker.py).
THEOREM TypeCorrect == Spec => []TypeOK
BY TypeInit, TypeStep, PTL DEF Spec

-----------------------------------------------------------------------------
(* The results of the checker tasks. *)

\* The places of two queues, one behind the other.
LEMMA ConcatCount ==
  ASSUME NEW T, NEW q \in Seq(T), NEW new \in Seq(T), NEW s, NEW p
  PROVE  Cardinality(Places(q \o new, s, p)) =
           Cardinality(Places(q, s, p)) + Cardinality(Places(new, s, p))
<1> DEFINE both == q \o new
           ahead == Places(q, s, p)
           behind == {i \in Places(both, s, p) : i > Len(q)}
           added == Places(new, s, p)
           f == [j \in added |-> j + Len(q)]
<1>1. Len(q) \in Nat /\ Len(new) \in Nat /\ both \in Seq(T) /\ Len(both) = Len(q) + Len(new)
  BY LenProperties, ConcatProperties
<1>2. \A i \in 1..Len(q) : both[i] = q[i]
  BY PutBehind
<1>3. \A i \in 1..Len(both) : i > Len(q) => i - Len(q) \in 1..Len(new) /\ both[i] = new[i - Len(q)]
  BY PutBehind
<1>4. \A j \in 1..Len(new) : j + Len(q) \in 1..Len(both) /\ j + Len(q) > Len(q) /\ both[j + Len(q)] = new[j]
  <2> TAKE j \in 1..Len(new)
  <2>1. j + Len(q) \in 1..Len(both) /\ j + Len(q) > Len(q) /\ (j + Len(q)) - Len(q) = j
    BY <1>1
  <2> QED
    BY <1>3, <2>1
<1> HIDE DEF both
<1>5. Places(both, s, p) = ahead \cup behind
  BY <1>1, <1>2 DEF Places
<1>6. ahead \cap behind = {}
  BY <1>1 DEF Places
<1>7. \A j \in added : j \in Nat /\ j + Len(q) \in behind
  BY <1>4 DEF Places
<1>8. \A i \in behind : i \in Nat /\ i - Len(q) \in added
  BY <1>1, <1>3 DEF Places
<1>9. ExistsBijection(added, behind)
  <2>1. f \in [added -> behind] /\ (\A i, j \in added : f[i] = f[j] => i = j)
    BY <1>1, <1>7
  <2>2. \A i \in behind : \E j \in added : f[j] = i
    <3> TAKE i \in behind
    <3>1. i - Len(q) \in added /\ f[i - Len(q)] = i
      BY <1>1, <1>8
    <3> QED
      BY <3>1
  <2>3. f \in Bijection(added, behind)
    BY <2>1, <2>2 DEF Bijection, Injection, IsInjective, Surjection
  <2> QED
    BY <2>3 DEF ExistsBijection
<1>10. IsFiniteSet(ahead) /\ IsFiniteSet(added)
  BY PlacesFinite
<1>11. IsFiniteSet(behind) /\ Cardinality(behind) = Cardinality(added)
  BY <1>9, <1>10, FS_Bijection
<1>12. Cardinality(ahead \cup behind) =
         Cardinality(ahead) + Cardinality(behind) - Cardinality(ahead \cap behind)
  BY <1>10, <1>11, FS_Union
<1>13. Cardinality(ahead) \in Nat /\ Cardinality(behind) \in Nat /\ Cardinality({}) = 0
  BY <1>10, <1>11, FS_CardinalityType, FS_EmptySet
<1> HIDE DEF ahead, behind, added, f
<1>14. Cardinality(ahead \cap behind) = 0
  BY <1>6, <1>13
<1>15. Cardinality(Places(both, s, p)) = Cardinality(ahead) + Cardinality(added)
  BY <1>5, <1>11, <1>12, <1>13, <1>14
<1> QED
  BY <1>15 DEF both, ahead, added

\* A task at the head of a queue takes one place more.
LEMMA AheadCount ==
  ASSUME NEW T, NEW q \in Seq(T), NEW t \in T, NEW s, NEW p
  PROVE  Cardinality(Places(<<t>> \o q, s, p)) =
           Cardinality(Places(q, s, p)) + (IF t.svc = s /\ t.pos = p THEN 1 ELSE 0)
<1> DEFINE one == <<t>>
           mine == IF t.svc = s /\ t.pos = p THEN 1 ELSE 0
<1>1. one \in Seq(T)
  OBVIOUS
<1>2. Places(one, s, p) = IF t.svc = s /\ t.pos = p THEN {1} ELSE {}
  BY DEF Places
<1>3. Cardinality(Places(one, s, p)) = mine
  BY <1>2, FS_EmptySet, FS_Singleton
<1>4. Cardinality(Places(q, s, p)) \in Nat /\ mine \in Nat
  BY PlacesFinite
<1> HIDE DEF one, mine
<1>5. Cardinality(Places(one \o q, s, p)) = Cardinality(Places(one, s, p)) + Cardinality(Places(q, s, p))
  BY <1>1, ConcatCount
<1>6. Cardinality(Places(one \o q, s, p)) = Cardinality(Places(q, s, p)) + mine
  BY <1>3, <1>4, <1>5
<1> QED
  BY <1>6 DEF one, mine

\* A task that is taken leaves one place less.
LEMMA TailCount ==
  ASSUME NEW T, NEW q \in Seq(T), q # <<>>, NEW s, NEW p
  PROVE  Cardinality(Places(q, s, p)) =
           Cardinality(Places(Tail(q), s, p)) + (IF Head(q).svc = s /\ Head(q).pos = p THEN 1 ELSE 0)
<1>1. Head(q) \in T /\ Tail(q) \in Seq(T) /\ Len(Tail(q)) = Len(q) - 1 /\ Head(q) = q[1]
  BY HeadTailProperties
<1>2. \A i \in 1..Len(Tail(q)) : Tail(q)[i] = q[i + 1]
  BY HeadTailProperties
<1>3. Len(q) \in Nat
  BY LenProperties
<1> DEFINE u == <<Head(q)>> \o Tail(q)
<1>4. u \in Seq(T) /\ Len(u) = Len(q) /\ u[1] = q[1]
  BY <1>1, <1>3, PutAhead
<1>5. \A i \in 1..Len(u) : i > 1 => i - 1 \in 1..Len(Tail(q)) /\ u[i] = Tail(q)[i - 1]
  BY <1>1, PutAhead
<1> HIDE DEF u
<1>6. \A i \in 1..Len(u) : u[i] = q[i]
  <2> TAKE i \in 1..Len(u)
  <2>1. CASE i = 1
    BY <1>4, <2>1
  <2>2. CASE i > 1
    <3>1. i - 1 \in 1..Len(Tail(q)) /\ u[i] = Tail(q)[i - 1]
      BY <1>5, <2>2
    <3>2. (i - 1) + 1 = i
      BY <1>3, <1>4
    <3> QED
      BY <1>2, <3>1, <3>2
  <2> QED
    BY <1>3, <1>4, <2>1, <2>2
<1>7. u = q
  BY <1>4, <1>6, SeqEqual
<1> DEFINE h == Head(q)
           rest == Tail(q)
<1>8. h \in T /\ rest \in Seq(T) /\ u = <<h>> \o rest
  BY <1>1 DEF u
<1> HIDE DEF h, rest
<1>9. Cardinality(Places(<<h>> \o rest, s, p)) =
        Cardinality(Places(rest, s, p)) + (IF h.svc = s /\ h.pos = p THEN 1 ELSE 0)
  BY <1>8, AheadCount
<1>10. Cardinality(Places(q, s, p)) =
         Cardinality(Places(rest, s, p)) + (IF h.svc = s /\ h.pos = p THEN 1 ELSE 0)
  BY <1>7, <1>8, <1>9
<1> QED
  BY <1>10 DEF h, rest

\* Checkers at a task without a result.
Trying(s, p) == {c \in Checkers : cstep[c] \in {"read", "try"} /\ chk[c].svc = s /\ chk[c].pos = p}

\* Each task published has a result or may get one, and a restart makes at most one of a
\* task that has.
CountInv ==
  \A s \in Services, p \in Positions :
    /\ IsFiniteSet(Trying(s, p))
    /\ results[s][p] + Cardinality(Places(checkQ, s, p)) + Cardinality(Trying(s, p))
         <= checks[s][p] + restarts

\* Counting one more.
LEMMA CountMore ==
  ASSUME NEW S, NEW x, IsFiniteSet(S), x \notin S
  PROVE  IsFiniteSet(S \cup {x}) /\ Cardinality(S \cup {x}) = Cardinality(S) + 1
BY FS_AddElement

\* And one less.
LEMMA CountLess ==
  ASSUME NEW S, NEW x, IsFiniteSet(S)
  PROVE  /\ IsFiniteSet(S \ {x})
         /\ Cardinality(S) = Cardinality(S \ {x}) + (IF x \in S THEN 1 ELSE 0)
<1>1. Cardinality(S) \in Nat
  BY FS_CardinalityType
<1>2. /\ IsFiniteSet(S \ {x})
      /\ Cardinality(S \ {x}) = IF x \in S THEN Cardinality(S) - 1 ELSE Cardinality(S)
  BY FS_RemoveElement
<1> QED
  BY <1>1, <1>2

\* What is counted is a number.
LEMMA CountTypes ==
  ASSUME TypeOK, CountInv, NEW s \in Services, NEW p \in Positions
  PROVE  /\ results[s][p] \in Nat /\ checks[s][p] \in Nat /\ restarts \in Nat
         /\ Cardinality(Places(checkQ, s, p)) \in Nat
         /\ IsFiniteSet(Trying(s, p)) /\ Cardinality(Trying(s, p)) \in Nat
         /\ results[s][p] + Cardinality(Places(checkQ, s, p)) + Cardinality(Trying(s, p))
              <= checks[s][p] + restarts
BY PlacesFinite, FS_CardinalityType DEF TypeOK, CountInv

LEMMA CountInit == Init => CountInv
<1> SUFFICES ASSUME Init, NEW s \in Services, NEW p \in Positions
             PROVE  /\ IsFiniteSet(Trying(s, p))
                    /\ results[s][p] + Cardinality(Places(checkQ, s, p)) + Cardinality(Trying(s, p))
                         <= checks[s][p] + restarts
  BY DEF CountInv
<1>1. Places(checkQ, s, p) = {} /\ Trying(s, p) = {}
  BY DEF Init, Places, Trying
<1>2. results[s][p] = 0 /\ checks[s][p] = 0 /\ restarts = 0
  BY DEF Init
<1> QED
  BY <1>1, <1>2, FS_EmptySet

\* A step of the keepers or of an administrator publishes tasks, or takes results away.
LEMMA ContestCounts ==
  ASSUME TypeOK, CountInv, Contest
  PROVE  CountInv'
<1> SUFFICES ASSUME NEW s \in Services, NEW p \in Positions
             PROVE  /\ IsFiniteSet(Trying(s, p)')
                    /\ results'[s][p] + Cardinality(Places(checkQ', s, p)) + Cardinality(Trying(s, p)')
                         <= checks'[s][p] + restarts'
  BY DEF CountInv
<1>a. /\ results[s][p] \in Nat /\ checks[s][p] \in Nat /\ restarts \in Nat
      /\ Cardinality(Places(checkQ, s, p)) \in Nat
      /\ IsFiniteSet(Trying(s, p)) /\ Cardinality(Trying(s, p)) \in Nat
      /\ results[s][p] + Cardinality(Places(checkQ, s, p)) + Cardinality(Trying(s, p))
           <= checks[s][p] + restarts
  BY CountTypes
<1>1. Trying(s, p)' = Trying(s, p) /\ restarts' = restarts
  BY DEF Contest, Advance, FlagKeeper, CheckerKeeper, RotateFlag, ResetGame, DryRun, Deploy,
    checkVars, Trying
<1>2. CASE UNCHANGED <<checkQ, checks>> /\ (results' = results \/ results'[s][p] = 0)
  BY <1>a, <1>1, <1>2
<1>3. ASSUME NEW chosen \in Seq(Services), NEW x \in Positions, NEW slug \in BOOLEAN,
             PublishChecks(chosen, x, slug)
      PROVE  \E n \in Nat :
               /\ Cardinality(Places(checkQ', s, p)) = Cardinality(Places(checkQ, s, p)) + n
               /\ checks'[s][p] = checks[s][p] + n
  <2> DEFINE new == NewChecks(chosen, x, slug)
  <2>1. /\ checkQ' = checkQ \o new /\ new \in Seq(CheckTasks)
        /\ checks'[s][p] = checks[s][p] + Cardinality(Places(new, s, p))
    BY <1>3, ChecksAdded
  <2>2. checkQ \in Seq(CheckTasks)
    BY DEF TypeOK
  <2> HIDE DEF new
  <2>3. Cardinality(Places(checkQ', s, p)) = Cardinality(Places(checkQ, s, p)) + Cardinality(Places(new, s, p))
    BY <2>1, <2>2, ConcatCount
  <2>4. Cardinality(Places(new, s, p)) \in Nat
    BY <2>1, PlacesFinite
  <2> QED
    BY <2>1, <2>3, <2>4
<1>4. CASE Advance \/ FlagKeeper \/ RotateFlag \/ (\E x \in Services : Deploy(x)) \/ ResetGame
  <2>1. UNCHANGED <<checkQ, checks>> /\ (results' = results \/ results'[s][p] = 0)
    BY <1>4 DEF Advance, FlagKeeper, RotateFlag, Deploy, ResetGame, checkVars
  <2> QED
    BY <1>2, <2>1
<1>5. CASE CheckerKeeper
  <2>1. now \in Positions /\ (now # Defence => Released[now[1]] \in SUBSET Services)
    <3>1. now \in Positions
      BY DEF TypeOK
    <3>2. now # Defence => now[1] \in 1..(NumberRound + NumberTick)
      BY <3>1, PositionFacts
    <3> QED
      BY <3>1, <3>2, PipelineAssumption
  <2>2. now # Defence => Order[Released[now[1]]] \in Seq(Services)
    BY <2>1, OrderOf
  <2>3. \E chosen \in Seq(Services) : PublishChecks(chosen, now, TRUE)
    BY <1>5, <2>2, PipelineAssumption DEF CheckerKeeper
  <2>4. PICK n \in Nat : /\ Cardinality(Places(checkQ', s, p)) = Cardinality(Places(checkQ, s, p)) + n
                         /\ checks'[s][p] = checks[s][p] + n
    BY <1>3, <2>1, <2>3
  <2>5. results'[s][p] = results[s][p]
    BY <1>5 DEF CheckerKeeper
  <2> QED
    BY <1>a, <1>1, <2>4, <2>5
<1>6. CASE \E S \in SUBSET Services : DryRun(S)
  <2>1. PICK S \in SUBSET Services : DryRun(S)
    BY <1>6
  <2>2. Order[S] \in Seq(Services) /\ Defence \in Positions
    BY OrderOf, PositionFacts DEF TypeOK
  <2>3. PublishChecks(Order[S], Defence, FALSE) /\ results'[s][p] = results[s][p]
    BY <2>1 DEF DryRun
  <2>4. PICK n \in Nat : /\ Cardinality(Places(checkQ', s, p)) = Cardinality(Places(checkQ, s, p)) + n
                         /\ checks'[s][p] = checks[s][p] + n
    BY <1>3, <2>2, <2>3
  <2>5. results'[s][p] = results[s][p]
    BY <2>3
  <2> QED
    BY <1>a, <1>1, <2>4, <2>5
<1> QED
  BY <1>4, <1>5, <1>6 DEF Contest

\* A step of a checker moves a task, ends it or gives it a result.
LEMMA CheckerCounts ==
  ASSUME TypeOK, CountInv, NEW c \in Checkers, Check(c) \/ RestartChecker(c)
  PROVE  CountInv'
<1> SUFFICES ASSUME NEW s \in Services, NEW p \in Positions
             PROVE  /\ IsFiniteSet(Trying(s, p)')
                    /\ results'[s][p] + Cardinality(Places(checkQ', s, p)) + Cardinality(Trying(s, p)')
                         <= checks'[s][p] + restarts'
  BY DEF CountInv
<1> DEFINE mine(t) == IF t.svc = s /\ t.pos = p THEN 1 ELSE 0
           open == Trying(s, p)
           rest == open \ {c}
           places == Cardinality(Places(checkQ, s, p))
<1>a. /\ results[s][p] \in Nat /\ checks[s][p] \in Nat /\ restarts \in Nat /\ places \in Nat
      /\ IsFiniteSet(open) /\ Cardinality(open) \in Nat
      /\ results[s][p] + places + Cardinality(open) <= checks[s][p] + restarts
  BY CountTypes
<1>b. checkQ \in Seq(CheckTasks) /\ chk \in [Checkers -> CheckTasks \union {None}]
      /\ cstep \in [Checkers -> {"idle", "read", "try", "ack"}]
      /\ (cstep[c] = "idle" <=> chk[c] = None)
      /\ results \in [Services -> [Positions -> Nat]]
  BY DEF TypeOK
<1>c. IsFiniteSet(rest) /\ Cardinality(rest) \in Nat /\ c \notin rest
      /\ Cardinality(open) = Cardinality(rest) + (IF c \in open THEN 1 ELSE 0)
  <2>1. IsFiniteSet(rest) /\ Cardinality(open) = Cardinality(rest) + (IF c \in open THEN 1 ELSE 0)
    BY <1>a, CountLess
  <2> QED
    BY <2>1, FS_CardinalityType
<1>d. c \in open <=> cstep[c] \in {"read", "try"} /\ mine(chk[c]) = 1
  BY DEF Trying
<1>e. checks' = checks
  BY DEF Check, TakeCheck, ReadFlags, Reject, Drop, Judge, AckCheck, RestartChecker
<1>f. ASSUME NEW t \in CheckTasks, checkQ' = <<t>> \o checkQ
      PROVE  Cardinality(Places(checkQ', s, p)) = places + mine(t)
  BY <1>b, <1>f, AheadCount
<1>g. ASSUME cstep'[c] \in {"idle", "ack"},
             \A x \in Checkers \ {c} : cstep'[x] = cstep[x] /\ chk'[x] = chk[x]
      PROVE  Trying(s, p)' = rest
  BY <1>g DEF Trying
<1>h. \A t : mine(t) \in {0, 1}
  OBVIOUS
<1> HIDE DEF open, rest, places, mine
<1>1. CASE TakeCheck(c)
  <2>1. /\ chk' = [chk EXCEPT ![c] = Head(checkQ)] /\ cstep' = [cstep EXCEPT ![c] = "read"]
        /\ checkQ' = Tail(checkQ) /\ checkQ # <<>> /\ results' = results /\ restarts' = restarts
        /\ chk[c] = None
    BY <1>1 DEF TakeCheck
  <2>2. places = Cardinality(Places(checkQ', s, p)) + mine(Head(checkQ))
    BY <1>b, <2>1, TailCount DEF places, mine
  <2>3. Tail(checkQ) \in Seq(CheckTasks)
    BY <1>b, <2>1, HeadTailProperties
  <2>4. Cardinality(Places(checkQ', s, p)) \in Nat
    BY <2>1, <2>3, PlacesFinite
  <2>5. c \notin open
    BY <1>b, <2>1 DEF Trying, open
  <2>6. Trying(s, p)' = IF mine(Head(checkQ)) = 1 THEN open \cup {c} ELSE open
    BY <1>b, <2>1, <2>5 DEF Trying, open, mine
  <2>7. /\ IsFiniteSet(Trying(s, p)')
        /\ Cardinality(Trying(s, p)') = Cardinality(open) + mine(Head(checkQ))
    BY <1>a, <1>h, <2>5, <2>6, CountMore
  <2>8. mine(Head(checkQ)) \in Nat /\ results'[s][p] = results[s][p] /\ restarts' = restarts
    BY <1>h, <2>1
  <2> QED
    BY <1>a, <1>e, <2>2, <2>4, <2>7, <2>8
<1>2. CASE ReadFlags(c)
  <2>1. Trying(s, p)' = open
    BY <1>2, <1>b DEF ReadFlags, Checker, Trying, open
  <2> QED
    BY <1>2, <1>a, <2>1 DEF ReadFlags, places
<1>3. CASE Reject(c)
  <2>1. /\ cstep[c] = "read" /\ chk[c] \in CheckTasks /\ checkQ' = <<chk[c]>> \o checkQ
        /\ results' = results /\ restarts' = restarts
    BY <1>3, <1>b DEF Reject, Checker
  <2>2. Trying(s, p)' = rest
    BY <1>3, <1>b, <1>g DEF Reject, Checker
  <2>3. Cardinality(Places(checkQ', s, p)) = places + mine(chk[c])
    BY <1>f, <2>1
  <2>4. /\ mine(chk[c]) = IF c \in open THEN 1 ELSE 0
        /\ results'[s][p] = results[s][p] /\ restarts' = restarts
    BY <1>d, <1>h, <2>1
  <2> QED
    BY <1>a, <1>c, <1>e, <2>2, <2>3, <2>4
<1>4. CASE Drop(c)
  <2>1. Trying(s, p)' = rest
    BY <1>4, <1>b, <1>g DEF Drop, Checker
  <2> QED
    BY <1>4, <1>a, <1>c, <2>1 DEF Drop, places
<1>5. CASE Judge(c)
  <2>1. Trying(s, p)' = rest
    BY <1>5, <1>b, <1>g DEF Judge, Checker
  <2>2. results'[s][p] = results[s][p] + mine(chk[c]) /\ cstep[c] = "try"
    BY <1>5, <1>b DEF Judge, Checker, mine
  <2> QED
    BY <1>5, <1>a, <1>c, <1>d, <1>h, <2>1, <2>2 DEF Judge, places
<1>6. CASE AckCheck(c)
  <2>1. Trying(s, p)' = rest
    BY <1>6, <1>b, <1>g DEF AckCheck, Checker
  <2> QED
    BY <1>6, <1>a, <1>c, <2>1 DEF AckCheck, places
<1>7. CASE RestartChecker(c)
  <2>1. /\ chk[c] \in CheckTasks /\ checkQ' = <<chk[c]>> \o checkQ
        /\ results' = results /\ restarts' = restarts + 1
    BY <1>7, <1>b DEF RestartChecker, Requeued
  <2>2. Trying(s, p)' = rest
    BY <1>7, <1>b, <1>g DEF RestartChecker
  <2>3. Cardinality(Places(checkQ', s, p)) = places + mine(chk[c])
    BY <1>f, <2>1
  <2>4. /\ mine(chk[c]) \in {0, 1} /\ (c \in open => mine(chk[c]) = 1)
        /\ results'[s][p] = results[s][p] /\ restarts' = restarts + 1
    BY <1>d, <1>h, <2>1
  <2> QED
    BY <1>a, <1>c, <1>e, <2>2, <2>3, <2>4
<1> QED
  BY <1>1, <1>2, <1>3, <1>4, <1>5, <1>6, <1>7 DEF Check

\* A rotator has nothing to do with it, but for its restarts.
LEMMA RotatorCounts ==
  ASSUME TypeOK, CountInv, NEW r \in Rotators, Rotate(r) \/ RestartRotator(r)
  PROVE  CountInv'
<1>1. UNCHANGED <<results, checkQ, chk, cstep, checks>>
      /\ (restarts' = restarts \/ restarts' = restarts + 1)
  BY DEF Rotate, TakeFlag, Plant, PlantFails, PlantRaises, Look, UpdateFlag, InsertFlag,
    StoreRaises, AckFlag, RestartRotator, checkVars
<1> SUFFICES ASSUME NEW s \in Services, NEW p \in Positions
             PROVE  /\ IsFiniteSet(Trying(s, p)')
                    /\ results'[s][p] + Cardinality(Places(checkQ', s, p)) + Cardinality(Trying(s, p)')
                         <= checks'[s][p] + restarts'
  BY DEF CountInv
<1>2. Trying(s, p)' = Trying(s, p)
  BY <1>1 DEF Trying
<1> QED
  BY <1>1, <1>2, CountTypes

LEMMA CountStep == TypeOK /\ CountInv /\ [Next]_vars => CountInv'
<1> SUFFICES ASSUME TypeOK, CountInv, [Next]_vars PROVE CountInv'
  OBVIOUS
<1>1. CASE UNCHANGED vars
  BY <1>1 DEF vars, contestVars, checkVars, CountInv, Trying
<1> QED
  BY <1>1, ContestCounts, RotatorCounts, CheckerCounts DEF Next

\* A checker task gets no second result but by a restart of a checker between the result
\* and its acknowledgement, however often it is rejected (checker_task).
THEOREM OneResultEach == Spec => []ResultsBounded
<1>1. TypeOK /\ CountInv => ResultsBounded
  <2> SUFFICES ASSUME TypeOK, CountInv, NEW s \in Services, NEW p \in Positions
               PROVE  results[s][p] <= checks[s][p] + restarts
    BY DEF ResultsBounded
  <2> QED
    BY CountTypes
<1> QED
  BY TypeInit, TypeStep, CountInit, CountStep, <1>1, PTL DEF Spec

-----------------------------------------------------------------------------
(* The flags of a service. *)

FlagOf(t) == [pos |-> t.pos, val |-> t.val]

\* Every flag that is anywhere was generated.
Numbered ==
  /\ \A i \in 1..Len(flagQ) : flagQ[i].val \in 1..made
  /\ \A r \in Rotators : rot[r] # None => rot[r].val \in 1..made
  /\ \A s \in Services : planted[s].val <= made /\ \A p \in Positions : stored[s][p] <= made

\* The tasks of a service are worked on one by one, and in order.
Lined(s) ==
  \A i, j \in 1..Len(flagQ) :
    i < j /\ flagQ[i].svc = s /\ flagQ[j].svc = s => flagQ[i].val < flagQ[j].val
Alone(s) == \A q, r \in Rotators : Working(q, s) /\ Working(r, s) => q = r
Ahead(s) ==
  \A r \in Rotators, i \in 1..Len(flagQ) :
    Working(r, s) /\ flagQ[i].svc = s => rot[r].val < flagQ[i].val

\* What is to come is no older than what is on the service or in its rows.
Newer(s, t) ==
  /\ planted[s].val <= t.val
  /\ planted[s].val = t.val => planted[s].pos = t.pos
  /\ \A p \in Positions : stored[s][p] <= t.val
Newest(s) ==
  /\ \A i \in 1..Len(flagQ) : flagQ[i].svc = s => Newer(s, flagQ[i])
  /\ \A r \in Rotators : Working(r, s) => Newer(s, rot[r])

\* How far a rotator is in its task.
Worked(s) ==
  \A r \in Rotators : Working(r, s) =>
    /\ rstep[r] \in {"look", "update", "insert", "ack"} =>
         planted[s] \in {NoFlag, FlagOf(rot[r])} \/ rot[r].val \in missed
    /\ rstep[r] = "ack" => stored[s][rot[r].pos] \in {0, rot[r].val}

\* The flag on a service is the one of its row, or its task is still there.
OnItsWay(s, v) ==
  \/ \E i \in 1..Len(flagQ) : flagQ[i].svc = s /\ flagQ[i].val = v
  \/ \E r \in Rotators : Working(r, s) /\ rot[r].val = v
Shown(s) ==
  \/ planted[s].val = 0
  \/ stored[s][planted[s].pos] \in {0, planted[s].val} \union missed
  \/ OnItsWay(s, planted[s].val)

ServiceInv(s) ==
  Lined(s) /\ Alone(s) /\ Ahead(s) /\ Newest(s) /\ Worked(s) /\ Shown(s)

FlagInv == Numbered /\ \A s \in Services \ overlap : ServiceInv(s)

\* The task at the head of the queue is taken.
LEMMA Taken ==
  ASSUME TypeOK, NEW r \in Rotators, TakeFlag(r)
  PROVE  /\ Len(flagQ) \in Nat /\ Len(flagQ) > 0 /\ Len(flagQ') = Len(flagQ) - 1
         /\ flagQ[1] \in FlagTasks /\ Head(flagQ) = flagQ[1]
         /\ \A i \in 1..Len(flagQ') : i + 1 \in 1..Len(flagQ) /\ flagQ'[i] = flagQ[i + 1]
         /\ \A q \in Rotators : rot'[q] = IF q = r THEN flagQ[1] ELSE rot[q]
         /\ \A s : Working(r, s)' <=> s = flagQ[1].svc
         /\ \A s : \A q \in Rotators \ {r} : Working(q, s)' <=> Working(q, s)
<1>1. flagQ \in Seq(FlagTasks) /\ flagQ # <<>> /\ rot \in [Rotators -> FlagTasks \union {None}]
  BY DEF TypeOK, TakeFlag
<1>2. Len(flagQ) \in Nat /\ Len(flagQ) > 0
  BY <1>1, EmptySeq, LenProperties
<1>3. Head(flagQ) = flagQ[1] /\ flagQ[1] \in FlagTasks
  BY <1>1, <1>2, ElementOfSeq
<1>4. Len(flagQ') = Len(flagQ) - 1
  BY <1>1, HeadTailProperties DEF TakeFlag
<1>5. \A i \in 1..Len(flagQ') : flagQ'[i] = flagQ[i + 1]
  BY <1>1, HeadTailProperties DEF TakeFlag
<1>6. \A i \in 1..Len(flagQ') : i + 1 \in 1..Len(flagQ)
  BY <1>2, <1>4
<1>7. \A q \in Rotators : rot'[q] = IF q = r THEN flagQ[1] ELSE rot[q]
  BY <1>1, <1>3 DEF TakeFlag
<1>8. flagQ[1] # None
  BY <1>3, TasksAreSome
<1>9. /\ \A s : Working(r, s)' <=> s = flagQ[1].svc
      /\ \A s : \A q \in Rotators \ {r} : Working(q, s)' <=> Working(q, s)
  BY <1>7, <1>8 DEF Working
<1> QED
  BY <1>2, <1>3, <1>4, <1>5, <1>6, <1>7, <1>9

\* A task is put back at the head of the queue.
LEMMA PutBack ==
  ASSUME TypeOK, NEW r \in Rotators, RestartRotator(r)
  PROVE  /\ Len(flagQ) \in Nat /\ Len(flagQ') = Len(flagQ) + 1
         /\ rot[r] # None /\ rot[r] \in FlagTasks /\ flagQ'[1] = rot[r]
         /\ \A i \in 1..Len(flagQ') : i > 1 => i - 1 \in 1..Len(flagQ) /\ flagQ'[i] = flagQ[i - 1]
         /\ \A i \in 1..Len(flagQ) : i + 1 \in 1..Len(flagQ') /\ flagQ'[i + 1] = flagQ[i]
         /\ \A q \in Rotators : rot'[q] = IF q = r THEN None ELSE rot[q]
         /\ \A s : ~Working(r, s)'
         /\ \A s : \A q \in Rotators \ {r} : Working(q, s)' <=> Working(q, s)
<1>1. /\ flagQ \in Seq(FlagTasks) /\ rot[r] \in FlagTasks /\ rot[r] # None
      /\ rot \in [Rotators -> FlagTasks \union {None}] /\ flagQ' = <<rot[r]>> \o flagQ
  BY DEF TypeOK, RestartRotator, Requeued
<1>2. Len(flagQ) \in Nat /\ Len(flagQ') = Len(flagQ) + 1 /\ flagQ'[1] = rot[r]
  BY <1>1, PutAhead
<1>3. \A i \in 1..Len(flagQ') : i > 1 => i - 1 \in 1..Len(flagQ) /\ flagQ'[i] = flagQ[i - 1]
  BY <1>1, PutAhead
<1>4. \A i \in 1..Len(flagQ) : i + 1 \in 1..Len(flagQ') /\ flagQ'[i + 1] = flagQ[i]
  <2> TAKE i \in 1..Len(flagQ)
  <2>1. i + 1 \in 1..Len(flagQ') /\ i + 1 > 1 /\ (i + 1) - 1 = i
    BY <1>2
  <2> QED
    BY <1>3, <2>1
<1>5. \A q \in Rotators : rot'[q] = IF q = r THEN None ELSE rot[q]
  BY <1>1 DEF RestartRotator
<1>6. /\ \A s : ~Working(r, s)'
      /\ \A s : \A q \in Rotators \ {r} : Working(q, s)' <=> Working(q, s)
  BY <1>5 DEF Working
<1> QED
  BY <1>1, <1>2, <1>3, <1>4, <1>5, <1>6

LEMMA FlagInit == Init => FlagInv
<1> SUFFICES ASSUME Init PROVE FlagInv
  OBVIOUS
<1>1. /\ flagQ = <<>> /\ made = 0 /\ \A r \in Rotators : rot[r] = None
      /\ \A s \in Services : planted[s] = NoFlag /\ \A p \in Positions : stored[s][p] = 0
  BY DEF Init
<1>2. Numbered
  BY <1>1 DEF Numbered, NoFlag
<1>3. ASSUME NEW s \in Services PROVE ServiceInv(s)
  <2>1. \A r \in Rotators : ~Working(r, s)
    BY <1>1 DEF Working
  <2>2. Lined(s) /\ Alone(s) /\ Ahead(s)
    BY <1>1, <2>1 DEF Lined, Alone, Ahead
  <2>3. Newest(s) /\ Worked(s) /\ Shown(s)
    BY <1>1, <1>3, <2>1 DEF Newest, Worked, Shown, NoFlag
  <2> QED
    BY <2>2, <2>3 DEF ServiceInv
<1> QED
  BY <1>2, <1>3 DEF FlagInv

\* A step that touches neither flags nor rotators.
LEMMA FlagsSame ==
  ASSUME FlagInv, UNCHANGED flagVars
  PROVE  FlagInv'
BY DEF FlagInv, Numbered, ServiceInv, Lined, Alone, Ahead, Newest, Newer, Worked, Shown, OnItsWay,
  Working, flagVars

\* New flags are put behind the others.
LEMMA PublishKeeps ==
  ASSUME TypeOK, FlagInv, NEW S \in SUBSET Services, NEW p \in Positions, PublishFlags(S, p),
         UNCHANGED <<planted, stored, rot, rstep, missed, overlap>>
  PROVE  FlagInv'
<1> DEFINE n == Len(flagQ)
<1>1. /\ made' = made + Len(Order[S]) /\ Len(Order[S]) \in Nat /\ made \in Nat
      /\ n \in Nat /\ Len(flagQ') = n + Len(Order[S])
  BY FlagsAdded, LenProperties DEF TypeOK
<1>2. \A i \in 1..n : i \in 1..Len(flagQ') /\ flagQ'[i] = flagQ[i]
  <2>1. \A i \in 1..n : flagQ'[i] = flagQ[i]
    BY FlagsAdded
  <2> QED
    BY <1>1, <2>1
<1>3. \A i \in 1..Len(flagQ') : i > n => /\ flagQ'[i].val = made + (i - n)
                                         /\ flagQ'[i].val \in 1..made' /\ flagQ'[i].val > made
  <2>1. \A i \in 1..Len(flagQ') : i > n => flagQ'[i].val = made + (i - n)
    <3> TAKE i \in 1..Len(flagQ')
    <3>1. i > n => flagQ'[i] = [svc |-> Order[S][i - n], pos |-> p, val |-> made + (i - n)]
      BY FlagsAdded
    <3> QED
      BY <3>1
  <2> QED
    BY <1>1, <2>1
<1>4. \A i \in 1..Len(flagQ') : i > n \/ i \in 1..n
  BY <1>1
<1> HIDE DEF n
<1>5. Numbered'
  <2>1. \A i \in 1..Len(flagQ') : flagQ'[i].val \in 1..made'
    BY <1>1, <1>2, <1>3, <1>4 DEF FlagInv, Numbered, n
  <2>2. \A r \in Rotators : rot'[r] # None => rot'[r].val \in 1..made'
    BY <1>1 DEF FlagInv, Numbered
  <2>3. \A s \in Services : planted'[s].val <= made' /\ \A x \in Positions : stored'[s][x] <= made'
    <3> SUFFICES ASSUME NEW s \in Services, NEW x \in Positions
                 PROVE  planted[s].val <= made' /\ stored[s][x] <= made'
      BY Zenon
    <3>1. planted[s].val \in Nat /\ stored[s][x] \in Nat
      BY DEF TypeOK
    <3>2. planted[s].val <= made /\ stored[s][x] <= made
      BY DEF FlagInv, Numbered
    <3> QED
      BY <1>1, <3>1, <3>2
  <2> QED
    BY <2>1, <2>2, <2>3 DEF Numbered
<1>6. ASSUME NEW s \in Services \ overlap' PROVE ServiceInv(s)'
  <2>a. ServiceInv(s) /\ (\A r \in Rotators : Working(r, s)' <=> Working(r, s))
    BY <1>6 DEF FlagInv, Working
  <2>b. /\ planted[s].val <= made /\ planted[s].val \in Nat
        /\ \A x \in Positions : stored[s][x] <= made /\ stored[s][x] \in Nat
    BY <1>6 DEF FlagInv, Numbered, TypeOK
  <2>c. /\ \A i \in 1..n : flagQ[i].val \in 1..made
        /\ \A r \in Rotators : Working(r, s) => rot[r].val \in 1..made
    BY DEF FlagInv, Numbered, Working, n
  <2>1. Lined(s)'
    <3> SUFFICES ASSUME NEW i \in 1..Len(flagQ'), NEW j \in 1..Len(flagQ'), i < j,
                        flagQ'[i].svc = s, flagQ'[j].svc = s
                 PROVE  flagQ'[i].val < flagQ'[j].val
      BY DEF Lined
    <3>1. CASE j \in 1..n
      <4>1. i \in 1..n
        BY <1>1, <3>1
      <4> QED
        BY <1>2, <2>a, <3>1, <4>1 DEF ServiceInv, Lined, n
    <3>2. CASE j > n /\ i \in 1..n
      BY <1>1, <1>2, <1>3, <2>c, <3>2
    <3>3. CASE j > n /\ i > n
      BY <1>1, <1>3, <3>3
    <3> QED
      BY <1>4, <3>1, <3>2, <3>3
  <2>2. Alone(s)'
    BY <2>a DEF ServiceInv, Alone
  <2>3. Ahead(s)'
    <3> SUFFICES ASSUME NEW r \in Rotators, NEW i \in 1..Len(flagQ'), Working(r, s)', flagQ'[i].svc = s
                 PROVE  rot'[r].val < flagQ'[i].val
      BY DEF Ahead
    <3>1. CASE i \in 1..n
      BY <1>2, <2>a, <3>1 DEF ServiceInv, Ahead, n
    <3>2. CASE i > n
      BY <1>1, <1>3, <2>a, <2>c, <3>2
    <3> QED
      BY <1>4, <3>1, <3>2
  <2>4. Newest(s)'
    <3>1. ASSUME NEW i \in 1..Len(flagQ'), flagQ'[i].svc = s PROVE Newer(s, flagQ[i])'
      <4>1. CASE i \in 1..n
        BY <1>2, <2>a, <3>1, <4>1 DEF ServiceInv, Newest, Newer, n
      <4>2. CASE i > n
        <5>1. flagQ'[i].val \in Nat /\ flagQ'[i].val > made
          BY <1>1, <1>3, <4>2
        <5> QED
          BY <1>1, <2>b, <5>1 DEF Newer
      <4> QED
        BY <1>4, <4>1, <4>2
    <3>2. ASSUME NEW r \in Rotators, Working(r, s)' PROVE Newer(s, rot[r])'
      BY <2>a, <3>2 DEF ServiceInv, Newest, Newer
    <3> QED
      BY <3>1, <3>2 DEF Newest
  <2>5. Worked(s)'
    BY <2>a DEF ServiceInv, Worked
  <2>6. OnItsWay(s, planted[s].val) => OnItsWay(s, planted[s].val)'
    BY <1>2, <2>a DEF OnItsWay, n
  <2>7. Shown(s)'
    BY <2>a, <2>6 DEF ServiceInv, Shown
  <2> QED
    BY <2>1, <2>2, <2>3, <2>4, <2>5, <2>7 DEF ServiceInv
<1> QED
  BY <1>5, <1>6 DEF FlagInv

\* A service is made anew, or the game is reset: flags go away.
LEMMA RemovedKeeps ==
  ASSUME TypeOK, FlagInv, UNCHANGED <<flagQ, rot, rstep, made, missed, overlap>>,
         \A s \in Services : planted'[s] \in {planted[s], NoFlag},
         \A s \in Services, p \in Positions : stored'[s][p] \in {stored[s][p], 0}
  PROVE  FlagInv'
<1>1. made \in Nat /\ NoFlag.val = 0 /\ \A s \in Services : planted[s].val \in Nat /\ planted[s].pos \in Positions
  BY DEF TypeOK, NoFlag
<1>2. \A i \in 1..Len(flagQ) : flagQ[i].val \in 1..made
  BY DEF FlagInv, Numbered
<1>3. \A s : \A r \in Rotators : Working(r, s) => rot[r].val \in 1..made
  BY DEF FlagInv, Numbered, Working
<1>4. Numbered'
  <2>1. \A s \in Services : planted'[s].val <= made'
    BY <1>1 DEF FlagInv, Numbered
  <2>2. \A s \in Services, p \in Positions : stored'[s][p] <= made'
    <3> TAKE s \in Services, p \in Positions
    <3>1. stored[s][p] <= made
      BY DEF FlagInv, Numbered
    <3> QED
      BY <1>1, <3>1
  <2>3. /\ \A i \in 1..Len(flagQ') : flagQ'[i].val \in 1..made'
        /\ \A r \in Rotators : rot'[r] # None => rot'[r].val \in 1..made'
    BY DEF FlagInv, Numbered
  <2> QED
    BY <2>1, <2>2, <2>3 DEF Numbered
<1>5. ASSUME NEW s \in Services \ overlap' PROVE ServiceInv(s)'
  <2>1. ServiceInv(s) /\ \A q \in Rotators : Working(q, s)' <=> Working(q, s)
    BY <1>5 DEF FlagInv, Working
  <2>2. Lined(s)' /\ Alone(s)' /\ Ahead(s)'
    BY <2>1 DEF ServiceInv, Lined, Alone, Ahead
  <2>3. ASSUME NEW t, Newer(s, t), t.val \in Nat, t.val > 0
        PROVE  /\ planted'[s].val <= t.val
               /\ planted'[s].val = t.val => planted'[s].pos = t.pos
               /\ \A p \in Positions : stored'[s][p] <= t.val
    BY <1>1, <2>3 DEF Newer
  <2>4. Newest(s)'
    <3>1. ASSUME NEW i \in 1..Len(flagQ'), flagQ'[i].svc = s PROVE Newer(s, flagQ[i])'
      <4>1. Newer(s, flagQ[i]) /\ flagQ[i].val \in Nat /\ flagQ[i].val > 0
        BY <1>1, <1>2, <2>1, <3>1 DEF ServiceInv, Newest
      <4> QED
        BY <2>3, <4>1 DEF Newer
    <3>2. ASSUME NEW r \in Rotators, Working(r, s)' PROVE Newer(s, rot[r])'
      <4>1. Newer(s, rot[r]) /\ rot[r].val \in Nat /\ rot[r].val > 0
        BY <1>1, <1>3, <2>1, <3>2 DEF ServiceInv, Newest
      <4> QED
        BY <2>3, <4>1 DEF Newer
    <3> QED
      BY <3>1, <3>2 DEF Newest
  <2>5. Worked(s)'
    <3>1. \A r \in Rotators : Working(r, s) => rot[r].pos \in Positions
      BY <1>3, TaskOf DEF Working
    <3> QED
      BY <2>1, <3>1 DEF ServiceInv, Worked
  <2>6. Shown(s)'
    <3>1. CASE planted'[s].val = 0
      BY <3>1 DEF Shown
    <3>2. CASE planted'[s] = planted[s]
      BY <1>1, <2>1, <3>2 DEF ServiceInv, Shown, OnItsWay
    <3> QED
      BY <1>1, <3>1, <3>2
  <2> QED
    BY <2>2, <2>4, <2>5, <2>6 DEF ServiceInv
<1> QED
  BY <1>4, <1>5 DEF FlagInv

\* The services that a rotator does not work on.
LEMMA OtherService ==
  ASSUME FlagInv, NEW r \in Rotators, NEW s \in Services \ overlap, ~Working(r, s), ~Working(r, s)',
         \A q \in Rotators \ {r} : rot'[q] = rot[q] /\ rstep'[q] = rstep[q],
         flagQ' = flagQ, planted'[s] = planted[s], stored'[s] = stored[s], missed \subseteq missed'
  PROVE  ServiceInv(s)'
<1>1. ServiceInv(s) /\ \A q \in Rotators : Working(q, s)' <=> Working(q, s)
  BY DEF FlagInv, Working
<1>2. \A q \in Rotators : Working(q, s) => q # r /\ rot'[q] = rot[q] /\ rstep'[q] = rstep[q]
  OBVIOUS
<1>3. Lined(s)' /\ Alone(s)' /\ Ahead(s)'
  BY <1>1, <1>2 DEF ServiceInv, Lined, Alone, Ahead
<1>4. Newest(s)'
  BY <1>1, <1>2 DEF ServiceInv, Newest, Newer
<1>5. Worked(s)'
  BY <1>1, <1>2 DEF ServiceInv, Worked
<1>6. OnItsWay(s, planted[s].val) => OnItsWay(s, planted[s].val)'
  BY <1>1, <1>2 DEF OnItsWay
<1>7. Shown(s)'
  BY <1>1, <1>6 DEF ServiceInv, Shown
<1> QED
  BY <1>3, <1>4, <1>5, <1>7 DEF ServiceInv

\* A rotator takes the task at the head of the queue.
LEMMA TakeKeeps ==
  ASSUME TypeOK, FlagInv, NEW r \in Rotators, TakeFlag(r)
  PROVE  FlagInv'
<1> DEFINE h == flagQ[1]
<1>1. /\ UNCHANGED <<planted, stored, made, missed>> /\ rot[r] = None
      /\ overlap' = IF \E q \in Rotators : Working(q, h.svc) THEN overlap \union {h.svc} ELSE overlap
      /\ \A q \in Rotators : rstep'[q] = IF q = r THEN "plant" ELSE rstep[q]
  BY Taken DEF TakeFlag, TypeOK
<1>2. Len(flagQ) \in Nat /\ 1 \in 1..Len(flagQ) /\ Len(flagQ') = Len(flagQ) - 1
  BY Taken
<1>3. \A i \in 1..Len(flagQ') : i + 1 \in 1..Len(flagQ) /\ flagQ'[i] = flagQ[i + 1]
  BY Taken
<1>4. \A q \in Rotators : rot'[q] = IF q = r THEN h ELSE rot[q]
  BY Taken
<1>5. /\ \A s : Working(r, s)' <=> s = h.svc
      /\ \A s : \A q \in Rotators \ {r} : Working(q, s)' <=> Working(q, s)
  BY Taken
<1> HIDE DEF h
<1>6. Numbered'
  <2>1. h.val \in 1..made
    BY <1>2 DEF FlagInv, Numbered, h
  <2>2. \A i \in 1..Len(flagQ') : flagQ'[i].val \in 1..made'
    BY <1>1, <1>3 DEF FlagInv, Numbered
  <2>3. \A q \in Rotators : rot'[q] # None => rot'[q].val \in 1..made'
    BY <1>1, <1>4, <2>1 DEF FlagInv, Numbered
  <2> QED
    BY <1>1, <2>2, <2>3 DEF FlagInv, Numbered
<1>7. ASSUME NEW s \in Services \ overlap' PROVE ServiceInv(s)'
  <2>1. ServiceInv(s) /\ (h.svc = s => \A q \in Rotators : ~Working(q, s))
    BY <1>1, <1>7 DEF FlagInv
  <2>2. Lined(s)'
    <3> SUFFICES ASSUME NEW i \in 1..Len(flagQ'), NEW j \in 1..Len(flagQ'), i < j,
                        flagQ'[i].svc = s, flagQ'[j].svc = s
                 PROVE  flagQ'[i].val < flagQ'[j].val
      BY DEF Lined
    <3>1. i + 1 < j + 1 /\ i + 1 \in 1..Len(flagQ) /\ j + 1 \in 1..Len(flagQ)
      BY <1>2, <1>3
    <3> QED
      BY <1>3, <2>1, <3>1 DEF ServiceInv, Lined
  <2>3. Alone(s)'
    BY <1>5, <2>1 DEF ServiceInv, Alone
  <2>4. Ahead(s)'
    <3> SUFFICES ASSUME NEW q \in Rotators, NEW i \in 1..Len(flagQ'), Working(q, s)', flagQ'[i].svc = s
                 PROVE  rot'[q].val < flagQ'[i].val
      BY DEF Ahead
    <3>1. i + 1 \in 1..Len(flagQ) /\ 1 < i + 1 /\ flagQ'[i] = flagQ[i + 1]
      BY <1>2, <1>3
    <3>2. CASE q = r
      <4>1. flagQ[1].svc = s /\ rot'[q] = flagQ[1]
        BY <1>4, <1>5, <3>2 DEF h
      <4> QED
        BY <1>2, <2>1, <3>1, <4>1 DEF ServiceInv, Lined
    <3>3. CASE q # r
      BY <1>4, <1>5, <2>1, <3>1, <3>3 DEF ServiceInv, Ahead
    <3> QED
      BY <3>2, <3>3
  <2>5. Newest(s)'
    <3>1. ASSUME NEW i \in 1..Len(flagQ'), flagQ'[i].svc = s PROVE Newer(s, flagQ[i])'
      <4>1. Newer(s, flagQ[i + 1])
        BY <1>3, <2>1, <3>1 DEF ServiceInv, Newest
      <4> QED
        BY <1>1, <1>3, <4>1 DEF Newer
    <3>2. ASSUME NEW q \in Rotators, Working(q, s)' PROVE Newer(s, rot[q])'
      <4>1. CASE q = r
        <5>1. Newer(s, flagQ[1]) /\ rot'[q] = flagQ[1]
          BY <1>2, <1>4, <1>5, <2>1, <3>2, <4>1 DEF ServiceInv, Newest, h
        <5> QED
          BY <1>1, <5>1 DEF Newer
      <4>2. CASE q # r
        <5>1. Newer(s, rot[q]) /\ rot'[q] = rot[q]
          BY <1>4, <1>5, <2>1, <3>2, <4>2 DEF ServiceInv, Newest
        <5> QED
          BY <1>1, <5>1 DEF Newer
      <4> QED
        BY <4>1, <4>2
    <3> QED
      BY <3>1, <3>2 DEF Newest
  <2>6. Worked(s)'
    BY <1>1, <1>4, <1>5, <2>1 DEF ServiceInv, Worked
  <2>7. OnItsWay(s, planted[s].val) => OnItsWay(s, planted[s].val)'
    <3>1. ASSUME NEW i \in 1..Len(flagQ), flagQ[i].svc = s, flagQ[i].val = planted[s].val
          PROVE  OnItsWay(s, planted[s].val)'
      <4>1. CASE i = 1
        <5>1. Working(r, s)' /\ rot'[r].val = planted'[s].val
          BY <1>1, <1>4, <1>5, <3>1, <4>1 DEF h
        <5> QED
          BY <5>1 DEF OnItsWay
      <4>2. CASE i # 1
        <5>1. i - 1 \in 1..Len(flagQ') /\ (i - 1) + 1 = i
          BY <1>2, <4>2
        <5>2. flagQ'[i - 1] = flagQ[i]
          BY <1>3, <5>1
        <5> QED
          BY <1>1, <3>1, <5>1, <5>2 DEF OnItsWay
      <4> QED
        BY <4>1, <4>2
    <3>2. ASSUME NEW q \in Rotators, Working(q, s), rot[q].val = planted[s].val
          PROVE  OnItsWay(s, planted[s].val)'
      <4>1. q # r
        BY <1>1, <3>2 DEF Working
      <4> QED
        BY <1>1, <1>4, <1>5, <3>2, <4>1 DEF OnItsWay
    <3> QED
      BY <3>1, <3>2 DEF OnItsWay
  <2>8. Shown(s)'
    BY <1>1, <2>1, <2>7 DEF ServiceInv, Shown
  <2> QED
    BY <2>2, <2>3, <2>4, <2>5, <2>6, <2>8 DEF ServiceInv
<1> QED
  BY <1>6, <1>7 DEF FlagInv

\* A flag is planted.
LEMMA PlantKeeps ==
  ASSUME TypeOK, FlagInv, NEW r \in Rotators, Plant(r)
  PROVE  FlagInv'
<1> DEFINE t == rot[r]
<1>1. rstep[r] = "plant" /\ t # None
  BY DEF Plant, Rotator, TypeOK
<1>2. PICK x \in Services : x = t.svc /\ t.val \in Nat /\ t.pos \in Positions /\ Working(r, x)
  BY <1>1, TaskOf DEF Working
<1>3. /\ UNCHANGED <<flagQ, rot, stored, made, missed, overlap>>
      /\ \A s \in Services : planted'[s] = IF s = x THEN FlagOf(t) ELSE planted[s]
      /\ \A q \in Rotators : rstep'[q] = IF q = r THEN "look" ELSE rstep[q]
  BY <1>2 DEF Plant, Rotator, TypeOK, FlagOf
<1>4. Numbered'
  <2>1. t.val \in 1..made
    BY <1>1 DEF FlagInv, Numbered
  <2>2. \A s \in Services : planted'[s].val <= made'
    <3> TAKE s \in Services
    <3>1. CASE s = x
      BY <1>3, <2>1, <3>1 DEF FlagOf, TypeOK
    <3>2. CASE s # x
      BY <1>3, <3>2 DEF FlagInv, Numbered
    <3> QED
      BY <3>1, <3>2
  <2> QED
    BY <1>3, <2>2 DEF FlagInv, Numbered
<1>5. ASSUME NEW s \in Services \ overlap', s # x PROVE ServiceInv(s)'
  <2>1. ~Working(r, s) /\ ~Working(r, s)'
    BY <1>2, <1>3, <1>5 DEF Working
  <2> QED
    BY <1>3, <1>5, <2>1, OtherService
<1>6. ASSUME x \notin overlap' PROVE ServiceInv(x)'
  <2>1. ServiceInv(x) /\ (\A q \in Rotators : Working(q, x)' <=> Working(q, x))
        /\ \A q \in Rotators : Working(q, x) => q = r
    BY <1>2, <1>3, <1>6 DEF FlagInv, Working, ServiceInv, Alone
  <2>2. planted'[x].val = t.val /\ planted'[x].pos = t.pos /\ planted'[x] = FlagOf(t)
    BY <1>2, <1>3 DEF FlagOf
  <2>3. Newer(x, t)
    BY <1>2, <2>1 DEF ServiceInv, Newest
  <2>4. Lined(x)' /\ Alone(x)' /\ Ahead(x)'
    BY <1>3, <2>1 DEF ServiceInv, Lined, Alone, Ahead
  <2>5. Newest(x)'
    <3>1. ASSUME NEW i \in 1..Len(flagQ'), flagQ'[i].svc = x PROVE Newer(x, flagQ[i])'
      <4>1. Newer(x, flagQ[i]) /\ t.val < flagQ[i].val /\ flagQ[i].val \in Nat
        BY <1>2, <1>3, <2>1, <3>1, TaskOf DEF ServiceInv, Newest, Ahead
      <4> QED
        BY <1>2, <1>3, <2>2, <4>1 DEF Newer
    <3>2. ASSUME NEW q \in Rotators, Working(q, x)' PROVE Newer(x, rot[q])'
      <4>1. q = r
        BY <2>1, <3>2
      <4> QED
        BY <1>2, <1>3, <2>2, <2>3, <4>1 DEF Newer
    <3> QED
      BY <3>1, <3>2 DEF Newest
  <2>6. Worked(x)'
    BY <1>3, <2>1, <2>2 DEF Worked
  <2>7. Shown(x)'
    BY <1>2, <1>3, <2>1, <2>2 DEF Shown, OnItsWay
  <2> QED
    BY <2>4, <2>5, <2>6, <2>7 DEF ServiceInv
<1> QED
  BY <1>3, <1>4, <1>5, <1>6 DEF FlagInv

\* A rotator goes on to another step without planting or storing.
LEMMA GoOnKeeps ==
  ASSUME TypeOK, FlagInv, NEW r \in Rotators,
         PlantFails(r) \/ PlantRaises(r) \/ Look(r) \/ StoreRaises(r)
  PROVE  FlagInv'
<1> DEFINE t == rot[r]
<1>1. /\ UNCHANGED <<flagQ, rot, stored, planted, made, overlap>> /\ missed \subseteq missed'
      /\ \A q \in Rotators \ {r} : rstep'[q] = rstep[q]
  BY DEF PlantFails, PlantRaises, Look, StoreRaises, Rotator, TypeOK
<1>2. \/ rstep'[r] = "stuck"
      \/ rstep'[r] = "look" /\ t.val \in missed'
      \/ rstep[r] = "look" /\ rstep'[r] \in {"update", "insert"}
  BY DEF PlantFails, PlantRaises, Look, StoreRaises, Rotator, TypeOK
<1>3. Numbered'
  BY <1>1 DEF FlagInv, Numbered
<1>4. ASSUME NEW s \in Services \ overlap', s # t.svc PROVE ServiceInv(s)'
  <2>1. ~Working(r, s) /\ ~Working(r, s)'
    BY <1>1, <1>4 DEF Working
  <2> QED
    BY <1>1, <1>4, <2>1, OtherService
<1>5. ASSUME NEW x \in Services \ overlap', x = t.svc PROVE ServiceInv(x)'
  <2>1. ServiceInv(x) /\ (\A q \in Rotators : Working(q, x)' <=> Working(q, x))
    BY <1>1, <1>5 DEF FlagInv, Working
  <2>2. Lined(x)' /\ Alone(x)' /\ Ahead(x)'
    BY <1>1, <2>1 DEF ServiceInv, Lined, Alone, Ahead
  <2>3. Newest(x)'
    BY <1>1, <2>1 DEF ServiceInv, Newest, Newer
  <2>4. Worked(x)'
    BY <1>1, <1>2, <2>1 DEF ServiceInv, Worked
  <2>5. Shown(x)'
    BY <1>1, <2>1 DEF ServiceInv, Shown, OnItsWay
  <2> QED
    BY <2>2, <2>3, <2>4, <2>5 DEF ServiceInv
<1> QED
  BY <1>1, <1>3, <1>4, <1>5 DEF FlagInv

\* A flag is stored.
LEMMA RowKeeps ==
  ASSUME TypeOK, FlagInv, NEW r \in Rotators, UpdateFlag(r) \/ InsertFlag(r)
  PROVE  FlagInv'
<1> DEFINE t == rot[r]
<1>1. rstep[r] \in {"update", "insert"} /\ t # None
  BY DEF UpdateFlag, InsertFlag, Rotator, TypeOK
<1>2. PICK x \in Services : x = t.svc /\ t.val \in Nat /\ t.pos \in Positions /\ Working(r, x)
  BY <1>1, TaskOf DEF Working
<1>3. /\ UNCHANGED <<flagQ, rot, planted, made, missed, overlap>>
      /\ \A s \in Services, p \in Positions :
           stored'[s][p] = IF s = x /\ p = t.pos THEN t.val ELSE stored[s][p]
      /\ \A s \in Services : s # x => stored'[s] = stored[s]
      /\ \A q \in Rotators : rstep'[q] = IF q = r THEN "ack" ELSE rstep[q]
  <2>1. /\ UNCHANGED <<flagQ, rot, planted, made, missed, overlap>>
        /\ stored' = Store(r) /\ rstep' = [rstep EXCEPT ![r] = "ack"]
    BY DEF UpdateFlag, InsertFlag, Rotator
  <2>2. stored \in [Services -> [Positions -> Nat]] /\ rstep \in [Rotators -> RotatorSteps]
    BY DEF TypeOK, RotatorSteps
  <2>3. stored' = [stored EXCEPT ![x][t.pos] = t.val]
    BY <1>2, <2>1 DEF Store
  <2>4. \A s \in Services, p \in Positions :
          stored'[s][p] = IF s = x /\ p = t.pos THEN t.val ELSE stored[s][p]
    BY <1>2, <2>2, <2>3
  <2>5. \A s \in Services : s # x => stored'[s] = stored[s]
    BY <1>2, <2>2, <2>3
  <2>6. \A q \in Rotators : rstep'[q] = IF q = r THEN "ack" ELSE rstep[q]
    BY <2>1, <2>2
  <2> QED
    BY <2>1, <2>4, <2>5, <2>6
<1>4. Numbered'
  <2>1. t.val \in 1..made
    BY <1>1 DEF FlagInv, Numbered
  <2>2. \A s \in Services, p \in Positions : stored'[s][p] <= made'
    <3> TAKE s \in Services, p \in Positions
    <3>1. CASE s = x /\ p = t.pos
      BY <1>3, <2>1, <3>1 DEF TypeOK
    <3>2. CASE ~(s = x /\ p = t.pos)
      BY <1>3, <3>2 DEF FlagInv, Numbered
    <3> QED
      BY <3>1, <3>2
  <2> QED
    BY <1>3, <2>2 DEF FlagInv, Numbered
<1>5. ASSUME NEW s \in Services \ overlap', s # x PROVE ServiceInv(s)'
  <2>1. ~Working(r, s) /\ ~Working(r, s)'
    BY <1>2, <1>3, <1>5 DEF Working
  <2> QED
    BY <1>3, <1>5, <2>1, OtherService
<1>6. ASSUME x \notin overlap' PROVE ServiceInv(x)'
  <2>1. ServiceInv(x) /\ (\A q \in Rotators : Working(q, x)' <=> Working(q, x))
        /\ \A q \in Rotators : Working(q, x) => q = r
    BY <1>2, <1>3, <1>6 DEF FlagInv, Working, ServiceInv, Alone
  <2>2. Newer(x, t) /\ (planted[x] \in {NoFlag, FlagOf(t)} \/ t.val \in missed)
    BY <1>1, <1>2, <2>1 DEF ServiceInv, Newest, Worked
  <2>3. planted[x].pos \in Positions /\ planted[x].val \in Nat
    BY <1>2 DEF TypeOK
  <2>4. Lined(x)' /\ Alone(x)' /\ Ahead(x)'
    BY <1>3, <2>1 DEF ServiceInv, Lined, Alone, Ahead
  <2>5. Newest(x)'
    <3>1. ASSUME NEW i \in 1..Len(flagQ'), flagQ'[i].svc = x PROVE Newer(x, flagQ[i])'
      <4>1. Newer(x, flagQ[i]) /\ t.val < flagQ[i].val /\ flagQ[i].val \in Nat
        BY <1>2, <1>3, <2>1, <3>1, TaskOf DEF ServiceInv, Newest, Ahead
      <4> QED
        BY <1>2, <1>3, <4>1 DEF Newer
    <3>2. ASSUME NEW q \in Rotators, Working(q, x)' PROVE Newer(x, rot[q])'
      <4>1. q = r
        BY <2>1, <3>2
      <4> QED
        BY <1>2, <1>3, <2>2, <4>1 DEF Newer
    <3> QED
      BY <3>1, <3>2 DEF Newest
  <2>6. Worked(x)'
    BY <1>2, <1>3, <2>1, <2>2 DEF Worked
  <2>7. Shown(x)'
    <3>1. CASE planted[x] = NoFlag
      BY <1>3, <3>1 DEF Shown, NoFlag
    <3>2. CASE planted[x] = FlagOf(t)
      BY <1>2, <1>3, <3>2 DEF Shown, FlagOf
    <3>3. CASE t.val \in missed
      BY <1>2, <1>3, <2>1, <2>3, <3>3 DEF ServiceInv, Shown, OnItsWay
    <3> QED
      BY <2>2, <3>1, <3>2, <3>3
  <2> QED
    BY <2>4, <2>5, <2>6, <2>7 DEF ServiceInv
<1> QED
  BY <1>3, <1>4, <1>5, <1>6 DEF FlagInv

\* A task is acknowledged.
LEMMA AckKeeps ==
  ASSUME TypeOK, FlagInv, NEW r \in Rotators, AckFlag(r)
  PROVE  FlagInv'
<1> DEFINE t == rot[r]
<1>1. rstep[r] = "ack" /\ t # None
  BY DEF AckFlag, Rotator, TypeOK
<1>2. PICK x \in Services : x = t.svc /\ t.val \in Nat /\ t.pos \in Positions /\ Working(r, x)
  BY <1>1, TaskOf DEF Working
<1>3. /\ UNCHANGED <<flagQ, planted, stored, made, missed, overlap>>
      /\ \A q \in Rotators : rot'[q] = IF q = r THEN None ELSE rot[q]
      /\ \A q \in Rotators \ {r} : rstep'[q] = rstep[q]
  BY DEF AckFlag, Rotator, TypeOK
<1>4. Numbered'
  BY <1>3 DEF FlagInv, Numbered
<1>5. ASSUME NEW s \in Services \ overlap', s # x PROVE ServiceInv(s)'
  <2>1. ~Working(r, s) /\ ~Working(r, s)'
    BY <1>2, <1>3, <1>5 DEF Working
  <2> QED
    BY <1>3, <1>5, <2>1, OtherService
<1>6. ASSUME x \notin overlap' PROVE ServiceInv(x)'
  <2>1. ServiceInv(x) /\ \A q \in Rotators : ~Working(q, x)'
    BY <1>2, <1>3, <1>6 DEF FlagInv, Working, ServiceInv, Alone
  <2>2. /\ Newer(x, t) /\ stored[x][t.pos] \in {0, t.val}
        /\ planted[x] \in {NoFlag, FlagOf(t)} \/ t.val \in missed
    BY <1>1, <1>2, <2>1 DEF ServiceInv, Newest, Worked
  <2>3. Lined(x)' /\ Alone(x)' /\ Ahead(x)' /\ Worked(x)'
    BY <1>3, <2>1 DEF ServiceInv, Lined, Alone, Ahead, Worked
  <2>4. Newest(x)'
    BY <1>3, <2>1 DEF ServiceInv, Newest, Newer
  <2>5. Shown(x)'
    <3>1. CASE planted[x].val = t.val
      <4>1. planted[x].pos = t.pos
        BY <2>2, <3>1 DEF Newer
      <4> QED
        BY <1>3, <2>2, <3>1, <4>1 DEF Shown
    <3>2. CASE planted[x].val # t.val
      <4>1. \A q \in Rotators : Working(q, x) => q = r
        BY <1>2, <2>1 DEF ServiceInv, Alone
      <4> QED
        BY <1>3, <2>1, <3>2, <4>1 DEF ServiceInv, Shown, OnItsWay
    <3> QED
      BY <3>1, <3>2
  <2> QED
    BY <2>3, <2>4, <2>5 DEF ServiceInv
<1> QED
  BY <1>3, <1>4, <1>5, <1>6 DEF FlagInv

\* The task of a rotator that is restarted goes back to the head of the queue.
LEMMA RestartKeeps ==
  ASSUME TypeOK, FlagInv, NEW r \in Rotators, RestartRotator(r)
  PROVE  FlagInv'
<1> DEFINE t == rot[r]
<1>1. /\ UNCHANGED <<planted, stored, made, missed, overlap>>
      /\ \A q \in Rotators : rstep'[q] = IF q = r THEN "idle" ELSE rstep[q]
  BY DEF RestartRotator, TypeOK
<1>2. Len(flagQ) \in Nat /\ Len(flagQ') = Len(flagQ) + 1 /\ t # None /\ flagQ'[1] = t
  BY PutBack
<1>3. \A i \in 1..Len(flagQ') : i > 1 => i - 1 \in 1..Len(flagQ) /\ flagQ'[i] = flagQ[i - 1]
  BY PutBack
<1>4. \A i \in 1..Len(flagQ) : i + 1 \in 1..Len(flagQ') /\ flagQ'[i + 1] = flagQ[i]
  BY PutBack
<1>5. /\ \A q \in Rotators : rot'[q] = IF q = r THEN None ELSE rot[q]
      /\ \A s : ~Working(r, s)'
      /\ \A s : \A q \in Rotators \ {r} : Working(q, s)' <=> Working(q, s)
  BY PutBack
<1>6. \A i \in 1..Len(flagQ') : i = 1 \/ i > 1
  BY <1>2
<1>7. Numbered'
  <2>1. \A i \in 1..Len(flagQ') : flagQ'[i].val \in 1..made'
    <3> TAKE i \in 1..Len(flagQ')
    <3>1. CASE i = 1
      BY <1>1, <1>2, <3>1 DEF FlagInv, Numbered
    <3>2. CASE i > 1
      BY <1>1, <1>3, <3>2 DEF FlagInv, Numbered
    <3> QED
      BY <1>6, <3>1, <3>2
  <2>2. \A q \in Rotators : rot'[q] # None => rot'[q].val \in 1..made'
    BY <1>1, <1>5 DEF FlagInv, Numbered
  <2> QED
    BY <1>1, <2>1, <2>2 DEF FlagInv, Numbered
<1>8. ASSUME NEW s \in Services \ overlap' PROVE ServiceInv(s)'
  <2>1. ServiceInv(s) /\ (t.svc = s <=> Working(r, s))
    BY <1>1, <1>2, <1>8 DEF FlagInv, Working
  <2>2. Lined(s)'
    <3> SUFFICES ASSUME NEW i \in 1..Len(flagQ'), NEW j \in 1..Len(flagQ'), i < j,
                        flagQ'[i].svc = s, flagQ'[j].svc = s
                 PROVE  flagQ'[i].val < flagQ'[j].val
      BY DEF Lined
    <3>1. j > 1 /\ j - 1 \in 1..Len(flagQ) /\ flagQ'[j] = flagQ[j - 1]
      BY <1>2, <1>3
    <3>2. CASE i = 1
      BY <1>2, <2>1, <3>1, <3>2 DEF ServiceInv, Ahead
    <3>3. CASE i > 1
      <4>1. i - 1 \in 1..Len(flagQ) /\ flagQ'[i] = flagQ[i - 1] /\ i - 1 < j - 1
        BY <1>3, <3>3
      <4> QED
        BY <2>1, <3>1, <4>1 DEF ServiceInv, Lined
    <3> QED
      BY <1>6, <3>2, <3>3
  <2>3. Alone(s)'
    BY <1>5, <2>1 DEF ServiceInv, Alone
  <2>4. Ahead(s)'
    <3> SUFFICES ASSUME NEW q \in Rotators, NEW i \in 1..Len(flagQ'), Working(q, s)', flagQ'[i].svc = s
                 PROVE  rot'[q].val < flagQ'[i].val
      BY DEF Ahead
    <3>1. q # r /\ Working(q, s) /\ rot'[q] = rot[q]
      BY <1>5
    <3>2. i # 1
      BY <1>2, <2>1, <3>1 DEF ServiceInv, Alone
    <3>3. i - 1 \in 1..Len(flagQ) /\ flagQ'[i] = flagQ[i - 1]
      BY <1>3, <1>6, <3>2
    <3> QED
      BY <2>1, <3>1, <3>3 DEF ServiceInv, Ahead
  <2>5. Newest(s)'
    <3>1. ASSUME NEW i \in 1..Len(flagQ'), flagQ'[i].svc = s PROVE Newer(s, flagQ[i])'
      <4>1. Newer(s, flagQ'[i])
        <5>1. CASE i = 1
          BY <1>2, <2>1, <3>1, <5>1 DEF ServiceInv, Newest
        <5>2. CASE i > 1
          BY <1>3, <2>1, <3>1, <5>2 DEF ServiceInv, Newest
        <5> QED
          BY <1>6, <5>1, <5>2
      <4> QED
        BY <1>1, <4>1 DEF Newer
    <3>2. ASSUME NEW q \in Rotators, Working(q, s)' PROVE Newer(s, rot[q])'
      <4>1. Newer(s, rot[q]) /\ rot'[q] = rot[q]
        BY <1>5, <2>1, <3>2 DEF ServiceInv, Newest
      <4> QED
        BY <1>1, <4>1 DEF Newer
    <3> QED
      BY <3>1, <3>2 DEF Newest
  <2>6. Worked(s)'
    BY <1>1, <1>5, <2>1 DEF ServiceInv, Worked
  <2>7. OnItsWay(s, planted[s].val) => OnItsWay(s, planted[s].val)'
    <3>1. ASSUME NEW i \in 1..Len(flagQ), flagQ[i].svc = s, flagQ[i].val = planted[s].val
          PROVE  OnItsWay(s, planted[s].val)'
      BY <1>1, <1>4, <3>1 DEF OnItsWay
    <3>2. ASSUME NEW q \in Rotators, Working(q, s), rot[q].val = planted[s].val
          PROVE  OnItsWay(s, planted[s].val)'
      <4>1. CASE q = r
        <5>1. 1 \in 1..Len(flagQ') /\ flagQ'[1].svc = s /\ flagQ'[1].val = planted'[s].val
          BY <1>1, <1>2, <2>1, <3>2, <4>1
        <5> QED
          BY <5>1 DEF OnItsWay
      <4>2. CASE q # r
        BY <1>1, <1>5, <3>2, <4>2 DEF OnItsWay
      <4> QED
        BY <4>1, <4>2
    <3> QED
      BY <3>1, <3>2 DEF OnItsWay
  <2>8. Shown(s)'
    BY <1>1, <2>1, <2>7 DEF ServiceInv, Shown
  <2> QED
    BY <2>2, <2>3, <2>4, <2>5, <2>6, <2>8 DEF ServiceInv
<1> QED
  BY <1>7, <1>8 DEF FlagInv

\* Who publishes flags, and for which position.
LEMMA Publishers ==
  ASSUME TypeOK, FlagKeeper \/ RotateFlag \/ \E S \in SUBSET Services : DryRun(S)
  PROVE  /\ UNCHANGED <<planted, stored, rot, rstep, missed, overlap>>
         /\ \E S \in SUBSET Services, p \in Positions : PublishFlags(S, p)
<1>1. now \in Positions /\ Defence \in Positions
  BY PositionFacts DEF TypeOK
<1>2. now # Defence => /\ Released[now[1]] \in SUBSET Services
                       /\ RotatedTo \in Positions /\ Released[RotatedTo[1]] \in SUBSET Services
  BY <1>1, PositionFacts, PipelineAssumption
<1>3. CASE FlagKeeper
  BY <1>1, <1>2, <1>3 DEF FlagKeeper
<1>4. CASE RotateFlag
  BY <1>1, <1>2, <1>4 DEF RotateFlag
<1>5. CASE \E S \in SUBSET Services : DryRun(S)
  BY <1>1, <1>5 DEF DryRun
<1> QED
  BY <1>3, <1>4, <1>5

\* What removes flags.
LEMMA Removers ==
  ASSUME TypeOK, ResetGame \/ \E s \in Services : Deploy(s)
  PROVE  /\ UNCHANGED <<flagQ, rot, rstep, made, missed, overlap>>
         /\ \A s \in Services : planted'[s] \in {planted[s], NoFlag}
         /\ \A s \in Services, p \in Positions : stored'[s][p] \in {stored[s][p], 0}
<1>1. CASE ResetGame
  BY <1>1 DEF ResetGame
<1>2. CASE \E s \in Services : Deploy(s)
  BY <1>2 DEF Deploy, TypeOK
<1> QED
  BY <1>1, <1>2

LEMMA FlagStep == TypeOK /\ FlagInv /\ [Next]_vars => FlagInv'
<1> SUFFICES ASSUME TypeOK, FlagInv, [Next]_vars PROVE FlagInv'
  OBVIOUS
<1>1. CASE UNCHANGED flagVars
  BY <1>1, FlagsSame
<1>2. CASE FlagKeeper \/ RotateFlag \/ \E S \in SUBSET Services : DryRun(S)
  BY <1>2, Publishers, PublishKeeps
<1>3. CASE ResetGame \/ \E s \in Services : Deploy(s)
  BY <1>3, Removers, RemovedKeeps
<1>4. ASSUME NEW r \in Rotators, Rotate(r) \/ RestartRotator(r) PROVE FlagInv'
  BY <1>4, TakeKeeps, PlantKeeps, GoOnKeeps, RowKeeps, AckKeeps, RestartKeeps DEF Rotate
<1>5. Advance \/ CheckerKeeper \/ (\E c \in Checkers : Check(c) \/ RestartChecker(c)) \/ UNCHANGED vars
      => UNCHANGED flagVars
  BY DEF Advance, CheckerKeeper, Check, TakeCheck, ReadFlags, Reject, Drop, Judge, AckCheck,
    RestartChecker, vars
<1> QED
  BY <1>1, <1>2, <1>3, <1>4, <1>5 DEF Next, Contest

\* The row shows the flag that is on the service when its rotation has been acknowledged,
\* whatever rotators are restarted between planting and storing (flagrotator_task).
THEOREM RowShowsPlanted == Spec => []StoredIsPlanted
<1>1. TypeOK /\ FlagInv => StoredIsPlanted
  <2> SUFFICES ASSUME FlagInv, NEW s \in Services \ overlap,
                      planted[s].val # 0, ~Unfinished(planted[s].val)
               PROVE  stored[s][planted[s].pos] \in {0, planted[s].val} \union missed
    BY DEF StoredIsPlanted
  <2>1. Shown(s)
    BY DEF FlagInv, ServiceInv
  <2>2. ~OnItsWay(s, planted[s].val)
    BY DEF OnItsWay, Unfinished, Working
  <2> QED
    BY <2>1, <2>2 DEF Shown
<1> QED
  BY TypeInit, TypeStep, FlagInit, FlagStep, <1>1, PTL DEF Spec

\* A step that plants or stores a flag replaces no newer one.
LEMMA OlderStep ==
  ASSUME TypeOK, FlagInv, [Next]_vars, NEW s \in Services \ overlap'
  PROVE  /\ planted'[s].val >= planted[s].val \/ planted'[s] = NoFlag
         /\ \A p \in Positions : stored'[s][p] >= stored[s][p] \/ stored'[s][p] = 0
<1>a. planted[s].val \in Nat /\ \A p \in Positions : stored[s][p] \in Nat
  BY DEF TypeOK
<1>1. CASE planted'[s] \in {planted[s], NoFlag} /\ \A p \in Positions : stored'[s][p] \in {stored[s][p], 0}
  BY <1>a, <1>1
<1>b. ASSUME NEW r \in Rotators, rstep[r] # "idle", rot[r].svc = s, overlap' = overlap
      PROVE  Newer(s, rot[r]) /\ rot[r].val \in Nat /\ rot[r].pos \in Positions
  <2>1. Working(r, s)
    BY <1>b DEF Working, TypeOK
  <2>2. ServiceInv(s)
    BY <1>b DEF FlagInv
  <2> QED
    BY <2>1, <2>2, TaskOf DEF ServiceInv, Newest, Working
<1>2. ASSUME NEW r \in Rotators, Plant(r)
      PROVE  planted'[s].val >= planted[s].val /\ stored' = stored
  <2>1. /\ rstep[r] # "idle" /\ overlap' = overlap /\ stored' = stored
        /\ planted' = [planted EXCEPT ![rot[r].svc] = [pos |-> rot[r].pos, val |-> rot[r].val]]
    BY <1>2 DEF Plant, Rotator
  <2>2. CASE rot[r].svc = s
    <3>1. planted'[s].val = rot[r].val
      BY <2>1, <2>2 DEF TypeOK
    <3> QED
      BY <1>a, <1>b, <2>1, <2>2, <3>1 DEF Newer
  <2>3. CASE rot[r].svc # s
    BY <1>a, <2>1, <2>3 DEF TypeOK
  <2> QED
    BY <2>1, <2>2, <2>3
<1>3. ASSUME NEW r \in Rotators, UpdateFlag(r) \/ InsertFlag(r)
      PROVE  planted' = planted /\ \A p \in Positions : stored'[s][p] >= stored[s][p]
  <2>1. /\ rstep[r] # "idle" /\ overlap' = overlap /\ planted' = planted
        /\ stored' = [stored EXCEPT ![rot[r].svc][rot[r].pos] = rot[r].val]
    BY <1>3 DEF UpdateFlag, InsertFlag, Store, Rotator
  <2>2. stored \in [Services -> [Positions -> Nat]]
    BY DEF TypeOK
  <2>3. ASSUME NEW p \in Positions PROVE stored'[s][p] >= stored[s][p]
    <3>1. CASE rot[r].svc = s /\ rot[r].pos = p
      <4>1. stored'[s][p] = rot[r].val
        BY <2>1, <2>2, <3>1
      <4> QED
        BY <1>a, <1>b, <2>1, <3>1, <4>1 DEF Newer
    <3>2. CASE ~(rot[r].svc = s /\ rot[r].pos = p)
      <4>1. stored'[s][p] = stored[s][p]
        BY <2>1, <2>2, <3>2
      <4> QED
        BY <1>a, <4>1
    <3> QED
      BY <3>1, <3>2
  <2> QED
    BY <2>1, <2>3
<1>4. CASE UNCHANGED <<planted, stored>>
  BY <1>1, <1>4
<1>5. CASE ResetGame \/ \E x \in Services : Deploy(x)
  BY <1>1, <1>5, Removers
<1>6. \/ UNCHANGED <<planted, stored>> \/ ResetGame \/ (\E x \in Services : Deploy(x))
      \/ \E r \in Rotators : Plant(r) \/ UpdateFlag(r) \/ InsertFlag(r)
  BY DEF Next, Contest, Advance, FlagKeeper, CheckerKeeper, RotateFlag, DryRun, flagVars,
    Rotate, TakeFlag, PlantFails, PlantRaises, Look, StoreRaises, AckFlag, RestartRotator,
    Check, TakeCheck, ReadFlags, Reject, Drop, Judge, AckCheck, RestartChecker, vars
<1>7. CASE \E r \in Rotators : Plant(r)
  <2>1. planted'[s].val >= planted[s].val /\ stored' = stored
    BY <1>2, <1>7
  <2>2. \A p \in Positions : stored'[s][p] >= stored[s][p]
    BY <1>a, <2>1
  <2> QED
    BY <2>1, <2>2
<1>8. CASE \E r \in Rotators : UpdateFlag(r) \/ InsertFlag(r)
  <2>1. planted' = planted /\ \A p \in Positions : stored'[s][p] >= stored[s][p]
    BY <1>3, <1>8
  <2>2. planted'[s].val >= planted[s].val
    BY <1>a, <2>1
  <2> QED
    BY <2>1, <2>2
<1> QED
  BY <1>4, <1>5, <1>6, <1>7, <1>8

\* No restart or rejection brings an old flag back, as long as one rotator at a time works
\* on a service (create_worker).
THEOREM FlagsNeverGoBack == Spec => NeverOlder
<1> DEFINE Step ==
      \A s \in Services \ overlap' :
        /\ planted'[s].val >= planted[s].val \/ planted'[s] = NoFlag
        /\ \A p \in Positions : stored'[s][p] >= stored[s][p] \/ stored'[s][p] = 0
<1>1. TypeOK /\ FlagInv /\ [Next]_vars => [Step]_vars
  BY OlderStep
<1>2. NeverOlder <=> [][Step]_vars
  BY DEF NeverOlder
<1> HIDE DEF Step
<1> QED
  BY TypeInit, TypeStep, FlagInit, FlagStep, <1>1, <1>2, PTL DEF Spec

-----------------------------------------------------------------------------
(* The flags of the defence phase. *)

\* A flag of the defence phase that is not stored yet.
Coming(s) ==
  \/ \E i \in 1..Len(flagQ) : flagQ[i].svc = s /\ flagQ[i].pos = Defence
  \/ \E r \in Rotators : Working(r, s) /\ rot[r].pos = Defence

Covered(s) == stored[s][Defence] # 0 \/ Coming(s)

\* Every service has its flag of the defence phase, or it is coming, as soon as one has or
\* one is; and a rotator that is to acknowledge a task has stored its flag.
DefenceInv ==
  dry = {} /\ changes = 0 =>
    /\ \A r \in Rotators : rstep[r] = "ack" => Row(r) # 0
    /\ (\E s \in Services : Covered(s)) => \A s \in Services : Covered(s)

LEMMA DefenceInit == Init => DefenceInv
BY DEF Init, DefenceInv, Covered, Coming, Working, Positions

\* A step that keeps the rows and the tasks of the defence phase.
LEMMA DefenceSame ==
  ASSUME DefenceInv, dry' = {} /\ changes' = 0 => dry = {} /\ changes = 0,
         dry' = {} /\ changes' = 0 => \A r \in Rotators : rstep'[r] = "ack" => Row(r)' # 0,
         \A s \in Services : dry = {} /\ changes = 0 => (Covered(s)' <=> Covered(s))
  PROVE  DefenceInv'
BY DEF DefenceInv

\* A rotator covers the service of its task, and no other is the worse for it.
LEMMA DefenceRotator ==
  ASSUME TypeOK, FlagInv, DefenceInv, NEW r \in Rotators, Rotate(r) \/ RestartRotator(r)
  PROVE  DefenceInv'
<1>a. UNCHANGED <<dry, changes>>
  BY DEF Rotate, TakeFlag, Plant, PlantFails, PlantRaises, Look, UpdateFlag, InsertFlag,
    StoreRaises, AckFlag, RestartRotator, contestVars
<1> SUFFICES ASSUME dry = {} /\ changes = 0
             PROVE  /\ \A q \in Rotators : rstep'[q] = "ack" => Row(q)' # 0
                    /\ \A s \in Services : Covered(s)' <=> Covered(s)
  BY <1>a, DefenceSame
<1>b. \A q \in Rotators : rstep[q] = "ack" => Row(q) # 0
  BY DEF DefenceInv
<1>c. rstep[r] # "idle" => /\ rot[r] # None /\ rot[r].svc \in Services /\ rot[r].pos \in Positions
                           /\ rot[r].val \in 1..made
  BY TaskOf DEF TypeOK, FlagInv, Numbered
<1>1. CASE TakeFlag(r)
  <2>1. UNCHANGED stored /\ \A q \in Rotators : rstep'[q] = IF q = r THEN "plant" ELSE rstep[q]
    BY <1>1 DEF TakeFlag, TypeOK
  <2>2. Len(flagQ) \in Nat /\ 1 \in 1..Len(flagQ) /\ Len(flagQ') = Len(flagQ) - 1
    BY <1>1, Taken
  <2>3. \A i \in 1..Len(flagQ') : i + 1 \in 1..Len(flagQ) /\ flagQ'[i] = flagQ[i + 1]
    BY <1>1, Taken
  <2>4. \A q \in Rotators : rot'[q] = IF q = r THEN flagQ[1] ELSE rot[q]
    BY <1>1, Taken
  <2>5. /\ \A s : Working(r, s)' <=> s = flagQ[1].svc
        /\ \A s : \A q \in Rotators \ {r} : Working(q, s)' <=> Working(q, s)
    BY <1>1, Taken
  <2>6. \A s : ~Working(r, s)
    BY <1>1 DEF TakeFlag, Working
  <2>7. ASSUME NEW s PROVE Coming(s)' <=> Coming(s)
    <3>1. ASSUME NEW i \in 1..Len(flagQ), flagQ[i].svc = s, flagQ[i].pos = Defence PROVE Coming(s)'
      <4>1. CASE i = 1
        BY <2>4, <2>5, <3>1, <4>1 DEF Coming
      <4>2. CASE i # 1
        <5>1. i - 1 \in 1..Len(flagQ') /\ (i - 1) + 1 = i
          BY <2>2, <4>2
        <5>2. flagQ'[i - 1] = flagQ[i]
          BY <2>3, <5>1
        <5> QED
          BY <3>1, <5>1, <5>2 DEF Coming
      <4> QED
        BY <4>1, <4>2
    <3>2. ASSUME NEW q \in Rotators, Working(q, s), rot[q].pos = Defence PROVE Coming(s)'
      BY <2>4, <2>5, <2>6, <3>2 DEF Coming
    <3>3. ASSUME NEW i \in 1..Len(flagQ'), flagQ'[i].svc = s, flagQ'[i].pos = Defence PROVE Coming(s)
      BY <2>3, <3>3 DEF Coming
    <3>4. ASSUME NEW q \in Rotators, Working(q, s)', rot'[q].pos = Defence PROVE Coming(s)
      BY <2>2, <2>4, <2>5, <3>4 DEF Coming
    <3> QED
      BY <3>1, <3>2, <3>3, <3>4 DEF Coming
  <2>8. \A q \in Rotators : rstep'[q] = "ack" => Row(q)' # 0
    BY <1>b, <2>1, <2>4 DEF Row
  <2> QED
    BY <2>1, <2>7, <2>8 DEF Covered
<1>2. CASE Plant(r) \/ PlantFails(r) \/ PlantRaises(r) \/ Look(r) \/ StoreRaises(r)
  <2>1. UNCHANGED <<flagQ, rot, stored>>
        /\ \A q \in Rotators : rstep'[q] = "ack" => rstep[q] = "ack"
    BY <1>2 DEF Plant, PlantFails, PlantRaises, Look, StoreRaises, Rotator, TypeOK
  <2>2. \A q \in Rotators, s \in Services : Row(q)' = Row(q) /\ (Working(q, s)' <=> Working(q, s))
    BY <2>1 DEF Row, Working
  <2>3. \A s \in Services : Covered(s)' <=> Covered(s)
    BY <2>1, <2>2 DEF Covered, Coming
  <2>4. \A q \in Rotators : rstep'[q] = "ack" => Row(q)' # 0
    BY <1>b, <2>1 DEF Row
  <2> QED
    BY <2>3, <2>4
<1>3. CASE UpdateFlag(r) \/ InsertFlag(r)
  <2>1. /\ rstep[r] \in {"update", "insert"} /\ UNCHANGED <<flagQ, rot>>
        /\ stored' = [stored EXCEPT ![rot[r].svc][rot[r].pos] = rot[r].val]
        /\ rstep' = [rstep EXCEPT ![r] = "ack"]
    BY <1>3 DEF UpdateFlag, InsertFlag, Store, Rotator
  <2>2. /\ rot[r] # None /\ rot[r].svc \in Services /\ rot[r].pos \in Positions
        /\ rot[r].val # 0
    BY <1>c, <2>1
  <2>3. stored \in [Services -> [Positions -> Nat]] /\ rstep \in [Rotators -> RotatorSteps]
    BY DEF TypeOK, RotatorSteps
  <2>4. \A s \in Services, p \in Positions :
          stored'[s][p] = IF s = rot[r].svc /\ p = rot[r].pos THEN rot[r].val ELSE stored[s][p]
    BY <2>1, <2>2, <2>3
  <2>5. \A q \in Rotators : rstep'[q] = "ack" => Row(q)' # 0
    <3> SUFFICES ASSUME NEW q \in Rotators, rstep'[q] = "ack" PROVE stored'[rot[q].svc][rot[q].pos] # 0
      BY <2>1 DEF Row
    <3>1. CASE q = r
      BY <2>2, <2>4, <3>1
    <3>2. CASE q # r
      <4>1. rstep[q] = "ack" /\ stored[rot[q].svc][rot[q].pos] # 0
        BY <1>b, <2>1, <2>3, <3>2 DEF Row
      <4>2. rot[q].svc \in Services /\ rot[q].pos \in Positions
        BY <4>1, TaskOf DEF TypeOK
      <4> QED
        BY <2>2, <2>4, <4>1, <4>2
    <3> QED
      BY <3>1, <3>2
  <2>6. ASSUME NEW s \in Services PROVE Covered(s)' <=> Covered(s)
    <3>1. Coming(s)' <=> Coming(s)
      BY <2>1 DEF Coming, Working
    <3>2. CASE rot[r].svc = s /\ rot[r].pos = Defence
      BY <2>2, <3>1, <3>2 DEF Covered, Coming, Working
    <3>3. CASE ~(rot[r].svc = s /\ rot[r].pos = Defence)
      <4>1. Defence \in Positions
        BY DEF Positions
      <4>2. stored'[s][Defence] = stored[s][Defence]
        BY <2>4, <3>3, <4>1
      <4> QED
        BY <3>1, <4>2 DEF Covered
    <3> QED
      BY <3>2, <3>3
  <2> QED
    BY <2>5, <2>6
<1>4. CASE AckFlag(r)
  <2>1. /\ rstep[r] = "ack" /\ UNCHANGED <<flagQ, stored>>
        /\ \A q \in Rotators : rot'[q] = IF q = r THEN None ELSE rot[q]
        /\ \A q \in Rotators : rstep'[q] = IF q = r THEN "idle" ELSE rstep[q]
    BY <1>4 DEF AckFlag, Rotator, TypeOK
  <2>2. stored[rot[r].svc][rot[r].pos] # 0
    BY <1>b, <2>1 DEF Row
  <2>3. \A q \in Rotators : rstep'[q] = "ack" => Row(q)' # 0
    BY <1>b, <2>1 DEF Row
  <2>4. ASSUME NEW s \in Services PROVE Covered(s)' <=> Covered(s)
    <3>1. Coming(s)' => Coming(s)
      BY <2>1 DEF Coming, Working
    <3>2. Coming(s) => Coming(s)' \/ stored[s][Defence] # 0
      BY <2>1, <2>2 DEF Coming, Working
    <3> QED
      BY <2>1, <3>1, <3>2 DEF Covered
  <2> QED
    BY <2>3, <2>4
<1>5. CASE RestartRotator(r)
  <2>1. UNCHANGED stored /\ \A q \in Rotators : rstep'[q] = IF q = r THEN "idle" ELSE rstep[q]
    BY <1>5 DEF RestartRotator, TypeOK
  <2>2. Len(flagQ) \in Nat /\ 1 \in 1..Len(flagQ') /\ flagQ'[1] = rot[r] /\ rot[r] # None
    BY <1>5, PutBack
  <2>3. \A i \in 1..Len(flagQ') : i > 1 => i - 1 \in 1..Len(flagQ) /\ flagQ'[i] = flagQ[i - 1]
    BY <1>5, PutBack
  <2>4. \A i \in 1..Len(flagQ) : i + 1 \in 1..Len(flagQ') /\ flagQ'[i + 1] = flagQ[i]
    BY <1>5, PutBack
  <2>5. /\ \A q \in Rotators : rot'[q] = IF q = r THEN None ELSE rot[q]
        /\ \A s : ~Working(r, s)'
        /\ \A s : \A q \in Rotators \ {r} : Working(q, s)' <=> Working(q, s)
    BY <1>5, PutBack
  <2>6. ASSUME NEW s PROVE Coming(s)' <=> Coming(s)
    <3>1. ASSUME NEW i \in 1..Len(flagQ), flagQ[i].svc = s, flagQ[i].pos = Defence PROVE Coming(s)'
      BY <2>4, <3>1 DEF Coming
    <3>2. ASSUME NEW q \in Rotators, Working(q, s), rot[q].pos = Defence PROVE Coming(s)'
      <4>1. CASE q = r
        BY <2>2, <3>2, <4>1 DEF Coming, Working
      <4>2. CASE q # r
        BY <2>5, <3>2, <4>2 DEF Coming
      <4> QED
        BY <4>1, <4>2
    <3>3. ASSUME NEW i \in 1..Len(flagQ'), flagQ'[i].svc = s, flagQ'[i].pos = Defence PROVE Coming(s)
      <4>1. CASE i = 1
        BY <2>2, <3>3, <4>1 DEF Coming, Working
      <4>2. CASE i > 1
        BY <2>3, <3>3, <4>2 DEF Coming
      <4> QED
        BY <4>1, <4>2
    <3>4. ASSUME NEW q \in Rotators, Working(q, s)', rot'[q].pos = Defence PROVE Coming(s)
      BY <2>5, <3>4 DEF Coming
    <3> QED
      BY <3>1, <3>2, <3>3, <3>4 DEF Coming
  <2>7. \A q \in Rotators : rstep'[q] = "ack" => Row(q)' # 0
    BY <1>b, <2>1, <2>5 DEF Row
  <2> QED
    BY <2>1, <2>6, <2>7 DEF Covered
<1> QED
  BY <1>1, <1>2, <1>3, <1>4, <1>5 DEF Rotate

\* The keeper covers every service at once; rotations after the defence phase cover none.
LEMMA DefencePublish ==
  ASSUME TypeOK, DefenceInv, FlagKeeper \/ RotateFlag
  PROVE  DefenceInv'
<1>1. UNCHANGED <<dry, changes, stored, rot, rstep>>
  BY DEF FlagKeeper, RotateFlag, contestVars
<1>2. now \in Positions /\ Defence \in Positions
  BY PositionFacts DEF TypeOK
<1>3. \A s : \A r \in Rotators : Working(r, s)' <=> Working(r, s)
  BY <1>1 DEF Working
<1>4. PICK S \in SUBSET Services, p \in Positions :
        PublishFlags(S, p) /\ (p = Defence => S = Services)
  <2>1. now # Defence => /\ Released[now[1]] \in SUBSET Services
                         /\ RotatedTo \in Positions /\ RotatedTo # Defence
                         /\ Released[RotatedTo[1]] \in SUBSET Services
    BY <1>2, PositionFacts, PipelineAssumption
  <2>2. CASE FlagKeeper /\ now = Defence
    <3>1. PublishFlags(Services, Defence)
      BY <2>2 DEF FlagKeeper
    <3> QED
      BY <1>2, <3>1
  <2>3. CASE FlagKeeper /\ now # Defence
    <3>1. PublishFlags(Released[now[1]], now)
      BY <2>3 DEF FlagKeeper
    <3> QED
      BY <1>2, <2>1, <2>3, <3>1
  <2>4. CASE RotateFlag
    <3>1. now # Defence /\ PublishFlags(Released[RotatedTo[1]], RotatedTo)
      BY <2>4 DEF RotateFlag
    <3> QED
      BY <2>1, <3>1
  <2> QED
    BY <2>2, <2>3, <2>4
<1> DEFINE n == Len(flagQ)
<1>5. n \in Nat /\ Len(Order[S]) \in Nat /\ Len(flagQ') = n + Len(Order[S])
  BY <1>4, FlagsAdded, LenProperties DEF TypeOK
<1>6. \A i \in 1..n : i \in 1..Len(flagQ') /\ flagQ'[i] = flagQ[i]
  <2>1. \A i \in 1..n : flagQ'[i] = flagQ[i]
    BY <1>4, FlagsAdded
  <2> QED
    BY <1>5, <2>1
<1>7. \A i \in 1..Len(flagQ') : i > n => flagQ'[i].svc = Order[S][i - n] /\ flagQ'[i].pos = p
  <2> TAKE i \in 1..Len(flagQ')
  <2>1. i > n => flagQ'[i] = [svc |-> Order[S][i - n], pos |-> p, val |-> made + (i - n)]
    BY <1>4, FlagsAdded
  <2> QED
    BY <2>1
<1> HIDE DEF n
<1>8. \A s : Coming(s) => Coming(s)'
  BY <1>1, <1>3, <1>6 DEF Coming, n
<1>9. CASE p # Defence
  <2>1. \A s : Coming(s)' => Coming(s)
    <3> SUFFICES ASSUME NEW s, Coming(s)' PROVE Coming(s)
      OBVIOUS
    <3>1. CASE \E r \in Rotators : Working(r, s)' /\ rot'[r].pos = Defence
      BY <1>1, <1>3, <3>1 DEF Coming
    <3>2. ASSUME NEW i \in 1..Len(flagQ'), flagQ'[i].svc = s, flagQ'[i].pos = Defence PROVE Coming(s)
      <4>1. ~(i > n)
        BY <1>7, <1>9, <3>2
      <4>2. i \in 1..n
        BY <1>5, <4>1
      <4> QED
        BY <1>6, <3>2, <4>2 DEF Coming, n
    <3> QED
      BY <3>1, <3>2 DEF Coming
  <2> QED
    BY <1>1, <1>8, <2>1 DEF DefenceInv, Covered, Row
<1>10. CASE p = Defence
  <2>1. ASSUME NEW s \in Services PROVE Coming(s)'
    <3>1. PICK k \in 1..Len(Order[S]) : Order[S][k] = s
      <4>1. S = Services /\ {Order[S][i] : i \in 1..Len(Order[S])} = S
        BY <1>4, <1>10, OrderOf, Zenon
      <4>2. s \in {Order[S][i] : i \in 1..Len(Order[S])}
        BY <4>1, Zenon
      <4> QED
        BY <4>2, Zenon
    <3>2. n + k \in 1..Len(flagQ') /\ n + k > n /\ (n + k) - n = k
      BY <1>5
    <3>3. flagQ'[n + k].svc = s /\ flagQ'[n + k].pos = Defence
      BY <1>7, <1>10, <3>1, <3>2
    <3> QED
      BY <3>2, <3>3 DEF Coming
  <2> QED
    BY <1>1, <2>1 DEF DefenceInv, Covered, Row
<1> QED
  BY <1>9, <1>10

LEMMA DefenceStep == TypeOK /\ FlagInv /\ DefenceInv /\ [Next]_vars => DefenceInv'
<1> SUFFICES ASSUME TypeOK, FlagInv, DefenceInv, [Next]_vars PROVE DefenceInv'
  OBVIOUS
<1>1. CASE UNCHANGED <<stored, flagQ, rot, rstep, dry, changes>>
  BY <1>1 DEF DefenceInv, Covered, Coming, Working, Row
<1>2. CASE FlagKeeper \/ RotateFlag
  BY <1>2, DefencePublish
<1>3. CASE ResetGame \/ \E s \in Services : Deploy(s)
  <2>1. changes' # 0
    BY <1>3 DEF ResetGame, Deploy, TypeOK
  <2> QED
    BY <2>1 DEF DefenceInv
<1>4. CASE \E S \in SUBSET Services : DryRun(S)
  <2>1. dry' # {}
    BY <1>4 DEF DryRun
  <2> QED
    BY <2>1 DEF DefenceInv
<1>5. ASSUME NEW r \in Rotators, Rotate(r) \/ RestartRotator(r) PROVE DefenceInv'
  BY <1>5, DefenceRotator
<1>6. Advance \/ CheckerKeeper \/ (\E c \in Checkers : Check(c) \/ RestartChecker(c)) \/ UNCHANGED vars
      => UNCHANGED <<stored, flagQ, rot, rstep, dry, changes>>
  BY DEF Advance, CheckerKeeper, Check, TakeCheck, ReadFlags, Reject, Drop, Judge, AckCheck,
    RestartChecker, vars, contestVars, flagVars
<1> QED
  BY <1>1, <1>2, <1>3, <1>4, <1>5, <1>6 DEF Next, Contest

\* When the keeper finds a flag of the defence phase and stops, no service is left without
\* one, but after dry runs, resets and services made anew (flag_keeper).
THEOREM NoServiceLeftOut == Spec => []DefenceComplete
<1>1. DefenceInv => DefenceComplete
  BY DEF DefenceInv, DefenceComplete, DefenceFlagged, Covered, Coming
<1> QED
  BY TypeInit, TypeStep, FlagInit, FlagStep, DefenceInit, DefenceStep, <1>1, PTL DEF Spec

=============================================================================

------------------------- MODULE ContestClockProofs -------------------------
(***************************************************************************)
(* Proofs about ContestClock, for every value of its constants.            *)
(***************************************************************************)
EXTENDS ContestClock, TLAPS

USE DEF rows, clockRows, pauseRows, freezeRows, published, bounds, history

\* An empty configuration table and idle jobs have their types.
LEMMA TypeInit == Init => TypeOK
<1> SUFFICES ASSUME Init PROVE TypeOK
  OBVIOUS
<1> USE ClockAssumption DEF Init, Absent
<1>1. IdleTickJob \in TickJobs /\ IdleCheckerJob \in CheckerJobs
  BY DEF IdleTickJob, IdleCheckerJob, TickJobs, CheckerJobs, TickSteps, CheckerSteps
<1>2. admin \in [pc : AdminSteps, began : Nat, last : Int]
  BY DEF IdleAdmin, AdminSteps
<1>3. <<0, 0>> \in Positions
  BY DEF Positions
<1>4. tickJob \in [Keepers -> TickJobs] /\ checkerJob \in [Keepers -> CheckerJobs]
  BY <1>1
<1>5. wasCurrent \subseteq Positions
  BY <1>3
<1>6. currentTick \in 0 .. NumberTick
  OBVIOUS
<1>7. startTime \in Nat
  OBVIOUS
<1>8. flagged \subseteq {Defense} \cup Positions /\ checked \subseteq {Defense} \cup Positions
  OBVIOUS
<1>9. /\ freezeTick \in {Absent} \cup (0 .. NumberTick)
      /\ freezeRound \in {Absent} \cup Nat
  OBVIOUS
<1>10. lastTickChange \in Int /\ lastPaused \in Int /\ changedAt \in Int
  OBVIOUS
<1>11. isPaused \in BOOLEAN /\ defenseStored \in BOOLEAN
  OBVIOUS
<1>12. /\ now \in Nat /\ currentRound \in Nat /\ ran \in Nat /\ pauses \in Nat
       /\ requests \in Nat /\ resets \in Nat /\ crashes \in Nat
  OBVIOUS
<1> QED
  BY <1>2, <1>4, <1>5, <1>6, <1>7, <1>8, <1>9, <1>10, <1>11, <1>12, Zenon DEF TypeOK

\* A job that reads a tick, a round, or both, and goes on, is a job.
LEMMA TickJobsKept ==
  ASSUME tickJob \in [Keepers -> TickJobs], NEW k \in Keepers,
         NEW to \in TickSteps, NEW t \in 0 .. NumberTick, NEW r \in Nat
  PROVE  /\ [tickJob EXCEPT ![k] = [@ EXCEPT !.pc = to, !.tick = t]] \in [Keepers -> TickJobs]
         /\ [tickJob EXCEPT ![k] = [@ EXCEPT !.pc = to, !.round = r]] \in [Keepers -> TickJobs]
         /\ [tickJob EXCEPT ![k] = [@ EXCEPT !.pc = to, !.tick = t, !.round = r]]
              \in [Keepers -> TickJobs]
<1>1. tickJob[k] \in TickJobs
  OBVIOUS
<1>2. /\ [tickJob[k] EXCEPT !.pc = to, !.tick = t] \in TickJobs
      /\ [tickJob[k] EXCEPT !.pc = to, !.round = r] \in TickJobs
      /\ [tickJob[k] EXCEPT !.pc = to, !.tick = t, !.round = r] \in TickJobs
  BY <1>1 DEF TickJobs
<1> HIDE DEF TickJobs
<1> QED
  BY <1>2

\* No commit of a job, no request, no crash and no tick of the wall clock breaks a type.
LEMMA TypeStep == TypeOK /\ [Next]_vars => TypeOK'
<1> SUFFICES ASSUME TypeOK, [Next]_vars PROVE TypeOK'
  OBVIOUS
<1> USE ClockAssumption DEF TypeOK, TickJobs, CheckerJobs, Positions, Absent
<1>1. CASE TimePasses
  BY <1>1 DEF TimePasses
<1>2. CASE StoreDefenseFlag
  BY <1>2 DEF StoreDefenseFlag
<1>3. CASE Admin
  <2>1. CASE PauseRequest
    BY <2>1 DEF PauseRequest, AdminSteps, FloorMinute
  <2>2. CASE PauseCommit
    BY <2>2 DEF PauseCommit, AdminSteps
  <2>3. CASE UnpauseRequest
    BY <2>3 DEF UnpauseRequest, AdminSteps, Pivot, FloorMinute
  <2>4. CASE UnpauseSetLast
    BY <2>4 DEF UnpauseSetLast, AdminSteps
  <2>5. CASE UnpauseCommit
    BY <2>5 DEF UnpauseCommit, AdminSteps
  <2>6. CASE ResetGame
    <3>1. <<0, 0>> \in Positions
      OBVIOUS
    <3>2. Never \in Nat
      BY DEF Never
    <3>3. wasCurrent' \subseteq Positions
      BY <2>6, <3>1 DEF ResetGame
    <3>4. currentTick' \in 0 .. NumberTick /\ startTime' \in Nat
      BY <2>6, <3>2 DEF ResetGame
    <3>5. flagged' \subseteq {Defense} \cup Positions
      BY <2>6 DEF ResetGame
    <3>6. /\ freezeTick' \in {Absent} \cup (0 .. NumberTick)
          /\ freezeRound' \in {Absent} \cup Nat
      BY <2>6 DEF ResetGame
    <3>7. lastTickChange' \in Int /\ lastPaused' \in Int /\ currentRound' \in Nat
      BY <2>6 DEF ResetGame
    <3>8. isPaused' \in BOOLEAN /\ defenseStored' \in BOOLEAN
      BY <2>6 DEF ResetGame
    <3>9. requests' \in Nat /\ resets' \in Nat
      BY <2>6 DEF ResetGame
    <3>10. UNCHANGED <<now, tickJob, checkerJob, admin, checked, crashes,
                       changedAt, ran, pauses>>
      BY <2>6 DEF ResetGame
    <3> HIDE DEF Positions, TickJobs, CheckerJobs
    <3> QED
      BY <3>3, <3>4, <3>5, <3>6, <3>7, <3>8, <3>9, <3>10
  <2>7. CASE SetStartTime
    BY <2>7 DEF SetStartTime
  <2> QED
    BY <1>3, <2>1, <2>2, <2>3, <2>4, <2>5, <2>6, <2>7 DEF Admin
<1>4. ASSUME NEW k \in Keepers, FireTick(k) \/ FireChecker(k) \/ KeeperCrash(k)
      PROVE TypeOK'
  <2>1. CASE FireTick(k)
    BY <2>1 DEF FireTick, TickSteps
  <2>2. CASE FireChecker(k)
    BY <2>2 DEF FireChecker, CheckerSteps
  <2>3. CASE KeeperCrash(k)
    BY <2>3 DEF KeeperCrash, TickSteps, CheckerSteps
  <2> QED
    BY <1>4, <2>1, <2>2, <2>3
<1>5. ASSUME NEW k \in Keepers, TickKeeper(k)
      PROVE TypeOK'
  <2>1. CASE TickCheck(k)
    BY <2>1 DEF TickCheck, TickGoto, TickSteps
  <2>2. CASE TickReadLast(k)
    BY <2>2 DEF TickReadLast, TickSteps, LastChangeOr1990
  <2>3. CASE TickFreezeRound(k)
    BY <2>3 DEF TickFreezeRound, TickGoto, TickSteps, RoundOr1
  <2>4. CASE TickReadTick(k)
    <3>1. tickJob' = [tickJob EXCEPT ![k] =
                        [@ EXCEPT !.pc = "readRound", !.tick = currentTick]]
      BY <2>4 DEF TickReadTick
    <3>2. tickJob' \in [Keepers -> TickJobs]
      <4>1. {"readRound", "flagRound", "flagPublish"} \subseteq TickSteps
        BY DEF TickSteps
      <4>2. currentTick \in 0 .. NumberTick /\ currentRound \in Nat
        OBVIOUS
      <4>3. tickJob \in [Keepers -> TickJobs]
        OBVIOUS
      <4> HIDE DEF TypeOK, TickJobs
      <4> QED
        BY <3>1, <4>1, <4>2, <4>3, TickJobsKept
    <3> QED
      BY <2>4, <3>2 DEF TickReadTick
  <2>5. CASE TickReadRound(k)
    <3> DEFINE t == IF Wraps(tickJob[k].tick) THEN 1 ELSE tickJob[k].tick + 1
               r == NewRound(tickJob[k].tick)
    <3>1. t \in 0 .. NumberTick /\ r \in Nat
      BY DEF NewRound, RoundOr1, Wraps
    <3>2. tickJob' = [tickJob EXCEPT ![k] =
                        [@ EXCEPT !.pc = "setTick", !.tick = t, !.round = r]]
      BY <2>5 DEF TickReadRound
    <3> HIDE DEF t, r
    <3>3. tickJob' \in [Keepers -> TickJobs]
      <4>1. "setTick" \in TickSteps
        BY DEF TickSteps
      <4>2. tickJob \in [Keepers -> TickJobs]
        OBVIOUS
      <4> HIDE DEF TypeOK, TickJobs
      <4> QED
        BY <3>1, <3>2, <4>1, <4>2, TickJobsKept
    <3> QED
      BY <2>5, <3>3 DEF TickReadRound
  <2>6. CASE TickSetTick(k)
    BY <2>6 DEF TickSetTick, TickGoto, TickSteps
  <2>7. CASE TickSetRound(k)
    BY <2>7 DEF TickSetRound, TickGoto, TickSteps
  <2>8. CASE TickSetLast(k)
    BY <2>8 DEF TickSetLast, TickGoto, TickSteps
  <2> QED
    BY <1>5, <2>1, <2>2, <2>3, <2>4, <2>5, <2>6, <2>7, <2>8 DEF TickKeeper
<1>6. ASSUME NEW k \in Keepers, FlagKeeper(k)
      PROVE TypeOK'
  <2>1. CASE FlagCheck(k)
    BY <2>1, SMTT(30) DEF FlagCheck, TickGoto, TickSteps
  <2>2. CASE FlagReadTick(k)
    <3>1. tickJob' = [tickJob EXCEPT ![k] =
                        [@ EXCEPT !.pc = "flagRound", !.tick = currentTick]]
      BY <2>2 DEF FlagReadTick
    <3>2. tickJob' \in [Keepers -> TickJobs]
      <4>1. {"readRound", "flagRound", "flagPublish"} \subseteq TickSteps
        BY DEF TickSteps
      <4>2. currentTick \in 0 .. NumberTick /\ currentRound \in Nat
        OBVIOUS
      <4>3. tickJob \in [Keepers -> TickJobs]
        OBVIOUS
      <4> HIDE DEF TypeOK, TickJobs
      <4> QED
        BY <3>1, <4>1, <4>2, <4>3, TickJobsKept
    <3> QED
      BY <2>2, <3>2 DEF FlagReadTick
  <2>3. CASE FlagReadRound(k)
    <3>1. tickJob' = [tickJob EXCEPT ![k] =
                        [@ EXCEPT !.pc = "flagPublish", !.round = currentRound]]
      BY <2>3 DEF FlagReadRound
    <3>2. tickJob' \in [Keepers -> TickJobs]
      <4>1. {"readRound", "flagRound", "flagPublish"} \subseteq TickSteps
        BY DEF TickSteps
      <4>2. currentTick \in 0 .. NumberTick /\ currentRound \in Nat
        OBVIOUS
      <4>3. tickJob \in [Keepers -> TickJobs]
        OBVIOUS
      <4> HIDE DEF TypeOK, TickJobs
      <4> QED
        BY <3>1, <4>1, <4>2, <4>3, TickJobsKept
    <3> QED
      BY <2>3, <3>2 DEF FlagReadRound
  <2>4. CASE FlagPublish(k)
    BY <2>4 DEF FlagPublish, TickGoto, TickSteps, Labels
  <2> QED
    BY <1>6, <2>1, <2>2, <2>3, <2>4 DEF FlagKeeper
<1>7. ASSUME NEW k \in Keepers, CheckerKeeper(k)
      PROVE TypeOK'
  <2>1. CASE CheckerCheck(k)
    BY <2>1 DEF CheckerCheck, CheckerGoto, CheckerSteps
  <2>2. CASE CheckerReadTick(k)
    BY <2>2 DEF CheckerReadTick, CheckerSteps
  <2>3. CASE CheckerReadRound(k)
    BY <2>3 DEF CheckerReadRound, CheckerSteps
  <2>4. CASE CheckerPublish(k)
    BY <2>4 DEF CheckerPublish, CheckerGoto, CheckerSteps, Labels
  <2> QED
    BY <1>7, <2>1, <2>2, <2>3, <2>4 DEF CheckerKeeper
<1>8. CASE UNCHANGED vars
  BY <1>8 DEF vars
<1> QED
  BY <1>1, <1>2, <1>3, <1>4, <1>5, <1>6, <1>7, <1>8 DEF Next

\* Every row, job and request stays in its type, however many keepers run and
\* wherever they crash.
THEOREM TypeCorrect == Spec => []TypeOK
BY TypeInit, TypeStep, PTL DEF Spec
-----------------------------------------------------------------------------
(* The bound on CURRENT_ROUND.  It rests on there being one keeper: between *)
(* the running check of its tick job and the commit of the new round nobody *)
(* else moves the round forward.                                            *)

SoleKeeper == \A j, k \in Keepers : j = k

RoundInv ==
  /\ RoundBounded
  /\ \A k \in Keepers :
       /\ tickJob[k].pc \in {"last", "freezeRound", "readTick", "readRound"}
            => currentRound <= NumberRound
       /\ tickJob[k].pc \in {"setTick", "setRound"}
            => tickJob[k].round <= NumberRound + 1

\* A contest that has not begun is far from its last round.
LEMMA RoundInit == Init => RoundInv
BY ClockAssumption DEF Init, RoundInv, RoundBounded, IdleTickJob

\* Each commit of the sole tick job, a reset and a crash keep the strengthened bound.
LEMMA RoundStep ==
  ASSUME SoleKeeper, TypeOK, RoundInv, [Next]_vars
  PROVE  RoundInv'
<1> USE ClockAssumption DEF TypeOK, RoundInv, RoundBounded
<1>1. CASE UNCHANGED <<currentRound, tickJob>>
  BY <1>1
<1>2. CASE ResetGame
  BY <1>2 DEF ResetGame
<1>3. ASSUME NEW k \in Keepers, FireTick(k) \/ KeeperCrash(k)
      PROVE RoundInv'
  BY <1>3 DEF FireTick, KeeperCrash, TickJobs
<1>4. ASSUME NEW k \in Keepers, TickKeeper(k)
      PROVE RoundInv'
  <2> \A j \in Keepers : j = k
    BY DEF SoleKeeper
  <2>1. CASE TickCheck(k)
    BY <2>1 DEF TickCheck, TickGoto, Running, Finished, TickJobs
  <2>2. CASE TickReadLast(k)
    BY <2>2 DEF TickReadLast, TickJobs
  <2>3. CASE TickFreezeRound(k)
    BY <2>3 DEF TickFreezeRound, TickGoto, TickJobs
  <2>4. CASE TickReadTick(k)
    BY <2>4 DEF TickReadTick, TickJobs
  <2>5. CASE TickReadRound(k)
    <3>1. NewRound(tickJob[k].tick) <= NumberRound + 1
      BY <2>5 DEF TickReadRound, NewRound, RoundOr1
    <3>2. tickJob'[k].pc = "setTick" /\ tickJob'[k].round <= NumberRound + 1
      BY <2>5, <3>1 DEF TickReadRound, TickJobs
    <3> QED
      BY <2>5, <3>2 DEF TickReadRound
  <2>6. CASE TickSetTick(k)
    BY <2>6 DEF TickSetTick, TickGoto, TickJobs
  <2>7. CASE TickSetRound(k)
    BY <2>7 DEF TickSetRound, TickGoto, TickJobs
  <2>8. CASE TickSetLast(k)
    BY <2>8 DEF TickSetLast, TickGoto, TickJobs
  <2> QED
    BY <1>4, <2>1, <2>2, <2>3, <2>4, <2>5, <2>6, <2>7, <2>8 DEF TickKeeper
<1>5. ASSUME NEW k \in Keepers, FlagKeeper(k)
      PROVE RoundInv'
  <2>1. tickJob'[k].pc \notin {"last", "freezeRound", "readTick", "readRound",
                               "setTick", "setRound"}
    BY <1>5 DEF FlagKeeper, FlagCheck, FlagReadTick, FlagReadRound, FlagPublish,
                TickGoto, TickJobs
  <2>2. UNCHANGED currentRound
    BY <1>5 DEF FlagKeeper, FlagCheck, FlagReadTick, FlagReadRound, FlagPublish
  <2> QED
    BY <2>1, <2>2 DEF SoleKeeper
<1>6. ASSUME NEW k \in Keepers, CheckerKeeper(k) \/ FireChecker(k)
      PROVE UNCHANGED <<currentRound, tickJob>>
  BY <1>6 DEF CheckerKeeper, CheckerCheck, CheckerReadTick, CheckerReadRound,
              CheckerPublish, FireChecker
<1>7. CASE Admin
  BY <1>1, <1>2, <1>7 DEF Admin, PauseRequest, PauseCommit, UnpauseRequest,
                          UnpauseSetLast, UnpauseCommit, SetStartTime
<1>8. CASE TimePasses \/ StoreDefenseFlag \/ UNCHANGED vars
  BY <1>1, <1>8 DEF TimePasses, StoreDefenseFlag, vars
<1> QED
  BY <1>1, <1>3, <1>4, <1>5, <1>6, <1>7, <1>8 DEF Next

\* With one keeper CURRENT_ROUND never passes NUMBER_ROUND + 1, whatever the
\* administrator does meanwhile and wherever the keeper crashes.
THEOREM RoundStaysBounded == SoleKeeper => (Spec => []RoundBounded)
<1> SUFFICES ASSUME SoleKeeper PROVE Spec => []RoundBounded
  OBVIOUS
<1>1. TypeOK /\ RoundInv /\ [Next]_vars => RoundInv'
  BY RoundStep
<1>2. RoundInv => RoundBounded
  BY DEF RoundInv
<1> QED
  BY RoundInit, TypeCorrect, <1>1, <1>2, PTL DEF Spec
-----------------------------------------------------------------------------
(* The refinement of ContestSchedule, for one keeper that does not crash    *)
(* and requests that do not overlap its tick job.                           *)

Serial == SoleKeeper /\ Overlap = FALSE /\ MaxCrashes = 0

\* The position that follows round r, tick t.
Following(r, t) ==
  IF t < NumberTick THEN <<IF r = 0 THEN 1 ELSE r, t + 1>> ELSE <<r + 1, 1>>

\* The admin's request and the tick job exclude each other.
ExclusionInv == \A k \in Keepers : tickJob[k].pc # "idle" => admin.pc = "idle"

AdminInv ==
  /\ admin.pc = "pause" => ~isPaused
  /\ admin.pc \in {"setLast", "unpause"} => isPaused

\* What the tick job of k knows at each of its steps.
JobInv(k) ==
  /\ tickJob[k].pc \in {"last", "freezeRound", "readTick", "readRound", "setTick"}
       => ~isPaused /\ currentRound <= NumberRound
  /\ tickJob[k].pc = "readRound" => tickJob[k].tick = currentTick
  /\ tickJob[k].pc = "setTick"
       => <<tickJob[k].round, tickJob[k].tick>> = Following(currentRound, currentTick)
  /\ tickJob[k].pc = "setRound" => tickJob[k].round # 0
  /\ tickJob[k].pc # "setRound" => (currentRound = 0 => currentTick = 0)

ScheduleInv ==
  /\ ExclusionInv
  /\ AdminInv
  /\ \A k \in Keepers : JobInv(k)

\* No job holds anything yet.
LEMMA ScheduleInvInit == Init => ScheduleInv
BY DEF Init, ScheduleInv, ExclusionInv, AdminInv, JobInv, IdleTickJob, IdleAdmin

\* With one keeper and requests outside tick jobs, what a job holds stays equal to the rows.
LEMMA ScheduleInvStep ==
  ASSUME Serial, TypeOK, ScheduleInv, [Next]_vars
  PROVE  ScheduleInv'
<1> USE ClockAssumption DEF TypeOK
<1> DEFINE Unmoved == UNCHANGED <<currentTick, currentRound, isPaused, tickJob, admin>>
<1>1. CASE Unmoved
  BY <1>1 DEF ScheduleInv, ExclusionInv, AdminInv, JobInv, Following
<1>2. CASE TimePasses \/ StoreDefenseFlag \/ SetStartTime \/ UNCHANGED vars
  BY <1>1, <1>2 DEF TimePasses, StoreDefenseFlag, SetStartTime, vars
<1>3. ASSUME NEW k \in Keepers, CheckerKeeper(k) \/ FireChecker(k)
      PROVE ScheduleInv'
  BY <1>1, <1>3 DEF CheckerKeeper, CheckerCheck, CheckerReadTick, CheckerReadRound,
                    CheckerPublish, FireChecker
<1>4. CASE PauseRequest \/ PauseCommit \/ UnpauseRequest \/ UnpauseSetLast
           \/ UnpauseCommit \/ ResetGame
  <2>1. \A k \in Keepers : tickJob[k].pc = "idle" /\ tickJob'[k].pc = "idle"
    BY <1>4 DEF Serial, MayRequest, ScheduleInv, ExclusionInv, PauseRequest,
         PauseCommit, UnpauseRequest, UnpauseSetLast, UnpauseCommit, ResetGame
  <2>2. AdminInv'
    BY <1>4 DEF MayRequest, ScheduleInv, AdminInv, PauseRequest, PauseCommit,
         UnpauseRequest, UnpauseSetLast, UnpauseCommit, ResetGame
  <2>3. UNCHANGED <<currentTick, currentRound>> \/ (currentTick' = 0 /\ currentRound' = 0)
    BY <1>4 DEF PauseRequest, PauseCommit, UnpauseRequest, UnpauseSetLast,
         UnpauseCommit, ResetGame
  <2> QED
    BY <2>1, <2>2, <2>3 DEF ScheduleInv, ExclusionInv, JobInv
<1>5. ASSUME NEW k \in Keepers, FireTick(k)
      PROVE ScheduleInv'
  BY <1>5 DEF FireTick, Serial, SoleKeeper, ScheduleInv, ExclusionInv, AdminInv,
              JobInv, TickJobs
<1>6. ASSUME NEW k \in Keepers, TickKeeper(k) \/ FlagKeeper(k)
      PROVE ScheduleInv'
  <2>1. /\ UNCHANGED <<isPaused, admin>>
        /\ tickJob[k].pc # "idle"
    BY <1>6 DEF TickKeeper, FlagKeeper, TickCheck, TickReadLast, TickFreezeRound,
         TickReadTick, TickReadRound, TickSetTick, TickSetRound, TickSetLast,
         FlagCheck, FlagReadTick, FlagReadRound, FlagPublish
  <2>2. ExclusionInv' /\ AdminInv'
    BY <2>1 DEF ScheduleInv, ExclusionInv, AdminInv, Serial, SoleKeeper
  <2>3. JobInv(k)
    BY DEF ScheduleInv
  <2>4. JobInv(k)'
    <3>1. CASE TickCheck(k)
      BY <2>3, <3>1 DEF JobInv, TickCheck, TickGoto, Running, Finished, TickJobs
    <3>2. CASE TickReadLast(k)
      BY <2>3, <3>2 DEF JobInv, TickReadLast, TickJobs
    <3>3. CASE TickFreezeRound(k)
      BY <2>3, <3>3 DEF JobInv, TickFreezeRound, TickGoto, TickJobs
    <3>4. CASE TickReadTick(k)
      <4>1. tickJob'[k].pc = "readRound" /\ tickJob'[k].tick = currentTick
        BY <3>4 DEF TickReadTick, TickJobs
      <4> QED
        BY <2>3, <3>4, <4>1 DEF JobInv, TickReadTick
    <3>5. CASE TickReadRound(k)
      <4>1. /\ tickJob'[k].pc = "setTick"
            /\ tickJob'[k].tick = IF Wraps(currentTick) THEN 1 ELSE currentTick + 1
            /\ tickJob'[k].round = NewRound(currentTick)
        BY <2>3, <3>5 DEF JobInv, TickReadRound, TickJobs
      <4>2. <<tickJob'[k].round, tickJob'[k].tick>> = Following(currentRound, currentTick)
        BY <2>3, <3>5, <4>1 DEF JobInv, TickReadRound, Following, NewRound, Wraps, RoundOr1
      <4> QED
        BY <2>3, <3>5, <4>1, <4>2 DEF JobInv, TickReadRound, Following
    <3>6. CASE TickSetTick(k)
      <4>1. tickJob'[k].pc = "setRound" /\ tickJob'[k].round = tickJob[k].round
        BY <3>6 DEF TickSetTick, TickGoto, TickJobs
      <4>2. tickJob[k].round # 0
        BY <2>3, <3>6 DEF JobInv, TickSetTick, Following
      <4> QED
        BY <4>1, <4>2 DEF JobInv
    <3>7. CASE TickSetRound(k)
      <4>1. tickJob'[k].pc = "setLast" /\ currentRound' # 0
        BY <2>3, <3>7 DEF JobInv, TickSetRound, TickGoto, TickJobs
      <4> QED
        BY <4>1 DEF JobInv
    <3>8. CASE TickSetLast(k) \/ FlagKeeper(k)
      <4>1. /\ tickJob'[k].pc \in {"idle", "flags", "flagTick", "flagRound", "flagPublish"}
            /\ tickJob[k].pc # "setRound"
            /\ UNCHANGED <<currentTick, currentRound>>
        BY <3>8 DEF TickSetLast, FlagKeeper, FlagCheck, FlagReadTick, FlagReadRound,
                    FlagPublish, TickGoto, TickJobs
      <4> QED
        BY <2>3, <4>1 DEF JobInv
    <3> QED
      BY <1>6, <3>1, <3>2, <3>3, <3>4, <3>5, <3>6, <3>7, <3>8 DEF TickKeeper
  <2> QED
    BY <2>2, <2>4 DEF ScheduleInv, Serial, SoleKeeper
<1>7. ASSUME NEW k \in Keepers, KeeperCrash(k)
      PROVE FALSE
  BY <1>7 DEF KeeperCrash, Serial
<1> QED
  BY <1>2, <1>3, <1>4, <1>5, <1>6, <1>7 DEF Next, Admin

\* With a sole keeper the mapped round is that keeper's.
LEMMA ScheduleRoundOf ==
  ASSUME SoleKeeper, NEW k \in Keepers
  PROVE  ScheduleRound = IF tickJob[k].pc = "setRound" THEN tickJob[k].round
                         ELSE currentRound
BY DEF SoleKeeper, ScheduleRound

\* An empty configuration table maps to the schedule before its first tick.
LEMMA ScheduleInitRefines == Init => Schedule!Init
BY DEF Init, Schedule!Init, ScheduleRound, IdleTickJob

\* Every step of the clock maps to a step of the schedule or to a stutter.
LEMMA ScheduleStepRefines ==
  ASSUME Serial, TypeOK, ScheduleInv, [Next]_vars
  PROVE  [Schedule!Next]_(Schedule!vars)
<1> USE DEF Schedule!vars
<1> USE ClockAssumption
<1>1. ASSUME UNCHANGED <<currentTick, currentRound, isPaused, tickJob>>
      PROVE UNCHANGED <<ScheduleRound, currentTick, isPaused>>
  BY <1>1 DEF ScheduleRound
<1>2. CASE TimePasses \/ StoreDefenseFlag \/ SetStartTime \/ PauseRequest
           \/ UnpauseRequest \/ UnpauseSetLast \/ UNCHANGED vars
  BY <1>1, <1>2 DEF TimePasses, StoreDefenseFlag, SetStartTime, PauseRequest,
                    UnpauseRequest, UnpauseSetLast, vars
<1>3. ASSUME NEW k \in Keepers, CheckerKeeper(k) \/ FireChecker(k)
      PROVE UNCHANGED <<ScheduleRound, currentTick, isPaused>>
  BY <1>1, <1>3 DEF CheckerKeeper, CheckerCheck, CheckerReadTick, CheckerReadRound,
                    CheckerPublish, FireChecker
<1>4. CASE PauseCommit
  <2>1. UNCHANGED <<ScheduleRound, currentTick>>
    BY <1>4 DEF PauseCommit, ScheduleRound
  <2>2. ~isPaused /\ isPaused' = TRUE
    BY <1>4 DEF PauseCommit, ScheduleInv, AdminInv
  <2> QED
    BY <2>1, <2>2 DEF Schedule!Next, Schedule!Pause
<1>5. CASE UnpauseCommit
  <2>1. UNCHANGED <<ScheduleRound, currentTick>>
    BY <1>5 DEF UnpauseCommit, ScheduleRound
  <2>2. isPaused /\ isPaused' = FALSE
    BY <1>5 DEF UnpauseCommit, ScheduleInv, AdminInv
  <2> QED
    BY <2>1, <2>2 DEF Schedule!Next, Schedule!Resume
<1>6. CASE ResetGame
  <2>1. \A k \in Keepers : tickJob'[k].pc # "setRound"
    BY <1>6 DEF ResetGame, MayRequest, Serial
  <2>2. ScheduleRound' = 0
    BY <1>6, <2>1 DEF ResetGame, ScheduleRound
  <2> QED
    BY <1>6, <2>2 DEF ResetGame, Schedule!Next, Schedule!Reset
<1>7. ASSUME NEW k \in Keepers, FireTick(k) \/ TickKeeper(k) \/ FlagKeeper(k)
      PROVE [Schedule!Next]_(Schedule!vars)
  <2> DEFINE RoundOf == IF tickJob[k].pc = "setRound" THEN tickJob[k].round
                        ELSE currentRound
  <2>1. ScheduleRound = RoundOf
    BY ScheduleRoundOf DEF Serial
  <2>2. ScheduleRound' = RoundOf'
    BY DEF Serial, SoleKeeper, ScheduleRound
  <2>3. JobInv(k)
    BY DEF ScheduleInv
  <2>4. UNCHANGED isPaused
    BY <1>7 DEF FireTick, TickKeeper, FlagKeeper, TickCheck, TickReadLast,
         TickFreezeRound, TickReadTick, TickReadRound, TickSetTick, TickSetRound,
         TickSetLast, FlagCheck, FlagReadTick, FlagReadRound, FlagPublish
  <2>5. CASE TickSetTick(k)
    <3>1. /\ tickJob[k].pc = "setTick" /\ tickJob'[k].pc = "setRound"
          /\ tickJob'[k].round = tickJob[k].round
          /\ currentTick' = tickJob[k].tick
      BY <2>5 DEF TickSetTick, TickGoto, TypeOK, TickJobs
    <3>2. <<ScheduleRound', currentTick'>> = Following(ScheduleRound, currentTick)
      BY <2>1, <2>2, <2>3, <3>1 DEF JobInv
    <3>3. ~isPaused /\ ScheduleRound <= NumberRound
      BY <2>1, <2>3, <3>1 DEF JobInv
    <3> QED
      BY <2>4, <3>2, <3>3 DEF Schedule!Next, Schedule!Advance,
         Schedule!NextPosition, Following
  <2>6. CASE TickSetRound(k)
    <3>1. /\ tickJob[k].pc = "setRound" /\ tickJob'[k].pc = "setLast"
          /\ currentRound' = tickJob[k].round
          /\ UNCHANGED currentTick
      BY <2>6 DEF TickSetRound, TickGoto, TypeOK, TickJobs
    <3> QED
      BY <2>1, <2>2, <2>4, <3>1
  <2>7. CASE ~TickSetTick(k) /\ ~TickSetRound(k)
    <3>1. /\ tickJob[k].pc # "setRound" /\ tickJob'[k].pc # "setRound"
          /\ UNCHANGED <<currentTick, currentRound>>
      BY <1>7, <2>7 DEF FireTick, TickKeeper, FlagKeeper, TickCheck, TickReadLast,
         TickFreezeRound, TickReadTick, TickReadRound, TickSetLast, FlagCheck,
         FlagReadTick, FlagReadRound, FlagPublish, TickGoto, TypeOK, TickJobs
    <3> QED
      BY <2>1, <2>2, <2>4, <3>1
  <2> QED
    BY <2>5, <2>6, <2>7
<1>8. ASSUME NEW k \in Keepers, KeeperCrash(k)
      PROVE FALSE
  BY <1>8 DEF KeeperCrash, Serial, TypeOK
<1> QED
  BY <1>2, <1>3, <1>4, <1>5, <1>6, <1>7, <1>8 DEF Next, Admin

\* One keeper that does not crash, and requests that wait for its tick job,
\* implement the schedule: for every number of ticks and rounds the contest
\* visits them in order, none twice and none while paused.
THEOREM ClockImplementsSchedule == Serial => (Spec => ImplementsSchedule)
<1> SUFFICES ASSUME Serial PROVE Spec => ImplementsSchedule
  OBVIOUS
<1>1. TypeOK /\ ScheduleInv /\ [Next]_vars => ScheduleInv'
  BY ScheduleInvStep
<1>2. TypeOK /\ ScheduleInv /\ [Next]_vars => [Schedule!Next]_(Schedule!vars)
  BY ScheduleStepRefines
<1> QED
  BY ScheduleInvInit, ScheduleInitRefines, TypeCorrect, <1>1, <1>2, PTL
     DEF Spec, ImplementsSchedule, Schedule!Spec
-----------------------------------------------------------------------------
(* PositionsShown, for one keeper whose jobs end before the next minute.    *)

\* Two turns of a minute less than a minute apart are one.
LEMMA SameTurn ==
  ASSUME NEW a \in Nat, NEW b \in Nat, a % Minute = 0, b % Minute = 0,
         a <= b, b < a + Minute
  PROVE  a = b
<1> USE ClockAssumption
<1> DEFINE p == a \div Minute
           q == b \div Minute
<1>1. p \in Int /\ q \in Int /\ a = Minute * p /\ b = Minute * q
  BY SMTT(30)
<1> HIDE DEF p, q
<1>2. Minute * (q - p) = b - a
  BY <1>1
<1>3. CASE q > p
  <2>1. q - p >= 1
    BY <1>1, <1>3
  <2>2. \A x, y \in Int : x >= 1 /\ y >= 1 => y * x >= y
    BY SMTT(30)
  <2> QED
    BY <1>1, <1>2, <2>1, <2>2
<1>4. CASE q <= p
  BY <1>1, <1>2, <1>4
<1> QED
  BY <1>1, <1>3, <1>4

\* A multiple of a minute is the turn of a minute.
LEMMA Multiple ==
  ASSUME NEW p \in Int, NEW b \in Nat, b = Minute * p
  PROVE  b % Minute = 0
<1> USE ClockAssumption
<1> DEFINE q == b \div Minute
           r == b % Minute
<1>1. q \in Int /\ b = Minute * q + r /\ r \in 0 .. (Minute - 1)
  BY SMTT(30)
<1> HIDE DEF q, r
<1>2. Minute * (p - q) = r
  BY <1>1
<1>3. CASE p - q >= 1
  <2>1. \A x, y \in Int : x >= 1 /\ y >= 1 => y * x >= y
    BY SMTT(30)
  <2> QED
    BY <1>1, <1>2, <1>3, <2>1
<1>4. CASE p - q <= 0
  <2>1. \A x, y \in Int : x <= 0 /\ y >= 1 => y * x <= 0
    BY SMTT(30)
  <2>2. r = 0
    BY <1>1, <1>2, <1>4, <2>1
  <2> QED
    BY <2>2 DEF r
<1> QED
  BY <1>1, <1>3, <1>4

\* A job in flight was started at the turn of a minute, at most MaxLag units ago.
InFlight(job) ==
  job.pc # "idle" =>
    /\ job.fired \in Nat /\ job.fired % Minute = 0
    /\ job.fired <= now /\ now <= job.fired + MaxLag

JobsInFlight == \A k \in Keepers : InFlight(tickJob[k]) /\ InFlight(checkerJob[k])

\* No job is in flight at first.
LEMMA InFlightInit == Init => JobsInFlight
BY DEF Init, JobsInFlight, InFlight, IdleTickJob, IdleCheckerJob

\* A job starts at a turn, and the clock waits for it.
LEMMA InFlightStep ==
  ASSUME TypeOK, JobsInFlight, [Next]_vars
  PROVE  JobsInFlight'
<1> USE ClockAssumption DEF TypeOK, TickJobs, CheckerJobs
<1>1. CASE TimePasses
  <2>1. ASSUME NEW k \in Keepers PROVE InFlight(tickJob[k])' /\ InFlight(checkerJob[k])'
    BY <1>1 DEF TimePasses, InTime, JobsInFlight, InFlight
  <2> QED
    BY <2>1 DEF JobsInFlight
<1>2. ASSUME now' = now,
             \A k \in Keepers :
               /\ tickJob'[k].pc # "idle" =>
                    tickJob[k].pc # "idle" /\ tickJob'[k].fired = tickJob[k].fired
               /\ checkerJob'[k].pc # "idle" =>
                    checkerJob[k].pc # "idle" /\ checkerJob'[k].fired = checkerJob[k].fired
      PROVE  JobsInFlight'
  BY <1>2 DEF JobsInFlight, InFlight
<1>3. ASSUME NEW k \in Keepers, FireTick(k) PROVE JobsInFlight'
  BY <1>3 DEF FireTick, JobsInFlight, InFlight
<1>4. ASSUME NEW k \in Keepers, FireChecker(k) PROVE JobsInFlight'
  BY <1>4 DEF FireChecker, JobsInFlight, InFlight
<1>5. CASE StoreDefenseFlag \/ Admin \/ UNCHANGED vars
  BY <1>2, <1>5 DEF StoreDefenseFlag, Admin, PauseRequest, PauseCommit, UnpauseRequest,
       UnpauseSetLast, UnpauseCommit, ResetGame, SetStartTime, vars
<1>6. ASSUME NEW k \in Keepers, TickKeeper(k) PROVE JobsInFlight'
  BY <1>2, <1>6 DEF TickKeeper, TickCheck, TickReadLast, TickFreezeRound, TickReadTick,
       TickReadRound, TickSetTick, TickSetRound, TickSetLast, TickGoto
<1>7. ASSUME NEW k \in Keepers, FlagKeeper(k) PROVE JobsInFlight'
  BY <1>2, <1>7 DEF FlagKeeper, FlagCheck, FlagReadTick, FlagReadRound, FlagPublish, TickGoto
<1>8. ASSUME NEW k \in Keepers, CheckerKeeper(k) PROVE JobsInFlight'
  BY <1>2, <1>8 DEF CheckerKeeper, CheckerCheck, CheckerReadTick, CheckerReadRound,
       CheckerPublish, CheckerGoto
<1>9. ASSUME NEW k \in Keepers, KeeperCrash(k) PROVE JobsInFlight'
  BY <1>2, <1>9 DEF KeeperCrash
<1> QED
  BY <1>1, <1>3, <1>4, <1>5, <1>6, <1>7, <1>8, <1>9 DEF Next

\* When jobs end within a minute, a tick job and a checker job in flight were started
\* at one turn, and a tick job is not started again while such a checker job runs.
LEMMA StartedTogether ==
  ASSUME TypeOK, JobsInFlight, MaxLag < Minute, NEW k \in Keepers, checkerJob[k].pc # "idle"
  PROVE  /\ tickJob[k].pc # "idle" => tickJob[k].fired = checkerJob[k].fired
         /\ FireTick(k) => tickJob[k].fired # checkerJob[k].fired
<1> USE ClockAssumption DEF TypeOK, JobsInFlight, InFlight
<1>1. InFlight(tickJob[k]) /\ InFlight(checkerJob[k])
  OBVIOUS
<1>2. ASSUME tickJob[k].pc # "idle" PROVE tickJob[k].fired = checkerJob[k].fired
  BY <1>1, <1>2, SameTurn
<1>3. ASSUME FireTick(k) PROVE tickJob[k].fired # checkerJob[k].fired
  BY <1>1, <1>3, SameTurn DEF FireTick
<1> QED
  BY <1>2, <1>3

\* The position that is current is remembered, and no position is forgotten.
LEMMA ShownStep ==
  ASSUME TypeOK, position \in wasCurrent, [Next]_vars
  PROVE  /\ position' \in wasCurrent' /\ wasCurrent \subseteq wasCurrent'
         /\ resets' = 0 => resets = 0
<1> USE DEF position
<1>1. CASE UNCHANGED <<currentTick, currentRound, wasCurrent, resets>>
  BY <1>1
<1>2. CASE ResetGame
  BY <1>2 DEF ResetGame, TypeOK
<1>3. ASSUME NEW k \in Keepers, TickSetTick(k) \/ TickSetRound(k)
      PROVE  /\ position' \in wasCurrent' /\ wasCurrent \subseteq wasCurrent'
             /\ resets' = resets
  BY <1>3 DEF TickSetTick, TickSetRound
<1>4. CASE TimePasses \/ StoreDefenseFlag \/ UNCHANGED vars
  BY <1>1, <1>4 DEF TimePasses, StoreDefenseFlag, vars
<1>5. CASE Admin
  BY <1>1, <1>2, <1>5 DEF Admin, PauseRequest, PauseCommit, UnpauseRequest,
       UnpauseSetLast, UnpauseCommit, SetStartTime
<1>6. ASSUME NEW k \in Keepers, FireTick(k) \/ FireChecker(k) \/ KeeperCrash(k)
      PROVE  UNCHANGED <<currentTick, currentRound, wasCurrent, resets>>
  BY <1>6 DEF FireTick, FireChecker, KeeperCrash
<1>7. ASSUME NEW k \in Keepers, TickKeeper(k), ~TickSetTick(k), ~TickSetRound(k)
      PROVE  UNCHANGED <<currentTick, currentRound, wasCurrent, resets>>
  BY <1>7 DEF TickKeeper, TickCheck, TickReadLast, TickFreezeRound, TickReadTick,
       TickReadRound, TickSetLast
<1>8. ASSUME NEW k \in Keepers, FlagKeeper(k) \/ CheckerKeeper(k)
      PROVE  UNCHANGED <<currentTick, currentRound, wasCurrent, resets>>
  BY <1>8 DEF FlagKeeper, FlagCheck, FlagReadTick, FlagReadRound, FlagPublish,
       CheckerKeeper, CheckerCheck, CheckerReadTick, CheckerReadRound, CheckerPublish
<1> QED
  BY <1>1, <1>3, <1>4, <1>5, <1>6, <1>7, <1>8 DEF Next

\* Between the commits of FREEZE_TICK and FREEZE_ROUND the position stays where it is,
\* and the second is only committed after the first.
FreezeInv ==
  /\ FreezeSnapshot
  /\ resets = 0 =>
       /\ freezeTick = Absent => freezeRound = Absent
       /\ \A k \in Keepers : tickJob[k].pc = "freezeRound" =>
            freezeTick = currentTick /\ freezeRound = Absent

\* Nobody moves the position between the two commits of the freeze.
LEMMA FreezeStep ==
  ASSUME SoleKeeper, TypeOK, position \in wasCurrent, FreezeInv, [Next]_vars
  PROVE  FreezeInv'
<1> USE DEF TypeOK
<1>1. wasCurrent \subseteq wasCurrent' /\ (resets' = 0 => resets = 0)
  BY ShownStep
<1>2. ASSUME UNCHANGED <<currentTick, freezeTick, freezeRound>>,
             \A k \in Keepers :
               tickJob'[k].pc = "freezeRound" <=> tickJob[k].pc = "freezeRound"
      PROVE  FreezeInv'
  BY <1>1, <1>2 DEF FreezeInv, FreezeSnapshot
<1>3. ASSUME UNCHANGED <<freezeTick, freezeRound>>, NEW k \in Keepers,
             \/ tickJob[k].pc # "freezeRound"
             \/ resets = 0 => freezeRound = Absent,
             tickJob'[k].pc # "freezeRound"
      PROVE  FreezeInv'
  BY <1>1, <1>3 DEF FreezeInv, FreezeSnapshot, SoleKeeper
<1>4. CASE TimePasses \/ StoreDefenseFlag \/ UNCHANGED vars
  BY <1>2, <1>4 DEF TimePasses, StoreDefenseFlag, vars
<1>5. CASE ResetGame
  BY <1>5 DEF ResetGame, FreezeInv, FreezeSnapshot
<1>6. CASE Admin
  BY <1>2, <1>5, <1>6 DEF Admin, PauseRequest, PauseCommit, UnpauseRequest,
       UnpauseSetLast, UnpauseCommit, SetStartTime
<1>7. ASSUME NEW k \in Keepers, FireTick(k) \/ KeeperCrash(k) PROVE FreezeInv'
  <2>1. UNCHANGED <<freezeTick, freezeRound>> /\ tickJob'[k].pc # "freezeRound"
    BY <1>7 DEF FireTick, KeeperCrash, TickJobs
  <2>2. tickJob[k].pc # "freezeRound" \/ (resets = 0 => freezeRound = Absent)
    BY DEF FreezeInv
  <2> QED
    BY <1>3, <2>1, <2>2
<1>8. ASSUME NEW k \in Keepers, CheckerKeeper(k) \/ FireChecker(k) PROVE FreezeInv'
  BY <1>2, <1>8 DEF CheckerKeeper, CheckerCheck, CheckerReadTick, CheckerReadRound,
       CheckerPublish, FireChecker
<1>9. ASSUME NEW k \in Keepers, TickReadLast(k) PROVE FreezeInv'
  <2>1. CASE now >= FreezeTime /\ freezeTick = Absent
    <3>1. /\ tickJob'[k].pc = "freezeRound"
          /\ freezeTick' = currentTick' /\ freezeRound' = freezeRound
          /\ freezeTick' # Absent
      BY <1>9, <2>1 DEF TickReadLast, TickJobs, Absent
    <3> QED
      BY <1>1, <2>1, <3>1 DEF FreezeInv, FreezeSnapshot, SoleKeeper
  <2>2. CASE ~(now >= FreezeTime /\ freezeTick = Absent)
    <3>1. /\ UNCHANGED <<freezeTick, freezeRound>>
          /\ tickJob[k].pc # "freezeRound" /\ tickJob'[k].pc # "freezeRound"
      BY <1>9, <2>2 DEF TickReadLast, TickJobs
    <3> QED
      BY <1>3, <3>1
  <2> QED
    BY <2>1, <2>2
<1>10. ASSUME NEW k \in Keepers, TickFreezeRound(k) PROVE FreezeInv'
  <2>1. /\ tickJob[k].pc = "freezeRound" /\ tickJob'[k].pc # "freezeRound"
        /\ freezeRound' = RoundOr1 /\ freezeTick' = freezeTick
        /\ resets' = resets
    BY <1>10 DEF TickFreezeRound, TickGoto, TickJobs
  <2>2. resets = 0 => <<freezeRound', freezeTick'>> =
          <<IF position[1] = 0 THEN 1 ELSE position[1], position[2]>>
    BY <2>1 DEF FreezeInv, RoundOr1, position
  <2>3. freezeTick = Absent => resets # 0
    BY <2>1 DEF FreezeInv, Absent
  <2>4. \A j \in Keepers : tickJob'[j].pc # "freezeRound"
    BY <2>1 DEF SoleKeeper
  <2>5. position \in wasCurrent'
    BY <1>1
  <2>6. FreezeSnapshot'
    BY <2>1, <2>2, <2>5 DEF FreezeSnapshot
  <2> QED
    BY <2>1, <2>3, <2>4, <2>6 DEF FreezeInv
<1>11. ASSUME NEW k \in Keepers, TickKeeper(k), ~TickReadLast(k), ~TickFreezeRound(k)
       PROVE  FreezeInv'
  <2>1. UNCHANGED <<freezeTick, freezeRound>> /\ tickJob[k].pc # "freezeRound"
        /\ tickJob'[k].pc # "freezeRound"
    BY <1>11 DEF TickKeeper, TickCheck, TickReadTick, TickReadRound, TickSetTick,
         TickSetRound, TickSetLast, TickGoto, TickJobs
  <2> QED
    BY <1>3, <2>1
<1>12. ASSUME NEW k \in Keepers, FlagKeeper(k) PROVE FreezeInv'
  <2>1. UNCHANGED <<freezeTick, freezeRound>> /\ tickJob[k].pc # "freezeRound"
        /\ tickJob'[k].pc # "freezeRound"
    BY <1>12 DEF FlagKeeper, FlagCheck, FlagReadTick, FlagReadRound, FlagPublish,
         TickGoto, TickJobs
  <2> QED
    BY <1>3, <2>1
<1> QED
  BY <1>4, <1>6, <1>7, <1>8, <1>9, <1>10, <1>11, <1>12 DEF Next

\* What the tick job of k and the flags it publishes know of the position.
AdvanceInv(k) ==
  resets = 0 =>
    /\ tickJob[k].pc = "readRound" => tickJob[k].tick = currentTick
    /\ tickJob[k].pc = "setTick" => tickJob[k].round = RoundAfter(position)

BatchInv(k) ==
  /\ tickJob[k].pc = "flagRound" => tickJob[k].tick = currentTick \/ currentRound = 0
  /\ tickJob[k].pc = "flagPublish" =>
       tickJob[k].round = 0 \/ <<tickJob[k].round, tickJob[k].tick>> \in wasCurrent

FlagInv == FlagLabels /\ \A k \in Keepers : AdvanceInv(k) /\ BatchInv(k)

\* A batch of flags is labelled with the position its job has just read.
LEMMA FlagStep ==
  ASSUME SoleKeeper, TypeOK, position \in wasCurrent, FlagInv, [Next]_vars
  PROVE  FlagInv'
<1> USE DEF TypeOK
<1>1. wasCurrent \subseteq wasCurrent' /\ (resets' = 0 => resets = 0)
  BY ShownStep
<1>2. ASSUME UNCHANGED <<currentTick, currentRound, tickJob, flagged>> PROVE FlagInv'
  BY <1>1, <1>2 DEF FlagInv, FlagLabels, AdvanceInv, BatchInv, position
<1>3. ASSUME NEW k \in Keepers, flagged' = flagged,
             tickJob'[k].pc \notin {"readRound", "setTick", "flagRound", "flagPublish"}
      PROVE  FlagInv'
  BY <1>1, <1>3 DEF FlagInv, FlagLabels, AdvanceInv, BatchInv, SoleKeeper
<1>4. CASE TimePasses \/ StoreDefenseFlag \/ UNCHANGED vars
  BY <1>2, <1>4 DEF TimePasses, StoreDefenseFlag, vars
<1>5. CASE ResetGame
  <2>1. resets' # 0 /\ flagged' = {} /\ currentRound' = 0 /\ tickJob' = tickJob
    BY <1>5 DEF ResetGame
  <2> QED
    BY <1>1, <2>1 DEF FlagInv, FlagLabels, AdvanceInv, BatchInv
<1>6. CASE Admin
  BY <1>2, <1>5, <1>6 DEF Admin, PauseRequest, PauseCommit, UnpauseRequest,
       UnpauseSetLast, UnpauseCommit, SetStartTime
<1>7. ASSUME NEW k \in Keepers, FireTick(k) \/ KeeperCrash(k) PROVE FlagInv'
  <2>1. flagged' = flagged
        /\ tickJob'[k].pc \notin {"readRound", "setTick", "flagRound", "flagPublish"}
    BY <1>7 DEF FireTick, KeeperCrash, TickJobs
  <2> QED
    BY <1>3, <2>1
<1>8. ASSUME NEW k \in Keepers, CheckerKeeper(k) \/ FireChecker(k) PROVE FlagInv'
  BY <1>2, <1>8 DEF CheckerKeeper, CheckerCheck, CheckerReadTick, CheckerReadRound,
       CheckerPublish, FireChecker
<1>9. ASSUME NEW k \in Keepers, TickReadTick(k) PROVE FlagInv'
  <2>1. /\ tickJob'[k].pc = "readRound" /\ tickJob'[k].tick = currentTick'
        /\ flagged' = flagged
    BY <1>9 DEF TickReadTick, TickJobs
  <2> QED
    BY <1>1, <2>1 DEF FlagInv, FlagLabels, AdvanceInv, BatchInv, SoleKeeper
<1>10. ASSUME NEW k \in Keepers, TickReadRound(k) PROVE FlagInv'
  <2>1. /\ tickJob[k].pc = "readRound" /\ tickJob'[k].pc = "setTick"
        /\ tickJob'[k].round = NewRound(tickJob[k].tick)
        /\ flagged' = flagged /\ position' = position /\ resets' = resets
    BY <1>10 DEF TickReadRound, TickJobs, position
  <2>2. NewRound(currentTick) = RoundAfter(position)
    BY ClockAssumption DEF NewRound, Wraps, RoundOr1, RoundAfter, position
  <2>3. resets = 0 => tickJob'[k].round = RoundAfter(position')
    BY <2>1, <2>2 DEF FlagInv, AdvanceInv
  <2>4. AdvanceInv(k)'
    BY <2>1, <2>3 DEF AdvanceInv
  <2> QED
    BY <1>1, <2>1, <2>4 DEF FlagInv, FlagLabels, BatchInv, SoleKeeper
<1>11. ASSUME NEW k \in Keepers, TickKeeper(k), ~TickReadTick(k), ~TickReadRound(k)
       PROVE  FlagInv'
  <2>1. flagged' = flagged
        /\ tickJob'[k].pc \notin {"readRound", "setTick", "flagRound", "flagPublish"}
    BY <1>11 DEF TickKeeper, TickCheck, TickReadLast, TickFreezeRound, TickSetTick,
         TickSetRound, TickSetLast, TickGoto, TickJobs
  <2> QED
    BY <1>3, <2>1
<1>12. ASSUME NEW k \in Keepers, FlagCheck(k) PROVE FlagInv'
  <2>1. /\ tickJob'[k].pc \notin {"readRound", "setTick", "flagRound", "flagPublish"}
        /\ flagged' \subseteq flagged \cup {Defense}
    BY <1>12 DEF FlagCheck, TickGoto, TickJobs
  <2> QED
    BY <1>1, <2>1 DEF FlagInv, FlagLabels, AdvanceInv, BatchInv, SoleKeeper
<1>13. ASSUME NEW k \in Keepers, FlagReadTick(k) PROVE FlagInv'
  <2>1. /\ tickJob'[k].pc = "flagRound" /\ tickJob'[k].tick = currentTick'
        /\ flagged' = flagged
    BY <1>13 DEF FlagReadTick, TickJobs
  <2> QED
    BY <1>1, <2>1 DEF FlagInv, FlagLabels, AdvanceInv, BatchInv, SoleKeeper
<1>14. ASSUME NEW k \in Keepers, FlagReadRound(k) PROVE FlagInv'
  <2>1. /\ tickJob[k].pc = "flagRound" /\ tickJob'[k].pc = "flagPublish"
        /\ tickJob'[k].round = currentRound /\ tickJob'[k].tick = tickJob[k].tick
        /\ flagged' = flagged
    BY <1>14 DEF FlagReadRound, TickJobs
  <2>2. tickJob'[k].round = 0 \/ <<tickJob'[k].round, tickJob'[k].tick>> = position
    BY <2>1 DEF FlagInv, BatchInv, position
  <2> QED
    BY <1>1, <2>1, <2>2 DEF FlagInv, FlagLabels, AdvanceInv, BatchInv, SoleKeeper
<1>15. ASSUME NEW k \in Keepers, FlagPublish(k) PROVE FlagInv'
  <2>1. /\ tickJob[k].pc = "flagPublish" /\ tickJob'[k].pc = "idle"
        /\ flagged' = flagged \cup Labels(tickJob[k].round, tickJob[k].tick)
    BY <1>15 DEF FlagPublish, TickGoto, TickJobs
  <2>2. Labels(tickJob[k].round, tickJob[k].tick) \subseteq wasCurrent
    BY <2>1 DEF FlagInv, BatchInv, Labels
  <2> QED
    BY <1>1, <2>1, <2>2 DEF FlagInv, FlagLabels, AdvanceInv, BatchInv, SoleKeeper
<1> QED
  BY <1>4, <1>6, <1>7, <1>8, <1>9, <1>10, <1>11, <1>12, <1>13, <1>14, <1>15
     DEF Next, FlagKeeper

\* A position the contest showed, or a tick with the round of the position that follows.
Label(p) == p \in wasCurrent \/ \E q \in wasCurrent : p = <<RoundAfter(q), q[2]>>

\* The steps of tick_keeper from the start of its job to the commit of CURRENT_ROUND.
Advancing == {"check", "last", "freezeRound", "readTick", "readRound", "setTick", "setRound"}

\* The tick that checker_keeper read is current, or the tick job started with it has
\* moved on from q: it is about to commit the new round, or has done so.
LeftBehind(k, q) ==
  /\ q[2] = checkerJob[k].tick
  /\ \/ /\ tickJob[k].pc = "setRound" /\ tickJob[k].round = RoundAfter(q)
        /\ q[1] = currentRound
     \/ /\ tickJob[k].pc \notin Advancing /\ tickJob[k].fired = checkerJob[k].fired
        /\ RoundAfter(q) = currentRound

CheckerJobInv(k) ==
  resets = 0 =>
    /\ checkerJob[k].pc = "readRound" =>
         checkerJob[k].tick = currentTick \/ \E q \in wasCurrent : LeftBehind(k, q)
    /\ checkerJob[k].pc = "publish" =>
         checkerJob[k].round = 0 \/ Label(<<checkerJob[k].round, checkerJob[k].tick>>)

CheckerInv == CheckerLabels /\ \A k \in Keepers : CheckerJobInv(k)

\* As long as the reads of a checker job are of one minute, tick_keeper advances the
\* position at most once between them.
LEMMA CheckerStep ==
  ASSUME SoleKeeper, TypeOK, JobsInFlight, MaxLag < Minute, position \in wasCurrent,
         FlagInv, CheckerInv, [Next]_vars
  PROVE  CheckerInv'
<1> USE DEF TypeOK
<1>1. wasCurrent \subseteq wasCurrent' /\ (resets' = 0 => resets = 0)
  BY ShownStep
<1>2. checked' = checked => CheckerLabels'
  BY <1>1 DEF CheckerInv, CheckerLabels, RoundAfter
<1>3. \A p : Label(p) => Label(p)'
  BY <1>1 DEF Label
\* A checker job that has read both rows and does not move keeps a good label.
<1>30. ASSUME NEW k \in Keepers, checkerJob'[k] = checkerJob[k],
              resets' = 0, checkerJob'[k].pc = "publish"
       PROVE  checkerJob'[k].round = 0 \/ Label(<<checkerJob[k].round, checkerJob[k].tick>>)'
  <2>1. PICK p : p = <<checkerJob[k].round, checkerJob[k].tick>>
    OBVIOUS
  <2>2. checkerJob[k].round = 0 \/ Label(p)
    BY <1>1, <1>30, <2>1 DEF CheckerInv, CheckerJobInv
  <2> QED
    BY <1>3, <1>30, <2>1, <2>2 DEF Label
<1>4. ASSUME UNCHANGED <<currentTick, currentRound, tickJob, checkerJob, checked>>
      PROVE  CheckerInv'
  <2>1. ASSUME NEW k \in Keepers PROVE CheckerJobInv(k)'
    <3>1. \A q : LeftBehind(k, q) => LeftBehind(k, q)'
      BY <1>4 DEF LeftBehind, RoundAfter
    <3> QED
      BY <1>1, <1>30, <1>4, <3>1 DEF CheckerInv, CheckerJobInv
  <2> QED
    BY <1>2, <1>4, <2>1 DEF CheckerInv
<1>5. CASE TimePasses \/ StoreDefenseFlag \/ UNCHANGED vars
  BY <1>4, <1>5 DEF TimePasses, StoreDefenseFlag, vars
<1>6. CASE ResetGame
  BY <1>6 DEF ResetGame, CheckerInv, CheckerLabels, CheckerJobInv
<1>7. CASE Admin
  BY <1>4, <1>6, <1>7 DEF Admin, PauseRequest, PauseCommit, UnpauseRequest,
       UnpauseSetLast, UnpauseCommit, SetStartTime
<1>8. ASSUME NEW k \in Keepers, checked' = checked,
             checkerJob'[k].pc \notin {"readRound", "publish"}
      PROVE  CheckerInv'
  BY <1>2, <1>8 DEF CheckerInv, CheckerJobInv, SoleKeeper
\* A step of the tick job that does not touch the position.
<1>9. ASSUME NEW k \in Keepers, UNCHANGED <<currentTick, currentRound, checkerJob, checked>>,
             tickJob[k].pc # "setRound",
             checkerJob[k].pc = "readRound" /\ tickJob[k].fired = checkerJob[k].fired
               /\ tickJob[k].pc \notin Advancing =>
                 tickJob'[k].pc \notin Advancing /\ tickJob'[k].fired = tickJob[k].fired
      PROVE  CheckerInv'
  <2>1. ASSUME NEW q, checkerJob[k].pc = "readRound", LeftBehind(k, q)
        PROVE  LeftBehind(k, q)'
    BY <1>9, <2>1 DEF LeftBehind, RoundAfter
  <2>2. CheckerJobInv(k)'
    BY <1>1, <1>30, <1>9, <2>1 DEF CheckerInv, CheckerJobInv
  <2> QED
    BY <1>2, <1>9, <2>2 DEF CheckerInv, SoleKeeper
<1>10. ASSUME NEW k \in Keepers, FireTick(k) PROVE CheckerInv'
  <2>1. UNCHANGED <<currentTick, currentRound, checkerJob, checked>> /\ tickJob[k].pc = "idle"
    BY <1>10 DEF FireTick
  <2>2. checkerJob[k].pc # "idle" => tickJob[k].fired # checkerJob[k].fired
    BY <1>10, StartedTogether
  <2> QED
    BY <1>9, <2>1, <2>2
<1>11. ASSUME NEW k \in Keepers, FireChecker(k) \/ KeeperCrash(k)
       PROVE  CheckerInv'
  <2>1. checked' = checked /\ checkerJob'[k].pc \notin {"readRound", "publish"}
    BY <1>11 DEF FireChecker, KeeperCrash, CheckerJobs
  <2> QED
    BY <1>8, <2>1
<1>12. ASSUME NEW k \in Keepers, TickSetTick(k) PROVE CheckerInv'
  <2>1. /\ tickJob[k].pc = "setTick" /\ tickJob'[k].pc = "setRound"
        /\ tickJob'[k].round = tickJob[k].round
        /\ UNCHANGED <<currentRound, resets, checkerJob, checked>>
    BY <1>12 DEF TickSetTick, TickGoto, TickJobs
  <2>2. resets = 0 => tickJob[k].round = RoundAfter(position)
    BY <2>1 DEF FlagInv, AdvanceInv
  <2>3. ASSUME resets' = 0, checkerJob[k].pc = "readRound"
        PROVE  \E q \in wasCurrent' : LeftBehind(k, q)'
    <3>1. tickJob[k].pc \in Advancing /\ tickJob[k].pc # "setRound"
      BY <2>1 DEF Advancing
    <3>2. checkerJob[k].tick = currentTick
      BY <1>1, <2>3, <3>1 DEF CheckerInv, CheckerJobInv, LeftBehind
    <3>3. PICK q \in wasCurrent : q = position
      OBVIOUS
    <3>4. q[2] = checkerJob[k].tick /\ q[1] = currentRound
          /\ tickJob[k].round = RoundAfter(q)
      BY <1>1, <2>2, <2>3, <3>2, <3>3 DEF position
    <3>5. LeftBehind(k, q)'
      BY <2>1, <3>4 DEF LeftBehind
    <3> QED
      BY <1>1, <3>5
  <2>4. CheckerJobInv(k)'
    BY <1>30, <2>1, <2>3 DEF CheckerJobInv, Label
  <2> QED
    BY <1>2, <2>1, <2>4 DEF CheckerInv, SoleKeeper
<1>13. ASSUME NEW k \in Keepers, TickSetRound(k) PROVE CheckerInv'
  <2>1. /\ tickJob[k].pc = "setRound" /\ tickJob'[k].pc = "setLast"
        /\ tickJob'[k].fired = tickJob[k].fired
        /\ currentRound' = tickJob[k].round
        /\ UNCHANGED <<currentTick, checkerJob, checked>>
    BY <1>13 DEF TickSetRound, TickGoto, TickJobs
  <2>2. ASSUME NEW q, LeftBehind(k, q), checkerJob[k].pc = "readRound"
        PROVE  LeftBehind(k, q)'
    <3>1. tickJob[k].fired = checkerJob[k].fired
      BY <2>1, <2>2, StartedTogether
    <3>2. q[2] = checkerJob[k].tick /\ tickJob[k].round = RoundAfter(q)
      BY <2>1, <2>2 DEF LeftBehind, Advancing
    <3> QED
      BY <2>1, <3>1, <3>2 DEF LeftBehind, Advancing
  <2>3. CheckerJobInv(k)'
    BY <1>1, <1>30, <2>1, <2>2 DEF CheckerInv, CheckerJobInv, Label
  <2> QED
    BY <1>2, <2>1, <2>3 DEF CheckerInv, SoleKeeper
<1>14. ASSUME NEW k \in Keepers, TickKeeper(k) \/ FlagKeeper(k), ~TickSetTick(k), ~TickSetRound(k)
       PROVE  CheckerInv'
  <2>1. CASE TickKeeper(k)
    <3>1. /\ UNCHANGED <<currentTick, currentRound, checkerJob, checked>>
          /\ tickJob[k].pc # "setRound"
      BY <1>14, <2>1 DEF TickKeeper, TickCheck, TickReadLast, TickFreezeRound,
           TickReadTick, TickReadRound, TickSetLast
    <3>2. CASE TickSetLast(k)
      BY <1>9, <3>1, <3>2 DEF TickSetLast, TickGoto, TickJobs, Advancing
    <3>3. CASE ~TickSetLast(k)
      <4>1. tickJob[k].pc \in Advancing
        BY <1>14, <2>1, <3>3 DEF TickKeeper, TickCheck, TickReadLast, TickFreezeRound,
             TickReadTick, TickReadRound, Advancing
      <4> QED
        BY <1>9, <3>1, <4>1
    <3> QED
      BY <3>2, <3>3
  <2>2. CASE FlagKeeper(k)
    <3>1. /\ UNCHANGED <<currentTick, currentRound, checkerJob, checked>>
          /\ tickJob[k].pc # "setRound"
          /\ tickJob'[k].pc \notin Advancing /\ tickJob'[k].fired = tickJob[k].fired
      BY <2>2 DEF FlagKeeper, FlagCheck, FlagReadTick, FlagReadRound, FlagPublish,
           TickGoto, TickJobs, Advancing
    <3> QED
      BY <1>9, <3>1
  <2> QED
    BY <1>14, <2>1, <2>2
<1>15. ASSUME NEW k \in Keepers, CheckerReadTick(k) PROVE CheckerInv'
  <2>1. /\ checkerJob'[k].pc = "readRound" /\ checkerJob'[k].tick = currentTick'
        /\ checked' = checked
    BY <1>15 DEF CheckerReadTick, CheckerJobs
  <2>2. CheckerJobInv(k)'
    BY <2>1 DEF CheckerJobInv
  <2> QED
    BY <1>2, <2>1, <2>2 DEF CheckerInv, SoleKeeper
<1>16. ASSUME NEW k \in Keepers, CheckerReadRound(k) PROVE CheckerInv'
  <2>1. /\ checkerJob[k].pc = "readRound" /\ checkerJob'[k].pc = "publish"
        /\ checkerJob'[k].tick = checkerJob[k].tick /\ checkerJob'[k].round = currentRound
        /\ resets' = resets /\ checked' = checked
    BY <1>16 DEF CheckerReadRound, CheckerJobs
  <2>2. PICK p : p = <<currentRound, checkerJob[k].tick>>
    OBVIOUS
  <2>3. resets = 0 => Label(p)
    <3>1. checkerJob[k].tick = currentTick => p \in wasCurrent
      BY <2>2 DEF position
    <3>2. ASSUME NEW q \in wasCurrent, LeftBehind(k, q) PROVE Label(p)
      <4>1. CASE q[1] = currentRound
        <5>1. q = <<q[1], q[2]>>
          BY DEF Positions
        <5>2. q[2] = checkerJob[k].tick
          BY <3>2 DEF LeftBehind
        <5>3. p = q
          BY <2>2, <4>1, <5>1, <5>2
        <5> QED
          BY <5>3 DEF Label
      <4>2. CASE RoundAfter(q) = currentRound
        BY <2>2, <3>2, <4>2 DEF LeftBehind, Label
      <4> QED
        BY <3>2, <4>1, <4>2 DEF LeftBehind
    <3> QED
      BY <2>1, <3>1, <3>2 DEF CheckerInv, CheckerJobInv, Label
  <2>4. CheckerJobInv(k)'
    BY <1>3, <2>1, <2>2, <2>3 DEF CheckerJobInv, Label
  <2> QED
    BY <1>2, <2>1, <2>4 DEF CheckerInv, SoleKeeper
<1>17. ASSUME NEW k \in Keepers, CheckerPublish(k) PROVE CheckerInv'
  <2>1. /\ checkerJob[k].pc = "publish" /\ checkerJob'[k].pc = "idle"
        /\ checked' \subseteq checked \cup {Defense}
              \cup Labels(checkerJob[k].round, checkerJob[k].tick)
    BY <1>17 DEF CheckerPublish, CheckerGoto, CheckerJobs
  <2>2. resets' = 0 => \A p \in Labels(checkerJob[k].round, checkerJob[k].tick) : Label(p)
    BY <1>1, <2>1 DEF CheckerInv, CheckerJobInv, Labels
  <2>3. resets' = 0 => \A p \in checked \ {Defense} : Label(p)
    BY <1>1 DEF CheckerInv, CheckerLabels, Label
  <2>4. resets' = 0 => \A p \in checked' \ {Defense} : Label(p)'
    BY <1>3, <2>1, <2>2, <2>3, Zenon
  <2>5. CheckerLabels'
    BY <2>4 DEF CheckerLabels, Label
  <2> QED
    BY <2>1, <2>5 DEF CheckerInv, CheckerJobInv, SoleKeeper
<1>18. ASSUME NEW k \in Keepers, CheckerCheck(k) PROVE CheckerInv'
  <2>1. checked' = checked /\ checkerJob'[k].pc \notin {"readRound", "publish"}
    BY <1>18 DEF CheckerCheck, CheckerGoto, CheckerJobs
  <2> QED
    BY <1>8, <2>1
<1> QED
  BY <1>5, <1>7, <1>10, <1>11, <1>12, <1>13, <1>14, <1>15, <1>16, <1>17, <1>18
     DEF Next, CheckerKeeper

PositionInv ==
  position \in wasCurrent /\ JobsInFlight /\ FreezeInv /\ FlagInv /\ CheckerInv

\* Nothing is recorded, published or labelled at first, and <<0, 0>> is shown.
LEMMA PositionInit == Init => PositionInv
<1> SUFFICES ASSUME Init PROVE PositionInv
  OBVIOUS
<1>1. JobsInFlight
  BY InFlightInit
<1>2. position \in wasCurrent
  BY DEF Init, position
<1>3. FreezeInv /\ FlagInv /\ CheckerInv
  BY DEF Init, FreezeInv, FreezeSnapshot, FlagInv, FlagLabels, AdvanceInv, BatchInv,
         CheckerInv, CheckerLabels, CheckerJobInv, IdleTickJob, IdleCheckerJob
<1> QED
  BY <1>1, <1>2, <1>3 DEF PositionInv

\* With one keeper whose jobs end before the next minute, the frozen position, the
\* labels of flags and those of checker tasks are positions the contest showed, or the
\* one mixture CheckerLabels allows, wherever the keeper crashes, however often, and
\* whatever the administrator does meanwhile.
THEOREM OnlyPositionsShown == SoleKeeper /\ MaxLag < Minute => (Spec => []PositionsShown)
<1> SUFFICES ASSUME SoleKeeper, MaxLag < Minute PROVE Spec => []PositionsShown
  OBVIOUS
<1>1. TypeOK /\ PositionInv /\ [Next]_vars => PositionInv'
  BY InFlightStep, ShownStep, FreezeStep, FlagStep, CheckerStep DEF PositionInv
<1>2. PositionInv => PositionsShown
  BY DEF PositionInv, PositionsShown, FreezeInv, FlagInv, CheckerInv
<1> QED
  BY PositionInit, TypeCorrect, <1>1, <1>2, PTL DEF Spec

-----------------------------------------------------------------------------
(* TickNotOverdue, for one keeper that is started every minute and does not *)
(* die, and no requests.                                                    *)

\* A keeper is started every minute, nobody asks for anything and nothing dies.
Undisturbed == SoleKeeper /\ MaxRequests = 0 /\ MaxCrashes = 0

TickSpan == TickDuration * Minute

\* The contest is past its defence phase.
Attacking == Started /\ now >= AttackTime

\* The steps of a tick job that has read the rows, and those up to its commit
\* of LAST_TICK_CHANGE.
Deciding == {"last", "freezeRound", "readTick", "readRound", "setTick", "setRound"}
Undecided == Deciding \cup {"check", "setLast"}

\* When a tick job last decided whether to change the tick, or would have.
LastDecision(k) ==
  IF tickJob[k].pc \in Undecided THEN tickJob[k].fired - Minute ELSE tickJob[k].fired

\* The last start of the tick job is at most a minute ago.
StartInv(k) ==
  /\ tickJob[k].fired = Absent => tickJob[k].pc = "idle" /\ lastTickChange = Absent
  /\ tickJob[k].fired # Absent =>
       /\ tickJob[k].fired \in Nat /\ tickJob[k].fired % Minute = 0
       /\ tickJob[k].fired <= now /\ now <= tickJob[k].fired + Minute
       /\ tickJob[k].pc # "idle" => now <= tickJob[k].fired + MaxLag

\* What the tick job of k has seen, and that the tick was not due a minute before.
DecideInv(k) ==
  /\ tickJob[k].pc \in Deciding => ~Finished
  /\ tickJob[k].pc \in Undecided \ {"check"} => Attacking
  /\ tickJob[k].pc \in Undecided \ {"check", "last"} =>
       tickJob[k].fired <= tickJob[k].at /\ tickJob[k].at <= now
  /\ tickJob[k].pc = "freezeRound" => tickJob[k].last = LastChangeOr1990
  /\ Finished \/ lastTickChange = Absent \/ LastDecision(k) - lastTickChange < TickSpan

QuietInv ==
  /\ admin.pc = "idle" /\ ~isPaused
  /\ lastTickChange # Absent => Attacking /\ Keepers # {}

OverdueInv ==
  /\ QuietInv
  /\ \A k \in Keepers : StartInv(k) /\ DecideInv(k)

\* No tick job has been started.
LEMMA OverdueInit == Init => OverdueInv
BY DEF Init, OverdueInv, QuietInv, StartInv, DecideInv, IdleTickJob, IdleAdmin,
       Deciding, Undecided, Absent

\* A minute after the turn of a minute is the turn of a minute.
LEMMA NextTurn ==
  ASSUME NEW a \in Nat, a % Minute = 0
  PROVE  (a + Minute) % Minute = 0
<1> USE ClockAssumption
<1> DEFINE p == a \div Minute
<1>1. p \in Int /\ a = Minute * p
  BY SMTT(30)
<1> HIDE DEF p
<1>2. p + 1 \in Int /\ a + Minute \in Nat /\ a + Minute = Minute * (p + 1)
  BY <1>1
<1> QED
  BY <1>2, Multiple

\* Time waits for the keeper at the turn of a minute, and the keeper that finds the tick
\* due changes it before the next.
LEMMA OverdueStep ==
  ASSUME Undisturbed, TypeOK, OverdueInv, [PunctualNext]_vars
  PROVE  OverdueInv'
<1> USE ClockAssumption DEF TypeOK, Absent
<1>0. TickSpan \in Nat
  BY SMTT(30) DEF TickSpan
<1>1. ASSUME UNCHANGED <<now, currentRound, lastTickChange, isPaused, startTime, tickJob, admin>>
      PROVE  OverdueInv'
  BY <1>1 DEF OverdueInv, QuietInv, StartInv, DecideInv, LastDecision, Attacking, Started,
              Finished, LastChangeOr1990
<1>2. CASE StoreDefenseFlag \/ UNCHANGED vars
  BY <1>1, <1>2 DEF StoreDefenseFlag, vars
<1>3. ASSUME Admin PROVE FALSE
  BY <1>3 DEF Admin, MayRequest, PauseRequest, PauseCommit, UnpauseRequest, UnpauseSetLast,
              UnpauseCommit, ResetGame, SetStartTime, OverdueInv, QuietInv, Undisturbed
<1>4. ASSUME NEW k \in Keepers, CheckerKeeper(k) \/ FireChecker(k) PROVE OverdueInv'
  BY <1>1, <1>4 DEF CheckerKeeper, CheckerCheck, CheckerReadTick, CheckerReadRound,
                    CheckerPublish, FireChecker
<1>5. ASSUME NEW k \in Keepers, KeeperCrash(k) PROVE FALSE
  BY <1>5 DEF KeeperCrash, Undisturbed
<1>6. CASE TimePasses /\ Punctual
  <2>1. /\ now' = now + 1 /\ InTime
        /\ UNCHANGED <<currentRound, lastTickChange, isPaused, startTime, tickJob, admin>>
    BY <1>6 DEF TimePasses
  <2>2. QuietInv'
    BY <2>1 DEF OverdueInv, QuietInv, Attacking, Started
  <2>3. ASSUME NEW k \in Keepers PROVE StartInv(k)'
    <3>1. StartInv(k) /\ tickJob[k] \in TickJobs
      BY DEF OverdueInv
    <3>2. ASSUME tickJob[k].fired # Absent, now = tickJob[k].fired + Minute PROVE FALSE
      <4>1. now % Minute = 0
        BY <3>1, <3>2, NextTurn DEF StartInv
      <4>2. tickJob[k].fired = now
        BY <1>6, <4>1 DEF Punctual
      <4> QED
        BY <3>1, <3>2, <4>2 DEF StartInv
    <3>3. tickJob[k].pc # "idle" => now < tickJob[k].fired + MaxLag
      BY <2>1 DEF InTime
    <3> QED
      BY <2>1, <3>1, <3>2, <3>3 DEF StartInv
  <2>4. ASSUME NEW k \in Keepers PROVE DecideInv(k)'
    <3>1. DecideInv(k) /\ tickJob[k] \in TickJobs
      BY DEF OverdueInv
    <3> QED
      BY <2>1, <3>1 DEF DecideInv, LastDecision, Attacking, Started, Finished, LastChangeOr1990,
                        TickJobs
  <2> QED
    BY <2>2, <2>3, <2>4 DEF OverdueInv
<1>7. ASSUME NEW k \in Keepers, FireTick(k) \/ TickKeeper(k) \/ FlagKeeper(k)
      PROVE  OverdueInv'
  <2>0. /\ StartInv(k) /\ DecideInv(k) /\ QuietInv
        /\ tickJob[k] \in TickJobs
        /\ \A j \in Keepers : j = k
    BY DEF OverdueInv, Undisturbed, SoleKeeper
  <2>1. UNCHANGED <<now, isPaused, startTime, admin>>
    BY <1>7 DEF FireTick, TickKeeper, FlagKeeper, TickCheck, TickReadLast, TickFreezeRound,
         TickReadTick, TickReadRound, TickSetTick, TickSetRound, TickSetLast, FlagCheck,
         FlagReadTick, FlagReadRound, FlagPublish
  <2>2. SUFFICES QuietInv' /\ StartInv(k)' /\ DecideInv(k)'
    BY <2>0 DEF OverdueInv
  <2> USE DEF Deciding, Undecided
  <2>3. ASSUME UNCHANGED <<currentRound, lastTickChange>>,
               tickJob'[k].fired = tickJob[k].fired, tickJob[k].pc # "idle",
               tickJob[k].pc \in Undecided => tickJob'[k].pc \in Undecided,
               tickJob'[k].pc \in Deciding => ~Finished,
               tickJob'[k].pc \in Undecided \ {"check"} => Attacking,
               tickJob'[k].pc \in Undecided \ {"check", "last"} =>
                 tickJob[k].fired <= tickJob'[k].at /\ tickJob'[k].at <= now,
               tickJob'[k].pc = "freezeRound" => tickJob'[k].last = LastChangeOr1990,
               tickJob'[k].pc \in Undecided => tickJob[k].pc \in Undecided
        PROVE  QuietInv' /\ StartInv(k)' /\ DecideInv(k)'
    BY <2>0, <2>1, <2>3 DEF QuietInv, StartInv, DecideInv, LastDecision, Attacking, Started,
                            Finished, LastChangeOr1990
  \* A run that ends its decision: the contest is over, the defence phase is on, or the
  \* tick is not due yet.
  <2>4. ASSUME UNCHANGED <<currentRound, lastTickChange>>,
               tickJob'[k].fired = tickJob[k].fired, tickJob[k].pc # "idle",
               tickJob'[k].pc \notin Undecided,
               Finished \/ lastTickChange = Absent
                 \/ tickJob[k].fired - lastTickChange < TickSpan
        PROVE  QuietInv' /\ StartInv(k)' /\ DecideInv(k)'
    BY <2>0, <2>1, <2>4 DEF QuietInv, StartInv, DecideInv, LastDecision, Attacking, Started,
                            Finished
  <2>5. CASE FireTick(k)
    <3>1. /\ tickJob[k].pc = "idle" /\ tickJob'[k].pc = "check" /\ tickJob'[k].fired = now
          /\ now % Minute = 0
          /\ UNCHANGED <<currentRound, lastTickChange>>
      BY <2>5 DEF FireTick, TickJobs
    <3>2. StartInv(k)'
      BY <2>0, <2>1, <3>1 DEF StartInv
    <3>3. Finished \/ lastTickChange = Absent \/ now - Minute - lastTickChange < TickSpan
      BY <1>0, <2>0, <3>1 DEF StartInv, DecideInv, LastDecision
    <3>4. QuietInv'
      BY <2>0, <2>1, <3>1 DEF QuietInv, Attacking, Started
    <3>5. DecideInv(k)'
      BY <2>1, <3>1, <3>3 DEF DecideInv, LastDecision, Finished
    <3> QED
      BY <3>2, <3>4, <3>5
  <2>6. CASE TickCheck(k)
    <3>1. /\ tickJob[k].pc = "check" /\ tickJob'[k].fired = tickJob[k].fired
          /\ tickJob'[k].pc = IF ~Running THEN "idle"
                              ELSE IF DefensePhased THEN "flags" ELSE "last"
          /\ UNCHANGED <<currentRound, lastTickChange>>
      BY <2>6 DEF TickCheck, TickGoto, TickJobs
    <3>2. CASE Running /\ ~DefensePhased
      <4>1. ~Finished /\ Attacking
        BY <3>2 DEF Running, DefensePhased, Attacking
      <4> QED
        BY <2>3, <3>1, <3>2, <4>1
    <3>3. CASE ~Running
      <4>1. Finished \/ lastTickChange = Absent
        BY <2>0, <3>3 DEF Running, QuietInv, Attacking
      <4> QED
        BY <2>4, <3>1, <3>3, <4>1
    <3>4. CASE Running /\ DefensePhased
      <4>1. lastTickChange = Absent
        BY <2>0, <3>4 DEF DefensePhased, QuietInv, Attacking
      <4> QED
        BY <2>4, <3>1, <3>4, <4>1
    <3> QED
      BY <3>2, <3>3, <3>4
  <2>7. CASE TickReadLast(k)
    <3>1. /\ tickJob[k].pc = "last" /\ tickJob'[k].fired = tickJob[k].fired
          /\ tickJob'[k].at = now /\ tickJob'[k].last = LastChangeOr1990
          /\ \/ tickJob'[k].pc \in {"freezeRound", "readTick"}
             \/ tickJob'[k].pc = "idle" /\ EarlyAt(now, LastChangeOr1990)
          /\ UNCHANGED <<currentRound, lastTickChange>>
      BY <2>7 DEF TickReadLast, TickJobs
    <3>2. tickJob[k].fired \in Nat /\ tickJob[k].fired <= now
      BY <2>0, <3>1 DEF StartInv
    <3>3. ~Finished /\ Attacking
      BY <2>0, <3>1 DEF DecideInv
    <3>4. CASE tickJob'[k].pc = "idle"
      <4>1. lastTickChange = Absent \/ tickJob[k].fired - lastTickChange < TickSpan
        BY <1>0, <3>1, <3>2, <3>4 DEF EarlyAt, LastChangeOr1990, TickSpan
      <4> QED
        BY <2>4, <3>1, <3>4, <4>1
    <3>5. CASE tickJob'[k].pc \in {"freezeRound", "readTick"}
      BY <2>3, <3>1, <3>2, <3>3, <3>5
    <3> QED
      BY <3>1, <3>4, <3>5
  <2>8. CASE TickFreezeRound(k)
    <3>1. /\ tickJob[k].pc = "freezeRound" /\ tickJob'[k].fired = tickJob[k].fired
          /\ tickJob'[k].at = tickJob[k].at
          /\ \/ tickJob'[k].pc = "readTick"
             \/ tickJob'[k].pc = "idle" /\ EarlyAt(tickJob[k].at, LastChangeOr1990)
          /\ UNCHANGED <<currentRound, lastTickChange>>
      BY <2>0, <2>8 DEF TickFreezeRound, TickGoto, TickJobs, DecideInv
    <3>2. /\ tickJob[k].fired \in Nat /\ tickJob[k].at \in Int
          /\ tickJob[k].fired <= tickJob[k].at /\ tickJob[k].at <= now
      BY <2>0, <3>1 DEF StartInv, DecideInv, TickJobs
    <3>3. ~Finished /\ Attacking
      BY <2>0, <3>1 DEF DecideInv
    <3>4. CASE tickJob'[k].pc = "idle"
      <4>1. lastTickChange = Absent \/ tickJob[k].fired - lastTickChange < TickSpan
        BY <1>0, <3>1, <3>2, <3>4 DEF EarlyAt, LastChangeOr1990, TickSpan
      <4> QED
        BY <2>4, <3>1, <3>4, <4>1
    <3>5. CASE tickJob'[k].pc = "readTick"
      BY <2>3, <3>1, <3>2, <3>3, <3>5
    <3> QED
      BY <3>1, <3>4, <3>5
  <2>9. CASE TickReadTick(k) \/ TickReadRound(k) \/ TickSetTick(k)
    <3>1. /\ tickJob[k].pc \in {"readTick", "readRound", "setTick"}
          /\ tickJob'[k].pc \in {"readRound", "setTick", "setRound"}
          /\ tickJob'[k].fired = tickJob[k].fired /\ tickJob'[k].at = tickJob[k].at
          /\ UNCHANGED <<currentRound, lastTickChange>>
      BY <2>9 DEF TickReadTick, TickReadRound, TickSetTick, TickGoto, TickJobs
    <3>2. ~Finished /\ Attacking /\ tickJob[k].fired <= tickJob[k].at /\ tickJob[k].at <= now
      BY <2>0, <3>1 DEF DecideInv
    <3> QED
      BY <2>3, <3>1, <3>2
  <2>10. CASE TickSetRound(k)
    <3>1. /\ tickJob[k].pc = "setRound" /\ tickJob'[k].pc = "setLast"
          /\ tickJob'[k].fired = tickJob[k].fired /\ tickJob'[k].at = tickJob[k].at
          /\ UNCHANGED lastTickChange
      BY <2>10 DEF TickSetRound, TickGoto, TickJobs
    <3> QED
      BY <2>0, <2>1, <3>1 DEF QuietInv, StartInv, DecideInv, LastDecision, Attacking, Started
  <2>11. CASE TickSetLast(k)
    <3>1. /\ tickJob[k].pc = "setLast" /\ tickJob'[k].pc = "flags"
          /\ tickJob'[k].fired = tickJob[k].fired
          /\ lastTickChange' = tickJob[k].at
      BY <2>11 DEF TickSetLast, TickGoto, TickJobs
    <3>2. tickJob[k].fired - lastTickChange' < TickSpan
      <4>1. TickSpan > 0
        BY SMTT(30) DEF TickSpan
      <4> QED
        BY <2>0, <3>1, <4>1, <1>0 DEF StartInv, DecideInv, TickJobs
    <3>3. DecideInv(k)'
      BY <3>1, <3>2 DEF DecideInv, LastDecision
    <3>4. QuietInv' /\ StartInv(k)'
      BY <2>0, <2>1, <3>1 DEF QuietInv, StartInv, DecideInv, Attacking, Started
    <3> QED
      BY <3>3, <3>4
  <2>12. CASE FlagKeeper(k)
    <3>1. /\ tickJob[k].pc \notin Undecided \cup {"idle"} /\ tickJob'[k].pc \notin Undecided
          /\ tickJob'[k].fired = tickJob[k].fired
          /\ UNCHANGED <<currentRound, lastTickChange>>
      BY <2>12 DEF FlagKeeper, FlagCheck, FlagReadTick, FlagReadRound, FlagPublish,
                   TickGoto, TickJobs
    <3> QED
      BY <2>0, <2>4, <3>1 DEF DecideInv, LastDecision
  <2> QED
    BY <1>7, <2>5, <2>6, <2>7, <2>8, <2>9, <2>10, <2>11, <2>12 DEF TickKeeper
<1> QED
  BY <1>2, <1>3, <1>4, <1>5, <1>6, <1>7 DEF PunctualNext, Next, TimePasses

\* The invariant says what TickNotOverdue does.
LEMMA OverdueBound ==
  ASSUME Undisturbed, TypeOK, OverdueInv
  PROVE  TickNotOverdue
<1> USE ClockAssumption DEF TypeOK
<1> SUFFICES ASSUME ~Finished, lastTickChange # Absent
             PROVE  now - lastTickChange < (TickDuration + 1) * Minute + MaxLag
  BY DEF TickNotOverdue, Running
<1>1. TickSpan \in Nat /\ (TickDuration + 1) * Minute = TickSpan + Minute
  BY SMTT(30) DEF TickSpan
<1>2. PICK k \in Keepers : StartInv(k) /\ DecideInv(k) /\ tickJob[k] \in TickJobs
  BY DEF OverdueInv, QuietInv
<1>3. now - lastTickChange < TickSpan + Minute + MaxLag
  <2>1. CASE tickJob[k].pc \in Undecided
    <3>1. /\ tickJob[k].fired \in Nat /\ now <= tickJob[k].fired + MaxLag
          /\ tickJob[k].fired - Minute - lastTickChange < TickSpan
      BY <1>2, <2>1 DEF StartInv, DecideInv, LastDecision, Undecided, Deciding
    <3> QED
      BY <1>1, <3>1
  <2>2. CASE tickJob[k].pc \notin Undecided
    <3>1. /\ tickJob[k].fired \in Nat /\ now <= tickJob[k].fired + Minute
          /\ tickJob[k].fired - lastTickChange < TickSpan
      BY <1>2, <2>2 DEF StartInv, DecideInv, LastDecision
    <3> QED
      BY <1>1, <3>1
  <2> QED
    BY <2>1, <2>2
<1> QED
  BY <1>1, <1>3

\* A sole keeper that is started every minute and does not die, with nobody pausing or
\* resetting, leaves no tick standing: for every tick duration and every delay of its
\* jobs LAST_TICK_CHANGE is less than a tick, a minute and that delay ago.
THEOREM NoTickOverdue == Undisturbed => (PunctualSpec => []TickNotOverdue)
<1> SUFFICES ASSUME Undisturbed PROVE PunctualSpec => []TickNotOverdue
  OBVIOUS
<1>1. TypeOK /\ OverdueInv /\ [PunctualNext]_vars => TypeOK' /\ OverdueInv'
  BY OverdueStep, TypeStep DEF PunctualNext
<1>2. TypeOK /\ OverdueInv => TickNotOverdue
  BY OverdueBound
<1> QED
  BY OverdueInit, TypeInit, <1>1, <1>2, PTL DEF PunctualSpec

-----------------------------------------------------------------------------
(* NoEarlyAdvance and TickKeepsItsTime, for one keeper that does not crash  *)
(* and requests that do not overlap its tick job.                           *)

\* FloorMinute is the last turn of a minute.
LEMMA FloorIsTurn ==
  ASSUME NEW n \in Nat
  PROVE  /\ FloorMinute(n) \in Nat /\ FloorMinute(n) <= n
         /\ n - FloorMinute(n) <= Minute - 1
         /\ FloorMinute(n) % Minute = 0
         /\ \A a \in Nat : a % Minute = 0 /\ a <= n => a <= FloorMinute(n)
<1> USE ClockAssumption
<1> DEFINE q == n \div Minute
           r == n % Minute
           f == FloorMinute(n)
<1>1. q \in Int /\ n = Minute * q + r /\ r \in 0 .. (Minute - 1)
  BY SMTT(30)
<1>2. f = n - r
  BY DEF FloorMinute
<1>3. \A x, y \in Int : x <= -1 /\ y >= 1 => y * x <= -y
  BY SMTT(30)
<1> HIDE DEF q, r, f
<1>4. f = Minute * q
  BY <1>1, <1>2
<1>5. f \in Nat /\ f <= n /\ n - f <= Minute - 1
  <2>1. CASE q <= -1
    BY <1>1, <1>3, <2>1
  <2>2. CASE q >= 0
    <3>1. \A x, y \in Int : x >= 0 /\ y >= 1 => y * x >= 0
      BY SMTT(30)
    <3> QED
      BY <1>1, <1>2, <1>4, <2>2, <3>1
  <2> QED
    BY <1>1, <2>1, <2>2
<1>6. f % Minute = 0
  BY <1>1, <1>4, <1>5, Multiple
<1>7. ASSUME NEW a \in Nat, a % Minute = 0, a <= n
      PROVE  a <= f
  <2>1. CASE f < a
    <3>1. f \in Nat /\ f <= a /\ a < f + Minute
      BY <1>5, <1>7, <2>1
    <3>2. f = a
      BY <1>6, <1>7, <3>1, SameTurn, Zenon
    <3> QED
      BY <2>1, <3>2, <1>5
  <2> QED
    BY <2>1, <1>5
<1> QED
  BY <1>5, <1>6, <1>7 DEF f

\* What one pause may cost, and what the time kept so far amounts to with the costs.
PauseCost == Minute - 1 + MaxLag
Credit == ran + pauses * PauseCost + MaxLag

\* How the credit grows.
LEMMA CreditGrows ==
  ASSUME TypeOK, ran' \in Nat, pauses' \in Nat
  PROVE  /\ PauseCost \in Nat /\ Credit \in Nat /\ Credit' \in Nat
         /\ Credit >= MaxLag /\ Credit' >= MaxLag
         /\ UNCHANGED <<ran, pauses>> => Credit' = Credit
         /\ pauses' = pauses /\ ran' = ran + 1 => Credit' = Credit + 1
         /\ pauses' = pauses + 1 /\ ran' = ran => Credit' = Credit + PauseCost
<1> USE ClockAssumption DEF TypeOK
<1>1. PauseCost \in Nat
  BY DEF PauseCost
<1> HIDE DEF PauseCost
<1>2. PauseCost' = PauseCost
  BY DEF PauseCost
<1>3. \A x \in Nat : x * PauseCost \in Nat
  BY <1>1, SMTT(30)
<1>4. (pauses + 1) * PauseCost = pauses * PauseCost + PauseCost
  BY <1>1, SMTT(30)
<1>5. PICK s : s = pauses * PauseCost
  OBVIOUS
<1>6. PICK t : t = pauses' * PauseCost
  OBVIOUS
<1>7. /\ s \in Nat /\ t \in Nat
      /\ pauses' = pauses => t = s
      /\ pauses' = pauses + 1 => t = s + PauseCost
  BY <1>3, <1>4, <1>5, <1>6
<1>8. Credit = ran + s + MaxLag /\ Credit' = ran' + t + MaxLag
  BY <1>2, <1>5, <1>6 DEF Credit
<1>9. ran \in Nat /\ ran' \in Nat /\ MaxLag \in Nat
  OBVIOUS
<1> HIDE DEF TypeOK
<1>10. PICK u \in Nat : u = ran'
  BY <1>9
<1>11. PICK v : v = Credit'
  OBVIOUS
<1>12. v = u + t + MaxLag
  BY <1>8, <1>10, <1>11
<1>13. v \in Nat /\ v >= MaxLag
  BY <1>7, <1>8, <1>9, <1>12
<1>14. Credit \in Nat /\ Credit >= MaxLag
  BY <1>7, <1>8, <1>9
<1>15. pauses' = pauses + 1 /\ ran' = ran => Credit' = Credit + PauseCost
  BY <1>1, <1>7, <1>8, <1>9
<1>16. pauses' = pauses /\ ran' = ran + 1 => Credit' = Credit + 1
  BY <1>7, <1>8, <1>9
<1>17. UNCHANGED <<ran, pauses>> => Credit' = Credit
  BY <1>7, <1>8, <1>9
<1> QED
  BY <1>1, <1>10, <1>11, <1>13, <1>14, <1>15, <1>16, <1>17

\* A request in flight began at most MaxLag ago; LAST_PAUSED is the turn of a minute.
RequestInv ==
  /\ isPaused \/ admin.pc = "pause" =>
       lastPaused \in Nat /\ lastPaused <= now /\ lastPaused % Minute = 0
  /\ admin.pc # "idle" => admin.began <= now /\ now <= admin.began + MaxLag

\* The tick job of k has changed the tick and not yet recorded when.
Changing(k) == tickJob[k].pc \in {"setRound", "setLast"}

\* LAST_TICK_CHANGE is not before the change of the tick, nor further back than the
\* time that was kept, paused or not.
ChangeInv ==
  /\ lastTickChange # Absent => lastTickChange \in Nat
  /\ admin.pc = "setLast" => lastTickChange # Absent
  /\ \/ \E k \in Keepers : Changing(k)
     \/ currentTick = 0
     \/ lastTickChange # Absent /\ changedAt <= lastTickChange
  /\ \/ \E k \in Keepers : Changing(k)
     \/ lastTickChange = Absent
     \/ /\ ~isPaused => now - lastTickChange <= Credit
        /\ isPaused /\ admin.pc = "idle" => lastPaused - lastTickChange <= Credit - PauseCost
        /\ admin.pc = "unpause" => admin.began - lastTickChange <= Credit - MaxLag
        /\ admin.pc = "setLast" => /\ admin.began - admin.last <= Credit - MaxLag
                                   /\ admin.last >= lastTickChange

\* What the tick job of k has read of the clock and of LAST_TICK_CHANGE.
ReadInv(k) ==
  /\ tickJob[k].pc \in Undecided \ {"check", "last"} =>
       tickJob[k].fired <= tickJob[k].at /\ tickJob[k].at <= now
  /\ tickJob[k].pc = "freezeRound" => tickJob[k].last = LastChangeOr1990
  /\ tickJob[k].pc \in {"readTick", "readRound", "setTick"} =>
       lastTickChange = Absent \/ tickJob[k].at - lastTickChange >= TickSpan
  /\ Changing(k) =>
       ~isPaused /\ changedAt <= tickJob[k].at /\ now - tickJob[k].at <= Credit

TimeInv == RequestInv /\ ChangeInv /\ \A k \in Keepers : ReadInv(k)

\* No tick has begun, and nothing was ever paused.
LEMMA TimeInvInit == Init => TimeInv
BY DEF Init, TimeInv, RequestInv, ChangeInv, ReadInv, Changing, Undecided, Deciding,
       IdleTickJob, IdleAdmin, Absent

\* The administrator's requests keep the account of time.
LEMMA TimeInvAdmin ==
  ASSUME Serial, TypeOK, TypeOK', ScheduleInv, TimeInv, Admin
  PROVE  TimeInv'
<1> USE ClockAssumption DEF TypeOK, Absent
<1>1. /\ PauseCost \in Nat /\ Credit \in Nat /\ Credit' \in Nat
      /\ Credit >= MaxLag /\ Credit' >= MaxLag
      /\ UNCHANGED <<ran, pauses>> => Credit' = Credit
      /\ pauses' = pauses + 1 /\ ran' = ran => Credit' = Credit + PauseCost
  BY CreditGrows
<1>2. PauseCost = Minute - 1 + MaxLag
  BY DEF PauseCost
<1>3. CASE SetStartTime
  BY <1>1, <1>3 DEF SetStartTime, TimeInv, RequestInv, ChangeInv, ReadInv, Changing,
                    LastChangeOr1990
<1>4. CASE ~SetStartTime
  <2>1. \A k \in Keepers : tickJob[k].pc = "idle" /\ tickJob'[k].pc = "idle"
    BY <1>4 DEF Admin, Serial, MayRequest, ScheduleInv, ExclusionInv, PauseRequest,
         PauseCommit, UnpauseRequest, UnpauseSetLast, UnpauseCommit, ResetGame
  <2>2. \A k \in Keepers : ReadInv(k)'
    BY <2>1 DEF ReadInv, Changing, Undecided, Deciding
  <2>3. ~\E k \in Keepers : Changing(k)
    BY <2>1 DEF Changing
  <2>4. SUFFICES RequestInv' /\ ChangeInv'
    BY <2>2 DEF TimeInv
  <2>5. RequestInv /\ ChangeInv /\ AdminInv
    BY DEF TimeInv, ScheduleInv
  <2>6. CASE PauseRequest
    <3>1. FloorMinute(now) \in Nat /\ FloorMinute(now) <= now /\ FloorMinute(now) % Minute = 0
      BY FloorIsTurn
    <3> QED
      BY <1>1, <2>3, <2>5, <2>6, <3>1 DEF PauseRequest, RequestInv, ChangeInv
  <2>7. CASE PauseCommit
    BY <1>1, <2>3, <2>5, <2>7 DEF PauseCommit, RequestInv, ChangeInv, AdminInv
  <2>8. CASE UnpauseRequest
    <3>1. /\ lastPaused \in Nat /\ lastPaused <= now /\ lastPaused % Minute = 0
          /\ isPaused /\ admin.pc = "idle"
      BY <2>5, <2>8 DEF UnpauseRequest, MayRequest, RequestInv
    <3>2. /\ FloorMinute(now) \in Nat /\ now - FloorMinute(now) <= Minute - 1
          /\ lastPaused <= FloorMinute(now)
      BY <3>1, FloorIsTurn
    <3>3. lastTickChange # Absent =>
            /\ admin'.pc = "setLast" /\ admin'.began = now
            /\ admin'.last >= lastTickChange
            /\ now - admin'.last <= Credit - MaxLag
      BY <1>1, <1>2, <2>3, <2>5, <2>8, <3>1, <3>2 DEF UnpauseRequest, ChangeInv, Pivot
    <3>4. lastTickChange = Absent => admin'.pc = "unpause" /\ admin'.began = now
      BY <2>8 DEF UnpauseRequest
    <3> QED
      BY <1>1, <2>3, <2>5, <2>8, <3>1, <3>3, <3>4 DEF UnpauseRequest, RequestInv, ChangeInv
  <2>9. CASE UnpauseSetLast
    BY <1>1, <2>3, <2>5, <2>9 DEF UnpauseSetLast, RequestInv, ChangeInv, AdminInv
  <2>10. CASE UnpauseCommit
    BY <1>1, <2>3, <2>5, <2>10 DEF UnpauseCommit, RequestInv, ChangeInv, AdminInv
  <2>11. CASE ResetGame
    BY <1>1, <2>3, <2>5, <2>11 DEF ResetGame, MayRequest, RequestInv, ChangeInv, AdminInv
  <2> QED
    BY <1>4, <2>6, <2>7, <2>8, <2>9, <2>10, <2>11 DEF Admin
<1> QED
  BY <1>3, <1>4

\* The tick job changes the tick only when a tick's time has passed on that account, and
\* LAST_TICK_CHANGE is then set to the moment it looked.
LEMMA TimeInvStep ==
  ASSUME Serial, TypeOK, TypeOK', ScheduleInv, JobsInFlight, TimeInv, [Next]_vars
  PROVE  TimeInv'
<1> USE ClockAssumption DEF TypeOK, Absent
<1>1. /\ PauseCost \in Nat /\ Credit \in Nat /\ Credit' \in Nat
      /\ Credit >= MaxLag /\ Credit' >= MaxLag
      /\ pauses' = pauses /\ ran' = ran + 1 => Credit' = Credit + 1
      /\ UNCHANGED <<ran, pauses>> => Credit' = Credit
  BY CreditGrows
<1>2. TickSpan \in Nat
  BY SMTT(30) DEF TickSpan
<1>3. RequestInv /\ ChangeInv /\ AdminInv /\ ExclusionInv
  BY DEF TimeInv, ScheduleInv
<1>4. ASSUME UNCHANGED <<now, currentTick, lastTickChange, isPaused, lastPaused, admin,
                         tickJob, changedAt, ran, pauses>>
      PROVE  TimeInv'
  BY <1>1, <1>4 DEF TimeInv, RequestInv, ChangeInv, ReadInv, Changing, LastChangeOr1990
<1>5. CASE StoreDefenseFlag \/ UNCHANGED vars
  BY <1>4, <1>5 DEF StoreDefenseFlag, vars
<1>6. ASSUME NEW k \in Keepers, CheckerKeeper(k) \/ FireChecker(k) PROVE TimeInv'
  BY <1>4, <1>6 DEF CheckerKeeper, CheckerCheck, CheckerReadTick, CheckerReadRound,
                    CheckerPublish, FireChecker
<1>7. ASSUME NEW k \in Keepers, KeeperCrash(k) PROVE FALSE
  BY <1>7 DEF KeeperCrash, Serial
<1>8. CASE TimePasses
  <2>1. /\ now' = now + 1 /\ InTime
        /\ ran' = IF isPaused THEN ran ELSE ran + 1
        /\ UNCHANGED <<currentTick, lastTickChange, isPaused, lastPaused, admin, tickJob,
                       changedAt, pauses>>
    BY <1>8 DEF TimePasses
  <2>2. Credit' = IF isPaused THEN Credit ELSE Credit + 1
    BY <1>1, <2>1
  <2>3. RequestInv'
    BY <1>3, <2>1 DEF RequestInv, InTime
  <2>4. ChangeInv'
    BY <1>1, <1>3, <2>1, <2>2 DEF ChangeInv, Changing
  <2>5. ASSUME NEW k \in Keepers PROVE ReadInv(k)'
    <3>1. ReadInv(k) /\ tickJob[k] \in TickJobs
      BY DEF TimeInv
    <3> QED
      BY <1>1, <2>1, <2>2, <3>1 DEF ReadInv, Changing, LastChangeOr1990, TickJobs
  <2> QED
    BY <2>3, <2>4, <2>5 DEF TimeInv
<1>9. ASSUME NEW k \in Keepers, FireTick(k) \/ TickKeeper(k) \/ FlagKeeper(k)
      PROVE  TimeInv'
  <2>1. /\ ReadInv(k) /\ JobInv(k) /\ InFlight(tickJob[k]) /\ tickJob[k] \in TickJobs
        /\ \A j \in Keepers : j = k
    BY DEF TimeInv, ScheduleInv, JobsInFlight, Serial, SoleKeeper
  <2>2. UNCHANGED <<now, isPaused, lastPaused, admin>> /\ admin.pc = "idle"
    BY <1>3, <1>9 DEF ExclusionInv, Serial, FireTick, TickKeeper, FlagKeeper, TickCheck,
         TickReadLast, TickFreezeRound, TickReadTick, TickReadRound, TickSetTick,
         TickSetRound, TickSetLast, FlagCheck, FlagReadTick, FlagReadRound, FlagPublish
  <2>3. RequestInv'
    BY <1>3, <2>2 DEF RequestInv
  <2>4. SUFFICES ChangeInv' /\ ReadInv(k)'
    BY <2>1, <2>3 DEF TimeInv
  <2> USE DEF Undecided, Deciding
  <2>5. (\E j \in Keepers : Changing(j)) <=> Changing(k)
    BY <2>1
  <2>6. (\E j \in Keepers : Changing(j))' <=> Changing(k)'
    BY <2>1
  <2>7. ASSUME UNCHANGED <<currentTick, lastTickChange, changedAt, ran, pauses>>,
               Changing(k) <=> Changing(k)'
        PROVE  ChangeInv'
    BY <1>1, <1>3, <2>2, <2>5, <2>6, <2>7 DEF ChangeInv
  <2>8. CASE FireTick(k) \/ FlagKeeper(k) \/ TickCheck(k)
    <3>1. /\ tickJob[k].pc \notin {"setRound", "setLast"}
          /\ tickJob'[k].pc \notin {"freezeRound", "readTick", "readRound", "setTick",
                                    "setRound", "setLast"}
          /\ UNCHANGED <<currentTick, lastTickChange, changedAt, ran, pauses>>
      BY <2>8 DEF FireTick, FlagKeeper, FlagCheck, FlagReadTick, FlagReadRound, FlagPublish,
                  TickCheck, TickGoto, TickJobs
    <3>2. ~Changing(k) /\ ~Changing(k)'
      BY <3>1 DEF Changing
    <3>3. ReadInv(k)'
      BY <3>1, <3>2 DEF ReadInv
    <3> QED
      BY <2>7, <3>1, <3>2, <3>3
  <2>9. CASE TickReadLast(k)
    <3>1. /\ tickJob[k].pc = "last" /\ tickJob'[k].fired = tickJob[k].fired
          /\ tickJob'[k].at = now /\ tickJob'[k].last = LastChangeOr1990
          /\ \/ tickJob'[k].pc \in {"freezeRound", "idle"}
             \/ tickJob'[k].pc = "readTick" /\ ~EarlyAt(now, LastChangeOr1990)
          /\ UNCHANGED <<currentTick, lastTickChange, changedAt, ran, pauses>>
      BY <2>9 DEF TickReadLast, TickJobs
    <3>2. ~Changing(k) /\ ~Changing(k)'
      BY <3>1 DEF Changing
    <3>3. tickJob[k].fired <= now
      BY <2>1, <3>1 DEF InFlight
    <3>4. ~EarlyAt(now, LastChangeOr1990) =>
            lastTickChange = Absent \/ now - lastTickChange >= TickSpan
      BY <1>2, <1>3 DEF EarlyAt, LastChangeOr1990, ChangeInv, TickSpan
    <3>5. LastChangeOr1990' = LastChangeOr1990
      BY <3>1 DEF LastChangeOr1990
    <3>6. ReadInv(k)'
      BY <2>2, <3>1, <3>2, <3>3, <3>4, <3>5 DEF ReadInv
    <3> QED
      BY <2>7, <3>1, <3>2, <3>6
  <2>10. CASE TickFreezeRound(k)
    <3>1. /\ tickJob[k].pc = "freezeRound" /\ tickJob'[k].fired = tickJob[k].fired
          /\ tickJob'[k].at = tickJob[k].at
          /\ \/ tickJob'[k].pc = "idle"
             \/ tickJob'[k].pc = "readTick" /\ ~EarlyAt(tickJob[k].at, LastChangeOr1990)
          /\ UNCHANGED <<currentTick, lastTickChange, changedAt, ran, pauses>>
      BY <2>1, <2>10 DEF TickFreezeRound, TickGoto, TickJobs, ReadInv
    <3>2. ~Changing(k) /\ ~Changing(k)'
      BY <3>1 DEF Changing
    <3>3. tickJob[k].fired <= tickJob[k].at /\ tickJob[k].at <= now /\ tickJob[k].at \in Int
      BY <2>1, <3>1 DEF ReadInv, TickJobs
    <3>4. ~EarlyAt(tickJob[k].at, LastChangeOr1990) =>
            lastTickChange = Absent \/ tickJob[k].at - lastTickChange >= TickSpan
      BY <1>2, <1>3, <3>3 DEF EarlyAt, LastChangeOr1990, ChangeInv, TickSpan
    <3>5. ReadInv(k)'
      BY <2>2, <3>1, <3>2, <3>3, <3>4 DEF ReadInv
    <3> QED
      BY <2>7, <3>1, <3>2, <3>5
  <2>11. CASE TickReadTick(k) \/ TickReadRound(k)
    <3>1. /\ tickJob[k].pc \in {"readTick", "readRound"}
          /\ tickJob'[k].pc \in {"readRound", "setTick"}
          /\ tickJob'[k].fired = tickJob[k].fired /\ tickJob'[k].at = tickJob[k].at
          /\ UNCHANGED <<currentTick, lastTickChange, changedAt, ran, pauses>>
      BY <2>11 DEF TickReadTick, TickReadRound, TickJobs
    <3>2. ~Changing(k) /\ ~Changing(k)'
      BY <3>1 DEF Changing
    <3>3. ReadInv(k)'
      BY <2>1, <2>2, <3>1, <3>2 DEF ReadInv
    <3> QED
      BY <2>7, <3>1, <3>2, <3>3
  <2>12. CASE TickSetTick(k)
    <3>1. /\ tickJob[k].pc = "setTick" /\ tickJob'[k].pc = "setRound"
          /\ tickJob'[k].fired = tickJob[k].fired /\ tickJob'[k].at = tickJob[k].at
          /\ lastTickChange' = lastTickChange
          /\ changedAt' = tickJob[k].at \/ UNCHANGED <<currentTick, changedAt>>
      BY <2>12 DEF TickSetTick, TickGoto, TickJobs
    <3>2. Changing(k)' /\ ~Changing(k)
      BY <3>1 DEF Changing
    <3>3. ChangeInv'
      BY <1>3, <2>2, <2>6, <3>1, <3>2 DEF ChangeInv
    <3>4. /\ tickJob[k].fired <= tickJob[k].at /\ tickJob[k].at <= now
          /\ now <= tickJob[k].fired + MaxLag /\ ~isPaused
          /\ tickJob[k].at \in Int /\ tickJob[k].fired \in Int
          /\ lastTickChange = Absent \/ tickJob[k].at - lastTickChange >= TickSpan
      BY <2>1, <3>1 DEF ReadInv, InFlight, JobInv, TickJobs
    <3>5. now - tickJob[k].at <= Credit'
      BY <1>1, <3>4
    <3>6. changedAt' <= tickJob[k].at
      <4>1. CASE currentTick' = currentTick
        <5>1. currentTick # 0
          BY <2>1, <2>12, <4>1 DEF JobInv, Following, TickSetTick
        <5>2. lastTickChange \in Nat /\ changedAt <= lastTickChange
          BY <1>3, <2>5, <3>2, <5>1 DEF ChangeInv
        <5>3. changedAt' = changedAt
          BY <2>12, <4>1 DEF TickSetTick
        <5> QED
          BY <1>2, <3>4, <5>2, <5>3
      <4>2. CASE currentTick' # currentTick
        BY <2>12, <3>4, <4>2 DEF TickSetTick
      <4> QED
        BY <4>1, <4>2
    <3> QED
      BY <2>2, <3>1, <3>2, <3>3, <3>4, <3>5, <3>6 DEF ReadInv
  <2>13. CASE TickSetRound(k)
    <3>1. /\ tickJob[k].pc = "setRound" /\ tickJob'[k].pc = "setLast"
          /\ tickJob'[k].fired = tickJob[k].fired /\ tickJob'[k].at = tickJob[k].at
          /\ UNCHANGED <<currentTick, lastTickChange, changedAt, ran, pauses>>
      BY <2>13 DEF TickSetRound, TickGoto, TickJobs
    <3>2. Changing(k) /\ Changing(k)'
      BY <3>1 DEF Changing
    <3>3. ReadInv(k)'
      BY <1>1, <2>1, <2>2, <3>1, <3>2 DEF ReadInv
    <3> QED
      BY <2>7, <3>1, <3>2, <3>3
  <2>14. CASE TickSetLast(k)
    <3>1. /\ tickJob[k].pc = "setLast" /\ tickJob'[k].pc = "flags"
          /\ lastTickChange' = tickJob[k].at
          /\ UNCHANGED <<currentTick, changedAt, ran, pauses>>
      BY <2>14 DEF TickSetLast, TickGoto, TickJobs
    <3>2. Changing(k) /\ ~Changing(k)'
      BY <3>1 DEF Changing
    <3>3. /\ tickJob[k].at \in Nat /\ ~isPaused /\ changedAt <= tickJob[k].at
          /\ now - tickJob[k].at <= Credit
      BY <2>1, <3>1, <3>2 DEF ReadInv, InFlight, TickJobs
    <3>4. ChangeInv'
      BY <1>1, <2>2, <3>1, <3>3 DEF ChangeInv
    <3>5. ReadInv(k)'
      BY <3>1, <3>2 DEF ReadInv
    <3> QED
      BY <3>4, <3>5
  <2> QED
    BY <1>9, <2>8, <2>9, <2>10, <2>11, <2>12, <2>13, <2>14 DEF TickKeeper
<1> QED
  BY <1>5, <1>6, <1>7, <1>8, <1>9, TimeInvAdmin DEF Next

\* A change of the tick, neither the first nor by a reset, is the commit of a tick job
\* that found a tick's time passed.
LEMMA TickTimed ==
  ASSUME Serial, TypeOK, TypeOK', ScheduleInv, TimeInv, [Next]_vars,
         currentTick' # currentTick, currentTick # 0, currentTick' # 0
  PROVE  /\ changedAt' >= changedAt + TickSpan
         /\ ran + pauses * PauseCost + MaxLag >= TickSpan
<1> USE ClockAssumption DEF TypeOK, Absent
<1>1. PICK k \in Keepers : TickSetTick(k)
  <2>1. CASE TimePasses \/ StoreDefenseFlag \/ Admin \/ UNCHANGED vars
    BY <2>1 DEF TimePasses, StoreDefenseFlag, Admin, PauseRequest, PauseCommit,
         UnpauseRequest, UnpauseSetLast, UnpauseCommit, ResetGame, SetStartTime, vars
  <2>2. ASSUME NEW j \in Keepers, ~TickSetTick(j),
               FireTick(j) \/ FireChecker(j) \/ TickKeeper(j) \/ FlagKeeper(j)
                 \/ CheckerKeeper(j) \/ KeeperCrash(j)
        PROVE  FALSE
    BY <2>2 DEF FireTick, FireChecker, KeeperCrash, TickKeeper, TickCheck, TickReadLast,
         TickFreezeRound, TickReadTick, TickReadRound, TickSetRound, TickSetLast,
         FlagKeeper, FlagCheck, FlagReadTick, FlagReadRound, FlagPublish,
         CheckerKeeper, CheckerCheck, CheckerReadTick, CheckerReadRound, CheckerPublish
  <2> QED
    BY <2>1, <2>2 DEF Next
<1>2. /\ tickJob[k].pc = "setTick" /\ changedAt' = tickJob[k].at
      /\ \A j \in Keepers : j = k
  BY <1>1 DEF TickSetTick, Serial, SoleKeeper
<1>3. /\ lastTickChange \in Nat /\ changedAt <= lastTickChange
      /\ ~isPaused => now - lastTickChange <= Credit
  BY <1>2 DEF TimeInv, ChangeInv, Changing
<1>4. /\ tickJob[k].at \in Int /\ tickJob[k].at <= now
      /\ tickJob[k].at - lastTickChange >= TickSpan /\ ~isPaused
  BY <1>2, <1>3 DEF TimeInv, ReadInv, Undecided, Deciding, ScheduleInv, JobInv, TickJobs
<1>5. TickSpan \in Nat
  BY SMTT(30) DEF TickSpan
<1>6. Credit \in Nat
  BY CreditGrows
<1>7. Credit >= TickSpan
  BY <1>3, <1>4, <1>5, <1>6
<1>8. tickJob[k].at >= changedAt + TickSpan
  BY <1>3, <1>4, <1>5
<1> QED
  BY <1>2, <1>7, <1>8 DEF Credit

\* What holds of the clock when requests wait for the one keeper's tick job.
LEMMA SerialInvariant == Serial => (Spec => [](TypeOK /\ ScheduleInv /\ TimeInv))
<1> SUFFICES ASSUME Serial PROVE Spec => [](TypeOK /\ ScheduleInv /\ TimeInv)
  OBVIOUS
<1> DEFINE Inv == TypeOK /\ ScheduleInv /\ JobsInFlight /\ TimeInv
<1>1. Init => Inv
  BY TypeInit, ScheduleInvInit, InFlightInit, TimeInvInit
<1>2. Inv /\ [Next]_vars => Inv'
  BY TypeStep, ScheduleInvStep, InFlightStep, TimeInvStep
<1>3. Inv => TypeOK /\ ScheduleInv /\ TimeInv
  OBVIOUS
<1> HIDE DEF Inv
<1> QED
  BY <1>1, <1>2, <1>3, PTL DEF Spec

\* With one keeper that does not crash and requests that wait for its tick job,
\* CURRENT_TICK moves at most once in TICK_DURATION minutes, however often the contest is
\* paused, resumed and reset.  (Two keepers break it.)
THEOREM NeverEarly == Serial => (Spec => NoEarlyAdvance)
<1> SUFFICES ASSUME Serial PROVE Spec => NoEarlyAdvance
  OBVIOUS
<1>1. TypeOK /\ TypeOK' /\ ScheduleInv /\ TimeInv /\ [Next]_vars =>
        [currentTick' # currentTick /\ currentTick # 0 /\ currentTick' # 0
           => changedAt' >= changedAt + TickDuration * Minute]_vars
  BY TickTimed DEF TickSpan
<1> QED
  BY SerialInvariant, <1>1, PTL DEF Spec, NoEarlyAdvance

\* Under the same conditions pauses do not shorten a tick: whatever their number, between
\* two changes of the tick the contest runs for TICK_DURATION minutes, but for the minute
\* and the delay that each pause may cost and the delay of the job.
THEOREM TickKeptItsTime == Serial => (Spec => TickKeepsItsTime)
<1> SUFFICES ASSUME Serial PROVE Spec => TickKeepsItsTime
  OBVIOUS
<1>1. TypeOK /\ TypeOK' /\ ScheduleInv /\ TimeInv /\ [Next]_vars =>
        [currentTick' # currentTick /\ currentTick # 0 /\ currentTick' # 0
           => ran + pauses * (Minute - 1 + MaxLag) + MaxLag >= TickDuration * Minute]_vars
  BY TickTimed DEF TickSpan, PauseCost
<1> QED
  BY SerialInvariant, <1>1, PTL DEF Spec, TickKeepsItsTime
=============================================================================

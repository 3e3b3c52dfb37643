---------------------------- MODULE ContestClock ----------------------------
(***************************************************************************)
(* The game clock of the contest: the rows CURRENT_TICK, CURRENT_ROUND,    *)
(* LAST_TICK_CHANGE, IS_CONTEST_PAUSED, LAST_PAUSED, FREEZE_TICK,          *)
(* FREEZE_ROUND and START_TIME of the configuration table, the two cron    *)
(* jobs of every keeper process (ailurus/worker/keeper.py) that read and   *)
(* write them, and the requests of the administrator that pause, resume    *)
(* and reset the contest.                                                  *)
(*                                                                         *)
(* set_config commits every row on its own, so each row written is a step  *)
(* of its own, and so is each row read whose value is kept across steps.   *)
(* Time is counted in units; a minute has Minute of them.                  *)
(***************************************************************************)
EXTENDS Integers, FiniteSets

CONSTANTS
  Keepers,       \* keeper processes: one, or two when the webapp hosts one too
  NumberTick,    \* NUMBER_TICK, ticks in a round
  NumberRound,   \* NUMBER_ROUND, rounds in the contest
  TickDuration,  \* TICK_DURATION, in minutes
  Minute,        \* units in a minute
  FlagWindow,    \* the 20 seconds of flag_keeper, in units
  StartTime,     \* START_TIME as configured at first
  AttackTime,    \* ATTACK_TIME, the end of the defence phase
  FreezeTime,    \* FREEZE_TIME of the scoreboard
  MaxTime,       \* bound: the clock stops here
  MaxLag,        \* bound: units a job or a request may stay in flight
  MaxRequests,   \* bound: administrator requests in a behaviour
  MaxResets,     \* bound: how many of them reset the game
  MaxCrashes,    \* bound: crashes of a keeper in a behaviour
  Overlap        \* whether a request may run while a tick job is in flight

ASSUME ClockAssumption ==
  /\ NumberTick \in Nat \ {0}
  /\ NumberRound \in Nat \ {0}
  /\ TickDuration \in Nat \ {0}
  /\ Minute \in Nat \ {0}
  /\ FlagWindow \in Nat
  /\ StartTime \in Nat /\ AttackTime \in Nat /\ FreezeTime \in Nat
  /\ MaxTime \in Nat /\ MaxLag \in Nat
  /\ MaxRequests \in Nat /\ MaxResets \in Nat /\ MaxCrashes \in Nat
  /\ Overlap \in BOOLEAN

VARIABLES
  now,             \* wall clock
  currentTick,     \* CURRENT_TICK, 0 while the row is absent
  currentRound,    \* CURRENT_ROUND, 0 while the row is absent
  lastTickChange,  \* LAST_TICK_CHANGE, Absent while the row is absent
  isPaused,        \* IS_CONTEST_PAUSED
  lastPaused,      \* LAST_PAUSED, Absent while the row is absent
  startTime,       \* START_TIME
  freezeTick,      \* FREEZE_TICK, Absent while the row is absent
  freezeRound,     \* FREEZE_ROUND, Absent while the row is absent
  defenseStored,   \* does the flag table hold a flag of (-1, -1)?
  tickJob,         \* tick_keeper and its callback flag_keeper, per keeper
  checkerJob,      \* checker_keeper, per keeper
  admin,           \* the administrator's request in flight
  flagged,         \* positions for which a batch of flag tasks was published
  checked,         \* positions for which checker tasks were published
  requests,        \* administrator requests made so far
  resets,          \* resets made so far
  crashes,         \* crashes so far
  wasCurrent,      \* history: positions the two rows have shown
  changedAt,       \* history: time_now of the last change of CURRENT_TICK
  ran,             \* history: units not paused since that change
  pauses           \* history: pauses since that change

position == <<currentRound, currentTick>>
clockRows == <<currentTick, currentRound, lastTickChange>>
pauseRows == <<isPaused, lastPaused>>
freezeRows == <<freezeTick, freezeRound>>
rows == <<clockRows, pauseRows, startTime, freezeRows, defenseStored>>
published == <<flagged, checked>>
bounds == <<requests, resets, crashes>>
history == <<wasCurrent, changedAt, ran, pauses>>

vars == <<now, rows,
          tickJob, checkerJob, admin, published, bounds, history>>

-----------------------------------------------------------------------------

Absent == -1
Never == MaxTime + 1        \* 2037, which reset_game_contest_data writes
Defense == <<-1, -1>>       \* the position of the flags of the defence phase

FloorMinute(t) == t - (t % Minute)

\* get_config("LAST_TICK_CHANGE", 1990): longer ago than any tick lasts
LastChangeOr1990 ==
  IF lastTickChange = Absent THEN -(TickDuration * Minute) ELSE lastTickChange

RoundOr1 == IF currentRound = 0 THEN 1 ELSE currentRound

\* Mutant: the two parts of a position change places.
LabelsSwapped(round, tick) == IF round = 0 THEN {} ELSE {<<tick, round>>}

\* Tasks are made for the challenges released in the round that was read; an
\* absent CURRENT_ROUND releases none.
Labels(round, tick) == IF round = 0 THEN {} ELSE {<<round, tick>>}

Started == now >= startTime
Finished == currentRound > NumberRound
Running == ~isPaused /\ ~Finished /\ Started
DefensePhased == Started /\ now < AttackTime

TickSteps == {"idle", "check", "last", "freezeRound", "readTick", "readRound",
              "setTick", "setRound", "setLast", "flags", "flagTick",
              "flagRound", "flagPublish"}
CheckerSteps == {"idle", "check", "readTick", "readRound", "publish"}
AdminSteps == {"idle", "pause", "setLast", "unpause"}

IdleTickJob == [pc |-> "idle", fired |-> Absent, at |-> 0, last |-> 0,
                tick |-> 0, round |-> 0]
IdleCheckerJob == [pc |-> "idle", fired |-> Absent, tick |-> 0, round |-> 0]
IdleAdmin == [pc |-> "idle", began |-> 0, last |-> 0]

TickJobs == [pc : TickSteps, fired : Int, at : Int, last : Int,
             tick : 0 .. NumberTick, round : Nat]
CheckerJobs == [pc : CheckerSteps, fired : Int, tick : 0 .. NumberTick, round : Nat]
Positions == Nat \X (0 .. NumberTick)

TypeOK ==
  /\ now \in Nat
  /\ currentTick \in 0 .. NumberTick
  /\ currentRound \in Nat
  /\ lastTickChange \in Int /\ lastPaused \in Int
  /\ isPaused \in BOOLEAN /\ defenseStored \in BOOLEAN
  /\ startTime \in Nat
  /\ freezeTick \in {Absent} \cup (0 .. NumberTick)
  /\ freezeRound \in {Absent} \cup Nat
  /\ tickJob \in [Keepers -> TickJobs]
  /\ checkerJob \in [Keepers -> CheckerJobs]
  /\ admin \in [pc : AdminSteps, began : Nat, last : Int]
  /\ flagged \subseteq {Defense} \cup Positions
  /\ checked \subseteq {Defense} \cup Positions
  /\ wasCurrent \subseteq Positions
  /\ requests \in Nat /\ resets \in Nat /\ crashes \in Nat
  /\ changedAt \in Int /\ ran \in Nat /\ pauses \in Nat

Init ==
  /\ now = 0
  /\ currentTick = 0 /\ currentRound = 0 /\ lastTickChange = Absent
  /\ isPaused = FALSE /\ lastPaused = Absent
  /\ startTime = StartTime
  /\ freezeTick = Absent /\ freezeRound = Absent
  /\ defenseStored = FALSE
  /\ tickJob = [k \in Keepers |-> IdleTickJob]
  /\ checkerJob = [k \in Keepers |-> IdleCheckerJob]
  /\ admin = IdleAdmin
  /\ flagged = {} /\ checked = {}
  /\ requests = 0 /\ resets = 0 /\ crashes = 0
  /\ wasCurrent = {<<0, 0>>}
  /\ changedAt = 0 /\ ran = 0 /\ pauses = 0

-----------------------------------------------------------------------------
(* The cron trigger and the clock                                          *)

\* CronTrigger(minute="*") starts a job at the turn of a minute, unless the
\* previous run of that job is still in flight (max_instances = 1).
FireTick(k) ==
  /\ now % Minute = 0
  /\ tickJob[k].pc = "idle" /\ tickJob[k].fired # now
  /\ Overlap \/ admin.pc = "idle"
  /\ tickJob' = [tickJob EXCEPT ![k].pc = "check", ![k].fired = now]
  /\ UNCHANGED <<now, rows, checkerJob, admin, published, bounds, history>>

FireChecker(k) ==
  /\ now % Minute = 0
  /\ checkerJob[k].pc = "idle" /\ checkerJob[k].fired # now
  /\ checkerJob' = [checkerJob EXCEPT ![k].pc = "check", ![k].fired = now]
  /\ UNCHANGED <<now, rows, tickJob, admin, published, bounds, history>>

\* Time passes; nothing stays in flight for more than MaxLag units.
InTime ==
  /\ \A k \in Keepers :
       /\ tickJob[k].pc # "idle" => now < tickJob[k].fired + MaxLag
       /\ checkerJob[k].pc # "idle" => now < checkerJob[k].fired + MaxLag
  /\ admin.pc # "idle" => now < admin.began + MaxLag

TimePasses ==
  /\ now < MaxTime /\ InTime
  /\ now' = now + 1
  /\ ran' = IF isPaused THEN ran ELSE ran + 1
  /\ UNCHANGED <<rows,
                 tickJob, checkerJob, admin, published, bounds,
                 wasCurrent, changedAt, pauses>>

-----------------------------------------------------------------------------
(* tick_keeper                                                             *)

\* One step of the tick job of k that ends at pc, other variables aside.
TickGoto(k, pc) == tickJob' = [tickJob EXCEPT ![k].pc = pc]

TickCheck(k) ==
  /\ tickJob[k].pc = "check"
  /\ TickGoto(k, IF ~Running THEN "idle"
                 ELSE IF DefensePhased THEN "flags" ELSE "last")
  /\ UNCHANGED <<now, rows, checkerJob, admin, published, bounds, history>>

\* Mutant: the bound is not inclusive.
EarlyAtInclusive(at, last) == at < last \/ at - last <= TickDuration * Minute

\* The comparison of time_now with LAST_TICK_CHANGE as it was read.
EarlyAt(at, last) == at < last \/ at - last < TickDuration * Minute

\* Reads LAST_TICK_CHANGE and the clock; when the freeze is due and was not
\* recorded yet, FREEZE_TICK is committed here and FREEZE_ROUND a step later.
TickReadLast(k) ==
  /\ tickJob[k].pc = "last"
  /\ LET due == now >= FreezeTime /\ freezeTick = Absent IN
       /\ tickJob' = [tickJob EXCEPT ![k].at = now,
                                     ![k].last = LastChangeOr1990,
                                     ![k].pc =
                        IF due THEN "freezeRound"
                        ELSE IF EarlyAt(now, LastChangeOr1990) THEN "idle"
                        ELSE "readTick"]
       /\ freezeTick' = IF due THEN currentTick ELSE freezeTick
  /\ UNCHANGED <<now, clockRows, pauseRows, startTime, freezeRound,
                 defenseStored, checkerJob, admin, published, bounds, history>>

TickFreezeRound(k) ==
  /\ tickJob[k].pc = "freezeRound"
  /\ freezeRound' = RoundOr1
  /\ TickGoto(k, IF EarlyAt(tickJob[k].at, tickJob[k].last) THEN "idle"
                 ELSE "readTick")
  /\ UNCHANGED <<now, clockRows, pauseRows, startTime, freezeTick,
                 defenseStored, checkerJob, admin, published, bounds, history>>

\* current_tick is what the row shows; the increment is taken with the wrap.
TickReadTick(k) ==
  /\ tickJob[k].pc = "readTick"
  /\ tickJob' = [tickJob EXCEPT ![k].pc = "readRound", ![k].tick = currentTick]
  /\ UNCHANGED <<now, rows, checkerJob, admin, published, bounds, history>>

\* Mutants: a round that is one tick short, a round that is one tick long.
WrapsEarly(tick) == tick + 1 >= NumberTick
WrapsLate(tick) == tick > NumberTick

Wraps(tick) == tick + 1 > NumberTick

\* Mutants: the tick wraps and the round stays, or becomes the tick that is too large.
NewRoundSame(tick) == RoundOr1
NewRoundOfTick(tick) == IF Wraps(tick) THEN tick + 1 ELSE RoundOr1

NewRound(tick) == IF Wraps(tick) THEN RoundOr1 + 1 ELSE RoundOr1

TickReadRound(k) ==
  /\ tickJob[k].pc = "readRound"
  /\ tickJob' = [tickJob EXCEPT
                   ![k].pc = "setTick",
                   ![k].tick = IF Wraps(@) THEN 1 ELSE @ + 1,
                   ![k].round = NewRound(tickJob[k].tick)]
  /\ UNCHANGED <<now, rows, checkerJob, admin, published, bounds, history>>

TickSetTick(k) ==
  /\ tickJob[k].pc = "setTick"
  /\ currentTick' = tickJob[k].tick
  /\ wasCurrent' = wasCurrent \cup {<<currentRound, tickJob[k].tick>>}
  /\ IF currentTick' # currentTick
       THEN changedAt' = tickJob[k].at /\ ran' = 0 /\ pauses' = 0
       ELSE UNCHANGED <<changedAt, ran, pauses>>
  /\ TickGoto(k, "setRound")
  /\ UNCHANGED <<now, currentRound, lastTickChange, pauseRows, startTime,
                 freezeRows, defenseStored, checkerJob, admin, published, bounds>>

TickSetRound(k) ==
  /\ tickJob[k].pc = "setRound"
  /\ currentRound' = tickJob[k].round
  /\ wasCurrent' = wasCurrent \cup {<<tickJob[k].round, currentTick>>}
  /\ TickGoto(k, "setLast")
  /\ UNCHANGED <<now, currentTick, lastTickChange, pauseRows, startTime,
                 freezeRows, defenseStored, checkerJob, admin, published, bounds,
                 changedAt, ran, pauses>>

TickSetLast(k) ==
  /\ tickJob[k].pc = "setLast"
  /\ lastTickChange' = tickJob[k].at
  /\ TickGoto(k, "flags")
  /\ UNCHANGED <<now, currentTick, currentRound, pauseRows, startTime,
                 freezeRows, defenseStored, checkerJob, admin, published, bounds,
                 history>>

-----------------------------------------------------------------------------
(* flag_keeper, the callback of tick_keeper in the same job                *)

\* Mutant: a tick changed exactly 20 seconds ago is too old.
ChangeIsFreshExclusive == now - LastChangeOr1990 < FlagWindow

ChangeIsFresh == now - LastChangeOr1990 <= FlagWindow

\* The running check; in the defence phase one batch is published unless the
\* flag table already holds a flag of (-1, -1); otherwise LAST_TICK_CHANGE
\* must be fresh.
FlagCheck(k) ==
  /\ tickJob[k].pc = "flags"
  /\ IF Running /\ DefensePhased
       THEN /\ flagged' = IF defenseStored THEN flagged
                          ELSE flagged \cup {Defense}
            /\ TickGoto(k, "idle")
       ELSE /\ TickGoto(k, IF Running /\ ChangeIsFresh THEN "flagTick" ELSE "idle")
            /\ UNCHANGED flagged
  /\ UNCHANGED <<now, rows, checkerJob, admin, checked, bounds, history>>

FlagReadTick(k) ==
  /\ tickJob[k].pc = "flagTick"
  /\ tickJob' = [tickJob EXCEPT ![k].pc = "flagRound", ![k].tick = currentTick]
  /\ UNCHANGED <<now, rows, checkerJob, admin, published, bounds, history>>

FlagReadRound(k) ==
  /\ tickJob[k].pc = "flagRound"
  /\ tickJob' = [tickJob EXCEPT ![k].pc = "flagPublish", ![k].round = currentRound]
  /\ UNCHANGED <<now, rows, checkerJob, admin, published, bounds, history>>

FlagPublish(k) ==
  /\ tickJob[k].pc = "flagPublish"
  /\ flagged' = flagged \cup Labels(tickJob[k].round, tickJob[k].tick)
  /\ TickGoto(k, "idle")
  /\ UNCHANGED <<now, rows, checkerJob, admin, checked, bounds, history>>

\* A flag rotator stores the first flag of the defence phase (FlagPipeline
\* models the rotators).
StoreDefenseFlag ==
  /\ Defense \in flagged /\ ~defenseStored
  /\ defenseStored' = TRUE
  /\ UNCHANGED <<now, clockRows, pauseRows, startTime, freezeRows, tickJob,
                 checkerJob, admin, published, bounds, history>>

-----------------------------------------------------------------------------
(* checker_keeper                                                          *)

CheckerGoto(k, pc) == checkerJob' = [checkerJob EXCEPT ![k].pc = pc]

CheckerCheck(k) ==
  /\ checkerJob[k].pc = "check"
  /\ CheckerGoto(k, IF Running THEN "readTick" ELSE "idle")
  /\ UNCHANGED <<now, rows, tickJob, admin, published, bounds, history>>

CheckerReadTick(k) ==
  /\ checkerJob[k].pc = "readTick"
  /\ checkerJob' = [checkerJob EXCEPT ![k].pc = "readRound",
                                      ![k].tick = currentTick]
  /\ UNCHANGED <<now, rows, tickJob, admin, published, bounds, history>>

CheckerReadRound(k) ==
  /\ checkerJob[k].pc = "readRound"
  /\ checkerJob' = [checkerJob EXCEPT ![k].pc = "publish",
                                      ![k].round = currentRound]
  /\ UNCHANGED <<now, rows, tickJob, admin, published, bounds, history>>

\* The defence phase overrides the position that was read.
CheckerPublish(k) ==
  /\ checkerJob[k].pc = "publish"
  /\ checked' = checked \cup
       IF DefensePhased THEN {Defense}
       ELSE Labels(checkerJob[k].round, checkerJob[k].tick)
  /\ CheckerGoto(k, "idle")
  /\ UNCHANGED <<now, rows, tickJob, admin, flagged, bounds, history>>

-----------------------------------------------------------------------------
(* Requests of the administrator: PATCH configs/IS_CONTEST_PAUSED (which   *)
(* runs update_paused_status) and POST contests/reset-game                 *)

MayRequest ==
  /\ admin.pc = "idle" /\ requests < MaxRequests
  /\ Overlap \/ \A k \in Keepers : tickJob[k].pc = "idle"

\* LAST_PAUSED is committed first, IS_CONTEST_PAUSED after it.
PauseRequest ==
  /\ MayRequest /\ ~isPaused
  /\ lastPaused' = FloorMinute(now)
  /\ admin' = [pc |-> "pause", began |-> now, last |-> 0]
  /\ requests' = requests + 1
  /\ UNCHANGED <<now, clockRows, isPaused, startTime, freezeRows, defenseStored,
                 tickJob, checkerJob, published, resets, crashes, history>>

PauseCommit ==
  /\ admin.pc = "pause"
  /\ isPaused' = TRUE
  /\ pauses' = pauses + 1
  /\ admin' = [admin EXCEPT !.pc = "idle"]
  /\ UNCHANGED <<now, clockRows, lastPaused, startTime, freezeRows,
                 defenseStored, tickJob, checkerJob, published, bounds,
                 wasCurrent, changedAt, ran>>

\* Mutant: the time spent paused is not given back.
PivotUnmoved == lastTickChange

\* pivot_last_tick_change: the contest resumes with the part of the tick that
\* had elapsed at LAST_PAUSED.
Pivot == FloorMinute(now) - (lastPaused - lastTickChange)

UnpauseRequest ==
  /\ MayRequest /\ isPaused
  /\ admin' = IF lastTickChange # Absent /\ lastPaused # Absent
                THEN [pc |-> "setLast", began |-> now, last |-> Pivot]
                ELSE [pc |-> "unpause", began |-> now, last |-> 0]
  /\ requests' = requests + 1
  /\ UNCHANGED <<now, rows, tickJob, checkerJob, published, resets, crashes, history>>

UnpauseSetLast ==
  /\ admin.pc = "setLast"
  /\ lastTickChange' = admin.last
  /\ admin' = [admin EXCEPT !.pc = "unpause"]
  /\ UNCHANGED <<now, currentTick, currentRound, pauseRows, startTime,
                 freezeRows, defenseStored, tickJob, checkerJob, published,
                 bounds, history>>

UnpauseCommit ==
  /\ admin.pc = "unpause"
  /\ isPaused' = FALSE
  /\ admin' = [admin EXCEPT !.pc = "idle"]
  /\ UNCHANGED <<now, clockRows, lastPaused, startTime, freezeRows,
                 defenseStored, tickJob, checkerJob, published, bounds, history>>

\* One transaction. The broker's queues are not purged.
ResetGame ==
  /\ MayRequest /\ resets < MaxResets
  /\ resets' = resets + 1
  /\ currentTick' = 0 /\ currentRound' = 0 /\ lastTickChange' = Absent
  /\ freezeTick' = Absent /\ freezeRound' = Absent
  /\ lastPaused' = Absent /\ isPaused' = FALSE
  /\ startTime' = Never
  /\ defenseStored' = FALSE
  /\ requests' = requests + 1
  /\ flagged' = {} /\ wasCurrent' = wasCurrent \cup {<<0, 0>>}
  /\ UNCHANGED <<now, tickJob, checkerJob, admin, checked, crashes, changedAt,
                 ran, pauses>>

\* PATCH configs/START_TIME: the administrator schedules the contest again.
SetStartTime ==
  /\ MayRequest /\ startTime = Never
  /\ startTime' = now
  /\ requests' = requests + 1
  /\ UNCHANGED <<now, clockRows, pauseRows, freezeRows, defenseStored, tickJob,
                 checkerJob, admin, published, resets, crashes, history>>

\* A keeper process dies between two statements and is started again.
KeeperCrash(k) ==
  /\ crashes < MaxCrashes
  /\ tickJob[k].pc # "idle" \/ checkerJob[k].pc # "idle"
  /\ crashes' = crashes + 1
  /\ tickJob' = [tickJob EXCEPT ![k].pc = "idle"]
  /\ checkerJob' = [checkerJob EXCEPT ![k].pc = "idle"]
  /\ UNCHANGED <<now, rows, admin, published, requests, resets, history>>

-----------------------------------------------------------------------------

TickKeeper(k) ==
  \/ TickCheck(k) \/ TickReadLast(k) \/ TickFreezeRound(k)
  \/ TickReadTick(k) \/ TickReadRound(k)
  \/ TickSetTick(k) \/ TickSetRound(k) \/ TickSetLast(k)

FlagKeeper(k) ==
  FlagCheck(k) \/ FlagReadTick(k) \/ FlagReadRound(k) \/ FlagPublish(k)

CheckerKeeper(k) ==
  CheckerCheck(k) \/ CheckerReadTick(k) \/ CheckerReadRound(k) \/ CheckerPublish(k)

Admin ==
  \/ PauseRequest \/ PauseCommit
  \/ UnpauseRequest \/ UnpauseSetLast \/ UnpauseCommit
  \/ ResetGame \/ SetStartTime

Next ==
  \/ TimePasses \/ StoreDefenseFlag \/ Admin
  \/ \E k \in Keepers :
       \/ FireTick(k) \/ FireChecker(k)
       \/ TickKeeper(k) \/ FlagKeeper(k) \/ CheckerKeeper(k)
       \/ KeeperCrash(k)

Spec == Init /\ [][Next]_vars

-----------------------------------------------------------------------------
(* The schedule of a healthy deployment: every keeper is started at every   *)
(* minute, before the next unit of time, and its jobs finish.               *)

Punctual ==
  now % Minute = 0 =>
    \A k \in Keepers : tickJob[k].fired = now /\ checkerJob[k].fired = now

PunctualNext == Next /\ (now' # now => Punctual)

Fairness ==
  /\ WF_vars(TimePasses /\ Punctual)
  /\ \A k \in Keepers :
       /\ WF_vars(FireTick(k)) /\ WF_vars(FireChecker(k))
       /\ WF_vars(TickKeeper(k)) /\ WF_vars(FlagKeeper(k))
       /\ WF_vars(CheckerKeeper(k))
  /\ WF_vars(PauseCommit) /\ WF_vars(UnpauseSetLast) /\ WF_vars(UnpauseCommit)

PunctualSpec == Init /\ [][PunctualNext]_vars /\ Fairness

-----------------------------------------------------------------------------
(* Safety                                                                  *)

\* The round of the position that comes after p.
RoundAfter(p) ==
  (IF p[1] = 0 THEN 1 ELSE p[1]) + (IF p[2] = NumberTick THEN 1 ELSE 0)

\* The contest stops for good one round after NUMBER_ROUND: no interleaving
\* of the keeper with requests and crashes moves CURRENT_ROUND further.
RoundBounded == currentRound <= NumberRound + 1

\* The position recorded for the frozen scoreboard is one the contest was at,
\* not the tick of one moment with the round of another (a reset may come
\* between the two).
FreezeSnapshot ==
  (/\ resets = 0 /\ freezeTick # Absent /\ freezeRound # Absent
   /\ \A k \in Keepers : tickJob[k].pc # "freezeRound")
    => \E p \in wasCurrent :
         <<freezeRound, freezeTick>> = <<IF p[1] = 0 THEN 1 ELSE p[1], p[2]>>

\* checker_keeper reads CURRENT_TICK and CURRENT_ROUND in two statements while
\* tick_keeper, started at the same minute, may be writing them.  The label
\* it gives its tasks is a position the contest showed, except that reads on
\* either side of a change of position join a tick to the round of the position
\* that follows: the last tick to the new round, or no tick to the first.  A
\* reset that comes between the reads is left aside.
CheckerLabels ==
  resets = 0 => \A p \in checked \ {Defense} :
    \/ p \in wasCurrent
    \/ \E q \in wasCurrent : p = <<RoundAfter(q), q[2]>>

\* flag_keeper publishes flags only for positions the contest was at.
FlagLabels == flagged \subseteq wasCurrent \cup {Defense}

\* What leaves the clock in pieces names a position the contest was at, or the one mixture
\* CheckerLabels allows: the freeze, the tasks of checkers and the flags, each put
\* together from rows that tick_keeper commits one by one.
PositionsShown == FreezeSnapshot /\ CheckerLabels /\ FlagLabels

\* CURRENT_TICK moves at most once in TICK_DURATION minutes.
NoEarlyAdvance ==
  [][currentTick' # currentTick /\ currentTick # 0 /\ currentTick' # 0
       => changedAt' >= changedAt + TickDuration * Minute]_vars

\* Pausing does not shorten a tick either: the time the contest was not
\* paused in a tick reaches TICK_DURATION minutes, but for what each pause costs
\* by rounding down to a minute and by the delay between the computation of
\* LAST_TICK_CHANGE and the commit of the resume, and for the delay of the job.
TickKeepsItsTime ==
  [][currentTick' # currentTick /\ currentTick # 0 /\ currentTick' # 0
       => ran + pauses * (Minute - 1 + MaxLag) + MaxLag >= TickDuration * Minute]_vars

\* A tick that is left behind had its flags published while it was current.
EveryTickFlagged ==
  [][currentTick' # currentTick /\ currentTick # 0 /\ currentTick' # 0
       => position \in flagged]_vars

\* The two rows, written one after the other, implement a position that moves
\* in one step: between the two writes the round is the one about to be
\* written.  So nothing but a reset takes the contest back, no tick is skipped
\* and none is entered while the contest is paused.
ScheduleRound ==
  IF \E k \in Keepers : tickJob[k].pc = "setRound"
    THEN tickJob[CHOOSE k \in Keepers : tickJob[k].pc = "setRound"].round
    ELSE currentRound

Schedule == INSTANCE ContestSchedule
              WITH round <- ScheduleRound, tick <- currentTick, paused <- isPaused

ImplementsSchedule == Schedule!Spec

-----------------------------------------------------------------------------
(* Timeliness and liveness, under the schedule of PunctualSpec             *)

\* While the contest runs, LAST_TICK_CHANGE is less than the duration of a tick,
\* the one minute the cron trigger may be away and the delay of the job ago.
TickNotOverdue ==
  (/\ Running /\ ~DefensePhased /\ lastTickChange # Absent /\ admin.pc = "idle")
    => now - lastTickChange < (TickDuration + 1) * Minute + MaxLag

\* The contest comes to its end.
ContestEnds == <>Finished
=============================================================================

----------------------------- MODULE FlagPipeline -----------------------------
(***************************************************************************)
(* From a published flag to a verdict.  Keepers and administrators publish *)
(* flag tasks and checker tasks to two durable queues.  A rotator plants a *)
(* flag on the service and then stores it in the table flag; a checker     *)
(* reads the flags of its position, tries the service and adds a result.   *)
(* A task that is not acknowledged is delivered again when its worker is   *)
(* restarted, and a task that is rejected at once; both go back to the     *)
(* head of their queue.                                                    *)
(*                                                                         *)
(* Flags are numbered in the order they are generated in.                  *)
(***************************************************************************)
EXTENDS Integers, Sequences, FiniteSets

CONSTANTS
  Services,      \* pairs of a team and a challenge (and the order of a flag)
  Order,         \* Order[S]: the services S in the order of the loops that publish
  Rotators, Checkers,
  NumberTick, NumberRound,
  Released,      \* Released[n]: the services of the challenges released in round n
  ReleaseRows,   \* those of every row of challenge_release, in the order of the loops
  Rotates,       \* an administrator may use rotate-flag
  MaxFlags,      \* bound: flags generated
  MaxChecks,     \* bound: times that checker tasks are published
  Missing,       \* sets of services that may not be provisioned at first
  MaxTroubles    \* bound: failures, restarts, services provisioned, games reset

\* Positions are a round and a tick; (-1, -1) is the one of the defence phase and of dry runs.
Defence == <<-1, -1>>
Positions == {Defence} \union ((1..NumberRound) \X (1..NumberTick))
            \union ((1..NumberTick) \X (1..NumberTick))
None == [svc |-> "none"]
NoFlag == [pos |-> Defence, val |-> 0]
FlagTasks == [svc : Services, pos : Positions, val : Nat]
CheckTasks == [svc : Services, pos : Positions, slug : BOOLEAN]

ASSUME PipelineAssumption ==
  /\ NumberTick \in Nat \ {0} /\ NumberRound \in Nat \ {0}
  /\ Released \in [1..(NumberRound + NumberTick) -> SUBSET Services]
  /\ ReleaseRows \in Seq(Services) /\ Rotates \in BOOLEAN
  /\ "none" \notin Services
  /\ Order \in [SUBSET Services -> Seq(Services)]
  /\ \A S \in SUBSET Services : {Order[S][i] : i \in 1..Len(Order[S])} = S
  /\ MaxFlags \in Nat /\ MaxChecks \in Nat /\ MaxTroubles \in Nat
  /\ Missing \subseteq SUBSET Services

\* What tells the modes apart.  A rotator that finds no service raises, or goes on; the
\* flag it plants outlives the machine of the service, or not.
AwsEc2Rotator == [raises |-> FALSE, survives |-> TRUE]
LksnRotator == [raises |-> FALSE, survives |-> TRUE]
FullRootChallRotator == [raises |-> FALSE, survives |-> TRUE]
FullRootUserRotator == [raises |-> FALSE, survives |-> FALSE]
SshRotator == [raises |-> TRUE, survives |-> FALSE]
K8sRotator == [raises |-> FALSE, survives |-> TRUE]
\* A checker that finds no flag rejects its task, or tries the service all the same; it
\* needs the slug of the challenge, which the tasks of a dry run lack, or not.
AwsEc2Checker == [waits |-> TRUE, needsSlug |-> FALSE]
LksnChecker == [waits |-> TRUE, needsSlug |-> FALSE]
FullRootChallChecker == [waits |-> FALSE, needsSlug |-> FALSE]
FullRootUserChecker == [waits |-> FALSE, needsSlug |-> FALSE]
SshChecker == [waits |-> FALSE, needsSlug |-> FALSE]
K8sChecker == [waits |-> FALSE, needsSlug |-> TRUE]

Mode(rotator, checker) == [rotator |-> rotator, checker |-> checker]
Modes ==
  {Mode(AwsEc2Rotator, AwsEc2Checker), Mode(LksnRotator, LksnChecker),
   Mode(FullRootChallRotator, FullRootChallChecker), Mode(FullRootUserRotator, FullRootUserChecker),
   Mode(SshRotator, SshChecker), Mode(K8sRotator, K8sChecker)}

VARIABLES
  mode,      \* SERVICE_MODE, set before the contest
  now,       \* the position of the contest
  due,       \* the flags of the position are to be generated
  exists,    \* services that are provisioned
  planted,   \* planted[s]: the flag on the service, with its position
  stored,    \* stored[s][p]: the value in the row of the table flag; 0 is no row
  results,   \* results[s][p]: rows of the table checker_result
  flagQ,     \* the queue flag_task
  rot,       \* rot[r]: the task of r, or None
  rstep,     \* rstep[r]: where r is in its task
  checkQ,    \* the queue checker_task
  chk,       \* chk[c]: the task of c, or None
  cstep,     \* cstep[c]: where c is in its task
  cread,     \* cread[c]: the value c has read; 0 is none
  made,      \* flags generated so far
  checks,    \* checks[s][p]: checker tasks published
  dry,       \* services that a dry run was asked for
  missed,    \* flags whose planting failed
  overlap,   \* services that two rotators worked on at the same time
  calls,     \* times that checker tasks were published
  faults,    \* remote commands and testcases that failed
  restarts,  \* workers that were restarted with a task
  changes    \* services provisioned, games reset

contestVars == <<mode, now, due, exists, dry, changes>>
flagVars == <<planted, stored, flagQ, rot, rstep, made, missed, overlap>>
checkVars == <<results, checkQ, chk, cstep, cread, checks, calls>>
vars == <<contestVars, flagVars, checkVars, faults, restarts>>

Init ==
  /\ mode \in Modes
  /\ now = Defence /\ due = FALSE
  /\ \E S \in Missing : exists = Services \ S
  /\ planted = [s \in Services |-> NoFlag]
  /\ stored = [s \in Services |-> [p \in Positions |-> 0]]
  /\ results = [s \in Services |-> [p \in Positions |-> 0]]
  /\ flagQ = <<>> /\ rot = [r \in Rotators |-> None] /\ rstep = [r \in Rotators |-> "idle"]
  /\ checkQ = <<>> /\ chk = [c \in Checkers |-> None] /\ cstep = [c \in Checkers |-> "idle"]
  /\ cread = [c \in Checkers |-> 0]
  /\ made = 0 /\ checks = [s \in Services |-> [p \in Positions |-> 0]]
  /\ dry = {} /\ missed = {} /\ overlap = {}
  /\ calls = 0 /\ faults = 0 /\ restarts = 0 /\ changes = 0

Trouble == faults + restarts + changes < MaxTroubles

-----------------------------------------------------------------------------
(* The contest and its administrators. *)

\* generate_flagrotator_task: a new flag of position p for each of S.
PublishFlags(S, p) ==
  LET chosen == Order[S]
  IN  /\ made + Len(chosen) <= MaxFlags
      /\ made' = made + Len(chosen)
      /\ flagQ' = flagQ \o [i \in 1..Len(chosen) |-> [svc |-> chosen[i], pos |-> p, val |-> made + i]]

\* Checker tasks of position p for the services chosen, some of them twice.
PublishChecks(chosen, p, slug) ==
  /\ calls < MaxChecks /\ calls' = calls + 1
  /\ checks' = [s \in Services |-> [checks[s] EXCEPT ![p] = @ + Cardinality({i \in 1..Len(chosen) : chosen[i] = s})]]
  /\ checkQ' = checkQ \o [i \in 1..Len(chosen) |-> [svc |-> chosen[i], pos |-> p, slug |-> slug]]

\* The tick keeper; the flags of the position before may not have been generated.
Advance ==
  /\ now = Defence \/ now[2] < NumberTick \/ now[1] < NumberRound
  /\ now' = IF now = Defence THEN <<1, 1>>
            ELSE IF now[2] < NumberTick THEN <<now[1], now[2] + 1>> ELSE <<now[1] + 1, 1>>
  /\ due' = TRUE
  /\ UNCHANGED <<mode, exists, dry, changes, flagVars, checkVars, faults, restarts>>

\* Flags of the defence phase are generated until one is found in the table.
DefenceFlagged == \E s \in Services : stored[s][Defence] # 0

FlagKeeper ==
  /\ IF now = Defence THEN ~DefenceFlagged ELSE due
  /\ PublishFlags(IF now = Defence THEN Services ELSE Released[now[1]], now)
  /\ due' = FALSE
  /\ UNCHANGED <<mode, now, exists, dry, changes, planted, stored, rot, rstep, missed, overlap, checkVars, faults, restarts>>

\* In the defence phase a challenge is checked once for each of its releases.
CheckerKeeper ==
  /\ PublishChecks(IF now = Defence THEN ReleaseRows ELSE Order[Released[now[1]]], now, TRUE)
  /\ UNCHANGED <<contestVars, flagVars, results, chk, cstep, cread, faults, restarts>>

\* The position that rotate-flag gives to the new flags: the tick stands for the round.
RotatedTo == <<now[2], now[2]>>

RotateFlag ==
  /\ Rotates /\ now # Defence
  /\ PublishFlags(Released[RotatedTo[1]], RotatedTo)
  /\ UNCHANGED <<contestVars, planted, stored, rot, rstep, missed, overlap, checkVars, faults, restarts>>

DryRun(S) ==
  /\ S # {} /\ dry' = dry \union S
  /\ PublishFlags(S, Defence) /\ PublishChecks(Order[S], Defence, FALSE)
  /\ UNCHANGED <<mode, now, due, exists, changes, planted, stored, rot, rstep, missed, overlap, results, chk, cstep, cread, faults, restarts>>

\* A service is provisioned, or its machine is made anew.
Deploy(s) ==
  /\ Trouble /\ changes' = changes + 1
  /\ exists' = exists \union {s}
  /\ planted' = IF mode.rotator.survives THEN planted ELSE [planted EXCEPT ![s] = NoFlag]
  /\ UNCHANGED <<mode, now, due, dry, stored, flagQ, rot, rstep, made, missed, overlap, checkVars, faults, restarts>>

\* reset_game_contest_data: the queues, and what workers are doing, survive.
ResetGame ==
  /\ Trouble /\ changes' = changes + 1
  /\ now' = Defence /\ due' = FALSE
  /\ stored' = [s \in Services |-> [p \in Positions |-> 0]]
  /\ results' = [s \in Services |-> [p \in Positions |-> 0]]
  /\ UNCHANGED <<mode, exists, dry, planted, flagQ, rot, rstep, made, missed, overlap, checkQ, chk, cstep, cread, checks, calls, faults, restarts>>

-----------------------------------------------------------------------------
(* The rotators. *)

Fault == Trouble /\ faults' = faults + 1
NoFault == UNCHANGED faults

Working(r, s) == rot[r] # None /\ rot[r].svc = s

TakeFlag(r) ==
  /\ rot[r] = None /\ flagQ # <<>>
  /\ rot' = [rot EXCEPT ![r] = Head(flagQ)]
  /\ flagQ' = Tail(flagQ)
  /\ rstep' = [rstep EXCEPT ![r] = "plant"]
  /\ overlap' = IF \E q \in Rotators : Working(q, Head(flagQ).svc)
                THEN overlap \union {Head(flagQ).svc} ELSE overlap
  /\ UNCHANGED <<contestVars, planted, stored, made, missed, checkVars, faults, restarts>>

Rotator(r, from, to) == rstep[r] = from /\ rstep' = [rstep EXCEPT ![r] = to]

Plant(r) ==
  /\ Rotator(r, "plant", "look")
  /\ rot[r].svc \in exists
  /\ planted' = [planted EXCEPT ![rot[r].svc] = [pos |-> rot[r].pos, val |-> rot[r].val]]
  /\ UNCHANGED <<contestVars, stored, flagQ, rot, made, missed, overlap, checkVars, faults, restarts>>

\* There is no service, which a mode may pass over.
NoService(r) == rot[r].svc \notin exists /\ ~mode.rotator.raises

\* Or the remote command fails, which is logged.
PlantFails(r) ==
  /\ Rotator(r, "plant", "look")
  /\ (NoService(r) /\ NoFault) \/ Fault
  /\ missed' = missed \union {rot[r].val}
  /\ UNCHANGED <<contestVars, planted, stored, flagQ, rot, made, overlap, checkVars, restarts>>

\* The handler raises: the task is neither acknowledged nor rejected, and the rotator,
\* with its prefetch of one, gets no other.
PlantRaises(r) ==
  /\ Rotator(r, "plant", "stuck")
  /\ rot[r].svc \notin exists /\ mode.rotator.raises
  /\ UNCHANGED <<contestVars, planted, stored, flagQ, rot, made, missed, overlap, checkVars, faults, restarts>>

Row(r) == stored[rot[r].svc][rot[r].pos]

\* The row of the position is looked for.
Look(r) ==
  /\ Rotator(r, "look", IF Row(r) # 0 THEN "update" ELSE "insert")
  /\ UNCHANGED <<contestVars, planted, stored, flagQ, rot, made, missed, overlap, checkVars, faults, restarts>>

\* Mutant: a rotation does not overwrite a flag of the position.
StoreKeeps(r) == IF Row(r) # 0 THEN stored ELSE [stored EXCEPT ![rot[r].svc][rot[r].pos] = rot[r].val]
Store(r) == [stored EXCEPT ![rot[r].svc][rot[r].pos] = rot[r].val]

UpdateFlag(r) ==
  /\ Rotator(r, "update", "ack") /\ Row(r) # 0
  /\ stored' = Store(r)
  /\ UNCHANGED <<contestVars, planted, flagQ, rot, made, missed, overlap, checkVars, faults, restarts>>

InsertFlag(r) ==
  /\ Rotator(r, "insert", "ack") /\ Row(r) = 0
  /\ stored' = Store(r)
  /\ UNCHANGED <<contestVars, planted, flagQ, rot, made, missed, overlap, checkVars, faults, restarts>>

\* The row came or went since it was looked for: the statement raises.
StoreRaises(r) ==
  /\ \/ Rotator(r, "update", "stuck") /\ Row(r) = 0
     \/ Rotator(r, "insert", "stuck") /\ Row(r) # 0
  /\ UNCHANGED <<contestVars, planted, stored, flagQ, rot, made, missed, overlap, checkVars, faults, restarts>>

\* Mutant: the task is still held when the next one is taken.
AckFlagKeeps(r) ==
  /\ Rotator(r, "ack", "idle")
  /\ UNCHANGED <<contestVars, planted, stored, flagQ, rot, made, missed, overlap, checkVars, faults, restarts>>

AckFlag(r) ==
  /\ Rotator(r, "ack", "idle")
  /\ rot' = [rot EXCEPT ![r] = None]
  /\ UNCHANGED <<contestVars, planted, stored, flagQ, made, missed, overlap, checkVars, faults, restarts>>

\* Mutants: the task is lost, as one acknowledged at once would be; it goes to the end.
RequeuedNever(t, q) == q
RequeuedLast(t, q) == Append(q, t)
Requeued(t, q) == <<t>> \o q

\* The rotator dies or is restarted: the broker delivers its task again.
RestartRotator(r) ==
  /\ rot[r] # None
  /\ Trouble /\ restarts' = restarts + 1
  /\ flagQ' = Requeued(rot[r], flagQ)
  /\ rot' = [rot EXCEPT ![r] = None] /\ rstep' = [rstep EXCEPT ![r] = "idle"]
  /\ UNCHANGED <<contestVars, planted, stored, made, missed, overlap, checkVars, faults>>

Rotate(r) ==
  \/ TakeFlag(r) \/ Plant(r) \/ PlantFails(r) \/ PlantRaises(r)
  \/ Look(r) \/ UpdateFlag(r) \/ InsertFlag(r) \/ StoreRaises(r) \/ AckFlag(r)

-----------------------------------------------------------------------------
(* The checkers. *)

TakeCheck(c) ==
  /\ chk[c] = None /\ checkQ # <<>>
  /\ chk' = [chk EXCEPT ![c] = Head(checkQ)]
  /\ checkQ' = Tail(checkQ)
  /\ cstep' = [cstep EXCEPT ![c] = "read"]
  /\ UNCHANGED <<contestVars, flagVars, results, cread, checks, calls, faults, restarts>>

Checker(c, from, to) == cstep[c] = from /\ cstep' = [cstep EXCEPT ![c] = to]
FlagRow(c) == stored[chk[c].svc][chk[c].pos]

\* Mutant: every mode waits for the flag.
WaitsAlways(c) == FlagRow(c) = 0
Waits(c) == mode.checker.waits /\ FlagRow(c) = 0

ReadFlags(c) ==
  /\ Checker(c, "read", "try")
  /\ ~Waits(c)
  /\ mode.checker.needsSlug => chk[c].slug
  /\ cread' = [cread EXCEPT ![c] = FlagRow(c)]
  /\ UNCHANGED <<contestVars, flagVars, results, checkQ, chk, checks, calls, faults, restarts>>

\* Mutant: a verdict is added before the task is rejected.
RejectJudged(c) ==
  /\ Checker(c, "read", "idle")
  /\ Waits(c)
  /\ results' = [results EXCEPT ![chk[c].svc][chk[c].pos] = @ + 1]
  /\ checkQ' = <<chk[c]>> \o checkQ
  /\ chk' = [chk EXCEPT ![c] = None]
  /\ UNCHANGED <<contestVars, flagVars, cread, checks, calls, faults, restarts>>

\* FlagNotFoundException, after three more looks: the task is rejected and is the
\* first to be delivered again.
Reject(c) ==
  /\ Checker(c, "read", "idle")
  /\ Waits(c)
  /\ checkQ' = <<chk[c]>> \o checkQ
  /\ chk' = [chk EXCEPT ![c] = None]
  /\ UNCHANGED <<contestVars, flagVars, results, cread, checks, calls, faults, restarts>>

\* There is no testcase, it cannot be fetched, or the task lacks what the handler
\* needs: it is acknowledged without a result.
Drop(c) ==
  /\ Checker(c, "read", "ack")
  /\ (mode.checker.needsSlug /\ ~chk[c].slug /\ NoFault) \/ Fault
  /\ UNCHANGED <<contestVars, flagVars, results, checkQ, chk, cread, checks, calls, restarts>>

\* A verdict, one way or the other, is added and then acknowledged.
Judge(c) ==
  /\ Checker(c, "try", "ack")
  /\ results' = [results EXCEPT ![chk[c].svc][chk[c].pos] = @ + 1]
  /\ UNCHANGED <<contestVars, flagVars, checkQ, chk, cread, checks, calls, faults, restarts>>

AckCheck(c) ==
  /\ Checker(c, "ack", "idle")
  /\ chk' = [chk EXCEPT ![c] = None] /\ cread' = [cread EXCEPT ![c] = 0]
  /\ UNCHANGED <<contestVars, flagVars, results, checkQ, checks, calls, faults, restarts>>

RestartChecker(c) ==
  /\ chk[c] # None
  /\ Trouble /\ restarts' = restarts + 1
  /\ checkQ' = Requeued(chk[c], checkQ)
  /\ chk' = [chk EXCEPT ![c] = None] /\ cread' = [cread EXCEPT ![c] = 0]
  /\ cstep' = [cstep EXCEPT ![c] = "idle"]
  /\ UNCHANGED <<contestVars, flagVars, results, checks, calls, faults>>

Check(c) == TakeCheck(c) \/ ReadFlags(c) \/ Reject(c) \/ Drop(c) \/ Judge(c) \/ AckCheck(c)

-----------------------------------------------------------------------------
Contest ==
  \/ Advance \/ FlagKeeper \/ CheckerKeeper \/ RotateFlag \/ ResetGame
  \/ \E S \in SUBSET Services : DryRun(S)
  \/ \E s \in Services : Deploy(s)

Next ==
  \/ Contest
  \/ \E r \in Rotators : Rotate(r) \/ RestartRotator(r)
  \/ \E c \in Checkers : Check(c) \/ RestartChecker(c)

Spec == Init /\ [][Next]_vars

\* The workers go on; nothing else is bound to happen.
FairSpec ==
  /\ Spec
  /\ \A r \in Rotators : WF_vars(Rotate(r))
  /\ \A c \in Checkers : WF_vars(Check(c))

-----------------------------------------------------------------------------
(* Properties. *)

TypeOK ==
  /\ mode \in Modes /\ now \in Positions /\ due \in BOOLEAN
  /\ exists \subseteq Services /\ dry \subseteq Services /\ overlap \subseteq Services
  /\ planted \in [Services -> [pos : Positions, val : Nat]]
  /\ stored \in [Services -> [Positions -> Nat]]
  /\ results \in [Services -> [Positions -> Nat]] /\ checks \in [Services -> [Positions -> Nat]]
  /\ flagQ \in Seq(FlagTasks) /\ rot \in [Rotators -> FlagTasks \union {None}]
  /\ rstep \in [Rotators -> {"idle", "plant", "look", "update", "insert", "ack", "stuck"}]
  /\ \A r \in Rotators : rstep[r] = "idle" <=> rot[r] = None
  /\ checkQ \in Seq(CheckTasks) /\ chk \in [Checkers -> CheckTasks \union {None}]
  /\ cstep \in [Checkers -> {"idle", "read", "try", "ack"}]
  /\ \A c \in Checkers : cstep[c] = "idle" <=> chk[c] = None
  /\ cread \in [Checkers -> Nat] /\ missed \subseteq Nat
  /\ made \in Nat /\ calls \in Nat /\ faults \in Nat /\ restarts \in Nat /\ changes \in Nat

\* The rotation of flag v is published and not acknowledged.
Unfinished(v) ==
  \/ \E i \in 1..Len(flagQ) : flagQ[i].val = v
  \/ \E r \in Rotators : rot[r] # None /\ rot[r].val = v

\* The flag that is on a service is the one its row will show at the latest when the
\* rotation is acknowledged, whatever is restarted, reset or deployed again, but for rotations that
\* overlapped or whose planting failed (flagrotator_task, insert_or_overwrite_flag_in_db).
StoredIsPlanted ==
  \A s \in Services \ overlap :
    LET f == planted[s] IN
    f.val # 0 /\ ~Unfinished(f.val) => stored[s][f.pos] \in {0, f.val} \union missed

\* No flag is replaced by an older one, in its row or on the service, unless two rotators
\* worked on the service at the same time (create_worker: tasks are taken in order and
\* go back to the head of the queue).
NeverOlder ==
  [][\A s \in Services \ overlap' :
       /\ planted'[s].val >= planted[s].val \/ planted'[s] = NoFlag
       /\ \A p \in Positions : stored'[s][p] >= stored[s][p] \/ stored'[s][p] = 0]_vars

\* A checker task has at most one result, and one more each time a checker was
\* restarted between the commit of a result and its acknowledgement (checker_task).
ResultsBounded ==
  \A s \in Services, p \in Positions : results[s][p] <= checks[s][p] + restarts

\* The keeper stops generating flags of the defence phase only when every service has
\* its own or it is on the way, if no dry run left flags of some (flag_keeper).
DefenceComplete ==
  DefenceFlagged /\ dry = {} /\ changes = 0 =>
    \A s \in Services :
      \/ stored[s][Defence] # 0
      \/ \E i \in 1..Len(flagQ) : flagQ[i].svc = s /\ flagQ[i].pos = Defence
      \/ \E r \in Rotators : Working(r, s) /\ rot[r].pos = Defence

\* A rotator that has stopped for good.
Stuck == \E r \in Rotators : rstep[r] = "stuck"

\* Every flag task is worked off, unless a rotator got stuck, by a missing service or a
\* row that came or went under it (flagrotator_task).
RotationsEnd ==
  <>[](flagQ = <<>> /\ \A r \in Rotators : rot[r] = None) \/ <>[]Stuck

\* A task that is rejected has no flag, and none on the way.
Blocked ==
  LET waiting == {checkQ[i] : i \in 1..Len(checkQ)} \union ({chk[c] : c \in Checkers} \ {None})
  IN  \E t \in waiting : stored[t.svc][t.pos] = 0

\* The checker tasks are worked off, unless one waits for a flag that is not stored: then
\* it goes round for ever (checker_task).
ChecksEnd ==
  <>[](checkQ = <<>> /\ \A c \in Checkers : chk[c] = None) \/ (<>[]Blocked /\ mode.checker.waits)

\* Whatever is published is worked off, but for the two ways of getting stuck.
QueuesDrain == RotationsEnd /\ ChecksEnd
=============================================================================

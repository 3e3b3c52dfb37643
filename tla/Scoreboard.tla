------------------------------ MODULE Scoreboard ------------------------------
(***************************************************************************)
(* What the leaderboards and the service-status endpoints compute from the *)
(* tables of the contest, while the keeper moves the position in two       *)
(* commits, the scoreboard is frozen, administrators edit the tables, and  *)
(* submissions and checks that began before the freeze end after it.       *)
(*                                                                         *)
(* The rows of the position, of the freeze, of flags, submissions and      *)
(* check results are variables; the boards are operators on them, with the *)
(* queries of scoremodes/simple, scoremodes/norank and of the boards that  *)
(* svcmodes/aws_ec2 and svcmodes/lksn bring with them.  Challenges have    *)
(* one flag; requests of a team are served one at a time (Submission.tla   *)
(* has the others), and one keeper runs that does not die (ContestClock).  *)
(***************************************************************************)
EXTENDS Administration, Sequences

CONSTANTS
  NumberTick,
  Outcomes,     \* what a check may say: records of status and detail
  MaxResults    \* bound: rows of checker_result

ASSUME ScoreboardAssumption ==
  /\ NumberTick \in Nat \ {0} /\ MaxResults \in Nat
  /\ \A o \in Outcomes : o.status \in {"VALID", "FAULTY"}

VARIABLES
  started, defence,  \* START_TIME and ATTACK_TIME: has the one passed, and the other not yet
  late,              \* FREEZE_TIME has passed
  tick, round,       \* CURRENT_TICK and CURRENT_ROUND, 0 when there is no row
  half,              \* the round the keeper is about to commit, 0 when it is not
  frozenTick, frozenRound,  \* FREEZE_TICK and FREEZE_ROUND, NoRow when there is no row
  flags,             \* rows of flag: owner, challenge and position
  typing,            \* submissions begun and not yet committed
  subs,              \* rows of submission with verdict True
  tasks,             \* checks published and not yet judged
  results            \* rows of checker_result, by id

scoreVars == <<started, defence, late, tick, round, half, frozenTick, frozenRound, flags, typing, subs, tasks, results>>
vars == <<adminVars, scoreVars>>
NoRow == -1

Init ==
  /\ AdminInit
  /\ started = TRUE /\ defence = TRUE /\ late = FALSE
  /\ tick = 0 /\ round = 0 /\ half = 0
  /\ frozenTick = NoRow /\ frozenRound = NoRow
  /\ flags = {} /\ typing = {} /\ subs = {} /\ tasks = {} /\ results = <<>>

Finished == round > NumberRound
Running == started /\ ~Finished
RoundOr1 == IF round = 0 THEN 1 ELSE round
\* The round the public endpoints show.
Shown == IF started /\ defence THEN 1 ELSE round

-----------------------------------------------------------------------------
(* Time and the keeper. *)

AttackTime ==
  /\ defence /\ defence' = FALSE
  /\ UNCHANGED <<adminVars, started, late, tick, round, half, frozenTick, frozenRound, flags, typing, subs, tasks, results>>

FreezeTime ==
  /\ ~defence /\ ~late /\ late' = TRUE
  /\ UNCHANGED <<adminVars, started, defence, tick, round, half, frozenTick, frozenRound, flags, typing, subs, tasks, results>>

StartTime ==
  /\ ~started /\ started' = TRUE
  /\ UNCHANGED <<adminVars, defence, late, tick, round, half, frozenTick, frozenRound, flags, typing, subs, tasks, results>>

\* tick_keeper runs every minute: it stores the position of the freeze before it
\* looks whether the tick is over.
TickJob == Running /\ ~defence /\ half = 0

SnapshotTick ==
  /\ TickJob /\ late /\ frozenTick = NoRow
  /\ frozenTick' = tick
  /\ UNCHANGED <<adminVars, started, defence, late, tick, round, half, frozenRound, flags, typing, subs, tasks, results>>

SnapshotRound ==
  /\ TickJob /\ frozenTick # NoRow /\ frozenRound = NoRow
  /\ frozenRound' = RoundOr1
  /\ UNCHANGED <<adminVars, started, defence, late, tick, round, half, frozenTick, flags, typing, subs, tasks, results>>

AdvanceTick ==
  /\ TickJob /\ (late => frozenTick # NoRow /\ frozenRound # NoRow)
  /\ tick' = IF tick < NumberTick THEN tick + 1 ELSE 1
  /\ half' = IF tick < NumberTick THEN RoundOr1 ELSE RoundOr1 + 1
  /\ UNCHANGED <<adminVars, started, defence, late, round, frozenTick, frozenRound, flags, typing, subs, tasks, results>>

\* Then flag_keeper, unless the contest is over; the flags are stored before the next
\* tick (FlagPipeline.tla has their way).
AdvanceRound ==
  /\ half # 0
  /\ round' = half /\ half' = 0
  /\ flags' = flags \union {[owner |-> t, chall |-> c, round |-> half, tick |-> tick] :
                              t \in teams, c \in {d \in ReleasedIn(half) : half <= NumberRound}}
  /\ UNCHANGED <<adminVars, started, defence, late, tick, frozenTick, frozenRound, typing, subs, tasks, results>>

-----------------------------------------------------------------------------
(* Submissions and checks.  The database stamps a submission when its       *)
(* transaction begins, the keeper stamps a check when it publishes it.      *)

BeginSubmit(t, f) ==
  /\ Request
  /\ Running /\ ~defence
  /\ f.tick = tick /\ f.round = round /\ f.chall \in ReleasedIn(round)
  /\ \A s \in typing : s.team # t
  /\ \A s \in subs : ~(s.team = t /\ s.flag = f)
  /\ typing' = typing \union {[team |-> t, flag |-> f, late |-> late]}
  /\ UNCHANGED <<match, teams, challs, width, release, services, moved, nextTeam, nextChall>>
  /\ UNCHANGED <<started, defence, late, tick, round, half, frozenTick, frozenRound, flags, subs, tasks, results>>

\* The commit fails when the team has been deleted in the meantime.
CommitSubmit(s) ==
  /\ typing' = typing \ {s}
  /\ subs' = IF s.team \in teams THEN subs \union {s} ELSE subs
  /\ UNCHANGED <<adminVars, started, defence, late, tick, round, half, frozenTick, frozenRound, flags, tasks, results>>

PublishCheck(t, c) ==
  /\ Request
  /\ Running /\ ~defence /\ tick > 0
  /\ c \in ReleasedIn(round)
  /\ Len(results) + Cardinality(tasks) < MaxResults
  /\ tasks' = tasks \union {[flag |-> [owner |-> t, chall |-> c, round |-> round, tick |-> tick], late |-> late]}
  /\ UNCHANGED <<match, teams, challs, width, release, services, moved, nextTeam, nextChall>>
  /\ UNCHANGED <<started, defence, late, tick, round, half, frozenTick, frozenRound, flags, typing, subs, results>>

\* The result carries the time of the task; without flags the task waits.
Judge(k, outcome) ==
  /\ k.flag \in flags
  /\ tasks' = tasks \ {k}
  /\ results' = Append(results, [team |-> k.flag.owner, chall |-> k.flag.chall, outcome |-> outcome, late |-> k.late])
  /\ UNCHANGED <<adminVars, started, defence, late, tick, round, half, frozenTick, frozenRound, flags, typing, subs>>

\* Not between the two commits of the keeper, which would bring its round back
\* (ContestClock.tla).  Submissions begun before cannot be committed, for their
\* flags are gone; tasks stay in their queue.
ResetGame ==
  /\ Request /\ half = 0
  /\ started' = FALSE
  /\ tick' = 0 /\ round' = 0 /\ frozenTick' = NoRow /\ frozenRound' = NoRow
  /\ flags' = {} /\ typing' = {} /\ subs' = {} /\ results' = <<>>
  /\ UNCHANGED <<match, teams, challs, width, release, services, moved, nextTeam, nextChall>>
  /\ UNCHANGED <<defence, late, half, tasks>>

ReferredTeams == {f.owner : f \in flags} \union {s.team : s \in subs} \union {results[i].team : i \in DOMAIN results}
ReferredChalls == {f.chall : f \in flags} \union {results[i].chall : i \in DOMAIN results}

Administrate ==
  /\ \/ CreateTeam
     \/ \E t \in teams : DeleteTeam(t, ReferredTeams)
     \/ \E visibility \in Visibilities, n \in Widths : CreateChallenge(visibility, n)
     \/ \E c \in challs, visibility \in Visibilities, n \in Widths : PatchChallenge(c, visibility, n)
     \/ \E c \in challs : DeleteChallenge(c, ReferredChalls)
     \/ \E t \in teams, c \in challs : Provision(t, c)
     \/ \E s \in services : DeleteService(s)
  /\ UNCHANGED scoreVars

Next ==
  \/ AttackTime \/ FreezeTime \/ StartTime
  \/ SnapshotTick \/ SnapshotRound \/ AdvanceTick \/ AdvanceRound
  \/ \E t \in teams, f \in flags : BeginSubmit(t, f)
  \/ \E s \in typing : CommitSubmit(s)
  \/ \E t \in teams, c \in challs : PublishCheck(t, c)
  \/ \E k \in tasks, outcome \in Outcomes : Judge(k, outcome)
  \/ ResetGame
  \/ Administrate

Spec == Init /\ [][Next]_vars

-----------------------------------------------------------------------------
(* The boards.  A row counts when it is not younger than FREEZE_TIME. *)

\* Mutant: own flags count, as in scoremodes/norank.
CapturedWithOwn(t, c) == Cardinality({s \in subs : s.team = t /\ s.flag.chall = c /\ ~s.late})
\* Correct submissions of others, by t and of flags of t; and all by t.
Captured(t, c) == Cardinality({s \in subs : s.team = t /\ s.flag.chall = c /\ s.flag.owner # t /\ ~s.late})
Stolen(t, c)   == Cardinality({s \in subs : s.team # t /\ s.flag.chall = c /\ s.flag.owner = t /\ ~s.late})
CapturedAll(t, c) == Cardinality({s \in subs : s.team = t /\ s.flag.chall = c /\ ~s.late})
\* Mutant: the time of a result is not looked at.
CheckedAlways(t, c, status) ==
  Cardinality({i \in DOMAIN results : /\ results[i].team = t /\ results[i].chall = c
                                       /\ results[i].outcome.status = status})
Checked(t, c, status) ==
  Cardinality({i \in DOMAIN results : /\ results[i].team = t /\ results[i].chall = c
                                       /\ results[i].outcome.status = status /\ ~results[i].late})

\* scoremodes/simple: attack less half of what was stolen; SLA as its two counts.
SimpleEntry(t, c) ==
  [captured |-> Captured(t, c), stolen |-> Stolen(t, c),
   valid |-> Checked(t, c, "VALID"), faulty |-> Checked(t, c, "FAULTY")]
SimpleBoard == [e \in teams \X ReleasedUntil(round) |-> SimpleEntry(e[1], e[2])]

\* scoremodes/norank: percentages of a number of flags that CURRENT_ROUND and
\* CURRENT_TICK give, frozen or not.
TotalFlag == round * tick * Cardinality(teams)
NorankEntry(t, c) == [total |-> TotalFlag, captured |-> CapturedAll(t, c), stolen |-> Stolen(t, c)]
NorankBoard == [e \in teams \X ReleasedUntil(round) |-> NorankEntry(e[1], e[2])]

OrElse(row, default) == IF row = NoRow THEN default ELSE row
OverBy == IF Finished THEN 1 ELSE 0

\* svcmodes/aws_ec2: sessions less those in which a flag of the team was taken.
Sessions ==
  IF late THEN (OrElse(frozenRound, 1) - 1) * NumberTick + OrElse(frozenTick, 0)
  ELSE (RoundOr1 - 1) * NumberTick + tick - OverBy
Broken(t, c) == {<<s.flag.tick, s.flag.round>> :
                   s \in {x \in subs : x.flag.owner = t /\ x.team # t /\ x.flag.chall = c /\ ~x.late}}
AwsEntry(t, c) ==
  [attack |-> CapturedAll(t, c), secure |-> Sessions - Cardinality(Broken(t, c)),
   valid |-> Checked(t, c, "VALID"), faulty |-> Checked(t, c, "FAULTY")]
AwsBoard == [e \in teams \X ReleasedUntil(Shown) |-> AwsEntry(e[1], e[2])]

\* Mutant: rounds are counted from 0, as in svcmodes/aws_ec2.
LksnSessionsLess ==
  IF late THEN (OrElse(frozenRound, 1) - 1) * NumberTick + OrElse(frozenTick, 0)
  ELSE (RoundOr1 - 1) * NumberTick + tick - OverBy
\* svcmodes/lksn: percentages of what the sessions allow, 100 when that is nothing.
LksnSessions ==
  IF late THEN OrElse(frozenRound, 0) * NumberTick + OrElse(frozenTick, 0)
  ELSE round * NumberTick + tick - OverBy
LksnEntry(t, c) ==
  [total |-> LksnSessions * Cardinality(teams), captured |-> CapturedAll(t, c),
   attackMax |-> LksnSessions * (Cardinality(teams) - 1), stolen |-> Stolen(t, c)]
LksnBoard == [e \in teams \X ReleasedUntil(round) |-> LksnEntry(e[1], e[2])]

-----------------------------------------------------------------------------
(* The status of services.  Results are grouped by what they say, the groups *)
(* ordered by their youngest row, and the first group of a service is shown. *)

Says(t, c) == {results[i].outcome : i \in {j \in DOMAIN results : results[j].team = t /\ results[j].chall = c}}
LatestId(t, c, outcome) ==
  Max({i \in DOMAIN results : results[i].team = t /\ results[i].chall = c /\ results[i].outcome = outcome})
\* Mutant: groups in ascending order.
StatusFirst(t, c) == CHOOSE o \in Says(t, c) : \A p \in Says(t, c) : LatestId(t, c, o) <= LatestId(t, c, p)
Status(t, c) == CHOOSE o \in Says(t, c) : \A p \in Says(t, c) : LatestId(t, c, o) >= LatestId(t, c, p)

WithStatus(C) == {e \in teams \X C : Says(e[1], e[2]) # {}}
\* /services-status/, and those of a team and of a challenge.
AllStatus == [e \in WithStatus(ReleasedUntil(Shown)) |-> Status(e[1], e[2])]
TeamStatus(t) == [c \in {d \in ReleasedIn(Shown) : Says(t, d) # {}} |-> Status(t, c)]
ChallengeStatus(c) == [t \in {u \in teams : Says(u, c) # {}} |-> Status(t, c)]

-----------------------------------------------------------------------------
(* Properties. *)

Flags == [owner : TeamIds, chall : ChallIds, round : Rounds, tick : 1..NumberTick]

TypeOK ==
  /\ teams \subseteq TeamIds /\ challs \subseteq ChallIds
  /\ release \subseteq Rounds \X challs
  /\ \A s \in services : s.team \in teams /\ s.chall \in challs /\ s.base \in Nat
  /\ tick \in 0..NumberTick /\ round \in 0..(NumberRound + 1) /\ half \in 0..(NumberRound + 1)
  /\ frozenTick \in {NoRow} \union 0..NumberTick
  /\ frozenRound \in {NoRow} \union 1..NumberRound
  /\ flags \subseteq Flags
  /\ \A f \in flags : f.owner \in teams /\ f.chall \in challs
  /\ subs \subseteq [team : teams, flag : flags, late : BOOLEAN]
  /\ typing \subseteq [team : TeamIds, flag : flags, late : BOOLEAN]
  /\ tasks \subseteq [flag : Flags, late : BOOLEAN]
  /\ \A i \in DOMAIN results : results[i].team \in teams /\ results[i].chall \in challs

\* Two services on one machine share no port, as long as no row their ports are
\* counted from was deleted and no challenge got another number of services
\* (generate_port_base_number).
PortsDisjoint ==
  ~moved =>
    \A r, s \in services :
      r # s /\ Machine(r) = Machine(s) => Ports(r) \intersect Ports(s) = {}

\* What the teams captured of a challenge is what was stolen from them: no
\* submission counts on one side only, whoever is deleted and whenever the board
\* is frozen (scoremodes/simple).
CapturedIsStolen ==
  \A c \in challs :
    SumFunction([t \in teams |-> Captured(t, c)]) = SumFunction([t \in teams |-> Stolen(t, c)])

\* norank divides by its number of flags for every challenge it shows: it never is 0,
\* also between the commits of tick and round and after a reset.
NorankDefined == \A e \in DOMAIN NorankBoard : NorankBoard[e].total > 0

\* Percentages stay between 0 and 100: those of lksn always, with half of a
\* position, before the freeze is stored and after the end, but for the moment
\* between the commits of FREEZE_TICK and FREEZE_ROUND; those of norank in the
\* first round only, for it counts round * tick flags of each kind.
PercentagesBounded ==
  /\ ~late \/ frozenTick = NoRow \/ frozenRound # NoRow =>
       \A e \in DOMAIN LksnBoard :
         LET b == LksnBoard[e]
         IN  (b.total > 0 => b.captured <= b.total) /\ (b.attackMax > 0 => b.stolen <= b.attackMax)
  /\ round <= 1 /\ half = 0 =>
       \A e \in DOMAIN NorankBoard :
         LET b == NorankBoard[e] IN b.captured <= b.total /\ b.stolen <= b.total

\* The rows of a position are written one by one; so are those of the freeze, up to
\* a minute after FREEZE_TIME, and never when the contest was over by then.
Whole == half = 0 /\ (late => frozenTick # NoRow /\ frozenRound # NoRow)

\* No team is secure in fewer than 0 sessions, also on the frozen board, where
\* submissions begun before the freeze still come in (svcmodes/aws_ec2).
SecureTicks == Whole => \A e \in DOMAIN AwsBoard : AwsBoard[e].secure >= 0

\* No board shows a number that its scale has no place for.
BoardsInRange == NorankDefined /\ PercentagesBounded /\ SecureTicks

\* A service is shown with what its last result says, whatever the checks said in
\* between and in whatever order they ended; the views of a team and of a
\* challenge show what the one of all shows (routes/api/v2/services.py).
StatusIsLast ==
  \A e \in DOMAIN AllStatus :
    /\ \E i \in DOMAIN results :
         /\ results[i] = [team |-> e[1], chall |-> e[2], outcome |-> AllStatus[e], late |-> results[i].late]
         /\ \A j \in (i + 1)..Len(results) : results[j].team # e[1] \/ results[j].chall # e[2]
    /\ e[2] \in ReleasedIn(Shown) => TeamStatus(e[1])[e[2]] = AllStatus[e] /\ ChallengeStatus(e[2])[e[1]] = AllStatus[e]

\* Once the freeze is stored and what began before it has ended, the boards of
\* simple and of aws_ec2 change only by a reset, by an administrator, or by the
\* challenges of a new round (calculate_team_chall_leaderboard_entry).
Early == {s \in typing : ~s.late} \union {k \in tasks : ~k.late}
FrozenStable ==
  [][late /\ Whole /\ Early = {} /\ requests' = requests =>
       /\ \A e \in DOMAIN SimpleBoard \intersect (DOMAIN SimpleBoard)' : SimpleBoard[e] = SimpleBoard'[e]
       /\ \A e \in DOMAIN AwsBoard \intersect (DOMAIN AwsBoard)' : AwsBoard[e] = AwsBoard'[e]]_vars
=============================================================================

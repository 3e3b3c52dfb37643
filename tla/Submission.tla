----------------------------- MODULE Submission -----------------------------
(***************************************************************************)
(* POST submit (ailurus/routes/api/v2/submit.py): the request handlers that *)
(* check flags against the position of the contest and record submissions  *)
(* and solves.  A handler is one statement of the database at a time; the   *)
(* tick keeper moves the position in two commits (see ContestClock), the    *)
(* flag rotators store the flags of a position some time after it came, and *)
(* the administrator may reset the game.                                    *)
(***************************************************************************)
EXTENDS Integers, Sequences, SequencesExt

CONSTANTS
  Handlers,     \* requests the web application serves at once
  Teams, Challs,
  NumberTick, NumberRound,
  SolveFirst,   \* UNLOCK_MODE = solvefirst
  Junk,         \* a submitted value that is no flag
  MaxBulk,      \* MAX_BULK_SUBMIT
  MaxRequests,  \* bound: requests in a behaviour
  MaxResets     \* bound: resets in a behaviour

\* The flag of a challenge of a team at a position, its value being unique.
Flag == [team : Teams, chall : Challs,
         round : 1 .. NumberRound, tick : 1 .. NumberTick]

ASSUME SubmissionAssumption ==
  /\ Teams # {}
  /\ NumberTick \in Nat \ {0} /\ NumberRound \in Nat \ {0}
  /\ SolveFirst \in BOOLEAN
  /\ MaxBulk \in Nat /\ MaxRequests \in Nat /\ MaxResets \in Nat
  /\ Junk \notin Flag

VARIABLES
  tick, round,  \* CURRENT_TICK, CURRENT_ROUND
  half,         \* the round to come between the two commits of the keeper, or 0
  reached,      \* positions whose flags were handed to the rotators
  stored,       \* the flag table
  correct,      \* how often a team has a correct submission of a flag
  wrong,        \* submissions with verdict False
  solves,       \* the solve table
  epoch,        \* rows made before a reset are gone after it
  requests,     \* requests begun
  req           \* the request each handler works on

vars == <<tick, round, half, reached, stored, correct, wrong, solves, epoch,
          requests, req>>
clock == <<tick, round, half, reached>>
tables == <<stored, correct, wrong, solves, epoch>>

Steps == {"idle", "tick", "round", "find", "dup", "solve", "commit"}
Value == Flag \cup {Junk}

\* The position as the two rows show it.
Shown == <<round, tick>>
Position(f) == <<f.round, f.tick>>

Idle == [pc |-> "idle", team |-> CHOOSE t \in Teams : TRUE, todo |-> <<>>,
         tick |-> 0, round |-> 0, addSolve |-> FALSE, epoch |-> 0,
         shown |-> {}]

\* The flag the request of h works on, and the steps at which it was found.
Value1(h) == Head(req[h].todo)
FoundSteps == {"dup", "solve", "commit"}

Requests ==
  [pc : Steps, team : Teams, todo : Seq(Value), tick : Nat, round : Nat,
   addSolve : BOOLEAN, epoch : Nat, shown : SUBSET (Nat \X Nat)]

WellFormed(r) ==
  /\ r \in Requests
  /\ r.pc # "idle" => r.todo # <<>>
  /\ r.pc \in FoundSteps => Head(r.todo) \in Flag

AllWellFormed == /\ req \in [Handlers -> Requests]
                 /\ \A h \in Handlers : WellFormed(req[h])

TypeOK ==
  /\ tick \in 0 .. NumberTick /\ round \in 0 .. (NumberRound + 1)
  /\ half \in 0 .. (NumberRound + 1)
  /\ reached \subseteq (1 .. NumberRound) \X (0 .. NumberTick)
  /\ stored \subseteq Flag
  /\ correct \in [Teams \X Flag -> Nat]
  /\ wrong \subseteq Teams \X Value
  /\ solves \subseteq Teams \X Challs
  /\ epoch \in Nat /\ requests \in Nat
  /\ AllWellFormed

Init ==
  /\ tick = 0 /\ round = 0 /\ half = 0
  /\ reached = {} /\ stored = {}
  /\ correct = [s \in Teams \X Flag |-> 0]
  /\ wrong = {} /\ solves = {}
  /\ epoch = 0 /\ requests = 0
  /\ req = [h \in Handlers |-> Idle]

-----------------------------------------------------------------------------
(* The rest of the system                                                  *)

\* Every handler at work takes note of the position shown.
Noting(s) ==
  [h \in Handlers |->
     IF req[h].pc = "idle" THEN req[h]
     ELSE [req[h] EXCEPT !.shown = @ \cup {s}]]

\* tick_keeper commits CURRENT_TICK; inside a round, that is all that changes.
AdvanceTick ==
  /\ half = 0 /\ epoch = 0 /\ round <= NumberRound
  /\ LET wraps == tick = NumberTick
         first == round = 0
         r == IF first THEN 1 ELSE IF wraps THEN round + 1 ELSE round
         t == IF wraps THEN 1 ELSE tick + 1
     IN /\ tick' = t
        /\ half' = IF first \/ wraps THEN r ELSE 0
        /\ req' = Noting(<<round, t>>)
        /\ reached' = IF half' = 0 THEN reached \cup {<<r, t>>} ELSE reached
  /\ UNCHANGED <<round, tables, requests>>

\* tick_keeper commits CURRENT_ROUND, and flag_keeper publishes the flag tasks
\* of the new position, unless the contest is over.
AdvanceRound ==
  /\ half # 0
  /\ round' = half /\ half' = 0
  /\ reached' = IF half <= NumberRound THEN reached \cup {<<half, tick>>} ELSE reached
  /\ req' = Noting(<<half, tick>>)
  /\ UNCHANGED <<tick, tables, requests>>

\* The rotators store the flags of a position.
StoreFlags ==
  \E p \in reached :
    LET batch == {f \in Flag : Position(f) = p} IN
      /\ ~(batch \subseteq stored)
      /\ stored' = stored \cup batch
      /\ UNCHANGED <<clock, correct, wrong, solves, epoch, requests, req>>

\* reset_game_contest_data, one transaction; START_TIME moves to 2037, so the
\* contest does not advance after it (ContestClock has the reset that overlaps a
\* tick job).  The flag tasks that were published stay in the queue.
Reset ==
  /\ epoch < MaxResets /\ half = 0
  /\ tick' = 0 /\ round' = 0
  /\ stored' = {} /\ wrong' = {} /\ solves' = {}
  /\ correct' = [s \in Teams \X Flag |-> 0]
  /\ epoch' = epoch + 1
  /\ req' = Noting(<<0, 0>>)
  /\ UNCHANGED <<half, reached, requests>>

-----------------------------------------------------------------------------
(* bulk_submit_flag and submit_flag                                        *)

\* Mutant: the request does not end with its last flag.
NextFlagAlways(h) ==
  req' = [req EXCEPT ![h].pc = "tick", ![h].todo = Tail(@)]

\* The request of h goes to its next flag, or ends.
NextFlag(h) ==
  LET rest == Tail(req[h].todo) IN
    req' = [req EXCEPT ![h] =
              IF rest = <<>> THEN Idle
              ELSE [Idle EXCEPT !.pc = "tick", !.team = req[h].team, !.todo = rest,
                                !.shown = {Shown}]]

\* The contest has to be running when the request comes, and only then.
Begin(h) ==
  /\ req[h].pc = "idle" /\ requests < MaxRequests
  /\ round <= NumberRound /\ epoch = 0
  /\ \E team \in Teams, values \in BoundedSeq(stored \cup {Junk}, MaxBulk) \ {<<>>} :
       req' = [req EXCEPT ![h] =
                 [Idle EXCEPT !.pc = "tick", !.team = team, !.todo = values,
                              !.shown = {Shown}]]
  /\ requests' = requests + 1
  /\ UNCHANGED <<clock, tables>>

ReadTick(h) ==
  /\ req[h].pc = "tick"
  /\ req' = [req EXCEPT ![h].pc = "round", ![h].tick = tick]
  /\ UNCHANGED <<clock, tables, requests>>

ReadRound(h) ==
  /\ req[h].pc = "round"
  /\ req' = [req EXCEPT ![h].pc = "find", ![h].round = round]
  /\ UNCHANGED <<clock, tables, requests>>

\* Mutant: a flag stays valid for its whole round.
FoundInRound(h) ==
  /\ Value1(h) \in stored
  /\ Value1(h).round = req[h].round

\* The query for the flag: its value, tick and round.
Found(h) ==
  /\ Value1(h) \in stored
  /\ Position(Value1(h)) = <<req[h].round, req[h].tick>>

\* A value that is not found is recorded with verdict False.
Find(h) ==
  /\ req[h].pc = "find"
  /\ IF Found(h)
       THEN /\ req' = [req EXCEPT ![h].pc = "dup", ![h].epoch = epoch]
            /\ UNCHANGED wrong
       ELSE /\ wrong' = wrong \cup {<<req[h].team, Value1(h)>>}
            /\ NextFlag(h)
  /\ UNCHANGED <<clock, stored, correct, solves, epoch, requests>>

\* Mutant: earlier submissions are not looked for.
AlreadyNever(h) == FALSE

\* prev_correct_submission
Already(h) == correct[<<req[h].team, Value1(h)>>] > 0

FindDuplicate(h) ==
  /\ req[h].pc = "dup"
  /\ IF Already(h) THEN NextFlag(h)
                   ELSE req' = [req EXCEPT ![h].pc = "solve"]
  /\ UNCHANGED <<clock, tables, requests>>

\* In the solvefirst mode only the team's own flag makes a solve.
Unlocks(h) == SolveFirst => Value1(h).team = req[h].team

FindSolve(h) ==
  /\ req[h].pc = "solve"
  /\ req' = [req EXCEPT
               ![h].pc = "commit",
               ![h].addSolve = /\ <<req[h].team, Value1(h).chall>> \notin solves
                               /\ Unlocks(h)]
  /\ UNCHANGED <<clock, tables, requests>>

\* Mutant: the submission does not refer to its flag.
CommitFailsOnSolve(h) ==
  req[h].addSolve /\ <<req[h].team, Value1(h).chall>> \in solves

\* The insert fails when another request made the same solve meanwhile (its
\* team and challenge are unique) or when the flag it refers to is gone.
CommitFails(h) ==
  \/ req[h].addSolve /\ <<req[h].team, Value1(h).chall>> \in solves
  \/ req[h].epoch # epoch

\* Solve and submission are inserted in one transaction; when it fails the
\* request ends there, whatever flags were left of it.
Commit(h) ==
  /\ req[h].pc = "commit"
  /\ IF CommitFails(h)
       THEN /\ req' = [req EXCEPT ![h] = Idle]
            /\ UNCHANGED <<correct, solves>>
       ELSE /\ correct' = [correct EXCEPT ![<<req[h].team, Value1(h)>>] = @ + 1]
            /\ solves' = IF req[h].addSolve
                           THEN solves \cup {<<req[h].team, Value1(h).chall>>}
                           ELSE solves
            /\ NextFlag(h)
  /\ UNCHANGED <<clock, stored, wrong, epoch, requests>>

-----------------------------------------------------------------------------

SubmitFlag(h) ==
  \/ ReadTick(h) \/ ReadRound(h) \/ Find(h)
  \/ FindDuplicate(h) \/ FindSolve(h) \/ Commit(h)

Next ==
  \/ AdvanceTick \/ AdvanceRound \/ StoreFlags \/ Reset
  \/ \E h \in Handlers : Begin(h) \/ SubmitFlag(h)

Spec == Init /\ [][Next]_vars

-----------------------------------------------------------------------------

\* A team is credited with a flag once (submit.py: "Repeated correct submission
\* will not be logged").
CreditedOnce == \A s \in Teams \X Flag : correct[s] <= 1

\* A correct submission has its solve: no request is credited with a flag and
\* leaves the challenge locked.
CreditUnlocks ==
  \A t \in Teams, f \in Flag :
    correct[<<t, f>>] > 0 /\ (SolveFirst => f.team = t) => <<t, f.chall>> \in solves

\* A challenge is unlocked by a credited flag alone, in the solvefirst mode by a
\* flag of the team's own service.
UnlockEarned ==
  \A s \in solves :
    \E f \in Flag : /\ f.chall = s[2] /\ correct[<<s[1], f>>] > 0
                    /\ SolveFirst => f.team = s[1]

\* The two tables tell the same story, in spite of requests that race for a solve, bulk
\* requests that end half-way and a reset between a request's reads and its commit.
SolvesMatchCredits == CreditUnlocks /\ UnlockEarned

Credited(f) == \E t \in Teams : correct'[<<t, f>>] > correct[<<t, f>>]

\* A flag is credited only if the two rows showed its position while the request
\* was working on it.
CreditedWhileShown ==
  [][\A f \in Flag : Credited(f) =>
       \E h \in Handlers : /\ req[h].pc = "commit" /\ Value1(h) = f
                           /\ Position(f) \in req[h].shown]_vars
=============================================================================

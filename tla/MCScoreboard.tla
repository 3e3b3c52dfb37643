---- MODULE MCScoreboard ----
EXTENDS Scoreboard

\* The first challenges are released in all rounds; any may be withdrawn.
AllRounds == Rounds \X (1..FirstChalls)
AllOrNone == {Rounds, {}}
Answers == {[status |-> "VALID", detail |-> "up"], [status |-> "FAULTY", detail |-> "down"]}
====

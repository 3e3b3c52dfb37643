-------------------------- MODULE ContestSchedule --------------------------
(***************************************************************************)
(* What the game clock promises: the contest goes through its ticks one at *)
(* a time, round after round, never while it is paused and never after its *)
(* last round, and goes back to before its start only when it is reset.    *)
(***************************************************************************)
EXTENDS Naturals

CONSTANTS NumberTick, NumberRound

VARIABLES round, tick, paused

vars == <<round, tick, paused>>

Init == round = 0 /\ tick = 0 /\ paused = FALSE

\* The tick after this one: the first of the next round after the last of a round.
NextPosition ==
  IF tick < NumberTick
    THEN <<IF round = 0 THEN 1 ELSE round, tick + 1>>
    ELSE <<round + 1, 1>>

Advance ==
  /\ ~paused /\ round <= NumberRound
  /\ <<round', tick'>> = NextPosition
  /\ UNCHANGED paused

Pause == ~paused /\ paused' = TRUE /\ UNCHANGED <<round, tick>>

Resume == paused /\ paused' = FALSE /\ UNCHANGED <<round, tick>>

Reset == round' = 0 /\ tick' = 0 /\ paused' = FALSE

Next == Advance \/ Pause \/ Resume \/ Reset

Spec == Init /\ [][Next]_vars
=============================================================================

---------------------------- MODULE MCFlagPipeline ----------------------------
(* Two services; the challenge of one is released in two rounds, that of the other in none. *)
EXTENDS FlagPipeline

CONSTANTS s1, s2
OrderValue == [S \in SUBSET Services |-> SelectSeq(<<s1, s2>>, LAMBDA s : s \in S)]
ReleasedFirst == [n \in 1..(NumberRound + NumberTick) |-> {s1}]
FirstTwice == <<s1, s1>>
=============================================================================

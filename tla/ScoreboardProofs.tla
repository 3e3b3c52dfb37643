-------------------------- MODULE ScoreboardProofs --------------------------
(***************************************************************************)
(* Proofs about Scoreboard, with the administration of Administration in   *)
(* it: types and foreign keys, the ports of services, what the boards and  *)
(* the status of services show, and what a freeze keeps of the boards.     *)
(***************************************************************************)
EXTENDS Scoreboard, SequenceTheorems, FiniteSetTheorems, TLAPS

-----------------------------------------------------------------------------
(* Sums over a finite set.  SumFunction is a fold; its equation is shown to have
   a solution on every finite set by looking at a smallest set without one. *)

\* A set of finite sets has a member that contains no other: what the proofs about
\* sums use for an induction over a set.
LEMMA SmallestMember ==
  ASSUME NEW S, IsFiniteSet(S), NEW B, B \subseteq SUBSET S, B # {}
  PROVE  \E X \in B : \A Y \in B : Y \subseteq X => Y = X
<1>1. B \subseteq FiniteSubsetsOf(S)
  BY FS_FiniteSubsetsOfFinite
<1>2. PICK X \in B : \A Y \in B : <<Y, X>> \notin StrictSubsetOrdering(S)
  BY <1>1, FS_StrictSubsetOrderingWellFounded, WFMin
<1> QED
  BY <1>2 DEF StrictSubsetOrdering

First(s) == CHOOSE x \in s : TRUE
\* The equation of the fold behind SumFunctionOnSet.
Folded(f, S, g) ==
  g = [s \in SUBSET S |-> IF s = {} THEN 0 ELSE f[First(s)] + g[s \ {First(s)}]]
Fold(f, S) == CHOOSE g : Folded(f, S, g)

\* SumFunction, by the equation of the fold it is defined with.
LEMMA SumIsFold ==
  ASSUME NEW f, NEW S
  PROVE  SumFunctionOnSet(f, S) = Fold(f, S)[S]
BY DEF SumFunctionOnSet, FoldFunctionOnSet, MapThenFoldSet, Fold, Folded, First

\* The fold exists: it is made for sets of one more element at a time.
LEMMA FoldExists ==
  ASSUME NEW f, NEW S, IsFiniteSet(S)
  PROVE  Folded(f, S, Fold(f, S))
<1> DEFINE Upto(X) == {t \in SUBSET S : Cardinality(t) <= Cardinality(X)}
           Value(g, s) == IF s = {} THEN 0 ELSE f[First(s)] + g[s \ {First(s)}]
           Bad == {X \in SUBSET S : ~ \E g : g = [s \in Upto(X) |-> Value(g, s)]}
<1>1. \A t \in SUBSET S : IsFiniteSet(t) /\ Cardinality(t) \in Nat
  BY FS_Subset, FS_CardinalityType
<1>2. \A t \in SUBSET S : t # {} => /\ First(t) \in t /\ t \ {First(t)} \in SUBSET S
                                     /\ Cardinality(t \ {First(t)}) = Cardinality(t) - 1
  BY <1>1, FS_RemoveElement DEF First
<1>3. \A t \in SUBSET S : Cardinality(t) = 0 <=> t = {}
  BY <1>1, FS_EmptySet
<1>4. Bad = {}
  <2> SUFFICES ASSUME Bad # {} PROVE FALSE
    OBVIOUS
  <2>0. Bad \subseteq SUBSET S
    OBVIOUS
  <2>1. PICK X \in Bad : \A Y \in Bad : Y \subseteq X => Y = X
    <3> HIDE DEF Bad
    <3> QED
      BY <2>0, SmallestMember
  <2>2. CASE X = {}
    <3>1. \A s \in Upto(X) : s = {}
      BY <1>1, <1>3, <2>2
    <3> DEFINE g == [s \in Upto(X) |-> 0]
    <3>2. g = [s \in Upto(X) |-> Value(g, s)]
      BY <3>1
    <3> HIDE DEF g
    <3> QED
      BY <3>2, <2>1
  <2>3. CASE X # {}
    <3> DEFINE Y == X \ {First(X)}
    <3>1. Y \in SUBSET S /\ Y \notin Bad /\ Cardinality(Y) = Cardinality(X) - 1
      BY <1>2, <2>1, <2>3
    <3>2. PICK h : h = [s \in Upto(Y) |-> Value(h, s)]
      BY <3>1
    <3> DEFINE g == [s \in Upto(X) |-> Value(h, s)]
    <3>3. \A s \in Upto(X) : s # {} => s \ {First(s)} \in Upto(Y) /\ s \ {First(s)} \in Upto(X)
      BY <1>1, <1>2, <3>1
    <3>4. \A s \in Upto(Y) : h[s] = g[s]
      <4>1. \A s \in Upto(Y) : s \in Upto(X)
        BY <1>1, <3>1
      <4>2. \A s \in Upto(Y) : h[s] = Value(h, s)
        BY <3>2
      <4>3. \A s \in Upto(X) : g[s] = Value(h, s)
        OBVIOUS
      <4> QED
        BY <4>1, <4>2, <4>3
    <3>5. \A s \in Upto(X) : Value(g, s) = Value(h, s)
      BY <3>3, <3>4
    <3>6. g = [s \in Upto(X) |-> Value(g, s)]
      BY <3>5
    <3> HIDE DEF g
    <3> QED
      BY <3>6, <2>1
  <2> QED
    BY <2>2, <2>3
<1>5. PICK g : g = [s \in Upto(S) |-> Value(g, s)]
  BY <1>4
<1>6. Upto(S) = SUBSET S
  BY FS_Subset
<1>7. Folded(f, S, g)
  BY <1>5, <1>6 DEF Folded
<1> QED
  BY <1>7 DEF Fold

\* On a finite set the fold satisfies its equation.
LEMMA FoldEquation ==
  ASSUME NEW f, NEW S, IsFiniteSet(S), NEW s \in SUBSET S
  PROVE  Fold(f, S)[s] = IF s = {} THEN 0 ELSE f[First(s)] + Fold(f, S)[s \ {First(s)}]
<1> DEFINE g == Fold(f, S)
<1>1. g = [t \in SUBSET S |-> IF t = {} THEN 0 ELSE f[First(t)] + g[t \ {First(t)}]]
  <2> HIDE DEF g
  <2>1. Folded(f, S, g)
    BY FoldExists DEF g
  <2> QED
    BY <2>1 DEF Folded
<1> HIDE DEF g
<1>2. g[s] = IF s = {} THEN 0 ELSE f[First(s)] + g[s \ {First(s)}]
  BY <1>1
<1> QED
  BY <1>2 DEF g

\* What it gives for a part does not depend on the whole.
LEMMA FoldOfPart ==
  ASSUME NEW f, NEW S, IsFiniteSet(S), NEW P \in SUBSET S
  PROVE  Fold(f, S)[P] = SumFunctionOnSet(f, P)
<1> DEFINE Bad == {s \in SUBSET P : Fold(f, S)[s] # Fold(f, P)[s]}
<1>1. IsFiniteSet(P)
  BY FS_Subset
<1> SUFFICES Bad = {}
  BY SumIsFold
<1> SUFFICES ASSUME Bad # {} PROVE FALSE
  OBVIOUS
<1>0. Bad \subseteq SUBSET P
  OBVIOUS
<1>2. PICK X \in Bad : \A Y \in Bad : Y \subseteq X => Y = X
  <2> HIDE DEF Bad
  <2> QED
    BY <1>1, <1>0, SmallestMember
<1>3. /\ Fold(f, S)[X] = IF X = {} THEN 0 ELSE f[First(X)] + Fold(f, S)[X \ {First(X)}]
      /\ Fold(f, P)[X] = IF X = {} THEN 0 ELSE f[First(X)] + Fold(f, P)[X \ {First(X)}]
  BY <1>1, FoldEquation
<1>4. X # {} => First(X) \in X
  BY DEF First
<1>5. X # {} => Fold(f, S)[X \ {First(X)}] = Fold(f, P)[X \ {First(X)}]
  BY <1>2, <1>4
<1> QED
  BY <1>2, <1>3, <1>5

\* The sum over a set, by the element that is taken first.
LEMMA SumFirst ==
  ASSUME NEW f, NEW S, IsFiniteSet(S)
  PROVE  SumFunctionOnSet(f, S) =
           IF S = {} THEN 0 ELSE f[First(S)] + SumFunctionOnSet(f, S \ {First(S)})
<1>1. Fold(f, S)[S] = IF S = {} THEN 0 ELSE f[First(S)] + Fold(f, S)[S \ {First(S)}]
  BY FoldEquation
<1>2. Fold(f, S)[S \ {First(S)}] = SumFunctionOnSet(f, S \ {First(S)})
  BY FoldOfPart
<1> QED
  BY <1>1, <1>2, SumIsFold

\* The sum of natural numbers is one.
LEMMA SumType ==
  ASSUME NEW f, NEW S, IsFiniteSet(S), \A x \in S : f[x] \in Nat
  PROVE  SumFunctionOnSet(f, S) \in Nat
<1> DEFINE Bad == {s \in SUBSET S : SumFunctionOnSet(f, s) \notin Nat}
<1> SUFFICES ASSUME Bad # {} PROVE FALSE
  OBVIOUS
<1>0. Bad \subseteq SUBSET S
  OBVIOUS
<1>1. PICK X \in Bad : \A Y \in Bad : Y \subseteq X => Y = X
  <2> HIDE DEF Bad
  <2> QED
    BY <1>0, SmallestMember
<1>2. IsFiniteSet(X)
  BY FS_Subset
<1>3. X # {} => First(X) \in X
  BY DEF First
<1>4. X # {} => SumFunctionOnSet(f, X \ {First(X)}) \in Nat
  BY <1>1, <1>3
<1>5. X # {} => f[First(X)] \in Nat
  BY <1>3
<1>6. SumFunctionOnSet(f, X) \in Nat
  BY <1>2, <1>4, <1>5, SumFirst
<1> QED
  BY <1>6

\* Any element may be taken first.
LEMMA SumAny ==
  ASSUME NEW f, NEW S, IsFiniteSet(S), \A x \in S : f[x] \in Nat, NEW x \in S
  PROVE  SumFunctionOnSet(f, S) = f[x] + SumFunctionOnSet(f, S \ {x})
<1> DEFINE Differs(s, y) == SumFunctionOnSet(f, s) # f[y] + SumFunctionOnSet(f, s \ {y})
           Bad == {s \in SUBSET S : \E y \in s : Differs(s, y)}
<1> SUFFICES ASSUME Bad # {} PROVE FALSE
  OBVIOUS
<1>0. Bad \subseteq SUBSET S
  OBVIOUS
<1>1. PICK X \in Bad : \A Y \in Bad : Y \subseteq X => Y = X
  <2> HIDE DEF Bad
  <2> QED
    BY <1>0, SmallestMember
<1>2. PICK y \in X : Differs(X, y)
  BY <1>1
<1> DEFINE p == First(X)
<1>3. IsFiniteSet(X) /\ p \in X
  BY FS_Subset DEF First
<1>4. SumFunctionOnSet(f, X) = f[p] + SumFunctionOnSet(f, X \ {p})
  BY <1>3, SumFirst
<1>5. p # y
  BY <1>2, <1>4
<1>6. X \ {p} \notin Bad /\ X \ {y} \notin Bad
  BY <1>1, <1>2, <1>3
<1>7. /\ SumFunctionOnSet(f, X \ {p}) = f[y] + SumFunctionOnSet(f, (X \ {p}) \ {y})
      /\ SumFunctionOnSet(f, X \ {y}) = f[p] + SumFunctionOnSet(f, (X \ {y}) \ {p})
  BY <1>2, <1>3, <1>5, <1>6
<1>8. (X \ {p}) \ {y} = (X \ {y}) \ {p}
  OBVIOUS
<1>9. SumFunctionOnSet(f, (X \ {y}) \ {p}) \in Nat /\ f[p] \in Nat /\ f[y] \in Nat
  <2>1. (X \ {y}) \ {p} \subseteq S /\ IsFiniteSet((X \ {y}) \ {p})
    BY FS_Subset
  <2> QED
    BY <2>1, <1>3, SumType
<1> QED
  BY <1>2, <1>4, <1>7, <1>8, <1>9

\* Functions that agree on a set have the same sum over it.
LEMMA SumSame ==
  ASSUME NEW f, NEW g, NEW S, IsFiniteSet(S), \A x \in S : f[x] = g[x]
  PROVE  SumFunctionOnSet(f, S) = SumFunctionOnSet(g, S)
<1> DEFINE Bad == {s \in SUBSET S : SumFunctionOnSet(f, s) # SumFunctionOnSet(g, s)}
<1> SUFFICES ASSUME Bad # {} PROVE FALSE
  OBVIOUS
<1>0. Bad \subseteq SUBSET S
  OBVIOUS
<1>1. PICK X \in Bad : \A Y \in Bad : Y \subseteq X => Y = X
  <2> HIDE DEF Bad
  <2> QED
    BY <1>0, SmallestMember
<1>2. IsFiniteSet(X)
  BY FS_Subset
<1>3. X # {} => First(X) \in X
  BY DEF First
<1>4. X # {} => SumFunctionOnSet(f, X \ {First(X)}) = SumFunctionOnSet(g, X \ {First(X)})
  BY <1>1, <1>3
<1> QED
  BY <1>1, <1>2, <1>3, <1>4, SumFirst

\* A part has no larger sum.
LEMMA SumOfPart ==
  ASSUME NEW f, NEW S, IsFiniteSet(S), \A x \in S : f[x] \in Nat, NEW P \in SUBSET S
  PROVE  SumFunctionOnSet(f, P) <= SumFunctionOnSet(f, S)
<1> DEFINE Bad == {s \in SUBSET S : P \subseteq s /\ SumFunctionOnSet(f, P) > SumFunctionOnSet(f, s)}
<1>1. \A s \in SUBSET S : IsFiniteSet(s) /\ SumFunctionOnSet(f, s) \in Nat
  BY FS_Subset, SumType
<1> SUFFICES ASSUME Bad # {} PROVE FALSE
  BY <1>1
<1>0. Bad \subseteq SUBSET S
  OBVIOUS
<1>2. PICK X \in Bad : \A Y \in Bad : Y \subseteq X => Y = X
  <2> HIDE DEF Bad
  <2> QED
    BY <1>0, SmallestMember
<1>3. PICK x \in X : x \notin P
  <2>1. X # P /\ P \subseteq X
    BY <1>1, <1>2
  <2> QED
    BY <2>1
<1>4. SumFunctionOnSet(f, X) = f[x] + SumFunctionOnSet(f, X \ {x})
  BY <1>1, SumAny
<1>5. X \ {x} \notin Bad /\ X \ {x} \in SUBSET S /\ P \subseteq X \ {x}
  BY <1>2, <1>3
<1> QED
  BY <1>1, <1>2, <1>4, <1>5

\* The members of a set, counted by what they are grouped by.
LEMMA SumOfGroups ==
  ASSUME NEW A, IsFiniteSet(A), NEW T, IsFiniteSet(T), NEW key \in [A -> T], NEW f,
         \A t \in T : f[t] = Cardinality({a \in A : key[a] = t})
  PROVE  SumFunctionOnSet(f, T) = Cardinality(A)
<1> DEFINE Group(U) == {a \in A : key[a] \in U}
           Bad == {U \in SUBSET T : SumFunctionOnSet(f, U) # Cardinality(Group(U))}
<1>1. \A U : IsFiniteSet(Group(U)) /\ Cardinality(Group(U)) \in Nat
  BY FS_Subset, FS_CardinalityType
<1>2. Bad = {}
  <2> SUFFICES ASSUME Bad # {} PROVE FALSE
    OBVIOUS
  <2>0. Bad \subseteq SUBSET T
    OBVIOUS
  <2>1. PICK U \in Bad : \A V \in Bad : V \subseteq U => V = U
    <3> HIDE DEF Bad
    <3> QED
      BY <2>0, SmallestMember
  <2>2. IsFiniteSet(U)
    BY FS_Subset
  <2>3. CASE U = {}
    <3>1. Group(U) = {} /\ Cardinality(Group(U)) = 0
      BY <2>3, FS_EmptySet
    <3> QED
      BY <2>1, <2>2, <2>3, <3>1, SumFirst
  <2>4. CASE U # {}
    <3> DEFINE t == First(U)
    <3>1. t \in U /\ t \in T /\ U \ {t} \notin Bad
      BY <2>1, <2>4 DEF First
    <3>2. SumFunctionOnSet(f, U) = f[t] + SumFunctionOnSet(f, U \ {t})
      BY <2>2, <2>4, SumFirst
    <3>3. SumFunctionOnSet(f, U \ {t}) = Cardinality(Group(U \ {t}))
      BY <3>1
    <3>4. Group(U) = Group({t}) \cup Group(U \ {t}) /\ Group({t}) \cap Group(U \ {t}) = {}
      BY <3>1
    <3>5. Cardinality(Group(U)) = Cardinality(Group({t})) + Cardinality(Group(U \ {t}))
      <4>1. Cardinality(Group({t}) \cap Group(U \ {t})) = 0
        BY <3>4, FS_EmptySet
      <4> DEFINE G == Group({t})
                 H == Group(U \ {t})
      <4>2. IsFiniteSet(G) /\ IsFiniteSet(H) /\ Cardinality(G) \in Nat /\ Cardinality(H) \in Nat
        BY <1>1
      <4> HIDE DEF G, H
      <4>3. Cardinality(G \cup H) = Cardinality(G) + Cardinality(H) - Cardinality(G \cap H)
        BY <4>2, FS_Union
      <4>4. Cardinality(Group(U)) = Cardinality(G \cup H)
        BY <3>4 DEF G, H
      <4> QED
        BY <4>1, <4>2, <4>3, <4>4 DEF G, H
    <3>6. f[t] = Cardinality(Group({t}))
      <4>1. Group({t}) = {a \in A : key[a] = t}
        OBVIOUS
      <4> QED
        BY <4>1, <3>1
    <3> QED
      BY <2>1, <3>2, <3>3, <3>5, <3>6
  <2> QED
    BY <2>3, <2>4
<1>3. Group(T) = A
  OBVIOUS
<1> QED
  BY <1>2, <1>3

-----------------------------------------------------------------------------
(* Types of the tables, and the rows that refer to others. *)

USE AdministrationAssumption, ScoreboardAssumption

Results == [team : TeamIds, chall : ChallIds, outcome : Outcomes, late : BOOLEAN]

\* The types of the administration: identifiers are given in order.
AdminTypes ==
  /\ match \in Matches /\ moved \in BOOLEAN /\ requests \in 0..MaxRequests
  /\ nextTeam \in 1..(FirstTeams + requests + 1) /\ teams \subseteq 1..(nextTeam - 1)
  /\ nextChall \in 1..(FirstChalls + requests + 1) /\ challs \subseteq 1..(nextChall - 1)
  /\ width \in [ChallIds -> Widths]
  /\ release \subseteq Rounds \X ChallIds
  /\ services \subseteq [team : TeamIds, chall : ChallIds, base : Nat, width : Widths]

\* The types of the contest, without what rows refer to.
ScoreTypes ==
  /\ started \in BOOLEAN /\ defence \in BOOLEAN /\ late \in BOOLEAN
  /\ tick \in 0..NumberTick /\ round \in 0..(NumberRound + 1) /\ half \in 0..(NumberRound + 1)
  /\ half # 0 => tick # 0
  /\ frozenTick \in {NoRow} \union 0..NumberTick
  /\ frozenRound \in {NoRow} \union 1..NumberRound
  /\ flags \subseteq Flags
  /\ subs \subseteq [team : TeamIds, flag : Flags, late : BOOLEAN]
  /\ typing \subseteq [team : TeamIds, flag : Flags, late : BOOLEAN]
  /\ tasks \subseteq [flag : Flags, late : BOOLEAN]
  /\ results \in Seq(Results)

\* Every row that another refers to is there.
References ==
  /\ \A s \in services : s.team \in teams /\ s.chall \in challs
  /\ \A r \in release : r[2] \in challs
  /\ \A f \in flags : f.owner \in teams /\ f.chall \in challs
  /\ \A s \in subs : s.team \in teams /\ s.flag \in flags
  /\ \A s \in typing : s.flag \in flags
  /\ \A i \in DOMAIN results : results[i].team \in teams /\ results[i].chall \in challs

\* Identifiers are numbers, and those given so far are below the next one.
LEMMA Ids ==
  ASSUME AdminTypes
  PROVE  /\ teams \subseteq TeamIds /\ challs \subseteq ChallIds
         /\ \A c \in ChallIds : width[c] \in Nat /\ width[c] \in Widths
         /\ Request => nextTeam \in TeamIds /\ nextChall \in ChallIds /\ requests + 1 \in 0..MaxRequests
         /\ nextTeam \notin teams /\ nextChall \notin challs
<1>1. /\ nextTeam \in 1..(FirstTeams + requests + 1) /\ teams \subseteq 1..(nextTeam - 1)
      /\ nextChall \in 1..(FirstChalls + requests + 1) /\ challs \subseteq 1..(nextChall - 1)
      /\ requests \in 0..MaxRequests
  BY DEF AdminTypes
<1>2. /\ teams \subseteq TeamIds /\ challs \subseteq ChallIds
      /\ nextTeam \notin teams /\ nextChall \notin challs
  BY <1>1 DEF TeamIds, ChallIds
<1>3. Request => nextTeam \in TeamIds /\ nextChall \in ChallIds /\ requests + 1 \in 0..MaxRequests
  BY <1>1 DEF Request, TeamIds, ChallIds
<1>4. \A c \in ChallIds : width[c] \in Nat /\ width[c] \in Widths
  BY DEF AdminTypes
<1> QED
  BY <1>2, <1>3, <1>4

\* The three parts together are the type invariant.
LEMMA AllTypes == AdminTypes /\ ScoreTypes /\ References => TypeOK
<1> SUFFICES ASSUME AdminTypes, ScoreTypes, References PROVE TypeOK
  OBVIOUS
<1>1. teams \subseteq TeamIds /\ challs \subseteq ChallIds
  BY Ids
<1>2. release \subseteq Rounds \X challs
  BY DEF AdminTypes, References
<1>3. \A s \in services : s.team \in teams /\ s.chall \in challs /\ s.base \in Nat
  BY DEF AdminTypes, References
<1>4. subs \subseteq [team : teams, flag : flags, late : BOOLEAN]
  BY DEF ScoreTypes, References
<1>5. typing \subseteq [team : TeamIds, flag : flags, late : BOOLEAN]
  BY DEF ScoreTypes, References
<1> QED
  BY <1>1, <1>2, <1>3, <1>4, <1>5 DEF TypeOK, ScoreTypes, References

\* They hold of the empty tables.
LEMMA TypesInit == Init => AdminTypes /\ ScoreTypes /\ References
<1> SUFFICES ASSUME Init PROVE AdminTypes /\ ScoreTypes /\ References
  OBVIOUS
<1>1. AdminTypes
  <2>1. width \in [ChallIds -> Widths]
    BY DEF Init, AdminInit
  <2>2. release \subseteq Rounds \X ChallIds
    BY DEF Init, AdminInit, Rounds, ChallIds
  <2> QED
    <3>1. /\ teams \subseteq 1..(nextTeam - 1) /\ nextTeam \in 1..(FirstTeams + requests + 1)
          /\ challs \subseteq 1..(nextChall - 1) /\ nextChall \in 1..(FirstChalls + requests + 1)
      BY DEF Init, AdminInit
    <3>2. match \in Matches /\ moved = FALSE /\ services = {} /\ requests = 0
      BY Zenon DEF Init, AdminInit
    <3>3. moved \in BOOLEAN
      BY <3>2
    <3>5. requests \in 0..MaxRequests
      BY <3>2
    <3>4. services \subseteq [team : TeamIds, chall : ChallIds, base : Nat, width : Widths]
      BY <3>2
    <3> QED
      BY <2>1, <2>2, <3>1, <3>2, <3>3, <3>4, <3>5, Zenon DEF AdminTypes
<1>2. ScoreTypes
  <2>1. results \in Seq(Results)
    BY EmptySeq DEF Init
  <2>2. /\ started = TRUE /\ defence = TRUE /\ late = FALSE
        /\ tick = 0 /\ round = 0 /\ half = 0 /\ frozenTick = NoRow /\ frozenRound = NoRow
        /\ flags = {} /\ typing = {} /\ subs = {} /\ tasks = {}
    BY Zenon DEF Init
  <2>3. started \in BOOLEAN /\ defence \in BOOLEAN /\ late \in BOOLEAN
    BY <2>2
  <2>4. /\ tick \in 0..NumberTick /\ round \in 0..(NumberRound + 1) /\ half \in 0..(NumberRound + 1)
        /\ half # 0 => tick # 0
        /\ frozenTick \in {NoRow} \union 0..NumberTick
        /\ frozenRound \in {NoRow} \union 1..NumberRound
    BY <2>2
  <2>5. /\ flags \subseteq Flags
        /\ subs \subseteq [team : TeamIds, flag : Flags, late : BOOLEAN]
        /\ typing \subseteq [team : TeamIds, flag : Flags, late : BOOLEAN]
        /\ tasks \subseteq [flag : Flags, late : BOOLEAN]
    BY <2>2
  <2> QED
    BY <2>1, <2>3, <2>4, <2>5, Zenon DEF ScoreTypes
<1>3. References
  BY DEF Init, AdminInit, References
<1> QED
  BY <1>1, <1>2, <1>3

\* Sets of identifiers are finite.
LEMMA SmallerFinite ==
  ASSUME AdminTypes
  PROVE  /\ IsFiniteSet(teams) /\ IsFiniteSet(challs)
         /\ \A t \in Int : IsFiniteSet({u \in teams : u < t}) /\ IsFiniteSet({d \in challs : d < t})
         /\ teams \subseteq Nat /\ challs \subseteq Nat
<1>1. /\ teams \subseteq 1..(nextTeam - 1) /\ nextTeam \in Int
      /\ challs \subseteq 1..(nextChall - 1) /\ nextChall \in Int
  BY DEF AdminTypes
<1>2. IsFiniteSet(1..(nextTeam - 1)) /\ IsFiniteSet(1..(nextChall - 1))
  BY <1>1, FS_Interval
<1>3. IsFiniteSet(teams) /\ IsFiniteSet(challs)
  BY <1>1, <1>2, FS_Subset
<1> QED
  BY <1>1, <1>3, FS_Subset

\* The first port counted for a service is a number.
LEMMA BaseType ==
  ASSUME AdminTypes, NEW t \in teams, NEW c \in challs
  PROVE  Base(t, c) \in Nat
<1>0. t \in Int /\ c \in Int
  BY SmallerFinite
<1>a. IsFiniteSet({u \in teams : u < t}) /\ IsFiniteSet({e \in challs : e < c})
  BY <1>0, SmallerFinite
<1>1. Cardinality({u \in teams : u < t}) \in Nat
  BY <1>a, FS_CardinalityType
<1>2. \A d \in challs : Span(d) \in Nat
  BY Ids DEF Span
<1>3. \A m, n \in Nat : m * n \in Nat
  OBVIOUS
<1> DEFINE f == [d \in {e \in challs : e < c} |-> Span(d)]
<1>4. SumFunctionOnSet(f, DOMAIN f) \in Nat
  <2>1. IsFiniteSet(DOMAIN f) /\ \A x \in DOMAIN f : f[x] \in Nat
    BY <1>2, <1>a
  <2> HIDE DEF f
  <2> QED
    BY <2>1, SumType
<1> QED
  BY <1>1, <1>2, <1>3, <1>4 DEF Base, SumFunction

\* A request that leaves the tables of administrators alone.
Count ==
  /\ requests' = requests + 1 /\ requests < MaxRequests
  /\ UNCHANGED <<match, teams, challs, width, release, services, moved, nextTeam, nextChall>>

\* An edit of the tables.
Edit ==
  \/ CreateTeam
  \/ \E t \in teams : DeleteTeam(t, ReferredTeams)
  \/ \E v \in Visibilities, n \in Widths : CreateChallenge(v, n)
  \/ \E c \in challs, v \in Visibilities, n \in Widths : PatchChallenge(c, v, n)
  \/ \E c \in challs : DeleteChallenge(c, ReferredChalls)
  \/ \E t \in teams, c \in challs : Provision(t, c)
  \/ \E s \in services : DeleteService(s)

\* The steps, by what they change.
LEMMA StepCases ==
  ASSUME [Next]_vars
  PROVE  UNCHANGED adminVars \/ Count \/ (Edit /\ UNCHANGED scoreVars)
<1>1. CASE UNCHANGED vars
  BY <1>1 DEF vars
<1>2. AttackTime \/ FreezeTime \/ StartTime \/ SnapshotTick \/ SnapshotRound \/ AdvanceTick \/ AdvanceRound
        => UNCHANGED adminVars
  BY DEF AttackTime, FreezeTime, StartTime, SnapshotTick, SnapshotRound, AdvanceTick, AdvanceRound
<1>3. ASSUME NEW t, NEW f, BeginSubmit(t, f) PROVE Count
  BY <1>3 DEF BeginSubmit, Request, Count
<1>4. ASSUME NEW s, CommitSubmit(s) PROVE UNCHANGED adminVars
  BY <1>4 DEF CommitSubmit
<1>5. ASSUME NEW t, NEW c, PublishCheck(t, c) PROVE Count
  BY <1>5 DEF PublishCheck, Request, Count
<1>6. ASSUME NEW k, NEW o, Judge(k, o) PROVE UNCHANGED adminVars
  BY <1>6 DEF Judge
<1>7. ResetGame => Count
  BY DEF ResetGame, Request, Count
<1>8. Administrate => Edit /\ UNCHANGED scoreVars
  BY DEF Administrate, Edit
<1> QED
  BY <1>1, <1>2, <1>3, <1>4, <1>5, <1>6, <1>7, <1>8, Zenon DEF Next

\* No step leaves the types of the administration.
LEMMA AdminTypesStep == AdminTypes /\ References /\ [Next]_vars => AdminTypes'
<1> SUFFICES ASSUME AdminTypes, References, [Next]_vars PROVE AdminTypes'
  OBVIOUS
<1>a. CASE UNCHANGED adminVars
  BY <1>a DEF AdminTypes, adminVars
<1>b. CASE Count
  BY <1>b DEF AdminTypes, Count
<1>1. CASE CreateTeam
  <2>1. nextTeam' \in 1..(FirstTeams + requests' + 1) /\ teams' \subseteq 1..(nextTeam' - 1)
    BY <1>1 DEF CreateTeam, Request, AdminTypes
  <2>2. nextChall' \in 1..(FirstChalls + requests' + 1) /\ requests' \in 0..MaxRequests
    BY <1>1 DEF CreateTeam, Request, AdminTypes
  <2> QED
    BY <1>1, <2>1, <2>2 DEF CreateTeam, AdminTypes
<1>2. ASSUME NEW t \in teams, DeleteTeam(t, ReferredTeams) PROVE AdminTypes'
  BY <1>2 DEF DeleteTeam, Request, AdminTypes
<1>3. ASSUME NEW v \in Visibilities, NEW n \in Widths, CreateChallenge(v, n) PROVE AdminTypes'
  <2>1. nextChall' \in 1..(FirstChalls + requests' + 1) /\ challs' \subseteq 1..(nextChall' - 1)
    BY <1>3 DEF CreateChallenge, Request, AdminTypes
  <2>2. nextTeam' \in 1..(FirstTeams + requests' + 1) /\ requests' \in 0..MaxRequests
    BY <1>3 DEF CreateChallenge, Request, AdminTypes
  <2>3. width' \in [ChallIds -> Widths]
    BY <1>3 DEF CreateChallenge, AdminTypes
  <2>4. release' \subseteq Rounds \X ChallIds
    BY <1>3, Ids DEF CreateChallenge, AdminTypes, Rounds
  <2> QED
    BY <1>3, <2>1, <2>2, <2>3, <2>4 DEF CreateChallenge, AdminTypes
<1>4. ASSUME NEW c \in challs, NEW v \in Visibilities, NEW n \in Widths, PatchChallenge(c, v, n)
      PROVE AdminTypes'
  <2>1. /\ nextTeam' \in 1..(FirstTeams + requests' + 1) /\ requests' \in 0..MaxRequests
        /\ nextChall' \in 1..(FirstChalls + requests' + 1)
    BY <1>4 DEF PatchChallenge, Request, AdminTypes
  <2>2. width' \in [ChallIds -> Widths] /\ moved' \in BOOLEAN
    BY <1>4 DEF PatchChallenge, AdminTypes
  <2>3. release' \subseteq Rounds \X ChallIds
    BY <1>4, Ids DEF PatchChallenge, AdminTypes, Rounds
  <2> QED
    BY <1>4, <2>1, <2>2, <2>3 DEF PatchChallenge, AdminTypes
<1>5. ASSUME NEW c \in challs, DeleteChallenge(c, ReferredChalls) PROVE AdminTypes'
  BY <1>5 DEF DeleteChallenge, Request, AdminTypes
<1>6. ASSUME NEW t \in teams, NEW c \in challs, Provision(t, c) PROVE AdminTypes'
  <2>1. /\ nextTeam' \in 1..(FirstTeams + requests' + 1) /\ requests' \in 0..MaxRequests
        /\ nextChall' \in 1..(FirstChalls + requests' + 1)
    BY <1>6 DEF Provision, Request, AdminTypes
  <2>2. [team |-> t, chall |-> c, base |-> Base(t, c), width |-> width[c]]
          \in [team : TeamIds, chall : ChallIds, base : Nat, width : Widths]
    BY Ids, BaseType
  <2> QED
    BY <1>6, <2>1, <2>2 DEF Provision, AdminTypes
<1>7. ASSUME NEW s \in services, DeleteService(s) PROVE AdminTypes'
  BY <1>7 DEF DeleteService, Request, AdminTypes
<1> QED
  BY <1>a, <1>b, <1>1, <1>2, <1>3, <1>4, <1>5, <1>6, <1>7, StepCases, Zenon DEF Edit

\* A step of the contest that keeps the position, and one that keeps the rows.
Position == <<tick, round, half>>
Frozen == <<frozenTick, frozenRound>>
Rows == <<flags, typing, subs, tasks, results>>

\* No step leaves the types of the contest.
LEMMA ScoreTypesStep == AdminTypes /\ ScoreTypes /\ References /\ [Next]_vars => ScoreTypes'
<1> SUFFICES ASSUME AdminTypes, ScoreTypes, References, [Next]_vars PROVE ScoreTypes'
  OBVIOUS
<1>a. CASE UNCHANGED scoreVars
  BY <1>a DEF ScoreTypes, scoreVars
<1>b. ASSUME started' \in BOOLEAN, defence' \in BOOLEAN, late' \in BOOLEAN,
             UNCHANGED <<Position, Frozen, Rows>>
      PROVE  ScoreTypes'
  BY <1>b DEF ScoreTypes, Position, Frozen, Rows
<1>c. AttackTime \/ FreezeTime \/ StartTime => ScoreTypes'
  <2>1. AttackTime \/ FreezeTime \/ StartTime => UNCHANGED <<Position, Frozen, Rows>>
    BY DEF AttackTime, FreezeTime, StartTime, Position, Frozen, Rows
  <2>2. AttackTime \/ FreezeTime \/ StartTime => started' \in BOOLEAN /\ defence' \in BOOLEAN /\ late' \in BOOLEAN
    BY DEF AttackTime, FreezeTime, StartTime, ScoreTypes
  <2> QED
    BY <2>1, <2>2, <1>b
<1>1. CASE SnapshotTick
  <2>1. frozenTick' \in {NoRow} \union 0..NumberTick
    BY <1>1 DEF SnapshotTick, ScoreTypes
  <2> QED
    BY <1>1, <2>1 DEF SnapshotTick, ScoreTypes
<1>2. CASE SnapshotRound
  <2>1. frozenRound' \in {NoRow} \union 1..NumberRound
    BY <1>2 DEF SnapshotRound, ScoreTypes, TickJob, Running, Finished, RoundOr1
  <2> QED
    BY <1>2, <2>1 DEF SnapshotRound, ScoreTypes
<1>3. CASE AdvanceTick
  <2>1. /\ tick' \in 0..NumberTick /\ tick' # 0 /\ half' \in 0..(NumberRound + 1)
    BY <1>3 DEF AdvanceTick, ScoreTypes, TickJob, Running, Finished, RoundOr1
  <2> QED
    BY <1>3, <2>1 DEF AdvanceTick, ScoreTypes
<1>4. CASE AdvanceRound
  <2> DEFINE New == {[owner |-> t, chall |-> c, round |-> half, tick |-> tick] :
                       t \in teams, c \in {d \in ReleasedIn(half) : half <= NumberRound}}
  <2>1. \A t \in teams, c \in challs : half <= NumberRound =>
          [owner |-> t, chall |-> c, round |-> half, tick |-> tick] \in Flags
    BY <1>4, Ids DEF AdvanceRound, ScoreTypes, Flags, Rounds
  <2>2. New \subseteq Flags
    <3>1. \A c \in {d \in ReleasedIn(half) : half <= NumberRound} : c \in challs /\ half <= NumberRound
      BY DEF ReleasedIn
    <3> QED
      BY <2>1, <3>1
  <2>3. flags' = flags \cup New
    BY <1>4 DEF AdvanceRound
  <2>4. flags' \subseteq Flags
    BY <2>2, <2>3 DEF ScoreTypes
  <2>5. round' \in 0..(NumberRound + 1) /\ half' = 0
    BY <1>4 DEF AdvanceRound, ScoreTypes
  <2> QED
    BY <1>4, <2>4, <2>5 DEF AdvanceRound, ScoreTypes
<1>5. ASSUME NEW t \in teams, NEW f \in flags, BeginSubmit(t, f) PROVE ScoreTypes'
  <2>1. typing' \subseteq [team : TeamIds, flag : Flags, late : BOOLEAN]
    BY <1>5, Ids DEF BeginSubmit, ScoreTypes
  <2> QED
    BY <1>5, <2>1 DEF BeginSubmit, ScoreTypes
<1>6. ASSUME NEW s \in typing, CommitSubmit(s) PROVE ScoreTypes'
  <2>1. /\ typing' \subseteq [team : TeamIds, flag : Flags, late : BOOLEAN]
        /\ subs' \subseteq [team : TeamIds, flag : Flags, late : BOOLEAN]
    BY <1>6 DEF CommitSubmit, ScoreTypes
  <2> QED
    BY <1>6, <2>1 DEF CommitSubmit, ScoreTypes
<1>7. ASSUME NEW t \in teams, NEW c \in challs, PublishCheck(t, c) PROVE ScoreTypes'
  <2>1. round \in Rounds /\ tick \in 1..NumberTick
    BY <1>7 DEF PublishCheck, ReleasedIn, AdminTypes, ScoreTypes
  <2>2. [owner |-> t, chall |-> c, round |-> round, tick |-> tick] \in Flags
    BY <2>1, Ids DEF Flags
  <2>3. tasks' \subseteq [flag : Flags, late : BOOLEAN]
    BY <1>7, <2>2 DEF PublishCheck, ScoreTypes
  <2> QED
    BY <1>7, <2>3 DEF PublishCheck, ScoreTypes
<1>8. ASSUME NEW k \in tasks, NEW o \in Outcomes, Judge(k, o) PROVE ScoreTypes'
  <2>1. k.flag \in Flags /\ k.late \in BOOLEAN
    BY DEF ScoreTypes
  <2>2. [team |-> k.flag.owner, chall |-> k.flag.chall, outcome |-> o, late |-> k.late] \in Results
    BY <2>1 DEF Flags, Results
  <2>3. results' \in Seq(Results)
    BY <1>8, <2>2, AppendProperties DEF Judge, ScoreTypes
  <2>4. tasks' \subseteq [flag : Flags, late : BOOLEAN]
    BY <1>8 DEF Judge, ScoreTypes
  <2> QED
    BY <1>8, <2>3, <2>4 DEF Judge, ScoreTypes
<1>9. CASE ResetGame
  <2>1. results' \in Seq(Results)
    BY <1>9, EmptySeq DEF ResetGame
  <2>2. /\ started' \in BOOLEAN /\ tick' = 0 /\ round' = 0 /\ frozenTick' = NoRow /\ frozenRound' = NoRow
        /\ half' = 0 /\ flags' = {} /\ typing' = {} /\ subs' = {} /\ UNCHANGED <<defence, late, tasks>>
    BY <1>9 DEF ResetGame
  <2>3. round' \in 0..(NumberRound + 1) /\ tick' \in 0..NumberTick /\ half' \in 0..(NumberRound + 1)
    BY <2>2
  <2> QED
    BY <2>1, <2>2, <2>3 DEF ScoreTypes
<1>10. Administrate => UNCHANGED scoreVars
  BY DEF Administrate
<1>11. UNCHANGED vars => UNCHANGED scoreVars
  BY DEF vars
<1> QED
  BY <1>a, <1>c, <1>1, <1>2, <1>3, <1>4, <1>5, <1>6, <1>7, <1>8, <1>9, <1>10, <1>11, Zenon DEF Next

\* No step leaves a row that refers to one which is gone: deletions are refused or cascade.
LEMMA ReferencesStep == AdminTypes /\ ScoreTypes /\ References /\ [Next]_vars => References'
<1> SUFFICES ASSUME AdminTypes, ScoreTypes, References, [Next]_vars PROVE References'
  OBVIOUS
<1>a. CASE UNCHANGED vars
  BY <1>a DEF References, vars, adminVars, scoreVars
<1>b. AttackTime \/ FreezeTime \/ StartTime \/ SnapshotTick \/ SnapshotRound \/ AdvanceTick => References'
  <2>1. AttackTime \/ FreezeTime \/ StartTime \/ SnapshotTick \/ SnapshotRound \/ AdvanceTick =>
          UNCHANGED <<teams, challs, release, services, flags, typing, subs, results>>
    BY DEF AttackTime, FreezeTime, StartTime, SnapshotTick, SnapshotRound, AdvanceTick, adminVars
  <2> QED
    BY <2>1 DEF References
<1>1. CASE AdvanceRound
  <2> DEFINE New == {[owner |-> t, chall |-> c, round |-> half, tick |-> tick] :
                       t \in teams, c \in {d \in ReleasedIn(half) : half <= NumberRound}}
  <2>1. \A f \in New : f.owner \in teams /\ f.chall \in challs
    <3>1. {d \in ReleasedIn(half) : half <= NumberRound} \subseteq challs
      BY DEF ReleasedIn
    <3> QED
      BY <3>1
  <2>2. flags' = flags \cup New /\ UNCHANGED <<teams, challs, release, services, typing, subs, results>>
    BY <1>1 DEF AdvanceRound, adminVars
  <2> HIDE DEF New
  <2> QED
    BY <2>1, <2>2 DEF References
<1>2. ASSUME NEW t \in teams, NEW f \in flags, BeginSubmit(t, f) PROVE References'
  <2>1. /\ typing' = typing \cup {[team |-> t, flag |-> f, late |-> late]}
        /\ UNCHANGED <<teams, challs, release, services, flags, subs, results>>
    BY <1>2 DEF BeginSubmit
  <2> QED
    BY <2>1 DEF References
<1>3. ASSUME NEW s \in typing, CommitSubmit(s) PROVE References'
  <2>1. /\ typing' \subseteq typing /\ subs' \subseteq subs \cup {s} /\ (s \in subs' => s \in subs \/ s.team \in teams)
        /\ UNCHANGED <<teams, challs, release, services, flags, results>>
    BY <1>3 DEF CommitSubmit, adminVars
  <2> QED
    BY <2>1 DEF References
<1>4. ASSUME NEW t \in teams, NEW c \in challs, PublishCheck(t, c) PROVE References'
  BY <1>4 DEF PublishCheck, References
<1>5. ASSUME NEW k \in tasks, NEW o \in Outcomes, Judge(k, o) PROVE References'
  <2> DEFINE r == [team |-> k.flag.owner, chall |-> k.flag.chall, outcome |-> o, late |-> k.late]
  <2>1. k.flag \in Flags /\ k.late \in BOOLEAN /\ r \in Results
    BY DEF ScoreTypes, Flags, Results
  <2>2. r.team \in teams /\ r.chall \in challs
    BY <1>5 DEF Judge, References
  <2>3. results' = Append(results, r) /\ results \in Seq(Results)
    BY <1>5 DEF Judge, ScoreTypes
  <2>4. \A i \in DOMAIN results' : results'[i].team \in teams /\ results'[i].chall \in challs
    <3> HIDE DEF r
    <3>1. DOMAIN results = 1..Len(results) /\ DOMAIN results' = 1..(Len(results) + 1) /\ Len(results) \in Nat
      BY <2>1, <2>3, AppendProperties, LenProperties
    <3>2. \A i \in 1..Len(results) : results'[i] = results[i]
      BY <2>1, <2>3, AppendProperties
    <3>3. results'[Len(results) + 1] = r
      BY <2>1, <2>3, AppendProperties
    <3> QED
      BY <2>2, <3>1, <3>2, <3>3 DEF References
  <2>5. UNCHANGED <<teams, challs, release, services, flags, typing, subs>>
    BY <1>5 DEF Judge, adminVars
  <2> QED
    BY <2>4, <2>5 DEF References
<1>6. CASE ResetGame
  BY <1>6 DEF ResetGame, References
<1>7. CASE Administrate
  <2>a. UNCHANGED <<flags, typing, subs, results>>
    BY <1>7 DEF Administrate, scoreVars
  <2>1. CASE CreateTeam
    BY <2>1, <2>a DEF CreateTeam, References
  <2>2. ASSUME NEW t \in teams, DeleteTeam(t, ReferredTeams) PROVE References'
    BY <2>2, <2>a DEF DeleteTeam, ReferredTeams, References
  <2>3. ASSUME NEW v \in Visibilities, NEW n \in Widths, CreateChallenge(v, n) PROVE References'
    BY <2>3, <2>a DEF CreateChallenge, References
  <2>4. ASSUME NEW c \in challs, NEW v \in Visibilities, NEW n \in Widths, PatchChallenge(c, v, n)
        PROVE References'
    BY <2>4, <2>a DEF PatchChallenge, References
  <2>5. ASSUME NEW c \in challs, DeleteChallenge(c, ReferredChalls) PROVE References'
    BY <2>5, <2>a DEF DeleteChallenge, ReferredChalls, References
  <2>6. ASSUME NEW t \in teams, NEW c \in challs, Provision(t, c) PROVE References'
    BY <2>6, <2>a DEF Provision, References
  <2>7. ASSUME NEW s \in services, DeleteService(s) PROVE References'
    BY <2>7, <2>a DEF DeleteService, References
  <2> QED
    BY <1>7, <2>1, <2>2, <2>3, <2>4, <2>5, <2>6, <2>7, Zenon DEF Administrate
<1> QED
  BY <1>a, <1>b, <1>1, <1>2, <1>3, <1>4, <1>5, <1>6, <1>7, Zenon DEF Next

\* The tables hold rows of their kind.
THEOREM TypeCorrect == Spec => []TypeOK
BY TypesInit, AdminTypesStep, ScoreTypesStep, ReferencesStep, AllTypes, PTL DEF Spec

-----------------------------------------------------------------------------
(* Ports of services. *)

\* As long as nothing was moved, a service has the ports that would be counted for it now.
PortsInv ==
  ~moved => \A s \in services : s.base = Base(s.team, s.chall) /\ s.width = width[s.chall]

\* The base of a service is counted from rows with smaller identifiers; new ones are larger.
LEMMA BaseKept ==
  ASSUME AdminTypes, match' = match, \A c \in challs : width'[c] = width[c],
         teams' = teams \/ teams' = teams \cup {nextTeam},
         challs' = challs \/ challs' = challs \cup {nextChall},
         NEW t \in teams, NEW c \in challs
  PROVE  Base(t, c)' = Base(t, c)
<1>1. /\ \A u \in teams : u < nextTeam /\ u \in Int
      /\ \A d \in challs : d < nextChall /\ d \in Int
      /\ nextTeam \in Int /\ nextChall \in Int
  BY DEF AdminTypes
<1>2. {u \in teams' : u < t} = {u \in teams : u < t}
  BY <1>1
<1>3. {e \in challs' : e < c} = {e \in challs : e < c}
  BY <1>1
<1>4. [d \in {e \in challs' : e < c} |-> Span(d)'] = [d \in {e \in challs : e < c} |-> Span(d)]
  BY <1>3 DEF Span
<1>5. Span(c)' = Span(c)
  BY DEF Span
<1> QED
  BY <1>2, <1>4, <1>5 DEF Base

\* Every step keeps the ports of the services as they would be counted.
LEMMA PortsStep ==
  ASSUME AdminTypes, References, PortsInv, [Next]_vars
  PROVE  PortsInv'
<1>1. ASSUME match' = match, moved' = moved, services' = services, \A c \in challs : width'[c] = width[c],
             teams' = teams \/ teams' = teams \cup {nextTeam},
             challs' = challs \/ challs' = challs \cup {nextChall}
      PROVE  PortsInv'
  <2> SUFFICES ASSUME ~moved, NEW s \in services
               PROVE  s.base = Base(s.team, s.chall)' /\ s.width = width'[s.chall]
    BY <1>1 DEF PortsInv
  <2>1. s.team \in teams /\ s.chall \in challs
    BY DEF References
  <2>2. Base(s.team, s.chall)' = Base(s.team, s.chall)
    BY <1>1, <2>1, BaseKept
  <2> QED
    BY <1>1, <2>1, <2>2 DEF PortsInv
<1>a. UNCHANGED adminVars \/ Count => PortsInv'
  BY <1>1 DEF adminVars, Count
<1>2. CASE CreateTeam
  BY <1>1, <1>2 DEF CreateTeam
<1>3. ASSUME NEW t \in teams, DeleteTeam(t, ReferredTeams) PROVE PortsInv'
  BY <1>3 DEF DeleteTeam, PortsInv
<1>4. ASSUME NEW v \in Visibilities, NEW n \in Widths, CreateChallenge(v, n) PROVE PortsInv'
  <2>1. \A c \in challs : c # nextChall /\ c \in ChallIds
    BY Ids
  <2>2. \A c \in challs : width'[c] = width[c]
    BY <1>4, <2>1 DEF CreateChallenge, AdminTypes
  <2> QED
    BY <1>1, <1>4, <2>2 DEF CreateChallenge
<1>5. ASSUME NEW c \in challs, NEW v \in Visibilities, NEW n \in Widths, PatchChallenge(c, v, n)
      PROVE PortsInv'
  <2>1. CASE moved'
    BY <2>1 DEF PortsInv
  <2>2. CASE ~moved'
    <3>1. ~moved /\ n = width[c]
      BY <1>5, <2>2 DEF PatchChallenge
    <3>2. \A d \in challs : width'[d] = width[d]
      BY <1>5, <3>1, Ids DEF PatchChallenge, AdminTypes
    <3>3. moved' = moved
      <4>1. moved' = (moved \/ n # width[c])
        BY <1>5 DEF PatchChallenge
      <4>2. (moved \/ n # width[c]) = FALSE
        BY <3>1
      <4>3. moved = FALSE
        BY <3>1 DEF AdminTypes
      <4> QED
        BY <4>1, <4>2, <4>3
    <3> QED
      BY <1>1, <1>5, <3>2, <3>3 DEF PatchChallenge
  <2> QED
    BY <2>1, <2>2
<1>6. ASSUME NEW c \in challs, DeleteChallenge(c, ReferredChalls) PROVE PortsInv'
  BY <1>6 DEF DeleteChallenge, PortsInv
<1>7. ASSUME NEW t \in teams, NEW c \in challs, Provision(t, c) PROVE PortsInv'
  <2> DEFINE r == [team |-> t, chall |-> c, base |-> Base(t, c), width |-> width[c]]
  <2>1. UNCHANGED <<match, teams, challs, width, moved>> /\ services' = services \cup {r}
    BY <1>7 DEF Provision
  <2>2. \A u, d : Base(u, d)' = Base(u, d)
    BY <2>1 DEF Base, Span
  <2> QED
    BY <2>1, <2>2 DEF PortsInv
<1>8. ASSUME NEW s \in services, DeleteService(s) PROVE PortsInv'
  <2>1. UNCHANGED <<match, teams, challs, width, moved>> /\ services' \subseteq services
    BY <1>8 DEF DeleteService
  <2>2. \A u, d : Base(u, d)' = Base(u, d)
    BY <2>1 DEF Base, Span
  <2> QED
    BY <2>1, <2>2 DEF PortsInv
<1> QED
  BY <1>a, <1>2, <1>3, <1>4, <1>5, <1>6, <1>7, <1>8, StepCases, Zenon DEF Edit

\* Of two teams of a challenge the later one begins above the ports of the other.
LEMMA TeamsApart ==
  ASSUME AdminTypes, match = "challenge_slug", NEW c \in challs, NEW t \in teams, NEW u \in teams, t < u
  PROVE  Base(t, c) + Span(c) <= Base(u, c)
<1> DEFINE T == {x \in teams : x < t}
           U == {x \in teams : x < u}
<1>1. t \in Int /\ u \in Int /\ \A x \in teams : x \in Int
  BY SmallerFinite
<1>2. IsFiniteSet(T) /\ IsFiniteSet(U) /\ Cardinality(T) \in Nat /\ Cardinality(U) \in Nat
  BY <1>1, SmallerFinite, FS_CardinalityType
<1>3. t \notin T /\ T \cup {t} \in SUBSET U
  <2>1. \A x \in T : x \in teams /\ x < t /\ x < u
    BY <1>1
  <2>2. t \in U /\ ~(t < t)
    BY <1>1
  <2> QED
    BY <2>1, <2>2
<1>4. Cardinality(T) + 1 <= Cardinality(U)
  <2> HIDE DEF T, U
  <2>1. Cardinality(T \cup {t}) = Cardinality(T) + 1
    BY <1>2, <1>3, FS_AddElement
  <2> QED
    BY <1>2, <1>3, <2>1, FS_Subset
<1>5. Base(t, c) = Cardinality(T) * Span(c) /\ Base(u, c) = Cardinality(U) * Span(c)
  BY DEF Base
<1>6. Span(c) \in Nat
  BY Ids DEF Span
<1>7. \A m, n, k \in Nat : m + 1 <= n => m * k + k <= n * k
  BY SMTT(30)
<1> QED
  BY <1>2, <1>4, <1>5, <1>6, <1>7

\* The same for two challenges of a team.
LEMMA ChallsApart ==
  ASSUME AdminTypes, match # "challenge_slug", NEW t \in teams, NEW c \in challs, NEW d \in challs, c < d
  PROVE  Base(t, c) + Span(c) <= Base(t, d)
<1> DEFINE C == {e \in challs : e < c}
           D == {e \in challs : e < d}
           f == [e \in C |-> Span(e)]
           g == [e \in D |-> Span(e)]
<1>1. c \in Int /\ d \in Int /\ \A e \in challs : e \in Int /\ Span(e) \in Nat
  BY SmallerFinite, Ids DEF Span
<1>2. IsFiniteSet(C) /\ IsFiniteSet(D)
  BY <1>1, SmallerFinite
<1>3. c \in D /\ C \in SUBSET (D \ {c}) /\ IsFiniteSet(D \ {c})
  <2>1. \A x \in C : x \in challs /\ x < d /\ x # c
    BY <1>1
  <2>2. c \in D
    BY <1>1
  <2>3. IsFiniteSet(D \ {c})
    BY <1>2, FS_RemoveElement
  <2> QED
    BY <2>1, <2>2, <2>3
<1>4. Base(t, c) = SumFunctionOnSet(f, C) /\ Base(t, d) = SumFunctionOnSet(g, D)
  BY DEF Base, SumFunction
<1>5. /\ \A x \in C : f[x] = g[x]
      /\ \A x \in D : g[x] \in Nat
      /\ g[c] = Span(c)
  BY <1>1, <1>3
<1> HIDE DEF f, g, C, D
<1>6. SumFunctionOnSet(f, C) = SumFunctionOnSet(g, C)
  BY <1>2, <1>5, SumSame
<1>7. SumFunctionOnSet(g, D) = g[c] + SumFunctionOnSet(g, D \ {c})
  BY <1>2, <1>3, <1>5, SumAny
<1>8. SumFunctionOnSet(g, C) <= SumFunctionOnSet(g, D \ {c})
  BY <1>3, <1>5, SumOfPart
<1>9. SumFunctionOnSet(g, C) \in Nat /\ SumFunctionOnSet(g, D \ {c}) \in Nat /\ Span(c) \in Nat
  <2>1. \A x \in C : g[x] \in Nat
    BY <1>3, <1>5
  <2> QED
    BY <1>1, <1>2, <1>3, <1>5, <2>1, SumType
<1> QED
  BY <1>4, <1>5, <1>6, <1>7, <1>8, <1>9

\* Services on one machine are of two teams or of two challenges.
LEMMA PortsApart == AdminTypes /\ References /\ PortsInv => PortsDisjoint
<1> SUFFICES ASSUME AdminTypes, References, PortsInv, ~moved,
                    NEW r \in services, NEW s \in services, r # s, Machine(r) = Machine(s)
             PROVE  Ports(r) \intersect Ports(s) = {}
  BY DEF PortsDisjoint
<1>1. /\ r.team \in teams /\ r.chall \in challs /\ r.base = Base(r.team, r.chall) /\ r.width + 1 = Span(r.chall)
      /\ s.team \in teams /\ s.chall \in challs /\ s.base = Base(s.team, s.chall) /\ s.width + 1 = Span(s.chall)
  BY DEF References, PortsInv, Span
<1>2. r.base \in Nat /\ r.width \in Nat /\ s.base \in Nat /\ s.width \in Nat
  BY DEF AdminTypes
<1>3. r.team # s.team \/ r.chall # s.chall
  <2>1. \A x \in services : x = [team |-> x.team, chall |-> x.chall, base |-> x.base, width |-> x.width]
    BY DEF AdminTypes
  <2>2. r.team = s.team /\ r.chall = s.chall => r.base = s.base /\ r.width = s.width
    BY DEF PortsInv
  <2> QED
    BY <2>1, <2>2
<1>4. \A t \in teams : t \in Int
  BY SmallerFinite
<1>5. \A c \in challs : c \in Int
  BY SmallerFinite
<1>6. r.base + r.width + 1 <= s.base \/ s.base + s.width + 1 <= r.base
  <2>1. CASE match = "challenge_slug"
    <3>1. r.chall = s.chall /\ (r.team < s.team \/ s.team < r.team)
      BY <1>1, <1>3, <1>4, <2>1 DEF Machine
    <3>2. \/ Base(r.team, r.chall) + Span(r.chall) <= Base(s.team, s.chall)
          \/ Base(s.team, s.chall) + Span(s.chall) <= Base(r.team, r.chall)
      BY <1>1, <2>1, <3>1, TeamsApart
    <3> QED
      BY <1>1, <1>2, <3>2
  <2>2. CASE match # "challenge_slug"
    <3>1. r.team = s.team /\ (r.chall < s.chall \/ s.chall < r.chall)
      BY <1>1, <1>3, <1>5, <2>2 DEF Machine
    <3>2. \/ Base(r.team, r.chall) + Span(r.chall) <= Base(s.team, s.chall)
          \/ Base(s.team, s.chall) + Span(s.chall) <= Base(r.team, r.chall)
      BY <1>1, <2>2, <3>1, ChallsApart
    <3> QED
      BY <1>1, <1>2, <3>2
  <2> QED
    BY <2>1, <2>2
<1> QED
  BY <1>2, <1>6 DEF Ports

\* Services of one machine never share a port, for any widths and any number of teams
\* and challenges, while no row is deleted (generate_port_base_number).
THEOREM PortsStayApart == Spec => []PortsDisjoint
<1>1. Init => PortsInv
  BY DEF Init, AdminInit, PortsInv
<1> QED
  BY <1>1, TypesInit, AdminTypesStep, ScoreTypesStep, ReferencesStep, PortsStep, PortsApart, PTL DEF Spec

-----------------------------------------------------------------------------
(* What was captured was stolen; the status of a service. *)

FiniteRows == IsFiniteSet(subs)

\* There are finitely many submissions.
LEMMA FiniteStep == FiniteRows /\ [Next]_vars => FiniteRows'
<1> SUFFICES ASSUME IsFiniteSet(subs), [Next]_vars PROVE IsFiniteSet(subs')
  BY DEF FiniteRows
<1>1. ASSUME NEW s \in typing, CommitSubmit(s) PROVE IsFiniteSet(subs')
  <2>1. subs' = subs \/ subs' = subs \cup {s}
    BY <1>1 DEF CommitSubmit
  <2> QED
    BY <2>1, FS_AddElement
<1>2. ResetGame => subs' = {}
  BY DEF ResetGame
<1>3. \/ AttackTime \/ FreezeTime \/ StartTime \/ SnapshotTick \/ SnapshotRound \/ AdvanceTick \/ AdvanceRound
      \/ Administrate \/ UNCHANGED vars
      => subs' = subs
  BY DEF AttackTime, FreezeTime, StartTime, SnapshotTick, SnapshotRound, AdvanceTick, AdvanceRound,
    Administrate, scoreVars, vars
<1>4. ASSUME NEW t, NEW f, BeginSubmit(t, f) \/ PublishCheck(t, f) \/ Judge(t, f) PROVE subs' = subs
  BY <1>4 DEF BeginSubmit, PublishCheck, Judge
<1> QED
  BY <1>1, <1>2, <1>3, <1>4, FS_EmptySet, Zenon DEF Next

\* Both sums count the submissions of others, by who submitted and by whose flag it was.
LEMMA SumsAgree ==
  ASSUME AdminTypes, References, FiniteRows
  PROVE  CapturedIsStolen
<1> SUFFICES ASSUME NEW c \in challs
             PROVE  SumFunction([t \in teams |-> Captured(t, c)]) = SumFunction([t \in teams |-> Stolen(t, c)])
  BY DEF CapturedIsStolen
<1> DEFINE A == {s \in subs : s.flag.chall = c /\ s.flag.owner # s.team /\ ~s.late}
           by == [s \in A |-> s.team]
           from == [s \in A |-> s.flag.owner]
           captured == [t \in teams |-> Captured(t, c)]
           stolen == [t \in teams |-> Stolen(t, c)]
<1>1. IsFiniteSet(A) /\ IsFiniteSet(teams)
  BY FS_Subset, SmallerFinite DEF FiniteRows
<1>2. by \in [A -> teams] /\ from \in [A -> teams]
  BY DEF References
<1>3. \A t \in teams : captured[t] = Cardinality({a \in A : by[a] = t})
  <2> SUFFICES ASSUME NEW t \in teams PROVE captured[t] = Cardinality({a \in A : by[a] = t})
    OBVIOUS
  <2>1. {a \in A : by[a] = t} = {s \in subs : s.team = t /\ s.flag.chall = c /\ s.flag.owner # t /\ ~s.late}
    OBVIOUS
  <2> QED
    BY <2>1 DEF Captured
<1>4. \A t \in teams : stolen[t] = Cardinality({a \in A : from[a] = t})
  <2> SUFFICES ASSUME NEW t \in teams PROVE stolen[t] = Cardinality({a \in A : from[a] = t})
    OBVIOUS
  <2>1. {a \in A : from[a] = t} = {s \in subs : s.team # t /\ s.flag.chall = c /\ s.flag.owner = t /\ ~s.late}
    OBVIOUS
  <2> QED
    BY <2>1 DEF Stolen
<1>5. DOMAIN captured = teams /\ DOMAIN stolen = teams
  OBVIOUS
<1> HIDE DEF A, by, from, captured, stolen
<1>6. SumFunctionOnSet(captured, teams) = Cardinality(A)
  BY <1>1, <1>2, <1>3, SumOfGroups
<1>7. SumFunctionOnSet(stolen, teams) = Cardinality(A)
  BY <1>1, <1>2, <1>4, SumOfGroups
<1> QED
  BY <1>5, <1>6, <1>7 DEF SumFunction, captured, stolen

\* The accounts of attack and defence agree for any teams, whoever is deleted and
\* whenever the board is frozen (scoremodes/simple).
THEOREM CapturedWasStolen == Spec => []CapturedIsStolen
<1>1. Init => FiniteRows
  BY FS_EmptySet DEF Init, FiniteRows
<1> QED
  BY <1>1, TypesInit, AdminTypesStep, ScoreTypesStep, ReferencesStep, FiniteStep, SumsAgree, PTL DEF Spec

-----------------------------------------------------------------------------
(* The status of services. *)

\* The youngest row of a finite set is one of them.
LEMMA MaxIsMember ==
  ASSUME NEW n \in Nat, NEW S, S \subseteq 1..n, S # {}
  PROVE  Max(S) \in S /\ \A y \in S : Max(S) >= y
<1> DEFINE Above(x) == {y \in 1..n : y > x}
           B == {Above(x) : x \in S}
<1>1. B \subseteq SUBSET (1..n) /\ B # {}
  <2>1. \A x : Above(x) \subseteq 1..n
    OBVIOUS
  <2> HIDE DEF Above
  <2> QED
    BY <2>1
<1>0. IsFiniteSet(1..n)
  BY FS_Interval
<1>2. PICK X \in B : \A Y \in B : Y \subseteq X => Y = X
  <2> DEFINE R == 1..n
  <2>1. B \subseteq SUBSET R /\ B # {} /\ IsFiniteSet(R)
    BY <1>0, <1>1
  <2> HIDE DEF B, R
  <2> QED
    BY <2>1, SmallestMember
<1>3. PICK x \in S : X = Above(x)
  BY <1>2
<1>4. \A y \in S : x >= y
  <2> SUFFICES ASSUME NEW y \in S, y > x PROVE FALSE
    OBVIOUS
  <2>1. Above(y) \in B /\ Above(y) \subseteq Above(x) /\ y \in Above(x) /\ y \notin Above(y)
    OBVIOUS
  <2> QED
    BY <1>2, <1>3, <2>1
<1> QED
  BY <1>3, <1>4 DEF Max

\* The first group is the one of the last row, whatever the other rows say.
LEMMA LastSaid == ScoreTypes => StatusIsLast
<1> SUFFICES ASSUME ScoreTypes, NEW e \in DOMAIN AllStatus
    PROVE /\ \E i \in DOMAIN results :
               /\ results[i] = [team |-> e[1], chall |-> e[2], outcome |-> AllStatus[e], late |-> results[i].late]
               /\ \A j \in (i + 1)..Len(results) : results[j].team # e[1] \/ results[j].chall # e[2]
          /\ e[2] \in ReleasedIn(Shown) =>
               TeamStatus(e[1])[e[2]] = AllStatus[e] /\ ChallengeStatus(e[2])[e[1]] = AllStatus[e]
  BY DEF StatusIsLast
<1> DEFINE t == e[1]
           c == e[2]
           I == {j \in DOMAIN results : results[j].team = t /\ results[j].chall = c}
           Of(o) == {j \in DOMAIN results : results[j].team = t /\ results[j].chall = c /\ results[j].outcome = o}
<1>1. e \in WithStatus(ReleasedUntil(Shown)) /\ AllStatus[e] = Status(t, c)
  BY DEF AllStatus
<1>2. t \in teams /\ Says(t, c) # {}
  BY <1>1 DEF WithStatus
<1>3. DOMAIN results = 1..Len(results) /\ Len(results) \in Nat
  BY LenProperties DEF ScoreTypes
<1>4. I \subseteq 1..Len(results) /\ I # {}
  BY <1>2, <1>3 DEF Says
<1>5. Max(I) \in I /\ \A j \in I : Max(I) >= j
  <2> HIDE DEF I
  <2> QED
    BY <1>3, <1>4, MaxIsMember
<1>6. \A o \in Says(t, c) : LatestId(t, c, o) \in Of(o) /\ \A j \in Of(o) : LatestId(t, c, o) >= j
  <2> SUFFICES ASSUME NEW o \in Says(t, c)
               PROVE  LatestId(t, c, o) \in Of(o) /\ \A j \in Of(o) : LatestId(t, c, o) >= j
    OBVIOUS
  <2>1. Of(o) \subseteq 1..Len(results) /\ Of(o) # {}
    BY <1>3 DEF Says
  <2>2. LatestId(t, c, o) = Max(Of(o))
    BY DEF LatestId
  <2> HIDE DEF Of
  <2> QED
    BY <1>3, <2>1, <2>2, MaxIsMember
<1> DEFINE last == results[Max(I)].outcome
<1>7. last \in Says(t, c) /\ LatestId(t, c, last) = Max(I)
  <2>1. last \in Says(t, c) /\ Max(I) \in Of(last)
    BY <1>5 DEF Says
  <2>2. LatestId(t, c, last) \in I /\ LatestId(t, c, last) >= Max(I)
    BY <1>6, <2>1
  <2>3. Max(I) >= LatestId(t, c, last)
    BY <1>5, <2>2
  <2>4. Max(I) \in Int /\ LatestId(t, c, last) \in Int
    BY <1>4, <1>5, <2>2
  <2> HIDE DEF I, last
  <2> QED
    BY <2>1, <2>2, <2>3, <2>4
<1>8. \A o \in Says(t, c) : LatestId(t, c, o) \in I /\ LatestId(t, c, last) >= LatestId(t, c, o)
  BY <1>5, <1>6, <1>7
<1>9. /\ Status(t, c) \in Says(t, c)
      /\ \A o \in Says(t, c) : LatestId(t, c, Status(t, c)) >= LatestId(t, c, o)
  <2> HIDE DEF last
  <2> QED
    BY <1>7, <1>8 DEF Status
<1>10. LatestId(t, c, Status(t, c)) = Max(I)
  <2>1. LatestId(t, c, Status(t, c)) >= Max(I) /\ LatestId(t, c, Status(t, c)) \in I
    BY <1>7, <1>8, <1>9
  <2>2. Max(I) >= LatestId(t, c, Status(t, c))
    BY <1>5, <2>1
  <2>3. Max(I) \in Int /\ LatestId(t, c, Status(t, c)) \in Int
    BY <1>4, <1>5, <2>1
  <2> HIDE DEF I
  <2> QED
    BY <2>1, <2>2, <2>3
<1>11. results[Max(I)].outcome = Status(t, c)
  BY <1>6, <1>9, <1>10
<1>12. results[Max(I)] = [team |-> t, chall |-> c, outcome |-> AllStatus[e], late |-> results[Max(I)].late]
  <2>1. results[Max(I)] \in Results
    BY <1>3, <1>4, <1>5, ElementOfSeq DEF ScoreTypes
  <2>2. results[Max(I)].team = t /\ results[Max(I)].chall = c
    BY <1>5
  <2> HIDE DEF I
  <2> QED
    BY <1>1, <1>11, <2>1, <2>2 DEF Results
<1>13. \A j \in (Max(I) + 1)..Len(results) : results[j].team # t \/ results[j].chall # c
  <2> DEFINE m == Max(I)
  <2>1. m \in Nat /\ \A j \in I : m >= j
    BY <1>4, <1>5
  <2> HIDE DEF m
  <2>2. \A j \in (m + 1)..Len(results) : j \in DOMAIN results /\ ~(m >= j)
    BY <1>3, <2>1
  <2> QED
    BY <2>1, <2>2 DEF m
<1>14. c \in ReleasedIn(Shown) =>
         TeamStatus(t)[c] = AllStatus[e] /\ ChallengeStatus(c)[t] = AllStatus[e]
  BY <1>1, <1>2 DEF TeamStatus, ChallengeStatus
<1> QED
  BY <1>5, <1>12, <1>13, <1>14

\* The status shown is the one of the last result, for any results in any order
\* (routes/api/v2/services.py).
THEOREM LastResultShown == Spec => []StatusIsLast
BY TypesInit, AdminTypesStep, ScoreTypesStep, ReferencesStep, LastSaid, PTL DEF Spec

-----------------------------------------------------------------------------
(* The frozen boards. *)

\* What a step leaves of the rows that count, once nothing early is under way.
LEMMA FrozenRowsKept ==
  ASSUME AdminTypes, ScoreTypes, late, Whole, Early = {}, requests' = requests, Next
  PROVE  /\ UNCHANGED <<late, frozenTick, frozenRound>>
         /\ {s \in subs' : ~s.late} = {s \in subs : ~s.late}
         /\ \/ results' = results
            \/ \E r : results' = Append(results, r) /\ r \in Results /\ r.late
<1> DEFINE Kept == /\ UNCHANGED <<late, frozenTick, frozenRound>>
                   /\ {s \in subs' : ~s.late} = {s \in subs : ~s.late}
                   /\ \/ results' = results
                      \/ \E r : results' = Append(results, r) /\ r \in Results /\ r.late
<1>1. AttackTime \/ FreezeTime \/ StartTime \/ SnapshotTick \/ SnapshotRound \/ AdvanceTick \/ AdvanceRound => Kept
  <2>1. frozenTick # NoRow /\ frozenRound # NoRow
    BY DEF Whole
  <2>2. ~FreezeTime /\ ~SnapshotTick /\ ~SnapshotRound
    BY <2>1 DEF FreezeTime, SnapshotTick, SnapshotRound
  <2>3. AttackTime \/ StartTime \/ AdvanceTick \/ AdvanceRound =>
          UNCHANGED <<late, frozenTick, frozenRound, subs, results>>
    <3>1. AttackTime \/ StartTime => UNCHANGED <<late, frozenTick, frozenRound, subs, results>>
      BY DEF AttackTime, StartTime
    <3>2. AdvanceTick => UNCHANGED <<late, frozenTick, frozenRound, subs, results>>
      BY DEF AdvanceTick
    <3>3. AdvanceRound => UNCHANGED <<late, frozenTick, frozenRound, subs, results>>
      BY DEF AdvanceRound
    <3> QED
      BY <3>1, <3>2, <3>3
  <2> QED
    BY <2>2, <2>3
<1>2. ASSUME NEW s \in typing, CommitSubmit(s) PROVE Kept
  <2>1. s.late
    BY DEF Early
  <2>2. subs' = subs \/ subs' = subs \cup {s}
    BY <1>2 DEF CommitSubmit
  <2>3. {x \in subs' : ~x.late} = {x \in subs : ~x.late}
    BY <2>1, <2>2
  <2> QED
    BY <1>2, <2>3 DEF CommitSubmit
<1>3. ASSUME NEW k \in tasks, NEW o \in Outcomes, Judge(k, o) PROVE Kept
  <2> DEFINE r == [team |-> k.flag.owner, chall |-> k.flag.chall, outcome |-> o, late |-> k.late]
  <2>1. k.late
    BY DEF Early
  <2>2. k.flag \in Flags /\ k.late \in BOOLEAN
    BY DEF ScoreTypes
  <2>3. r \in Results /\ r.late
    BY <2>1, <2>2 DEF Flags, Results
  <2>4. results' = Append(results, r) /\ UNCHANGED <<late, frozenTick, frozenRound, subs>>
    BY <1>3 DEF Judge
  <2> HIDE DEF r
  <2> QED
    BY <2>3, <2>4
<1>4. ~Request
  BY DEF Request, AdminTypes
<1>5. /\ \A t, f : ~BeginSubmit(t, f) /\ ~PublishCheck(t, f)
      /\ ~ResetGame /\ ~Administrate
  <2>1. \A t, f : ~BeginSubmit(t, f) /\ ~PublishCheck(t, f)
    BY <1>4 DEF BeginSubmit, PublishCheck
  <2>2. ~ResetGame
    BY <1>4 DEF ResetGame
  <2>3. ~Administrate
    BY <1>4 DEF Administrate, CreateTeam, DeleteTeam, CreateChallenge, PatchChallenge, DeleteChallenge,
      Provision, DeleteService
  <2> QED
    BY <2>1, <2>2, <2>3
<1> HIDE DEF Kept
<1>6. Kept
  BY <1>1, <1>2, <1>3, <1>5, Zenon DEF Next
<1> QED
  BY <1>6 DEF Kept

\* Then the two boards show what they showed.
LEMMA FrozenBoardsKept ==
  ASSUME ScoreTypes, late, UNCHANGED <<late, frozenTick, frozenRound>>,
         {s \in subs' : ~s.late} = {s \in subs : ~s.late},
         \/ results' = results
         \/ \E r : results' = Append(results, r) /\ r \in Results /\ r.late
  PROVE  /\ \A e \in DOMAIN SimpleBoard \intersect (DOMAIN SimpleBoard)' : SimpleBoard[e] = SimpleBoard'[e]
         /\ \A e \in DOMAIN AwsBoard \intersect (DOMAIN AwsBoard)' : AwsBoard[e] = AwsBoard'[e]
<1>0. \A s : s \in subs' /\ ~s.late <=> s \in subs /\ ~s.late
  <2> SUFFICES ASSUME NEW s PROVE s \in subs' /\ ~s.late <=> s \in subs /\ ~s.late
    OBVIOUS
  <2>1. s \in {x \in subs' : ~x.late} <=> s \in {x \in subs : ~x.late}
    OBVIOUS
  <2> QED
    BY <2>1
<1>1. \A t, c : Captured(t, c)' = Captured(t, c)
  <2> SUFFICES ASSUME NEW t, NEW c PROVE Captured(t, c)' = Captured(t, c)
    OBVIOUS
  <2>1. {s \in subs' : s.team = t /\ s.flag.chall = c /\ s.flag.owner # t /\ ~s.late}
          = {s \in subs : s.team = t /\ s.flag.chall = c /\ s.flag.owner # t /\ ~s.late}
    BY <1>0
  <2> QED
    BY <2>1 DEF Captured
<1>2. \A t, c : Stolen(t, c)' = Stolen(t, c)
  <2> SUFFICES ASSUME NEW t, NEW c PROVE Stolen(t, c)' = Stolen(t, c)
    OBVIOUS
  <2>1. {s \in subs' : s.team # t /\ s.flag.chall = c /\ s.flag.owner = t /\ ~s.late}
          = {s \in subs : s.team # t /\ s.flag.chall = c /\ s.flag.owner = t /\ ~s.late}
    BY <1>0
  <2> QED
    BY <2>1 DEF Stolen
<1>3. \A t, c : CapturedAll(t, c)' = CapturedAll(t, c)
  <2> SUFFICES ASSUME NEW t, NEW c PROVE CapturedAll(t, c)' = CapturedAll(t, c)
    OBVIOUS
  <2>1. {s \in subs' : s.team = t /\ s.flag.chall = c /\ ~s.late}
          = {s \in subs : s.team = t /\ s.flag.chall = c /\ ~s.late}
    BY <1>0
  <2> QED
    BY <2>1 DEF CapturedAll
<1>4. \A t, c : Broken(t, c)' = Broken(t, c)
  <2> SUFFICES ASSUME NEW t, NEW c PROVE Broken(t, c)' = Broken(t, c)
    OBVIOUS
  <2>1. {x \in subs' : x.flag.owner = t /\ x.team # t /\ x.flag.chall = c /\ ~x.late}
          = {x \in subs : x.flag.owner = t /\ x.team # t /\ x.flag.chall = c /\ ~x.late}
    BY <1>0
  <2> QED
    BY <2>1 DEF Broken
<1>5. \A t, c, v : Checked(t, c, v)' = Checked(t, c, v)
  <2> SUFFICES ASSUME NEW t, NEW c, NEW v PROVE Checked(t, c, v)' = Checked(t, c, v)
    OBVIOUS
  <2>1. CASE results' = results
    BY <2>1 DEF Checked
  <2>2. ASSUME NEW r, results' = Append(results, r), r \in Results, r.late
        PROVE  Checked(t, c, v)' = Checked(t, c, v)
    <3>1. DOMAIN results = 1..Len(results) /\ DOMAIN results' = 1..(Len(results) + 1) /\ Len(results) \in Nat
      BY <2>2, AppendProperties, LenProperties DEF ScoreTypes
    <3>2. \A i \in 1..Len(results) : results'[i] = results[i]
      BY <2>2, AppendProperties DEF ScoreTypes
    <3>3. results'[Len(results) + 1] = r
      BY <2>2, AppendProperties DEF ScoreTypes
    <3>4. {i \in DOMAIN results' : /\ results'[i].team = t /\ results'[i].chall = c
                                   /\ results'[i].outcome.status = v /\ ~results'[i].late}
            = {i \in DOMAIN results : /\ results[i].team = t /\ results[i].chall = c
                                      /\ results[i].outcome.status = v /\ ~results[i].late}
      <4>1. \A i : i \in DOMAIN results' /\ ~results'[i].late <=> i \in DOMAIN results /\ ~results[i].late
        <5>1. \A i \in 1..Len(results) : i \in DOMAIN results' /\ results'[i] = results[i]
          BY <3>1, <3>2
        <5>2. \A i \in DOMAIN results' : i \in DOMAIN results \/ i = Len(results) + 1
          BY <3>1
        <5>3. results'[Len(results) + 1].late
          BY <2>2, <3>3
        <5> QED
          BY <3>1, <5>1, <5>2, <5>3
      <4>2. \A i \in DOMAIN results : results'[i] = results[i]
        BY <3>1, <3>2
      <4> QED
        BY <4>1, <4>2
    <3> QED
      BY <3>4 DEF Checked
  <2> QED
    BY <2>1, <2>2
<1>6. Sessions' = Sessions
  BY DEF Sessions, OrElse
<1>7. \A t, c : SimpleEntry(t, c)' = SimpleEntry(t, c) /\ AwsEntry(t, c)' = AwsEntry(t, c)
  BY <1>1, <1>2, <1>3, <1>4, <1>5, <1>6 DEF SimpleEntry, AwsEntry
<1>8. \A e \in DOMAIN SimpleBoard \intersect (DOMAIN SimpleBoard)' : SimpleBoard[e] = SimpleBoard'[e]
  BY <1>7 DEF SimpleBoard
<1>9. \A e \in DOMAIN AwsBoard \intersect (DOMAIN AwsBoard)' : AwsBoard[e] = AwsBoard'[e]
  BY <1>7 DEF AwsBoard
<1> QED
  BY <1>8, <1>9

\* Once the freeze is stored and what began before it has ended, nothing but a request
\* changes what the boards of simple and of aws_ec2 show of a challenge.
THEOREM FrozenBoardsStable == Spec => FrozenStable
<1> DEFINE Same ==
      /\ \A e \in DOMAIN SimpleBoard \intersect (DOMAIN SimpleBoard)' : SimpleBoard[e] = SimpleBoard'[e]
      /\ \A e \in DOMAIN AwsBoard \intersect (DOMAIN AwsBoard)' : AwsBoard[e] = AwsBoard'[e]
<1>1. AdminTypes /\ ScoreTypes /\ [Next]_vars =>
        [late /\ Whole /\ Early = {} /\ requests' = requests => Same]_vars
  BY FrozenRowsKept, FrozenBoardsKept
<1> QED
  BY <1>1, TypesInit, AdminTypesStep, ScoreTypesStep, ReferencesStep, PTL DEF Spec, FrozenStable

-----------------------------------------------------------------------------
(* Positions: their numbers, what the rows of the position and of the freeze say. *)

\* The number of the first position of a round, less one; of a flag; and of the last
\* position for which there are flags.
Before(n) == (n - 1) * NumberTick
Index(f) == Before(f.round) + f.tick
Reached == IF half = 0 THEN Before(RoundOr1) + tick - OverBy ELSE Before(half) + tick - 1

\* The rows of the position go together, also between their two commits, and no flag is
\* from a position not reached.
PositionInv ==
  /\ half # 0 => round <= NumberRound /\ half <= round + 1
  /\ round # 0 => tick # 0
  /\ round = 0 => flags = {} /\ (half = 0 => tick = 0)
  /\ Finished \/ half = NumberRound + 1 => tick = 1
  /\ \A f \in flags : Index(f) <= Reached

\* The rows of the freeze are of one position, and what counts is not from a later one.
FreezeInv ==
  /\ frozenTick # NoRow => late
  /\ frozenRound # NoRow => frozenTick # NoRow
  /\ frozenTick # NoRow /\ frozenRound = NoRow => half = 0 /\ frozenTick = tick
  /\ frozenRound # NoRow =>
       \A s \in subs \cup typing : ~s.late => Index(s.flag) <= Before(frozenRound) + frozenTick

\* A flag counts once for a team.
OnceInv ==
  /\ \A s, u \in subs : s.team = u.team /\ s.flag = u.flag => s = u
  /\ \A s \in typing, u \in subs : ~(s.team = u.team /\ s.flag = u.flag)
  /\ \A s, u \in typing : s.team = u.team => s = u

\* What the proofs need of the numbers of rounds.
LEMMA BeforeRounds ==
  /\ \A n \in Int : Before(n) \in Int /\ Before(n + 1) = Before(n) + NumberTick
  /\ \A m, n \in Int : m <= n => Before(m) <= Before(n)
  /\ Before(1) = 0
  /\ \A n \in Int : Before(n + 1) = n * NumberTick
<1>1. NumberTick \in Int /\ NumberTick >= 0
  OBVIOUS
<1>2. \A n, k \in Int : (n - 1) * k \in Int /\ n * k \in Int /\ n * k = (n - 1) * k + k
  BY SMTT(30)
<1>3. \A m, n, k \in Int : k >= 0 /\ m <= n => (m - 1) * k <= (n - 1) * k
  BY SMTT(30)
<1>4. \A k \in Int : (1 - 1) * k = 0
  BY SMTT(30)
<1>5. \A n \in Int : (n + 1) - 1 = n
  OBVIOUS
<1>6. \A n \in Int : Before(n) \in Int /\ Before(n) = (n - 1) * NumberTick
  BY <1>1, <1>2 DEF Before
<1>7. \A n \in Int : Before(n + 1) = n * NumberTick
  BY <1>5 DEF Before
<1>8. \A m, n \in Int : m <= n => Before(m) <= Before(n)
  <2> SUFFICES ASSUME NEW m \in Int, NEW n \in Int, m <= n PROVE Before(m) <= Before(n)
    OBVIOUS
  <2>1. (m - 1) * NumberTick <= (n - 1) * NumberTick
    BY <1>1, <1>3
  <2> QED
    BY <2>1, <1>6
<1>9. Before(1) = 0
  BY <1>1, <1>4 DEF Before
<1>10. \A n \in Int : Before(n + 1) = Before(n) + NumberTick
  BY <1>1, <1>2, <1>6, <1>7
<1> QED
  BY <1>6, <1>7, <1>8, <1>9, <1>10

\* A number belongs to one position, and is positive.
LEMMA IndexIsOne ==
  /\ \A f \in Flags : Index(f) \in Nat /\ Index(f) >= 1
  /\ \A f, g \in Flags : Index(f) = Index(g) => f.round = g.round /\ f.tick = g.tick
<1>1. \A f \in Flags : f.round \in Int /\ f.round >= 1 /\ f.tick \in 1..NumberTick /\ f.tick \in Int
  BY DEF Flags, Rounds
<1>2. \A f \in Flags : Before(f.round) \in Int /\ Before(f.round) >= 0
  <2> SUFFICES ASSUME NEW f \in Flags PROVE Before(f.round) \in Int /\ Before(f.round) >= 0
    OBVIOUS
  <2>1. f.round \in Int /\ 1 <= f.round
    BY <1>1
  <2>2. Before(1) <= Before(f.round) /\ Before(f.round) \in Int /\ Before(1) = 0
    <3>1. PICK n \in Int : n = f.round
      BY <2>1
    <3>2. Before(n) \in Int /\ Before(1) = 0
      BY BeforeRounds
    <3>3. \A m, k \in Int : m <= k => Before(m) <= Before(k)
      BY BeforeRounds
    <3>4. 1 <= n
      BY <2>1, <3>1
    <3>5. Before(1) <= Before(n)
      BY <3>3, <3>4
    <3> QED
      BY <3>1, <3>2, <3>5
  <2> QED
    BY <2>2
<1>3. \A f, g \in Flags : f.round < g.round => Index(f) < Index(g)
  <2> SUFFICES ASSUME NEW f \in Flags, NEW g \in Flags, f.round < g.round PROVE Index(f) < Index(g)
    OBVIOUS
  <2>1. f.round + 1 <= g.round /\ f.round + 1 \in Int
    BY <1>1
  <2>2. Before(f.round + 1) <= Before(g.round) /\ Before(f.round + 1) = Before(f.round) + NumberTick
    BY <1>1, <2>1, BeforeRounds
  <2> QED
    BY <1>1, <1>2, <2>2 DEF Index
<1>4. \A f \in Flags : Index(f) \in Nat /\ Index(f) >= 1
  BY <1>1, <1>2 DEF Index
<1>5. \A f, g \in Flags : Index(f) = Index(g) => f.round = g.round
  BY <1>1, <1>3, <1>4
<1> QED
  BY <1>1, <1>2, <1>4, <1>5 DEF Index

\* What the types say of the numbers of a position.
LEMMA Numbers ==
  ASSUME ScoreTypes
  PROVE  /\ tick \in Nat /\ tick <= NumberTick /\ round \in Nat /\ round <= NumberRound + 1
         /\ half \in Nat /\ half <= NumberRound + 1 /\ RoundOr1 \in Nat /\ RoundOr1 >= 1 /\ OverBy \in {0, 1}
         /\ round # 0 => RoundOr1 = round
         /\ round = 0 => RoundOr1 = 1
         /\ Before(RoundOr1) \in Nat /\ Before(half) \in Int /\ Reached \in Int
         /\ Before(RoundOr1 + 1) = Before(RoundOr1) + NumberTick
<1>1. /\ tick \in Nat /\ tick <= NumberTick /\ round \in Nat /\ round <= NumberRound + 1
      /\ half \in Nat /\ half <= NumberRound + 1
  BY DEF ScoreTypes
<1>2. /\ RoundOr1 \in Nat /\ RoundOr1 >= 1 /\ OverBy \in {0, 1}
      /\ round # 0 => RoundOr1 = round
      /\ round = 0 => RoundOr1 = 1
  BY <1>1 DEF RoundOr1, OverBy
<1>3. Before(RoundOr1) \in Int /\ Before(half) \in Int /\ Before(RoundOr1 + 1) = Before(RoundOr1) + NumberTick
  <2>1. \A n \in Int : Before(n) \in Int /\ Before(n + 1) = Before(n) + NumberTick
    BY BeforeRounds
  <2>2. RoundOr1 \in Int /\ half \in Int
    BY <1>1, <1>2
  <2> QED
    BY <2>1, <2>2
<1>4. Before(1) <= Before(RoundOr1) /\ Before(1) = 0
  BY <1>2, BeforeRounds
<1> QED
  BY <1>1, <1>2, <1>3, <1>4 DEF Reached

\* The number reached does not go down.
LEMMA PositionStep ==
  ASSUME ScoreTypes, PositionInv, [Next]_vars
  PROVE  PositionInv'
<1>a. ASSUME UNCHANGED <<tick, round, half, flags>> PROVE PositionInv'
  <2>1. Reached' = Reached
    BY <1>a DEF Reached, RoundOr1, OverBy, Finished
  <2> QED
    BY <1>a, <2>1 DEF PositionInv, Finished
<1>b. /\ half # 0 => round <= NumberRound /\ half <= round + 1
      /\ round # 0 => tick # 0
      /\ round = 0 => flags = {} /\ (half = 0 => tick = 0)
      /\ Finished \/ half = NumberRound + 1 => tick = 1
      /\ \A f \in flags : Index(f) <= Reached
  BY DEF PositionInv
<1>c. \A f \in flags : Index(f) \in Int
  BY IndexIsOne DEF ScoreTypes
<1>1. CASE AdvanceTick
  <2>1. /\ half = 0 /\ ~Finished /\ round <= NumberRound
        /\ tick' = (IF tick < NumberTick THEN tick + 1 ELSE 1)
        /\ half' = (IF tick < NumberTick THEN RoundOr1 ELSE RoundOr1 + 1)
        /\ UNCHANGED <<round, flags>>
    BY <1>1, Numbers DEF AdvanceTick, TickJob, Running, Finished
  <2>2. Reached = Before(RoundOr1) + tick
    BY <2>1, Numbers DEF Reached, OverBy
  <2>3. half' # 0 /\ Reached' = Before(half') + tick' - 1
    BY <2>1, Numbers DEF Reached
  <2>4. Reached' >= Reached /\ Reached' \in Int
    BY <2>1, <2>2, <2>3, Numbers
  <2>5. \A f \in flags' : Index(f) <= Reached'
    BY <1>b, <1>c, <2>1, <2>4, Numbers
  <2>6. round' # 0 => tick' # 0
    BY <2>1, Numbers
  <2>7. round' = 0 => flags' = {} /\ (half' = 0 => tick' = 0)
    BY <1>b, <2>1, <2>3
  <2>8. half' # 0 => round' <= NumberRound /\ half' <= round' + 1
    <3>1. round = 0 => tick < NumberTick
      BY <1>b, <2>1, Numbers
    <3> QED
      BY <2>1, <3>1, Numbers
  <2>9. Finished' \/ half' = NumberRound + 1 => tick' = 1
    <3>1. ~Finished'
      BY <2>1 DEF Finished
    <3>2. half' = NumberRound + 1 => ~(tick < NumberTick)
      BY <2>1, Numbers
    <3> QED
      BY <2>1, <3>1, <3>2
  <2> QED
    BY <2>5, <2>6, <2>7, <2>8, <2>9 DEF PositionInv
<1>2. CASE AdvanceRound
  <2> DEFINE New == {[owner |-> t, chall |-> c, round |-> half, tick |-> tick] :
                       t \in teams, c \in {d \in ReleasedIn(half) : half <= NumberRound}}
  <2>1. half # 0 /\ round' = half /\ half' = 0 /\ tick' = tick /\ flags' = flags \cup New
    BY <1>2 DEF AdvanceRound
  <2>2. \A f \in New : half <= NumberRound /\ f.round = half /\ f.tick = tick
    OBVIOUS
  <2> HIDE DEF New
  <2>3. Reached = Before(half) + tick - 1 /\ tick # 0 /\ (half = NumberRound + 1 => tick = 1)
    <3>1. round = 0 => tick # 0
      BY <2>1 DEF ScoreTypes
    <3> QED
      BY <1>b, <2>1, <3>1 DEF Reached
  <2>4. Reached' = IF half > NumberRound THEN Before(half) + tick - 1 ELSE Before(half) + tick
    BY <2>1, Numbers DEF Reached, RoundOr1, OverBy, Finished
  <2>5. \A f \in New : Index(f) = Before(half) + tick /\ Index(f) <= Reached'
    BY <2>2, <2>4, Numbers DEF Index
  <2>6. \A f \in flags' : Index(f) <= Reached'
    BY <1>b, <1>c, <2>1, <2>3, <2>4, <2>5, Numbers
  <2>7. Finished' => tick' = 1
    BY <2>1, <2>3, Numbers DEF Finished
  <2> QED
    BY <2>1, <2>3, <2>6, <2>7 DEF PositionInv
<1>3. CASE ResetGame
  BY <1>3 DEF ResetGame, PositionInv, Finished
<1>4. AttackTime \/ FreezeTime \/ StartTime \/ SnapshotTick \/ SnapshotRound \/ Administrate \/ UNCHANGED vars
        => UNCHANGED <<tick, round, half, flags>>
  BY DEF AttackTime, FreezeTime, StartTime, SnapshotTick, SnapshotRound, Administrate, scoreVars, vars
<1>5. ASSUME NEW t, NEW f, BeginSubmit(t, f) \/ PublishCheck(t, f) \/ Judge(t, f) \/ CommitSubmit(t)
      PROVE  UNCHANGED <<tick, round, half, flags>>
  BY <1>5 DEF BeginSubmit, PublishCheck, Judge, CommitSubmit
<1> QED
  BY <1>a, <1>1, <1>2, <1>3, <1>4, <1>5, Zenon DEF Next

\* No step makes a second submission of a flag by a team.
LEMMA OnceStep ==
  ASSUME OnceInv, [Next]_vars
  PROVE  OnceInv'
<1>1. ASSUME NEW t \in teams, NEW f \in flags, BeginSubmit(t, f) PROVE OnceInv'
  <2> DEFINE n == [team |-> t, flag |-> f, late |-> late]
  <2>1. /\ typing' = typing \cup {n} /\ subs' = subs
        /\ \A s \in typing : s.team # t
        /\ \A s \in subs : ~(s.team = t /\ s.flag = f)
    BY <1>1 DEF BeginSubmit
  <2>2. n.team = t /\ n.flag = f
    OBVIOUS
  <2> HIDE DEF n
  <2> QED
    BY <2>1, <2>2 DEF OnceInv
<1>2. ASSUME NEW s \in typing, CommitSubmit(s) PROVE OnceInv'
  <2>1. typing' = typing \ {s} /\ (subs' = subs \/ subs' = subs \cup {s})
    BY <1>2 DEF CommitSubmit
  <2> QED
    BY <2>1 DEF OnceInv
<1>3. CASE ResetGame
  BY <1>3 DEF ResetGame, OnceInv
<1>4. \/ AttackTime \/ FreezeTime \/ StartTime \/ SnapshotTick \/ SnapshotRound \/ AdvanceTick \/ AdvanceRound
      \/ Administrate \/ UNCHANGED vars
      => UNCHANGED <<subs, typing>>
  BY DEF AttackTime, FreezeTime, StartTime, SnapshotTick, SnapshotRound, AdvanceTick, AdvanceRound,
    Administrate, scoreVars, vars
<1>5. ASSUME NEW t, NEW f, PublishCheck(t, f) \/ Judge(t, f) PROVE UNCHANGED <<subs, typing>>
  BY <1>5 DEF PublishCheck, Judge
<1>6. UNCHANGED <<subs, typing>> => OnceInv'
  BY DEF OnceInv
<1> QED
  BY <1>1, <1>2, <1>3, <1>4, <1>5, <1>6, Zenon DEF Next

\* No step makes a submission count that is later than the freeze.
LEMMA FreezeStep ==
  ASSUME ScoreTypes, References, PositionInv, FreezeInv, [Next]_vars
  PROVE  FreezeInv'
<1>a. /\ frozenTick # NoRow => late
      /\ frozenRound # NoRow => frozenTick # NoRow
      /\ frozenTick # NoRow /\ frozenRound = NoRow => half = 0 /\ frozenTick = tick
      /\ frozenRound # NoRow =>
           \A s \in subs \cup typing : ~s.late => Index(s.flag) <= Before(frozenRound) + frozenTick
  BY DEF FreezeInv
<1>b. ASSUME UNCHANGED <<frozenTick, frozenRound>>, late => late',
             frozenTick # NoRow /\ frozenRound = NoRow => UNCHANGED <<half, tick>>,
             frozenRound # NoRow =>
               \A s \in subs' \cup typing' : ~s.late => s \in subs \cup typing
      PROVE  FreezeInv'
  BY <1>a, <1>b DEF FreezeInv
<1>1. CASE SnapshotTick
  <2>1. /\ half = 0 /\ late /\ frozenTick = NoRow /\ frozenTick' = tick
        /\ UNCHANGED <<late, tick, round, half, frozenRound, subs, typing>>
    BY <1>1 DEF SnapshotTick, TickJob
  <2>2. frozenRound = NoRow /\ frozenTick' # NoRow
    BY <1>a, <2>1 DEF ScoreTypes, NoRow
  <2> QED
    BY <2>1, <2>2 DEF FreezeInv
<1>2. CASE SnapshotRound
  <2>1. /\ half = 0 /\ ~Finished /\ frozenTick # NoRow /\ frozenRound = NoRow /\ frozenRound' = RoundOr1
        /\ UNCHANGED <<late, tick, round, half, frozenTick, subs, typing, flags>>
    BY <1>2 DEF SnapshotRound, TickJob, Running
  <2>2. frozenTick = tick /\ late
    BY <1>a, <2>1
  <2>3. Reached = Before(frozenRound') + frozenTick
    BY <2>1, <2>2, Numbers DEF Reached, OverBy
  <2>4. \A s \in subs \cup typing : Index(s.flag) <= Reached
    BY DEF References, PositionInv
  <2> QED
    BY <2>1, <2>2, <2>3, <2>4 DEF FreezeInv
<1>3. CASE AdvanceTick
  <2>1. /\ late => frozenTick # NoRow /\ frozenRound # NoRow
        /\ UNCHANGED <<late, frozenTick, frozenRound, subs, typing>>
    BY <1>3 DEF AdvanceTick
  <2> QED
    BY <1>a, <1>b, <2>1
<1>4. CASE AdvanceRound
  <2>1. half # 0 /\ UNCHANGED <<late, tick, frozenTick, frozenRound, subs, typing>>
    BY <1>4 DEF AdvanceRound
  <2> QED
    BY <1>a, <1>b, <2>1
<1>5. ASSUME NEW t \in teams, NEW f \in flags, BeginSubmit(t, f) PROVE FreezeInv'
  <2> DEFINE n == [team |-> t, flag |-> f, late |-> late]
  <2>1. /\ typing' = typing \cup {n} /\ subs' = subs
        /\ UNCHANGED <<late, tick, half, frozenTick, frozenRound>>
    BY <1>5 DEF BeginSubmit
  <2>2. frozenRound # NoRow => n.late
    BY <1>a
  <2> HIDE DEF n
  <2> QED
    BY <1>b, <2>1, <2>2
<1>6. ASSUME NEW s \in typing, CommitSubmit(s) PROVE FreezeInv'
  <2>1. /\ typing' = typing \ {s} /\ (subs' = subs \/ subs' = subs \cup {s})
        /\ UNCHANGED <<late, tick, half, frozenTick, frozenRound>>
    BY <1>6 DEF CommitSubmit
  <2> QED
    BY <1>b, <2>1
<1>7. CASE ResetGame
  BY <1>7 DEF ResetGame, FreezeInv
<1>8. AttackTime \/ FreezeTime \/ StartTime =>
        UNCHANGED <<frozenTick, frozenRound, half, tick, subs, typing>> /\ (late => late')
  BY DEF AttackTime, FreezeTime, StartTime
<1>9. Administrate \/ UNCHANGED vars => UNCHANGED <<late, frozenTick, frozenRound, half, tick, subs, typing>>
  BY DEF Administrate, scoreVars, vars
<1>10. ASSUME NEW t, NEW f, PublishCheck(t, f) \/ Judge(t, f)
       PROVE  UNCHANGED <<late, frozenTick, frozenRound, half, tick, subs, typing>>
  BY <1>10 DEF PublishCheck, Judge
<1>11. UNCHANGED <<frozenTick, frozenRound, half, tick, subs, typing>> /\ (late => late') => FreezeInv'
  BY <1>b
<1>12. AttackTime \/ FreezeTime \/ StartTime \/ Administrate \/ UNCHANGED vars => FreezeInv'
  BY <1>8, <1>9, <1>11
<1>13. ASSUME NEW t, NEW f, PublishCheck(t, f) \/ Judge(t, f) PROVE FreezeInv'
  BY <1>10, <1>11, <1>13
<1> QED
  BY <1>1, <1>2, <1>3, <1>4, <1>5, <1>6, <1>7, <1>12, <1>13, Zenon DEF Next

-----------------------------------------------------------------------------
(* How many submissions of a team, or of flags of a team, can count. *)

\* What can be told apart by a row and a column is bounded by rows times columns.
LEMMA GridBound ==
  ASSUME NEW A, NEW T, IsFiniteSet(T), NEW n \in Nat, NEW h \in [A -> T \X (1..n)],
         \A a, b \in A : h[a] = h[b] => a = b
  PROVE  Cardinality(A) <= Cardinality(T) * n
<1>1. IsFiniteSet(1..n) /\ Cardinality(1..n) = n
  BY FS_Interval
<1>2. IsFiniteSet(T \X (1..n)) /\ Cardinality(T \X (1..n)) = Cardinality(T) * n
  BY <1>1, FS_Product
<1>3. h \in Injection(A, T \X (1..n))
  BY DEF Injection, IsInjective
<1> QED
  BY <1>2, <1>3, FS_Injection

\* Submissions of one challenge that count, with the numbers of their positions up to n.
Counted(A, c, n) ==
  \A s \in A : s \in subs /\ s.flag.chall = c /\ Index(s.flag) <= n

\* Owner, challenge and number of the position identify a flag.
LEMMA SameFlag ==
  ASSUME ScoreTypes, NEW s \in subs, NEW u \in subs, s.flag.chall = u.flag.chall,
         s.flag.owner = u.flag.owner, Index(s.flag) = Index(u.flag)
  PROVE  s.flag = u.flag
<1>1. s.flag \in Flags /\ u.flag \in Flags
  BY DEF ScoreTypes
<1>2. s.flag.round = u.flag.round /\ s.flag.tick = u.flag.tick
  BY <1>1, IndexIsOne
<1> QED
  BY <1>1, <1>2 DEF Flags

\* A team captures one flag of each owner and position.
LEMMA CapturedBound ==
  ASSUME AdminTypes, ScoreTypes, References, OnceInv, NEW A, NEW t, NEW c, NEW n \in Nat,
         Counted(A, c, n), \A s \in A : s.team = t
  PROVE  Cardinality(A) <= Cardinality(teams) * n
<1> DEFINE h == [s \in A |-> <<s.flag.owner, Index(s.flag)>>]
<1>1. \A s \in A : s \in subs /\ s.flag \in Flags /\ Index(s.flag) \in 1..n /\ s.flag.owner \in teams
  BY IndexIsOne DEF Counted, ScoreTypes, References
<1>2. h \in [A -> teams \X (1..n)]
  BY <1>1
<1>3. \A a, b \in A : h[a] = h[b] => a = b
  <2> SUFFICES ASSUME NEW a \in A, NEW b \in A, h[a] = h[b] PROVE a = b
    OBVIOUS
  <2>1. a.flag.owner = b.flag.owner /\ Index(a.flag) = Index(b.flag)
    OBVIOUS
  <2>2. a.flag = b.flag
    BY <1>1, <2>1, SameFlag DEF Counted
  <2> QED
    BY <1>1, <2>2 DEF OnceInv
<1> HIDE DEF h
<1> QED
  BY <1>2, <1>3, SmallerFinite, GridBound

\* A flag of a team is taken once by each other team and position.
LEMMA StolenBound ==
  ASSUME AdminTypes, ScoreTypes, References, OnceInv, NEW A, NEW t, NEW c, NEW n \in Nat,
         Counted(A, c, n), \A s \in A : s.flag.owner = t /\ s.team # t
  PROVE  Cardinality(A) <= Cardinality(teams \ {t}) * n
<1> DEFINE h == [s \in A |-> <<s.team, Index(s.flag)>>]
<1>1. \A s \in A : s \in subs /\ s.flag \in Flags /\ Index(s.flag) \in 1..n /\ s.team \in teams \ {t}
  BY IndexIsOne DEF Counted, ScoreTypes, References
<1>2. h \in [A -> (teams \ {t}) \X (1..n)]
  BY <1>1
<1>3. \A a, b \in A : h[a] = h[b] => a = b
  <2> SUFFICES ASSUME NEW a \in A, NEW b \in A, h[a] = h[b] PROVE a = b
    OBVIOUS
  <2>1. a.team = b.team /\ Index(a.flag) = Index(b.flag)
    OBVIOUS
  <2>2. a.flag = b.flag
    BY <1>1, <2>1, SameFlag DEF Counted
  <2> QED
    BY <1>1, <2>1, <2>2 DEF OnceInv
<1>4. IsFiniteSet(teams \ {t})
  BY SmallerFinite, FS_RemoveElement
<1> HIDE DEF h
<1> QED
  BY <1>2, <1>3, <1>4, GridBound

\* A team is broken in no more sessions than there are positions.
LEMMA BrokenBound ==
  ASSUME ScoreTypes, NEW t, NEW c, NEW n \in Nat,
         \A s \in subs : ~s.late => Index(s.flag) <= n
  PROVE  Cardinality(Broken(t, c)) \in Nat /\ Cardinality(Broken(t, c)) <= n
<1> DEFINE B == Broken(t, c)
           h == [p \in B |-> Before(p[2]) + p[1]]
<1>1. \A p \in B : \E f \in Flags : p = <<f.tick, f.round>> /\ Index(f) \in 1..n
  BY IndexIsOne DEF Broken, ScoreTypes
<1>2. \A p \in B : \E f \in Flags : p = <<f.tick, f.round>> /\ h[p] = Index(f) /\ Index(f) \in 1..n
  BY <1>1 DEF Index
<1>3. h \in [B -> 1..n]
  BY <1>2
<1>4. \A p, q \in B : h[p] = h[q] => p = q
  BY <1>2, IndexIsOne
<1>5. h \in Injection(B, 1..n)
  BY <1>3, <1>4 DEF Injection, IsInjective
<1>6. IsFiniteSet(1..n) /\ Cardinality(1..n) = n
  BY FS_Interval
<1> HIDE DEF h, B
<1>7. IsFiniteSet(B) /\ Cardinality(B) <= n
  BY <1>5, <1>6, FS_Injection
<1>8. Cardinality(B) \in Nat
  BY <1>7, FS_CardinalityType
<1> QED
  BY <1>7, <1>8 DEF B

\* Products of natural numbers.
LEMMA Products ==
  /\ \A m, n \in Nat : m * n \in Nat
  /\ \A m, n \in Nat : m >= 1 /\ n >= 1 => m * n >= 1
  /\ \A m, n \in Nat : m * n >= 1 => m >= 1 /\ n >= 1
  /\ \A m, n \in Nat : m >= 1 => (m - 1) * n <= m * n
  /\ \A m, n \in Nat : m * n = n * m
<1>1. \A m, n \in Nat : m * n \in Nat
  OBVIOUS
<1>2. \A m, n \in Nat : m >= 1 /\ n >= 1 => m * n >= 1
  BY SMTT(30)
<1>3. \A m, n \in Nat : m * n >= 1 => m >= 1 /\ n >= 1
  BY SMTT(30)
<1>4. \A m, n \in Nat : m >= 1 => (m - 1) * n <= m * n
  BY SMTT(30)
<1>5. \A m, n \in Nat : m * n = n * m
  OBVIOUS
<1> QED
  BY <1>1, <1>2, <1>3, <1>4, <1>5

-----------------------------------------------------------------------------
(* The numbers of the boards. *)

\* The numbers of teams, and of the other teams.
LEMMA TeamsCounted ==
  ASSUME AdminTypes, NEW t \in teams
  PROVE  /\ Cardinality(teams) \in Nat /\ Cardinality(teams) >= 1
         /\ Cardinality(teams \ {t}) = Cardinality(teams) - 1 /\ Cardinality(teams \ {t}) \in Nat
<1>1. IsFiniteSet(teams) /\ IsFiniteSet(teams \ {t})
  BY SmallerFinite, FS_RemoveElement
<1>2. Cardinality(teams) \in Nat /\ Cardinality(teams \ {t}) \in Nat
  BY <1>1, FS_CardinalityType
<1>3. Cardinality(teams \ {t}) = Cardinality(teams) - 1
  BY <1>1, FS_RemoveElement
<1> QED
  BY <1>2, <1>3

\* A challenge that was released is shown in a round that has begun.
LEMMA ReleasedLater ==
  ASSUME AdminTypes, ScoreTypes, NEW c \in ReleasedUntil(round)
  PROVE  round >= 1
BY DEF AdminTypes, ScoreTypes, ReleasedUntil, Rounds

\* What norank divides by is a product of positive numbers.
LEMMA NorankStaysDefined ==
  ASSUME AdminTypes, ScoreTypes, PositionInv
  PROVE  NorankDefined
<1> SUFFICES ASSUME NEW t \in teams, NEW c \in ReleasedUntil(round) PROVE TotalFlag > 0
  BY DEF NorankDefined, NorankBoard, NorankEntry
<1>1. round \in Nat /\ tick \in Nat /\ round >= 1 /\ tick >= 1
  BY ReleasedLater, Numbers DEF PositionInv
<1>2. round * tick \in Nat /\ round * tick >= 1
  BY <1>1, Products
<1>3. TotalFlag \in Nat /\ TotalFlag >= 1
  BY <1>2, TeamsCounted, Products DEF TotalFlag
<1> QED
  BY <1>3

\* What counts of a team and a challenge.
Mine(t, c) == {s \in subs : s.team = t /\ s.flag.chall = c /\ ~s.late}
Lost(t, c) == {s \in subs : s.team # t /\ s.flag.chall = c /\ s.flag.owner = t /\ ~s.late}

\* The two bounds on the numbers of a board.
LEMMA EntryBound ==
  ASSUME AdminTypes, ScoreTypes, References, OnceInv, FiniteRows, NEW t \in teams, NEW c, NEW n \in Nat,
         \A s \in subs : ~s.late => Index(s.flag) <= n
  PROVE  /\ CapturedAll(t, c) <= n * Cardinality(teams)
         /\ Stolen(t, c) <= n * (Cardinality(teams) - 1)
         /\ Stolen(t, c) <= n * Cardinality(teams)
<1>1. Counted(Mine(t, c), c, n) /\ Counted(Lost(t, c), c, n)
  BY DEF Counted, Mine, Lost
<1>2. Cardinality(Mine(t, c)) <= Cardinality(teams) * n
  <2>1. \A s \in Mine(t, c) : s.team = t
    BY DEF Mine
  <2> QED
    BY <1>1, <2>1, CapturedBound
<1>3. Cardinality(Lost(t, c)) <= Cardinality(teams \ {t}) * n
  <2>1. \A s \in Lost(t, c) : s.flag.owner = t /\ s.team # t
    BY DEF Lost
  <2> QED
    BY <1>1, <2>1, StolenBound
<1> DEFINE k == Cardinality(teams)
           m == Cardinality(teams \ {t})
<1>4. k \in Nat /\ k >= 1 /\ m = k - 1 /\ m \in Nat
  BY TeamsCounted
<1>5. CapturedAll(t, c) = Cardinality(Mine(t, c)) /\ Stolen(t, c) = Cardinality(Lost(t, c))
  BY DEF CapturedAll, Stolen, Mine, Lost
<1>6. CapturedAll(t, c) <= k * n /\ Stolen(t, c) <= m * n
  BY <1>2, <1>3, <1>5
<1>7. CapturedAll(t, c) \in Int /\ Stolen(t, c) \in Int
  <2>1. IsFiniteSet(Mine(t, c)) /\ IsFiniteSet(Lost(t, c))
    BY FS_Subset DEF FiniteRows, Mine, Lost
  <2> QED
    BY <1>5, <2>1, FS_CardinalityType
<1> HIDE DEF k, m
<1>8. k * n = n * k /\ m * n = n * m /\ (k - 1) * n <= k * n /\ k * n \in Nat /\ m * n \in Nat
  BY <1>4, Products
<1> QED
  BY <1>4, <1>6, <1>7, <1>8 DEF k

\* The sessions of aws_ec2 and of lksn are at least the position that is counted up to.
LEMMA SessionsEnough ==
  ASSUME ScoreTypes, References, PositionInv, FreezeInv, Whole
  PROVE  Sessions \in Nat /\ \A s \in subs : ~s.late => Index(s.flag) <= Sessions
<1>0. NumberTick \in Nat
  OBVIOUS
<1>1. CASE late
  <2>1. frozenTick # NoRow /\ frozenRound # NoRow /\ frozenTick \in Nat /\ frozenRound \in Nat /\ frozenRound >= 1
    BY <1>1 DEF Whole, ScoreTypes, NoRow
  <2>2. Sessions = Before(frozenRound) + frozenTick
    BY <1>1, <2>1 DEF Sessions, OrElse, Before
  <2>3. \A s \in subs : ~s.late => Index(s.flag) <= Sessions
    BY <2>1, <2>2 DEF FreezeInv
  <2>4. Before(frozenRound) \in Nat
    <3>1. (frozenRound - 1) \in Nat
      BY <2>1
    <3> QED
      BY <1>0, <3>1, Products DEF Before
  <2> QED
    BY <2>1, <2>2, <2>3, <2>4
<1>2. CASE ~late
  <2>1. half = 0
    BY DEF Whole
  <2>2. Sessions = Reached
    BY <1>2, <2>1 DEF Sessions, Reached, Before
  <2>3. \A s \in subs : Index(s.flag) <= Sessions
    BY <2>2 DEF References, PositionInv
  <2>4. Reached >= 0
    <3>1. OverBy = 1 => tick = 1
      BY DEF OverBy, PositionInv
    <3> QED
      BY <2>1, <3>1, Numbers DEF Reached
  <2> QED
    BY <2>2, <2>3, <2>4, Numbers
<1> QED
  BY <1>1, <1>2

\* No team is broken in more sessions than are counted.
LEMMA SecureStays ==
  ASSUME ScoreTypes, References, PositionInv, FreezeInv
  PROVE  SecureTicks
<1> SUFFICES ASSUME Whole, NEW t \in teams, NEW c PROVE Sessions - Cardinality(Broken(t, c)) >= 0
  BY DEF SecureTicks, AwsBoard, AwsEntry
<1>1. Sessions \in Nat /\ \A s \in subs : ~s.late => Index(s.flag) <= Sessions
  BY SessionsEnough
<1>2. Cardinality(Broken(t, c)) \in Nat /\ Cardinality(Broken(t, c)) <= Sessions
  BY <1>1, BrokenBound
<1> QED
  BY <1>1, <1>2

\* The sessions of lksn are none or enough.
LEMMA LksnEnough ==
  ASSUME ScoreTypes, References, PositionInv, FreezeInv,
         ~late \/ frozenTick = NoRow \/ frozenRound # NoRow
  PROVE  /\ LksnSessions \in Int
         /\ LksnSessions # 0 => \A s \in subs : ~s.late => Index(s.flag) <= LksnSessions
<1>0. NumberTick \in Nat /\ round \in Int /\ round + 1 \in Int
  BY Numbers
<1>a. round * NumberTick = Before(round + 1) /\ round * NumberTick \in Int
  BY <1>0, BeforeRounds
<1>1. CASE ~late
  <2>1. LksnSessions = Before(round + 1) + tick - OverBy
    BY <1>1, <1>a DEF LksnSessions
  <2>2. Reached <= Before(round + 1) + tick - OverBy
    <3>1. CASE half = 0
      <4>1. RoundOr1 <= round + 1 /\ RoundOr1 \in Int
        BY Numbers
      <4>2. Before(RoundOr1) <= Before(round + 1)
        BY <1>0, <4>1, BeforeRounds
      <4> QED
        BY <1>0, <1>a, <3>1, <4>2, Numbers DEF Reached
    <3>2. CASE half # 0
      <4>1. half <= round + 1 /\ OverBy = 0 /\ half \in Int
        BY <3>2, Numbers DEF PositionInv, OverBy, Finished
      <4>2. Before(half) <= Before(round + 1)
        BY <1>0, <4>1, BeforeRounds
      <4> QED
        BY <1>0, <1>a, <3>2, <4>1, <4>2, Numbers DEF Reached
    <3> QED
      BY <3>1, <3>2
  <2>3. \A s \in subs : Index(s.flag) <= Reached /\ Index(s.flag) \in Int
    BY IndexIsOne DEF References, PositionInv, ScoreTypes
  <2>4. LksnSessions \in Int
    BY <1>a, <2>1, Numbers
  <2> QED
    BY <2>1, <2>2, <2>3, <2>4, Numbers
<1>2. CASE late /\ frozenRound # NoRow
  <2>1. frozenTick # NoRow /\ frozenTick \in Nat /\ frozenRound \in Nat /\ frozenRound + 1 \in Int
    BY <1>2 DEF FreezeInv, ScoreTypes, NoRow
  <2>2. LksnSessions = Before(frozenRound + 1) + frozenTick
    <3>1. Before(frozenRound + 1) = frozenRound * NumberTick
      BY <2>1, BeforeRounds
    <3> QED
      BY <1>2, <2>1, <3>1 DEF LksnSessions, OrElse
  <2>3. Before(frozenRound + 1) = Before(frozenRound) + NumberTick /\ Before(frozenRound) \in Int
    <3>1. \A n \in Int : Before(n) \in Int /\ Before(n + 1) = Before(n) + NumberTick
      BY BeforeRounds
    <3>2. frozenRound \in Int
      BY <2>1
    <3> HIDE DEF Before
    <3> QED
      BY <3>1, <3>2
  <2>4. \A s \in subs : ~s.late => Index(s.flag) <= Before(frozenRound) + frozenTick
    BY <1>2 DEF FreezeInv
  <2>5. \A s \in subs : Index(s.flag) \in Int
    BY IndexIsOne DEF ScoreTypes
  <2> QED
    BY <1>0, <2>1, <2>2, <2>3, <2>4, <2>5
<1>3. CASE late /\ frozenRound = NoRow /\ frozenTick = NoRow
  <2>1. LksnSessions = 0
    BY <1>0, <1>3 DEF LksnSessions, OrElse
  <2> QED
    BY <2>1
<1> QED
  BY <1>1, <1>2, <1>3

\* No percentage is above 100.
LEMMA PercentagesStay ==
  ASSUME AdminTypes, ScoreTypes, References, OnceInv, FiniteRows, PositionInv, FreezeInv
  PROVE  PercentagesBounded
<1>1. ASSUME ~late \/ frozenTick = NoRow \/ frozenRound # NoRow, NEW e \in DOMAIN LksnBoard
      PROVE  /\ LksnBoard[e].total > 0 => LksnBoard[e].captured <= LksnBoard[e].total
             /\ LksnBoard[e].attackMax > 0 => LksnBoard[e].stolen <= LksnBoard[e].attackMax
  <2> DEFINE t == e[1]
             c == e[2]
             k == Cardinality(teams)
  <2>1. t \in teams /\ LksnBoard[e] = LksnEntry(t, c)
    BY DEF LksnBoard
  <2>2. LksnBoard[e].total = LksnSessions * k /\ LksnBoard[e].captured = CapturedAll(t, c)
        /\ LksnBoard[e].attackMax = LksnSessions * (k - 1) /\ LksnBoard[e].stolen = Stolen(t, c)
    BY <2>1 DEF LksnEntry
  <2>3. k \in Nat /\ k >= 1
    BY <2>1, TeamsCounted
  <2>4. /\ LksnSessions \in Int
        /\ LksnSessions # 0 => \A s \in subs : ~s.late => Index(s.flag) <= LksnSessions
    BY <1>1, LksnEnough
  <2> HIDE DEF t, c, k
  <2>5. \A m, n \in Int : n >= 0 /\ m * n > 0 => m > 0
    BY SMTT(30)
  <2>6. LksnSessions * k > 0 \/ LksnSessions * (k - 1) > 0 => LksnSessions \in Nat /\ LksnSessions # 0
    BY <2>3, <2>4, <2>5
  <2>7. LksnSessions \in Nat /\ LksnSessions # 0 =>
          CapturedAll(t, c) <= LksnSessions * k /\ Stolen(t, c) <= LksnSessions * (k - 1)
    BY <2>1, <2>4, EntryBound DEF k
  <2> QED
    BY <2>2, <2>6, <2>7
<1>2. ASSUME round <= 1, half = 0, NEW e \in DOMAIN NorankBoard
      PROVE  NorankBoard[e].captured <= NorankBoard[e].total /\ NorankBoard[e].stolen <= NorankBoard[e].total
  <2> DEFINE t == e[1]
             c == e[2]
  <2>1. t \in teams /\ c \in ReleasedUntil(round) /\ NorankBoard[e] = NorankEntry(t, c)
    BY DEF NorankBoard
  <2>2. round = 1
    BY <1>2, <2>1, ReleasedLater, Numbers
  <2>3. Reached = tick
    BY <1>2, <2>2, Numbers, BeforeRounds DEF Reached, OverBy, Finished
  <2>4. \A s \in subs : Index(s.flag) <= tick
    BY <2>3 DEF References, PositionInv
  <2>5. CapturedAll(t, c) <= tick * Cardinality(teams) /\ Stolen(t, c) <= tick * Cardinality(teams)
    BY <2>1, <2>4, Numbers, EntryBound
  <2>6. TotalFlag = tick * Cardinality(teams)
    <3>1. round * tick = tick
      BY <2>2, Numbers
    <3> QED
      BY <3>1 DEF TotalFlag
  <2> QED
    BY <2>1, <2>5, <2>6 DEF NorankEntry
<1> QED
  BY <1>1, <1>2 DEF PercentagesBounded

\* No board shows a number its scale has no place for, for any numbers of teams, ticks
\* and rounds, late submissions and resets (scoremodes/norank, aws_ec2 and lksn).
THEOREM BoardsStayInRange == Spec => []BoardsInRange
<1>1. Init => FiniteRows
  BY FS_EmptySet DEF Init, FiniteRows
<1>2. Init => PositionInv /\ FreezeInv /\ OnceInv
  BY DEF Init, PositionInv, FreezeInv, OnceInv, Finished
<1>3. AdminTypes /\ ScoreTypes /\ References /\ OnceInv /\ FiniteRows /\ PositionInv /\ FreezeInv => BoardsInRange
  BY NorankStaysDefined, PercentagesStay, SecureStays DEF BoardsInRange
<1> QED
  BY <1>1, <1>2, <1>3, TypesInit, AdminTypesStep, ScoreTypesStep, ReferencesStep, FiniteStep, OnceStep,
    PositionStep, FreezeStep, PTL DEF Spec
=============================================================================

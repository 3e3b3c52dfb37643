-------------------------- MODULE SubmissionProofs --------------------------
(***************************************************************************)
(* Proofs about Submission, for every value of its constants: any number   *)
(* of handlers, teams and challenges, ticks and rounds.                    *)
(***************************************************************************)
EXTENDS Submission, SequenceTheorems, TLAPS

USE DEF clock, tables

\* A handler without a request is a well-formed record.
LEMMA IdleWellFormed == WellFormed(Idle)
<1>1. (CHOOSE t \in Teams : TRUE) \in Teams
  BY SubmissionAssumption
<1>2. <<>> \in Seq(Value)
  OBVIOUS
<1> QED
  BY <1>1, <1>2 DEF Idle, WellFormed, Requests, Steps, FoundSteps

\* The position shown is a pair of naturals.
LEMMA ShownPair == TypeOK => Shown \in Nat \X Nat
<1> SUFFICES ASSUME TypeOK PROVE Shown \in Nat \X Nat
  OBVIOUS
<1>1. tick \in Nat /\ round \in Nat /\ half \in Nat
  BY SubmissionAssumption DEF TypeOK
<1> QED
  BY <1>1 DEF Shown

\* A request goes to its next flag: it ends, or starts over with that flag.
LEMMA NextFlagCases ==
  ASSUME TypeOK, NEW h \in Handlers, req[h].pc # "idle", NextFlag(h)
  PROVE  \E r : /\ req' = [req EXCEPT ![h] = r]
                /\ WellFormed(r)
                /\ r.pc \in {"idle", "tick"}
                /\ r.pc = "tick" => r.shown = {Shown}
                /\ r.epoch = 0
<1> DEFINE rest == Tail(req[h].todo)
           again == [Idle EXCEPT !.pc = "tick", !.team = req[h].team, !.todo = rest,
                                 !.shown = {Shown}]
<1>1. req[h] \in Requests /\ req[h].todo \in Seq(Value) /\ req[h].todo # <<>>
  BY DEF TypeOK, AllWellFormed, WellFormed, Requests
<1>2. rest \in Seq(Value)
  BY <1>1, HeadTailProperties
<1>3. CASE rest = <<>>
  <2>1. req' = [req EXCEPT ![h] = Idle]
    BY <1>3 DEF NextFlag
  <2>2. Idle.pc = "idle" /\ Idle.epoch = 0
    BY DEF Idle
  <2> QED
    BY <2>1, <2>2, IdleWellFormed
<1>4. CASE rest # <<>>
  <2>1. again.pc = "tick" /\ again.shown = {Shown} /\ again.epoch = 0
    BY DEF Idle
  <2>2. {Shown} \in SUBSET (Nat \X Nat)
    BY ShownPair
  <2>3. again \in Requests
    BY <1>1, <1>2, <2>2 DEF Idle, Requests, Steps
  <2>4. again.todo # <<>>
    BY <1>4 DEF Idle
  <2>5. req' = [req EXCEPT ![h] = again]
    BY <1>4 DEF NextFlag
  <2> HIDE DEF again
  <2> QED
    BY <2>1, <2>3, <2>4, <2>5 DEF WellFormed, FoundSteps
<1> QED
  BY <1>3, <1>4

\* Replacing one request by a well-formed one keeps all requests well-formed.
LEMMA UpdateWellFormed ==
  ASSUME TypeOK, NEW h \in Handlers, NEW r, WellFormed(r),
         req' = [req EXCEPT ![h] = r]
  PROVE  AllWellFormed'
BY DEF TypeOK, AllWellFormed, WellFormed

\* A request that takes note of a new position stays well-formed.
LEMMA NotingWellFormed ==
  ASSUME TypeOK, NEW s \in Nat \X Nat, req' = Noting(s)
  PROVE  AllWellFormed'
<1>0. ASSUME NEW g \in Handlers PROVE WellFormed(req[g])
  BY DEF TypeOK, AllWellFormed
<1>1. ASSUME NEW g \in Handlers PROVE WellFormed(req'[g])
  <2>1. CASE req[g].pc = "idle"
    BY <1>0, <2>1 DEF Noting
  <2>2. CASE req[g].pc # "idle"
    <3> DEFINE r == [req[g] EXCEPT !.shown = @ \cup {s}]
    <3>1. req'[g] = r
      BY <2>2 DEF Noting
    <3>2. WellFormed(req[g]) /\ req[g] \in Requests
      BY <1>0 DEF WellFormed
    <3>3. r \in Requests
      BY <3>2 DEF Requests
    <3>4. r.todo = req[g].todo /\ r.pc = req[g].pc
      BY <3>2 DEF Requests
    <3> HIDE DEF r
    <3> QED
      BY <3>1, <3>2, <3>3, <3>4 DEF WellFormed
  <2> QED
    BY <2>1, <2>2
<1>2. req' = [g \in Handlers |-> req'[g]]
  BY DEF Noting
<1>3. \A g \in Handlers : req'[g] \in Requests
  BY <1>1 DEF WellFormed
<1>4. req' \in [Handlers -> Requests]
  BY <1>2, <1>3, Zenon
<1> QED
  BY <1>1, <1>4 DEF AllWellFormed

\* Empty tables and idle handlers have their types.
LEMMA TypeInit == Init => TypeOK
<1> SUFFICES ASSUME Init PROVE TypeOK
  OBVIOUS
<1>1. req \in [Handlers -> Requests]
  BY IdleWellFormed DEF Init, WellFormed
<1>2. AllWellFormed
  BY <1>1, IdleWellFormed DEF Init, AllWellFormed
<1> QED
  BY <1>2, SubmissionAssumption DEF Init, TypeOK

LEMMA TypeStep == TypeOK /\ [Next]_vars => TypeOK'
<1> SUFFICES ASSUME TypeOK, [Next]_vars PROVE TypeOK'
  OBVIOUS
<1> USE SubmissionAssumption
<1>1. CASE AdvanceTick
  <2> DEFINE r == IF round = 0 THEN 1 ELSE IF tick = NumberTick THEN round + 1 ELSE round
             t == IF tick = NumberTick THEN 1 ELSE tick + 1
  <2>1. t \in 1 .. NumberTick /\ r \in 1 .. (NumberRound + 1)
    BY <1>1 DEF AdvanceTick, TypeOK
  <2>2. /\ tick' = t /\ req' = Noting(<<round, t>>)
        /\ half' = IF round = 0 \/ tick = NumberTick THEN r ELSE 0
        /\ reached' = IF half' = 0 THEN reached \cup {<<r, t>>} ELSE reached
        /\ UNCHANGED <<round, tables, requests>>
    BY <1>1 DEF AdvanceTick
  <2>3. half' = 0 => r \in 1 .. NumberRound
    BY <1>1, <2>2 DEF AdvanceTick, TypeOK
  <2> HIDE DEF r, t
  <2>4. /\ reached' \subseteq (1 .. NumberRound) \X (0 .. NumberTick)
        /\ half' \in 0 .. (NumberRound + 1)
        /\ tick' \in 0 .. NumberTick
    BY <2>1, <2>2, <2>3 DEF TypeOK
  <2>5. <<round, t>> \in Nat \X Nat /\ <<r, t>> \in Nat \X Nat
    BY <2>1 DEF TypeOK
  <2>6. AllWellFormed'
    BY <2>2, <2>5, NotingWellFormed
  <2> QED
    BY <2>2, <2>4, <2>6, Zenon DEF TypeOK
<1>2. CASE AdvanceRound
  <2>1. <<half, tick>> \in Nat \X Nat
    BY DEF TypeOK
  <2>2. AllWellFormed'
    BY <1>2, <2>1, NotingWellFormed DEF AdvanceRound
  <2>3. /\ reached' \subseteq (1 .. NumberRound) \X (0 .. NumberTick)
        /\ half' \in 0 .. (NumberRound + 1)
        /\ round' \in 0 .. (NumberRound + 1)
    BY <1>2 DEF AdvanceRound, TypeOK
  <2> QED
    BY <1>2, <2>2, <2>3, Zenon DEF AdvanceRound, TypeOK
<1>3. CASE StoreFlags
  <2>1. AllWellFormed'
    BY <1>3 DEF StoreFlags, AllWellFormed, TypeOK
  <2>2. stored' \subseteq Flag
    BY <1>3 DEF StoreFlags, TypeOK
  <2>3. UNCHANGED <<clock, correct, wrong, solves, epoch, requests>>
    BY <1>3 DEF StoreFlags
  <2> QED
    BY <2>1, <2>2, <2>3, Zenon DEF TypeOK
<1>4. CASE Reset
  <2>1. <<0, 0>> \in Nat \X Nat
    OBVIOUS
  <2>2. AllWellFormed'
    BY <1>4, <2>1, NotingWellFormed DEF Reset
  <2> QED
    <3>1. /\ tick' \in 0 .. NumberTick /\ round' \in 0 .. (NumberRound + 1)
          /\ epoch' \in Nat
      BY <1>4 DEF Reset, TypeOK
    <3>2. correct' \in [Teams \X Flag -> Nat]
      BY <1>4 DEF Reset
    <3>3. stored' \subseteq Flag /\ wrong' \subseteq Teams \X Value /\ solves' \subseteq Teams \X Challs
      BY <1>4 DEF Reset
    <3> QED
      BY <1>4, <2>2, <3>1, <3>2, <3>3, Zenon DEF Reset, TypeOK
<1>5. CASE \E h \in Handlers : Begin(h) \/ SubmitFlag(h)
  <2> SUFFICES ASSUME NEW h \in Handlers, Begin(h) \/ SubmitFlag(h)
               PROVE  TypeOK'
    BY <1>5
  <2>1. CASE Begin(h)
    <3>1. PICK team \in Teams, values \in BoundedSeq(stored \cup {Junk}, MaxBulk) \ {<<>>} :
            req' = [req EXCEPT ![h] =
                      [Idle EXCEPT !.pc = "tick", !.team = team, !.todo = values,
                                   !.shown = {Shown}]]
      BY <2>1 DEF Begin
    <3>2. values \in Seq(Value)
      BY DEF BoundedSeq, SeqOf, TypeOK, Value
    <3> DEFINE r == [Idle EXCEPT !.pc = "tick", !.team = team, !.todo = values,
                                 !.shown = {Shown}]
    <3>3. r \in Requests
      BY <3>2, ShownPair, IdleWellFormed DEF WellFormed, Idle, Requests, Steps
    <3>4. r.todo # <<>>
      BY DEF Idle
    <3> HIDE DEF r
    <3>6. r.pc = "tick"
      BY DEF r, Idle
    <3>7. WellFormed(r)
      BY <3>3, <3>4, <3>6 DEF WellFormed, FoundSteps
    <3>8. requests' \in Nat
      <4>1. requests \in Nat /\ requests' = requests + 1
        BY <2>1, Zenon DEF Begin, TypeOK
      <4> QED
        BY <4>1
    <3>5. AllWellFormed'
      BY <3>1, <3>7, UpdateWellFormed DEF r
    <3> QED
      BY <2>1, <3>5, <3>8, Zenon DEF Begin, TypeOK
  <2>2. CASE SubmitFlag(h)
    <3>0. tick \in Nat /\ round \in Nat /\ epoch \in Nat
      BY DEF TypeOK
    <3>1. /\ req[h] \in Requests /\ req[h].pc # "idle" /\ req[h].todo # <<>>
          /\ req[h].pc \in FoundSteps => Head(req[h].todo) \in Flag
      BY <2>2 DEF AllWellFormed, WellFormed, TypeOK, SubmitFlag, ReadTick, ReadRound, Find, FindDuplicate,
                  FindSolve, Commit
    <3>2. req[h].team \in Teams /\ Value1(h) \in Value
      BY <3>1, HeadTailProperties DEF Requests, Value1
    <3>3. ASSUME NEW r, WellFormed(r), req' = [req EXCEPT ![h] = r] PROVE AllWellFormed'
      BY <3>3, UpdateWellFormed
    <3>4. ASSUME NextFlag(h) PROVE AllWellFormed'
      BY <3>1, <3>3, <3>4, NextFlagCases
    <3>5. CASE ReadTick(h)
      <4> DEFINE r == [req[h] EXCEPT !.pc = "round", !.tick = tick]
      <4>1. WellFormed(r)
        BY <3>0, <3>1 DEF WellFormed, Requests, Steps, FoundSteps
      <4>2. req' = [req EXCEPT ![h] = r]
        BY <3>5 DEF ReadTick
      <4>3. AllWellFormed'
        BY <3>3, <4>1, <4>2
      <4> QED
        BY <3>5, <4>3, Zenon DEF ReadTick, TypeOK
    <3>6. CASE ReadRound(h)
      <4> DEFINE r == [req[h] EXCEPT !.pc = "find", !.round = round]
      <4>1. WellFormed(r)
        BY <3>0, <3>1 DEF WellFormed, Requests, Steps, FoundSteps
      <4>2. req' = [req EXCEPT ![h] = r]
        BY <3>6 DEF ReadRound
      <4>3. AllWellFormed'
        BY <3>3, <4>1, <4>2
      <4> QED
        BY <3>6, <4>3, Zenon DEF ReadRound, TypeOK
    <3>7. CASE Find(h)
      <4>1. CASE Found(h)
        <5> DEFINE r == [req[h] EXCEPT !.pc = "dup", !.epoch = epoch]
        <5>1. WellFormed(r)
          <6>1. Head(req[h].todo) \in Flag
            BY <4>1 DEF Found, Value1, TypeOK
          <6> QED
            BY <3>0, <3>1, <6>1 DEF WellFormed, Requests, Steps, FoundSteps
        <5>2. req' = [req EXCEPT ![h] = r] /\ UNCHANGED wrong
          BY <3>7, <4>1 DEF Find
        <5>3. AllWellFormed'
          BY <3>3, <5>1, <5>2
        <5> QED
          BY <3>7, <5>2, <5>3, Zenon DEF Find, TypeOK
      <4>2. CASE ~Found(h)
        <5>1. AllWellFormed' /\ wrong' \subseteq Teams \X Value
          BY <3>2, <3>4, <3>7, <4>2 DEF Find, TypeOK
        <5> QED
          BY <3>7, <5>1, Zenon DEF Find, TypeOK
      <4> QED
        BY <4>1, <4>2
    <3>8. CASE FindDuplicate(h)
      <4>1. WellFormed([req[h] EXCEPT !.pc = "solve"])
        BY <3>1, <3>8 DEF FindDuplicate, WellFormed, Requests, Steps, FoundSteps
      <4>2. AllWellFormed'
        <5>1. CASE Already(h)
          BY <3>4, <3>8, <5>1 DEF FindDuplicate
        <5>2. CASE ~Already(h)
          <6>1. req' = [req EXCEPT ![h] = [req[h] EXCEPT !.pc = "solve"]]
            BY <3>8, <5>2 DEF FindDuplicate
          <6> QED
            BY <3>3, <4>1, <6>1
        <5> QED
          BY <5>1, <5>2
      <4> QED
        BY <3>8, <4>2, Zenon DEF FindDuplicate, TypeOK
    <3>9. CASE FindSolve(h)
      <4> DEFINE add == <<req[h].team, Value1(h).chall>> \notin solves /\ Unlocks(h)
                 r == [req[h] EXCEPT !.pc = "commit", !.addSolve = add]
      <4>1. add \in BOOLEAN
        OBVIOUS
      <4>2. req' = [req EXCEPT ![h] = r]
        BY <3>9 DEF FindSolve
      <4> HIDE DEF add
      <4>3. WellFormed(r)
        BY <3>1, <3>9, <4>1 DEF FindSolve, WellFormed, Requests, Steps, FoundSteps
      <4>4. AllWellFormed'
        BY <3>3, <4>2, <4>3
      <4> QED
        BY <3>9, <4>4, Zenon DEF FindSolve, TypeOK
    <3>10. CASE Commit(h)
      <4>1. AllWellFormed'
        BY <3>3, <3>4, <3>10, IdleWellFormed DEF Commit
      <4>2. Value1(h) \in Flag /\ Value1(h).chall \in Challs
        BY <3>1, <3>10 DEF Commit, FoundSteps, Value1, Flag
      <4>3. correct' \in [Teams \X Flag -> Nat] /\ solves' \subseteq Teams \X Challs
        BY <3>2, <3>10, <4>2 DEF Commit, TypeOK
      <4> QED
        BY <3>10, <4>1, <4>3, Zenon DEF Commit, TypeOK
    <3> QED
      BY <2>2, <3>5, <3>6, <3>7, <3>8, <3>9, <3>10 DEF SubmitFlag
  <2> QED
    BY <2>1, <2>2
<1>6. CASE UNCHANGED vars
  <2>1. AllWellFormed'
    BY <1>6 DEF vars, AllWellFormed, TypeOK
  <2> QED
    BY <1>6, <2>1, Zenon DEF vars, TypeOK
<1> QED
  BY <1>1, <1>2, <1>3, <1>4, <1>5, <1>6 DEF Next

-----------------------------------------------------------------------------
(* CreditedWhileShown.  A handler reads CURRENT_TICK and CURRENT_ROUND in two  *)
(* statements, so the pair it looks for may be one the contest never was at    *)
(* while it worked.  What saves it is the flag table: a flag of that pair is   *)
(* stored only after the contest reached the pair, and if it reached it before *)
(* the tick was read, the round that is read later is not that pair's round.   *)

\* Where flags may be, and what the rows show after a reset.
Handed ==
  /\ epoch > 0 => round = 0 /\ half = 0
  /\ half # 0 => round <= half
  /\ epoch = 0 => \A p \in reached : p[1] <= round
  /\ \A f \in stored : Position(f) \in reached

\* What a request has noted of the pair it holds at each of its steps.
WatchesShown(r) == r.pc # "idle" => Shown \in r.shown

WatchesTick(r) ==
  r.pc = "round" /\ epoch = 0 =>
    \E r0 \in 0 .. round : /\ <<r0, r.tick>> \in r.shown
                           /\ \A p \in reached : p[1] > r0 => p \in r.shown

WatchesPair(r) ==
  r.pc = "find" /\ <<r.round, r.tick>> \in reached => <<r.round, r.tick>> \in r.shown

WatchesFlag(r) == r.pc \in FoundSteps => Position(Head(r.todo)) \in r.shown

Watching(r) == WatchesShown(r) /\ WatchesTick(r) /\ WatchesPair(r) /\ WatchesFlag(r)

ShownInv == Handed /\ \A h \in Handlers : Watching(req[h])

\* A handler that gives one request a new value leaves the others' notes valid.
LEMMA OneWatches ==
  ASSUME TypeOK, ShownInv, NEW h \in Handlers, NEW r, Watching(r),
         req' = [req EXCEPT ![h] = r], UNCHANGED <<clock, epoch>>
  PROVE  (\A g \in Handlers : Watching(req[g]))'
<1> SUFFICES ASSUME NEW g \in Handlers PROVE Watching(req[g])'
  OBVIOUS
<1>1. Watching(req'[g])
  BY DEF ShownInv, TypeOK, AllWellFormed
<1> QED
  BY <1>1 DEF Watching, WatchesShown, WatchesTick, WatchesPair, WatchesFlag, Shown

\* So does a step of the rest of the system of which every request takes note.
LEMMA AllWatch ==
  ASSUME TypeOK, ShownInv, NEW s \in Nat \X Nat, req' = Noting(s),
         Shown' = s, reached' \subseteq reached \cup {s}, round' \in Nat,
         epoch' = 0 => epoch = 0 /\ round <= round'
  PROVE  (\A g \in Handlers : Watching(req[g]))'
<1> SUFFICES ASSUME NEW g \in Handlers PROVE Watching(req[g])'
  OBVIOUS
<1> DEFINE r == req[g]
<1>1. r \in Requests /\ Watching(r) /\ round \in Nat
  BY DEF ShownInv, TypeOK, AllWellFormed
<1>2. CASE r.pc = "idle"
  <2>1. req'[g] = r
    BY <1>2 DEF Noting
  <2> QED
    BY <1>2, <2>1 DEF Watching, WatchesShown, WatchesTick, WatchesPair, WatchesFlag,
                      FoundSteps
<1>3. CASE r.pc # "idle"
  <2>1. /\ req'[g].pc = r.pc /\ req'[g].todo = r.todo
        /\ req'[g].tick = r.tick /\ req'[g].round = r.round
        /\ req'[g].shown = r.shown \cup {s}
    BY <1>1, <1>3 DEF Noting, Requests
  <2>2. WatchesShown(req[g])'
    BY <2>1 DEF WatchesShown
  <2>3. WatchesPair(req[g])'
    BY <1>1, <2>1 DEF Watching, WatchesPair
  <2>4. WatchesFlag(req[g])'
    BY <1>1, <2>1 DEF Watching, WatchesFlag
  <2>5. WatchesTick(req[g])'
    <3> SUFFICES ASSUME r.pc = "round", epoch' = 0
                 PROVE  \E r0 \in 0 .. round' :
                          /\ <<r0, r.tick>> \in req'[g].shown
                          /\ \A p \in reached' : p[1] > r0 => p \in req'[g].shown
      BY <2>1 DEF WatchesTick
    <3>1. PICK r0 \in 0 .. round : /\ <<r0, r.tick>> \in r.shown
                                   /\ \A p \in reached : p[1] > r0 => p \in r.shown
      BY <1>1 DEF Watching, WatchesTick
    <3>2. r0 \in 0 .. round'
      BY <1>1
    <3>3. \A p \in reached' : p[1] > r0 => p \in req'[g].shown
      BY <2>1, <3>1
    <3> QED
      BY <2>1, <3>1, <3>2, <3>3
  <2> QED
    BY <2>2, <2>3, <2>4, <2>5 DEF Watching
<1> QED
  BY <1>2, <1>3

\* No request has read anything yet.
LEMMA ShownInit == Init => ShownInv
<1> SUFFICES ASSUME Init PROVE ShownInv
  OBVIOUS
<1>1. Handed
  BY DEF Init, Handed
<1>2. \A h \in Handlers : req[h].pc = "idle"
  BY DEF Init, Idle
<1> QED
  BY <1>1, <1>2 DEF ShownInv, Watching, WatchesShown, WatchesTick, WatchesPair,
                    WatchesFlag, FoundSteps

\* No step of a handler, the clock, the rotators or a reset breaks the notes of ShownInv.
LEMMA ShownStep == TypeOK /\ ShownInv /\ [Next]_vars => ShownInv'
<1> SUFFICES ASSUME TypeOK, ShownInv, [Next]_vars PROVE ShownInv'
  OBVIOUS
<1> USE SubmissionAssumption
<1>0. /\ tick \in Nat /\ round \in Nat /\ half \in Nat /\ epoch \in Nat
      /\ reached \subseteq Nat \X Nat
      /\ Handed
  BY DEF TypeOK, ShownInv
<1>1. CASE AdvanceTick
  <2> DEFINE r == IF round = 0 THEN 1 ELSE IF tick = NumberTick THEN round + 1 ELSE round
             t == IF tick = NumberTick THEN 1 ELSE tick + 1
  <2>1. /\ tick' = t /\ req' = Noting(<<round, t>>) /\ half = 0 /\ epoch = 0
        /\ half' = IF round = 0 \/ tick = NumberTick THEN r ELSE 0
        /\ reached' = IF half' = 0 THEN reached \cup {<<r, t>>} ELSE reached
        /\ round' = round /\ stored' = stored /\ epoch' = epoch
    BY <1>1 DEF AdvanceTick
  <2>2. r \in Nat /\ t \in Nat /\ round <= r /\ (half' = 0 => r = round)
    BY <1>0, <2>1
  <2> HIDE DEF r, t
  <2>3. reached' \subseteq reached \cup {<<round, t>>}
    BY <2>1, <2>2
  <2>4. (\A h \in Handlers : Watching(req[h]))'
    <3>1. Shown' = <<round, t>> /\ <<round, t>> \in Nat \X Nat
      BY <1>0, <2>1, <2>2 DEF Shown
    <3> QED
      BY <1>0, <2>1, <2>3, <3>1, AllWatch
  <2>5. Handed'
    <3>1. \A p \in reached' : p[1] <= round'
      BY <1>0, <2>1, <2>3 DEF Handed
    <3>2. \A f \in stored' : Position(f) \in reached'
      BY <1>0, <2>1 DEF Handed
    <3> QED
      BY <1>0, <2>1, <2>2, <3>1, <3>2 DEF Handed
  <2> QED
    BY <2>4, <2>5 DEF ShownInv
<1>2. CASE AdvanceRound
  <2>1. /\ half # 0 /\ round' = half /\ half' = 0 /\ tick' = tick
        /\ reached \subseteq reached'
        /\ reached' \subseteq reached \cup {<<half, tick>>}
        /\ req' = Noting(<<half, tick>>)
        /\ stored' = stored /\ epoch' = epoch
    BY <1>2 DEF AdvanceRound
  <2>2. epoch = 0 /\ round <= half
    BY <1>0, <2>1 DEF Handed
  <2>3. (\A h \in Handlers : Watching(req[h]))'
    <3>1. Shown' = <<half, tick>> /\ <<half, tick>> \in Nat \X Nat
      BY <1>0, <2>1 DEF Shown
    <3> QED
      BY <1>0, <2>1, <2>2, <3>1, AllWatch
  <2>4. Handed'
    <3>1. \A p \in reached' : p[1] <= round'
      <4>1. \A p \in reached : p[1] \in Nat /\ p[1] <= round
        BY <1>0, <2>2 DEF Handed
      <4> QED
        BY <1>0, <2>1, <2>2, <4>1
    <3>2. \A f \in stored' : Position(f) \in reached'
      BY <1>0, <2>1 DEF Handed
    <3> QED
      BY <1>0, <2>1, <2>2, <3>1, <3>2 DEF Handed
  <2> QED
    BY <2>3, <2>4 DEF ShownInv
<1>3. CASE StoreFlags
  <2>1. Handed'
    BY <1>0, <1>3 DEF StoreFlags, Handed
  <2> QED
    BY <1>3, <2>1 DEF StoreFlags, ShownInv, Watching, WatchesShown, WatchesTick,
                      WatchesPair, WatchesFlag, Shown
<1>4. CASE Reset
  <2>1. /\ round' = 0 /\ half' = 0 /\ tick' = 0 /\ epoch' = epoch + 1
        /\ stored' = {} /\ reached' = reached /\ req' = Noting(<<0, 0>>)
    BY <1>4 DEF Reset
  <2>2. Handed'
    BY <1>0, <2>1 DEF Handed
  <2>3. Shown' = <<0, 0>> /\ <<0, 0>> \in Nat \X Nat
    BY <2>1 DEF Shown
  <2>4. (\A h \in Handlers : Watching(req[h]))'
    BY <1>0, <2>1, <2>3, AllWatch
  <2> QED
    BY <2>2, <2>4 DEF ShownInv
<1>5. CASE \E h \in Handlers : Begin(h) \/ SubmitFlag(h)
  <2> SUFFICES ASSUME NEW h \in Handlers, Begin(h) \/ SubmitFlag(h) PROVE ShownInv'
    BY <1>5
  <2>1. UNCHANGED <<clock, epoch, stored>>
    BY DEF Begin, SubmitFlag, ReadTick, ReadRound, Find, FindDuplicate, FindSolve,
           Commit, NextFlag
  <2>2. Handed'
    BY <1>0, <2>1 DEF Handed
  <2>3. ASSUME NEW r, Watching(r), req' = [req EXCEPT ![h] = r] PROVE ShownInv'
    BY <2>1, <2>2, <2>3, OneWatches DEF ShownInv
  <2>4. ASSUME NEW r, r.pc = "idle" \/ (r.pc = "tick" /\ r.shown = {Shown})
        PROVE  Watching(r)
    BY <2>4 DEF Watching, WatchesShown, WatchesTick, WatchesPair, WatchesFlag, FoundSteps
  <2>5. req[h] \in Requests /\ Watching(req[h])
    BY DEF ShownInv, TypeOK, AllWellFormed
  <2>6. ASSUME NextFlag(h), req[h].pc # "idle" PROVE ShownInv'
    BY <2>3, <2>4, <2>6, NextFlagCases
  <2>7. CASE Begin(h)
    <3>1. PICK team, values :
            req' = [req EXCEPT ![h] =
                      [Idle EXCEPT !.pc = "tick", !.team = team, !.todo = values,
                                   !.shown = {Shown}]]
      BY <2>7 DEF Begin
    <3> DEFINE r == [Idle EXCEPT !.pc = "tick", !.team = team, !.todo = values,
                                 !.shown = {Shown}]
    <3>2. r.pc = "tick" /\ r.shown = {Shown}
      BY DEF Idle
    <3>3. Watching(r)
      BY <2>4, <3>2
    <3> HIDE DEF r
    <3> QED
      BY <2>3, <3>1, <3>3 DEF r
  <2>8. CASE ReadTick(h)
    <3> DEFINE r == [req[h] EXCEPT !.pc = "round", !.tick = tick]
    <3>1. r.pc = "round" /\ r.tick = tick /\ r.shown = req[h].shown
      BY <2>5 DEF Requests
    <3>2. <<round, tick>> \in r.shown
      BY <2>5, <2>8, <3>1 DEF ReadTick, Watching, WatchesShown, Shown
    <3>3. epoch = 0 => \A p \in reached : ~(p[1] > round)
      BY <1>0 DEF Handed
    <3>4. req' = [req EXCEPT ![h] = r]
      BY <2>8 DEF ReadTick
    <3> HIDE DEF r
    <3>5. WatchesTick(r)
      BY <1>0, <3>1, <3>2, <3>3 DEF WatchesTick
    <3>6. Watching(r)
      BY <3>1, <3>2, <3>5 DEF Watching, WatchesShown, WatchesPair, WatchesFlag,
                              FoundSteps, Shown
    <3> QED
      BY <2>3, <3>4, <3>6
  <2>9. CASE ReadRound(h)
    <3> DEFINE r == [req[h] EXCEPT !.pc = "find", !.round = round]
    <3>1. /\ r.pc = "find" /\ r.tick = req[h].tick /\ r.round = round
          /\ r.shown = req[h].shown
      BY <2>5 DEF Requests
    <3>2. req[h].pc = "round" /\ req' = [req EXCEPT ![h] = r]
      BY <2>9 DEF ReadRound
    <3> HIDE DEF r
    <3>3. WatchesPair(r)
      <4> SUFFICES ASSUME <<round, r.tick>> \in reached
                   PROVE  <<round, r.tick>> \in r.shown
        BY <3>1 DEF WatchesPair
      <4>1. CASE epoch = 0
        <5>1. PICK r0 \in 0 .. round :
                /\ <<r0, req[h].tick>> \in req[h].shown
                /\ \A p \in reached : p[1] > r0 => p \in req[h].shown
          BY <2>5, <3>2, <4>1 DEF Watching, WatchesTick
        <5>2. CASE r0 = round
          BY <3>1, <5>1, <5>2
        <5>3. CASE r0 # round
          BY <1>0, <3>1, <5>1, <5>3
        <5> QED
          BY <5>2, <5>3
      <4>2. CASE epoch # 0
        <5>1. round = 0
          BY <1>0, <4>2 DEF Handed
        <5> QED
          BY <5>1 DEF TypeOK
      <4> QED
        BY <4>1, <4>2
    <3>4. Watching(r)
      BY <2>5, <3>1, <3>2, <3>3 DEF Watching, WatchesShown, WatchesTick, WatchesFlag,
                                    FoundSteps
    <3> QED
      BY <2>3, <3>2, <3>4
  <2>10. CASE Find(h)
    <3>1. CASE Found(h)
      <4> DEFINE r == [req[h] EXCEPT !.pc = "dup", !.epoch = epoch]
      <4>1. r.pc = "dup" /\ r.todo = req[h].todo /\ r.shown = req[h].shown
        BY <2>5 DEF Requests
      <4>2. req[h].pc = "find" /\ req' = [req EXCEPT ![h] = r]
        BY <2>10, <3>1 DEF Find
      <4> HIDE DEF r
      <4>3. /\ Position(Head(req[h].todo)) = <<req[h].round, req[h].tick>>
            /\ <<req[h].round, req[h].tick>> \in reached
        BY <1>0, <3>1 DEF Found, Value1, Handed
      <4>4. Position(Head(r.todo)) \in r.shown
        BY <2>5, <4>1, <4>2, <4>3 DEF Watching, WatchesPair
      <4>5. Watching(r)
        BY <2>5, <4>1, <4>2, <4>4 DEF Watching, WatchesShown, WatchesTick, WatchesPair,
                                      WatchesFlag
      <4> QED
        BY <2>3, <4>2, <4>5
    <3>2. CASE ~Found(h)
      BY <2>6, <2>10, <3>2 DEF Find
    <3> QED
      BY <3>1, <3>2
  <2>11. ASSUME NEW pc \in FoundSteps, NEW add, req[h].pc \in FoundSteps
         PROVE  /\ Watching([req[h] EXCEPT !.pc = pc])
                /\ Watching([req[h] EXCEPT !.pc = pc, !.addSolve = add])
    BY <2>5, <2>11 DEF Requests, Watching, WatchesShown, WatchesTick, WatchesPair,
                       WatchesFlag, FoundSteps
  <2>12. CASE FindDuplicate(h)
    <3>1. CASE Already(h)
      BY <2>6, <2>12, <3>1 DEF FindDuplicate
    <3>2. CASE ~Already(h)
      <4>1. /\ req[h].pc = "dup"
            /\ req' = [req EXCEPT ![h] = [req[h] EXCEPT !.pc = "solve"]]
        BY <2>12, <3>2 DEF FindDuplicate
      <4> QED
        BY <2>3, <2>11, <4>1 DEF FoundSteps
    <3> QED
      BY <3>1, <3>2
  <2>13. CASE FindSolve(h)
    <3> DEFINE add == <<req[h].team, Value1(h).chall>> \notin solves /\ Unlocks(h)
    <3>1. /\ req[h].pc = "solve"
          /\ req' = [req EXCEPT ![h] = [req[h] EXCEPT !.pc = "commit", !.addSolve = add]]
      BY <2>13 DEF FindSolve
    <3> DEFINE r == [req[h] EXCEPT !.pc = "commit", !.addSolve = add]
    <3> HIDE DEF add
    <3>2. "commit" \in FoundSteps /\ req[h].pc \in FoundSteps
      BY <3>1 DEF FoundSteps
    <3>3. Watching(r)
      BY <2>11, <3>2
    <3> HIDE DEF r
    <3> QED
      BY <2>3, <3>1, <3>3 DEF r
  <2>14. CASE Commit(h)
    BY <2>3, <2>4, <2>6, <2>14 DEF Commit, Idle
  <2> QED
    BY <2>7, <2>8, <2>9, <2>10, <2>12, <2>13, <2>14 DEF SubmitFlag
<1>6. CASE UNCHANGED vars
  BY <1>6 DEF vars, ShownInv, Handed, Watching, WatchesShown, WatchesTick, WatchesPair,
              WatchesFlag, Shown
<1> QED
  BY <1>1, <1>2, <1>3, <1>4, <1>5, <1>6 DEF Next

\* A credited flag was found by the request that commits it.
LEMMA CreditStep ==
  TypeOK /\ ShownInv /\ [Next]_vars =>
    \A f \in Flag : Credited(f) =>
      \E h \in Handlers : /\ req[h].pc = "commit" /\ Value1(h) = f
                          /\ Position(f) \in req[h].shown
<1> SUFFICES ASSUME TypeOK, ShownInv, [Next]_vars, NEW f \in Flag, Credited(f)
             PROVE  \E h \in Handlers : /\ req[h].pc = "commit" /\ Value1(h) = f
                                        /\ Position(f) \in req[h].shown
  OBVIOUS
<1>1. PICK t \in Teams : correct'[<<t, f>>] > correct[<<t, f>>]
  BY DEF Credited
<1>2. correct[<<t, f>>] \in Nat
  BY DEF TypeOK
<1>3. correct' # correct
  BY <1>1, <1>2
<1>4. ~Reset
  BY <1>1, <1>2 DEF Reset
<1>5. PICK h \in Handlers : Commit(h)
  BY <1>3, <1>4 DEF Next, vars, AdvanceTick, AdvanceRound, StoreFlags, Begin, SubmitFlag,
                    ReadTick, ReadRound, Find, FindDuplicate, FindSolve
<1>6. correct' = [correct EXCEPT ![<<req[h].team, Value1(h)>>] = @ + 1]
  BY <1>3, <1>5 DEF Commit
<1>7. Value1(h) = f
  BY <1>1, <1>2, <1>6 DEF TypeOK
<1>8. req[h].pc = "commit"
  BY <1>5 DEF Commit
<1>9. WatchesFlag(req[h])
  BY DEF ShownInv, Watching
<1> QED
  BY <1>7, <1>8, <1>9 DEF WatchesFlag, FoundSteps, Value1

\* Requests, submissions and solves keep their types in every interleaving of the
\* handlers of submit.py with the clock, the rotators and a reset.
THEOREM TypeCorrect == Spec => []TypeOK
<1>1. TypeOK /\ [Next]_vars => TypeOK'
  BY TypeStep
<1> QED
  BY <1>1, TypeInit, PTL DEF Spec

\* submit_flag never credits a flag of a position that the two rows did not show
\* while the request was being served, however the reads of CURRENT_TICK and
\* CURRENT_ROUND interleave with the keeper: not even a pair read on either side
\* of a change of round matches a flag of another position.
THEOREM OnlyShownFlagsCredited == Spec => CreditedWhileShown
<1>1. Init => TypeOK /\ ShownInv
  BY TypeInit, ShownInit
<1>2. TypeOK /\ ShownInv /\ [Next]_vars => (TypeOK /\ ShownInv)'
  BY TypeStep, ShownStep
<1>3. TypeOK /\ ShownInv /\ [Next]_vars =>
        [\A f \in Flag : Credited(f) =>
           \E h \in Handlers : /\ req[h].pc = "commit" /\ Value1(h) = f
                               /\ Position(f) \in req[h].shown]_vars
  BY CreditStep
<1> QED
  BY <1>1, <1>2, <1>3, PTL DEF Spec, CreditedWhileShown

-----------------------------------------------------------------------------
(* CreditUnlocks and UnlockEarned.                                           *)

\* A request about to commit without a solve has one already, unless its flag is
\* gone; one about to commit a solve has earned it.
Earning(r) ==
  /\ r.epoch <= epoch
  /\ r.pc = "commit" =>
       LET f == Head(r.todo) earns == SolveFirst => f.team = r.team IN
         /\ r.addSolve => earns
         /\ r.epoch = epoch /\ earns /\ ~r.addSolve => <<r.team, f.chall>> \in solves

SolveInv ==
  /\ CreditUnlocks
  /\ UnlockEarned
  /\ \A h \in Handlers : Earning(req[h])

\* There is nothing credited and nothing solved.
LEMMA SolveInit == Init => SolveInv
<1> SUFFICES ASSUME Init PROVE SolveInv
  OBVIOUS
<1>1. CreditUnlocks /\ UnlockEarned
  BY DEF Init, CreditUnlocks, UnlockEarned
<1>2. \A h \in Handlers : req[h].pc = "idle" /\ req[h].epoch = 0 /\ epoch = 0
  BY DEF Init, Idle
<1> QED
  BY <1>1, <1>2 DEF SolveInv, Earning

\* The clock does not change what a request has earned.
LEMMA NotingEarns ==
  ASSUME TypeOK, SolveInv, NEW s, req' = Noting(s), UNCHANGED tables
  PROVE  SolveInv'
<1>1. CreditUnlocks' /\ UnlockEarned'
  BY DEF SolveInv, CreditUnlocks, UnlockEarned
<1>2. ASSUME NEW h \in Handlers PROVE Earning(req[h])'
  <2>1. req[h] \in Requests /\ Earning(req[h])
    BY DEF TypeOK, AllWellFormed, SolveInv
  <2>2. /\ req'[h].pc = req[h].pc /\ req'[h].todo = req[h].todo
        /\ req'[h].team = req[h].team /\ req'[h].epoch = req[h].epoch
        /\ req'[h].addSolve = req[h].addSolve
    BY <2>1 DEF Noting, Requests
  <2> QED
    BY <2>1, <2>2 DEF Earning
<1> QED
  BY <1>1, <1>2 DEF SolveInv

\* No step breaks the link between submissions, solves and what a request is about to commit.
LEMMA SolveStep == TypeOK /\ SolveInv /\ [Next]_vars => SolveInv'
<1> SUFFICES ASSUME TypeOK, SolveInv, [Next]_vars PROVE SolveInv'
  OBVIOUS
<1>1. CASE AdvanceTick
  BY <1>1, NotingEarns DEF AdvanceTick
<1>2. CASE AdvanceRound
  BY <1>2, NotingEarns DEF AdvanceRound
<1>3. CASE StoreFlags
  BY <1>3 DEF StoreFlags, SolveInv, CreditUnlocks, UnlockEarned, Earning
<1>4. CASE Reset
  <2>1. /\ solves' = {} /\ epoch' = epoch + 1 /\ req' = Noting(<<0, 0>>)
        /\ \A s \in Teams \X Flag : correct'[s] = 0
    BY <1>4 DEF Reset
  <2>2. CreditUnlocks' /\ UnlockEarned'
    BY <2>1 DEF CreditUnlocks, UnlockEarned
  <2>3. ASSUME NEW h \in Handlers PROVE Earning(req[h])'
    <3>1. req[h] \in Requests /\ Earning(req[h]) /\ epoch \in Nat
      BY DEF TypeOK, AllWellFormed, SolveInv
    <3>2. /\ req'[h].pc = req[h].pc /\ req'[h].todo = req[h].todo
          /\ req'[h].team = req[h].team /\ req'[h].epoch = req[h].epoch
          /\ req'[h].addSolve = req[h].addSolve
      BY <2>1, <3>1 DEF Noting, Requests
    <3>3. req[h].epoch <= epoch /\ req[h].epoch \in Nat
      BY <3>1 DEF Earning, Requests
    <3>4. req'[h].epoch <= epoch' /\ req'[h].epoch # epoch'
      BY <2>1, <3>1, <3>2, <3>3
    <3> QED
      BY <3>1, <3>2, <3>4 DEF Earning
  <2> QED
    BY <2>2, <2>3 DEF SolveInv
<1>5. CASE \E h \in Handlers : Begin(h) \/ SubmitFlag(h)
  <2> SUFFICES ASSUME NEW h \in Handlers, Begin(h) \/ SubmitFlag(h) PROVE SolveInv'
    BY <1>5
  <2>1. UNCHANGED epoch /\ epoch \in Nat
    BY DEF TypeOK, Begin, SubmitFlag, ReadTick, ReadRound, Find, FindDuplicate, FindSolve,
           Commit
  <2>2. req[h] \in Requests /\ Earning(req[h]) /\ req \in [Handlers -> Requests]
    BY DEF TypeOK, AllWellFormed, SolveInv
  <2>3. ASSUME NEW r, Earning(r), req' = [req EXCEPT ![h] = r], solves \subseteq solves'
        PROVE  (\A g \in Handlers : Earning(req[g]))'
    <3> SUFFICES ASSUME NEW g \in Handlers PROVE Earning(req[g])'
      OBVIOUS
    <3>1. Earning(req'[g])
      BY <2>2, <2>3 DEF SolveInv
    <3> QED
      BY <2>1, <2>3, <3>1 DEF Earning
  <2>4. ASSUME NEW r, Earning(r), req' = [req EXCEPT ![h] = r],
               UNCHANGED <<solves, correct>>
        PROVE  SolveInv'
    <3>1. (\A g \in Handlers : Earning(req[g]))'
      BY <2>3, <2>4
    <3> QED
      BY <2>4, <3>1 DEF SolveInv, CreditUnlocks, UnlockEarned
  <2>5. ASSUME NEW r, r.pc \in {"idle", "tick"}, r.epoch = 0 PROVE Earning(r)
    BY <2>1, <2>5 DEF Earning
  <2>6. ASSUME NextFlag(h), req[h].pc # "idle" PROVE \E r : Earning(r) /\ req' = [req EXCEPT ![h] = r]
    BY <2>5, <2>6, NextFlagCases
  <2>7. ASSUME NEW pc \in Steps \ {"commit"}, NEW n
        PROVE  /\ Earning([req[h] EXCEPT !.pc = pc])
               /\ Earning([req[h] EXCEPT !.pc = pc, !.tick = n])
               /\ Earning([req[h] EXCEPT !.pc = pc, !.round = n])
               /\ Earning([req[h] EXCEPT !.pc = pc, !.epoch = epoch])
    BY <2>1, <2>2 DEF Earning, Requests
  <2>8. CASE Begin(h)
    <3>1. PICK team, values :
            req' = [req EXCEPT ![h] =
                      [Idle EXCEPT !.pc = "tick", !.team = team, !.todo = values,
                                   !.shown = {Shown}]]
      BY <2>8 DEF Begin
    <3> DEFINE r == [Idle EXCEPT !.pc = "tick", !.team = team, !.todo = values,
                                 !.shown = {Shown}]
    <3>2. r.pc = "tick" /\ r.epoch = 0
      BY DEF Idle
    <3> HIDE DEF r
    <3>3. Earning(r)
      BY <2>5, <3>2
    <3> QED
      BY <2>4, <2>8, <3>1, <3>3 DEF r, Begin
  <2>9. CASE ReadTick(h)
    <3>1. Earning([req[h] EXCEPT !.pc = "round", !.tick = tick])
      BY <2>7 DEF Steps
    <3>2. req' = [req EXCEPT ![h] = [req[h] EXCEPT !.pc = "round", !.tick = tick]]
      BY <2>9 DEF ReadTick
    <3> QED
      BY <2>4, <2>9, <3>1, <3>2 DEF ReadTick
  <2>10. CASE ReadRound(h)
    <3>1. Earning([req[h] EXCEPT !.pc = "find", !.round = round])
      BY <2>7 DEF Steps
    <3>2. req' = [req EXCEPT ![h] = [req[h] EXCEPT !.pc = "find", !.round = round]]
      BY <2>10 DEF ReadRound
    <3> QED
      BY <2>4, <2>10, <3>1, <3>2 DEF ReadRound
  <2>11. CASE Find(h)
    <3>1. CASE Found(h)
      <4>1. Earning([req[h] EXCEPT !.pc = "dup", !.epoch = epoch])
        BY <2>7 DEF Steps
      <4>2. req' = [req EXCEPT ![h] = [req[h] EXCEPT !.pc = "dup", !.epoch = epoch]]
        BY <2>11, <3>1 DEF Find
      <4> QED
        BY <2>4, <2>11, <4>1, <4>2 DEF Find
    <3>2. CASE ~Found(h)
      BY <2>4, <2>6, <2>11, <3>2 DEF Find
    <3> QED
      BY <3>1, <3>2
  <2>12. CASE FindDuplicate(h)
    <3>1. CASE Already(h)
      BY <2>4, <2>6, <2>12, <3>1 DEF FindDuplicate
    <3>2. CASE ~Already(h)
      <4>1. Earning([req[h] EXCEPT !.pc = "solve"])
        BY <2>7 DEF Steps
      <4>2. req' = [req EXCEPT ![h] = [req[h] EXCEPT !.pc = "solve"]]
        BY <2>12, <3>2 DEF FindDuplicate
      <4> QED
        BY <2>4, <2>12, <4>1, <4>2 DEF FindDuplicate
    <3> QED
      BY <3>1, <3>2
  <2>13. CASE FindSolve(h)
    <3> DEFINE add == <<req[h].team, Value1(h).chall>> \notin solves /\ Unlocks(h)
               r == [req[h] EXCEPT !.pc = "commit", !.addSolve = add]
    <3>1. req' = [req EXCEPT ![h] = r]
      BY <2>13 DEF FindSolve
    <3>2. /\ r.epoch = req[h].epoch /\ r.team = req[h].team /\ r.todo = req[h].todo
          /\ r.addSolve = add
      BY <2>2 DEF Requests
    <3>3. req[h].epoch <= epoch
      BY <2>2 DEF Earning
    <3> HIDE DEF r
    <3>4. Earning(r)
      BY <3>2, <3>3 DEF Earning, Unlocks, Value1
    <3> QED
      BY <2>4, <2>13, <3>1, <3>4 DEF FindSolve
  <2>14. CASE Commit(h)
    <3> DEFINE f == Value1(h)
               t == req[h].team
    <3>1. CASE CommitFails(h)
      <4>1. Earning(Idle)
        BY <2>5 DEF Idle
      <4> QED
        BY <2>4, <2>14, <3>1, <4>1 DEF Commit
    <3>2. CASE ~CommitFails(h)
      <4>1. /\ correct' = [correct EXCEPT ![<<t, f>>] = @ + 1]
            /\ solves' = IF req[h].addSolve THEN solves \cup {<<t, f.chall>>} ELSE solves
            /\ NextFlag(h) /\ req[h].pc = "commit"
        BY <2>14, <3>2 DEF Commit
      <4>2. req[h].epoch = epoch
        BY <3>2 DEF CommitFails
      <4>3. t \in Teams /\ f \in Flag
        BY <2>2, <4>1 DEF Requests, TypeOK, AllWellFormed, WellFormed, FoundSteps, Value1
      <4>4. \A s \in Teams \X Flag :
              /\ correct[s] \in Nat
              /\ correct'[s] = IF s = <<t, f>> THEN correct[s] + 1 ELSE correct[s]
        BY <4>1 DEF TypeOK
      <4>5. (SolveFirst => f.team = t) => <<t, f.chall>> \in solves'
        BY <2>2, <4>1, <4>2 DEF Earning, Value1
      <4>6. req[h].addSolve => (SolveFirst => f.team = t)
        BY <2>2, <4>1 DEF Earning, Value1
      <4>7. (\A g \in Handlers : Earning(req[g]))'
        BY <2>3, <2>6, <4>1
      <4> HIDE DEF f, t
      <4>8. CreditUnlocks'
        <5> SUFFICES ASSUME NEW u \in Teams, NEW g \in Flag,
                            correct'[<<u, g>>] > 0, SolveFirst => g.team = u
                     PROVE  <<u, g.chall>> \in solves'
          BY DEF CreditUnlocks
        <5>1. CASE <<u, g>> = <<t, f>>
          BY <4>5, <5>1
        <5>2. CASE <<u, g>> # <<t, f>>
          <6>1. correct[<<u, g>>] > 0
            BY <4>4, <5>2
          <6>2. <<u, g.chall>> \in solves
            BY <6>1 DEF SolveInv, CreditUnlocks
          <6> QED
            BY <4>1, <6>2
        <5> QED
          BY <5>1, <5>2
      <4>9. UnlockEarned'
        <5> SUFFICES ASSUME NEW s \in solves'
                     PROVE  \E g \in Flag : /\ g.chall = s[2] /\ correct'[<<s[1], g>>] > 0
                                            /\ SolveFirst => g.team = s[1]
          BY DEF UnlockEarned
        <5>1. CASE s \in solves
          <6>1. PICK g \in Flag : /\ g.chall = s[2] /\ correct[<<s[1], g>>] > 0
                                  /\ SolveFirst => g.team = s[1]
            BY <5>1 DEF SolveInv, UnlockEarned
          <6>2. <<s[1], g>> \in Teams \X Flag
            BY <5>1 DEF TypeOK
          <6>3. correct'[<<s[1], g>>] > 0
            BY <4>4, <6>1, <6>2
          <6> QED
            BY <6>1, <6>3
        <5>2. CASE s \notin solves
          <6>1. s = <<t, f.chall>> /\ req[h].addSolve
            BY <4>1, <5>2
          <6>2. correct'[<<t, f>>] > 0
            BY <4>3, <4>4
          <6> QED
            BY <4>3, <4>6, <6>1, <6>2
        <5> QED
          BY <5>1, <5>2
      <4> QED
        BY <4>7, <4>8, <4>9 DEF SolveInv
    <3> QED
      BY <3>1, <3>2
  <2> QED
    BY <2>8, <2>9, <2>10, <2>11, <2>12, <2>13, <2>14 DEF SubmitFlag
<1>6. CASE UNCHANGED vars
  BY <1>6 DEF vars, SolveInv, CreditUnlocks, UnlockEarned, Earning
<1> QED
  BY <1>1, <1>2, <1>3, <1>4, <1>5, <1>6 DEF Next

\* The link holds in every state the program reaches.
LEMMA SolveInvariant == Spec => []SolveInv
<1>1. Init => TypeOK /\ SolveInv
  BY TypeInit, SolveInit
<1>2. TypeOK /\ SolveInv /\ [Next]_vars => (TypeOK /\ SolveInv)'
  BY TypeStep, SolveStep
<1> QED
  BY <1>1, <1>2, PTL DEF Spec

\* Whatever requests for the same flag or the same challenge interleave, and even
\* if the game is reset between their reads and their commit, no team has a
\* correct submission that should have unlocked the challenge and did not.
THEOREM CreditAlwaysUnlocks == Spec => []CreditUnlocks
<1>1. SolveInv => CreditUnlocks
  BY DEF SolveInv
<1> QED
  BY <1>1, SolveInvariant, PTL

\* A challenge is unlocked by a credited flag alone; in the solvefirst mode by one
\* of the team's own service.
THEOREM UnlocksAreEarned == Spec => []UnlockEarned
<1>1. SolveInv => UnlockEarned
  BY DEF SolveInv
<1> QED
  BY <1>1, SolveInvariant, PTL

\* Credits and solves tell the same story.
THEOREM SolvesAlwaysMatch == Spec => []SolvesMatchCredits
<1>1. SolveInv => SolvesMatchCredits
  BY DEF SolveInv, SolvesMatchCredits
<1> QED
  BY <1>1, SolveInvariant, PTL

-----------------------------------------------------------------------------
(* CreditedOnce, when requests are served one at a time.                     *)

OneAtATime == \A g, h \in Handlers : g = h

OnceInv ==
  /\ CreditedOnce
  /\ \A h \in Handlers : req[h].pc \in {"solve", "commit"} =>
                            correct[<<req[h].team, Value1(h)>>] = 0

\* There is nothing credited yet.
LEMMA OnceInit == Init => OnceInv
<1> SUFFICES ASSUME Init PROVE OnceInv
  OBVIOUS
<1>1. CreditedOnce
  BY DEF Init, CreditedOnce
<1>2. \A h \in Handlers : req[h].pc = "idle"
  BY DEF Init, Idle
<1> QED
  BY <1>1, <1>2 DEF OnceInv

\* Taking note of a new position leaves what a request is about to commit as it was.
LEMMA NotingOnce ==
  ASSUME TypeOK, OnceInv, NEW s, req' = Noting(s),
         \/ correct' = correct
         \/ correct' = [c \in Teams \X Flag |-> 0]
  PROVE  OnceInv'
<1>1. CreditedOnce'
  BY DEF OnceInv, CreditedOnce
<1>2. ASSUME NEW h \in Handlers, req'[h].pc \in {"solve", "commit"}
      PROVE  correct'[<<req'[h].team, Value1(h)'>>] = 0
  <2>1. WellFormed(req[h]) /\ req[h] \in Requests
    BY DEF TypeOK, AllWellFormed, WellFormed
  <2>2. /\ req'[h].pc = req[h].pc /\ req'[h].todo = req[h].todo
        /\ req'[h].team = req[h].team
    BY <2>1 DEF Noting, Requests
  <2>3. req[h].team \in Teams /\ Value1(h) \in Flag
    BY <1>2, <2>1, <2>2 DEF WellFormed, Requests, FoundSteps, Value1
  <2> QED
    BY <1>2, <2>2, <2>3 DEF OnceInv, Value1
<1> QED
  BY <1>1, <1>2 DEF OnceInv

\* With one handler, no step credits a flag that is credited already.
LEMMA OnceStep == OneAtATime /\ TypeOK /\ OnceInv /\ [Next]_vars => OnceInv'
<1> SUFFICES ASSUME OneAtATime, TypeOK, OnceInv, [Next]_vars PROVE OnceInv'
  OBVIOUS
<1>1. CASE AdvanceTick
  BY <1>1, NotingOnce DEF AdvanceTick
<1>2. CASE AdvanceRound
  BY <1>2, NotingOnce DEF AdvanceRound
<1>3. CASE StoreFlags
  BY <1>3 DEF StoreFlags, OnceInv, CreditedOnce, Value1
<1>4. CASE Reset
  BY <1>4, NotingOnce DEF Reset
<1>5. CASE \E h \in Handlers : Begin(h) \/ SubmitFlag(h)
  <2> SUFFICES ASSUME NEW h \in Handlers, Begin(h) \/ SubmitFlag(h) PROVE OnceInv'
    BY <1>5
  <2>1. req[h] \in Requests /\ WellFormed(req[h]) /\ req \in [Handlers -> Requests]
    BY DEF TypeOK, AllWellFormed
  <2>2. ASSUME NEW r, req' = [req EXCEPT ![h] = r], CreditedOnce',
               r.pc \notin {"solve", "commit"}
        PROVE  OnceInv'
    BY <2>1, <2>2 DEF OneAtATime, OnceInv
  <2>3. ASSUME NEW r, req' = [req EXCEPT ![h] = r], UNCHANGED correct,
               r.team = req[h].team, r.todo = req[h].todo,
               correct[<<req[h].team, Value1(h)>>] = 0
        PROVE  OnceInv'
    BY <2>1, <2>3 DEF OneAtATime, OnceInv, CreditedOnce, Value1
  <2>4. correct' = correct => CreditedOnce'
    BY DEF OnceInv, CreditedOnce
  <2>5. ASSUME NextFlag(h), req[h].pc # "idle"
        PROVE  \E r : req' = [req EXCEPT ![h] = r] /\ r.pc \notin {"solve", "commit"}
    BY <2>5, NextFlagCases
  <2>6. CASE Begin(h)
    <3>1. PICK team, values :
            req' = [req EXCEPT ![h] =
                      [Idle EXCEPT !.pc = "tick", !.team = team, !.todo = values,
                                   !.shown = {Shown}]]
      BY <2>6 DEF Begin
    <3> DEFINE r == [Idle EXCEPT !.pc = "tick", !.team = team, !.todo = values,
                                 !.shown = {Shown}]
    <3>2. r.pc = "tick"
      BY DEF Idle
    <3> HIDE DEF r
    <3> QED
      BY <2>2, <2>4, <2>6, <3>1, <3>2 DEF r, Begin
  <2>7. CASE ReadTick(h) \/ ReadRound(h)
    <3>1. PICK r : req' = [req EXCEPT ![h] = r] /\ r.pc \in {"round", "find"}
      <4>1. CASE ReadTick(h)
        <5> DEFINE r == [req[h] EXCEPT !.pc = "round", !.tick = tick]
        <5>1. r.pc = "round" /\ req' = [req EXCEPT ![h] = r]
          BY <2>1, <4>1 DEF ReadTick, Requests
        <5> QED
          BY <5>1
      <4>2. CASE ReadRound(h)
        <5> DEFINE r == [req[h] EXCEPT !.pc = "find", !.round = round]
        <5>1. r.pc = "find" /\ req' = [req EXCEPT ![h] = r]
          BY <2>1, <4>2 DEF ReadRound, Requests
        <5> QED
          BY <5>1
      <4> QED
        BY <2>7, <4>1, <4>2
    <3> QED
      BY <2>2, <2>4, <2>7, <3>1 DEF ReadTick, ReadRound
  <2>8. CASE Find(h)
    <3>1. CASE Found(h)
      <4> DEFINE r == [req[h] EXCEPT !.pc = "dup", !.epoch = epoch]
      <4>1. r.pc = "dup" /\ req' = [req EXCEPT ![h] = r]
        BY <2>1, <2>8, <3>1 DEF Find, Requests
      <4> HIDE DEF r
      <4> QED
        BY <2>2, <2>4, <2>8, <4>1 DEF Find
    <3>2. CASE ~Found(h)
      BY <2>2, <2>4, <2>5, <2>8, <3>2 DEF Find
    <3> QED
      BY <3>1, <3>2
  <2>9. CASE FindDuplicate(h)
    <3>1. CASE Already(h)
      BY <2>2, <2>4, <2>5, <2>9, <3>1 DEF FindDuplicate
    <3>2. CASE ~Already(h)
      <4> DEFINE r == [req[h] EXCEPT !.pc = "solve"]
      <4>1. /\ r.team = req[h].team /\ r.todo = req[h].todo
            /\ req' = [req EXCEPT ![h] = r]
        BY <2>1, <2>9, <3>2 DEF FindDuplicate, Requests
      <4>2. correct[<<req[h].team, Value1(h)>>] = 0
        <5>1. req[h].team \in Teams /\ Value1(h) \in Flag
          BY <2>1, <2>9 DEF FindDuplicate, WellFormed, Requests, FoundSteps, Value1
        <5> QED
          BY <3>2, <5>1 DEF Already, TypeOK
      <4> HIDE DEF r
      <4> QED
        BY <2>3, <2>9, <4>1, <4>2 DEF FindDuplicate
    <3> QED
      BY <3>1, <3>2
  <2>10. CASE FindSolve(h)
    <3> DEFINE add == <<req[h].team, Value1(h).chall>> \notin solves /\ Unlocks(h)
               r == [req[h] EXCEPT !.pc = "commit", !.addSolve = add]
    <3>1. /\ r.team = req[h].team /\ r.todo = req[h].todo
          /\ req' = [req EXCEPT ![h] = r]
      BY <2>1, <2>10 DEF FindSolve, Requests
    <3>2. correct[<<req[h].team, Value1(h)>>] = 0
      BY <2>10 DEF FindSolve, OnceInv
    <3> HIDE DEF r
    <3> QED
      BY <2>3, <2>10, <3>1, <3>2 DEF FindSolve
  <2>11. CASE Commit(h)
    <3>1. CASE CommitFails(h)
      <4>1. Idle.pc = "idle"
        BY DEF Idle
      <4> QED
        BY <2>2, <2>4, <2>11, <3>1, <4>1 DEF Commit
    <3>2. CASE ~CommitFails(h)
      <4>1. /\ correct' = [correct EXCEPT ![<<req[h].team, Value1(h)>>] = @ + 1]
            /\ NextFlag(h) /\ req[h].pc = "commit"
        BY <2>11, <3>2 DEF Commit
      <4>2. correct[<<req[h].team, Value1(h)>>] = 0
        BY <4>1 DEF OnceInv
      <4>3. CreditedOnce'
        BY <4>1, <4>2 DEF OnceInv, CreditedOnce, TypeOK
      <4> QED
        BY <2>2, <2>5, <4>1, <4>3
    <3> QED
      BY <3>1, <3>2
  <2> QED
    BY <2>6, <2>7, <2>8, <2>9, <2>10, <2>11 DEF SubmitFlag
<1>6. CASE UNCHANGED vars
  BY <1>6 DEF vars, OnceInv, CreditedOnce, Value1
<1> QED
  BY <1>1, <1>2, <1>3, <1>4, <1>5, <1>6 DEF Next

\* When requests are served one at a time, no team is credited twice with one
\* flag: neither by repeating it in a bulk submission nor after a reset.  (Two
\* requests served at once may both look before either commits.)
THEOREM CreditedOnceOneAtATime == OneAtATime => (Spec => []CreditedOnce)
<1> SUFFICES ASSUME OneAtATime PROVE Spec => []CreditedOnce
  OBVIOUS
<1>1. Init => TypeOK /\ OnceInv
  BY TypeInit, OnceInit
<1>2. TypeOK /\ OnceInv /\ [Next]_vars => (TypeOK /\ OnceInv)'
  BY TypeStep, OnceStep
<1>3. OnceInv => CreditedOnce
  BY DEF OnceInv
<1> QED
  BY <1>1, <1>2, <1>3, PTL DEF Spec

=============================================================================

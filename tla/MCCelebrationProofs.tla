------------------------- MODULE MCCelebrationProofs -------------------------
(***************************************************************************)
(* Proofs about PushBudget, and about ReactionBudget and NetWorth as       *)
(* MCCelebration instantiates them: for any number of fan-outs, performers,*)
(* reactions and pushes, any windows and any caps, and any assets with any *)
(* number of rows.                                                         *)
(*                                                                         *)
(* Both budgets are counts that are read before the row they bound is      *)
(* written. A call that passed a check took its place before its row       *)
(* exists, so the invariants count rows and places together: they never    *)
(* exceed the cap by more than the calls but one. A total is a sum over    *)
(* the classes of sums over their rows; a section of its own proves by     *)
(* induction on finite sets what such sums do.                             *)
(***************************************************************************)
EXTENDS MCCelebration, FiniteSetTheorems, WellFoundedInduction, TLAPS

-----------------------------------------------------------------------------
(* PushBudget: the inductive invariant *)

Live == sent \ lost
At(places) == {f \in Fanouts : pc[f] \in places}
PastWindow == At({"day", "type", "send", "record"})
PastDay == At({"type", "send", "record"})

Held == \A f \in Fanouts : pc[f] = "record" => push[f] \in sent
Told == \A p \in Live : p \in logged \/ \E f \in At({"record"}) : push[f] = p
WindowPlaces == Cardinality(logged) + Cardinality(PastWindow) <= MaxPerWindow + Cardinality(Fanouts) - 1
DayPlaces == Cardinality(ThisDay(logged)) + Cardinality(PastDay) <= MaxPerDay + Cardinality(Fanouts) - 1

IInv == TypeOK /\ Held /\ Told /\ WindowPlaces /\ DayPlaces

-----------------------------------------------------------------------------
(* Counting *)

\* A place that is taken: any set of fan-outs is at most all of them.
LEMMA Places ==
  ASSUME NEW S \in SUBSET Fanouts
  PROVE  /\ IsFiniteSet(S) /\ Cardinality(S) \in Nat
         /\ Cardinality(S) <= Cardinality(Fanouts)
         /\ Cardinality(Fanouts) \in Nat \ {0}
BY PushAssumption, FS_Subset, FS_CardinalityType, FS_EmptySet DEF PushAssumption

LEMMA Pushes ==
  ASSUME NEW S \in SUBSET PushIds
  PROVE  IsFiniteSet(S) /\ Cardinality(S) \in Nat
BY PushAssumption, FS_Subset, FS_CardinalityType DEF PushAssumption

\* A smaller set and no more places: the bound stays.
LEMMA Fewer ==
  ASSUME NEW S \in SUBSET PushIds, NEW T \in SUBSET S,
         NEW P \in SUBSET Fanouts, NEW Q \in SUBSET P,
         NEW n \in Nat, Cardinality(S) + Cardinality(P) <= n
  PROVE  Cardinality(T) + Cardinality(Q) <= n
<1>1. Cardinality(T) <= Cardinality(S) /\ Cardinality(T) \in Nat /\ Cardinality(S) \in Nat
  BY Pushes, FS_Subset
<1>2. Cardinality(Q) <= Cardinality(P) /\ Cardinality(Q) \in Nat /\ Cardinality(P) \in Nat
  BY Places, FS_Subset
<1> QED BY <1>1, <1>2

\* A place is exchanged for a row.
LEMMA Exchange ==
  ASSUME NEW S \in SUBSET PushIds, NEW x \in PushIds, NEW T \in SUBSET (S \cup {x}),
         NEW P \in SUBSET Fanouts, NEW f \in P,
         NEW n \in Nat, Cardinality(S) + Cardinality(P) <= n
  PROVE  Cardinality(T) + Cardinality(P \ {f}) <= n
<1>1. Cardinality(S \cup {x}) <= Cardinality(S) + 1 /\ Cardinality(S) \in Nat
  BY Pushes, FS_AddElement
<1>2. Cardinality(T) <= Cardinality(S \cup {x}) /\ Cardinality(T) \in Nat /\ Cardinality(S \cup {x}) \in Nat
  <2>1. S \cup {x} \in SUBSET PushIds /\ T \in SUBSET PushIds
    OBVIOUS
  <2> QED BY <2>1, Pushes, FS_Subset
<1>3. Cardinality(P \ {f}) = Cardinality(P) - 1 /\ Cardinality(P) \in Nat
  BY Places, FS_RemoveElement
<1> QED BY <1>1, <1>2, <1>3

\* A check that passed leaves room for every fan-out's place.
LEMMA Passed ==
  ASSUME NEW S \in SUBSET PushIds, NEW P \in SUBSET Fanouts,
         NEW max \in Nat \ {0}, ~(Cardinality(S) >= max)
  PROVE  Cardinality(S) + Cardinality(P) <= max + Cardinality(Fanouts) - 1
BY Pushes, Places

\* What is delivered and not lost is in the log or in the hands of a fan-out.
LEMMA LogAndHands ==
  ASSUME NEW L \in SUBSET PushIds, NEW S \in SUBSET PushIds,
         NEW hands \in SUBSET Fanouts, NEW held \in [Fanouts -> PushIds \cup {NoPush}],
         \A p \in L : p \in S \/ \E f \in hands : held[f] = p
  PROVE  Cardinality(L) <= Cardinality(S) + Cardinality(hands)
<1> DEFINE H == {held[f] : f \in hands}
           g == [f \in hands |-> held[f]]
<1>1. g \in Surjection(hands, H)
  BY DEF Surjection
<1>2. IsFiniteSet(H) /\ Cardinality(H) <= Cardinality(hands) /\ Cardinality(H) \in Nat /\ Cardinality(hands) \in Nat
  <2>1. IsFiniteSet(hands) /\ Cardinality(hands) \in Nat
    BY Places
  <2>2. IsFiniteSet(H) /\ Cardinality(H) <= Cardinality(hands)
    BY <1>1, <2>1, FS_Surjection
  <2> HIDE DEF H
  <2> QED BY <2>1, <2>2, FS_CardinalityType
<1>3. IsFiniteSet(S) /\ Cardinality(S) \in Nat
  BY Pushes
<1>4. L \subseteq S \cup H
  OBVIOUS
<1> HIDE DEF H
<1>5. /\ IsFiniteSet(S \cup H)
      /\ Cardinality(S \cup H) = Cardinality(S) + Cardinality(H) - Cardinality(S \cap H)
      /\ Cardinality(S \cap H) \in Nat
  <2>1. IsFiniteSet(S \cap H)
    BY <1>3, FS_Subset
  <2> QED BY <1>2, <1>3, <2>1, FS_Union, FS_CardinalityType
<1>6. Cardinality(L) <= Cardinality(S \cup H) /\ Cardinality(L) \in Nat
  BY <1>4, <1>5, FS_Subset, FS_CardinalityType
<1> QED BY <1>2, <1>3, <1>5, <1>6

-----------------------------------------------------------------------------
(* Types *)

LEMMA TypeInit == Init => TypeOK
BY PushAssumption DEF PushAssumption, Init, TypeOK

LEMMA ChecksGo ==
  ASSUME NEW f \in Fanouts, WindowCheck(f) \/ DayCheck(f) \/ TypeCheck(f) \/ Undelivered(f)
  PROVE  \E p \in {"idle", "day", "type", "send"} : Goto(f, p)
BY DEF WindowCheck, DayCheck, TypeCheck, Undelivered

LEMMA TypeStep ==
  ASSUME TypeOK, Held, [Next]_vars
  PROVE  TypeOK'
<1> USE PushAssumption DEF PushAssumption, TypeOK
<1>1. ASSUME NEW f \in Fanouts, NEW k \in Kinds, Dispatch(f, k)
      PROVE  TypeOK'
  BY <1>1 DEF Dispatch, rows
<1>2. ASSUME NEW f \in Fanouts, WindowCheck(f) \/ DayCheck(f) \/ TypeCheck(f) \/ Undelivered(f)
      PROVE  TypeOK'
  <2>1. PICK p \in {"idle", "day", "type", "send"} : Goto(f, p)
    BY <1>2, ChecksGo
  <2> QED BY <2>1 DEF Goto, rows
<1>3. ASSUME NEW f \in Fanouts, Deliver(f)
      PROVE  TypeOK'
  <2>1. PICK p \in PushIds :
          /\ sent' = sent \cup {p}
          /\ kind' = [kind EXCEPT ![p] = event[f]]
          /\ age' = [age EXCEPT ![p] = 0]
          /\ push' = [push EXCEPT ![f] = p]
    BY <1>3 DEF Deliver
  <2>2. 0 \in 0..WindowTicks
    OBVIOUS
  <2> QED BY <1>3, <2>1, <2>2 DEF Deliver
<1>4. ASSUME NEW f \in Fanouts, RecordNotification(f) \/ RecordFails(f)
      PROVE  TypeOK'
  BY <1>4 DEF RecordNotification, RecordFails, Held
<1>5. CASE Crash
  BY <1>5 DEF Crash, Held
<1>6. CASE Tick
  <2>1. \A p \in sent : p \in sent' => age[p] + 1 \in 0..WindowTicks
    BY <1>6 DEF Tick
  <2>2. sent' \subseteq PushIds /\ logged' \subseteq sent' /\ lost' \subseteq sent'
    BY <1>6 DEF Tick
  <2>3. kind' \in [PushIds -> Kinds] /\ age' \in [PushIds -> 0..WindowTicks]
    BY <1>6, <2>1 DEF Tick
  <2> QED BY <1>6, <2>2, <2>3 DEF Tick, fanVars
<1>7. CASE UNCHANGED vars
  BY <1>7 DEF vars, rows, fanVars
<1> QED BY <1>1, <1>2, <1>3, <1>4, <1>5, <1>6, <1>7 DEF Next

-----------------------------------------------------------------------------
(* Every push is in the log, in the hands of its fan-out, or lost *)

LEMMA HandsStep ==
  ASSUME TypeOK, Held, Told, [Next]_vars
  PROVE  Held' /\ Told'
<1> USE DEF TypeOK, Held, Told, Live, At
<1>1. ASSUME NEW f \in Fanouts, NEW k \in Kinds, Dispatch(f, k)
      PROVE  Held' /\ Told'
  BY <1>1 DEF Dispatch, rows
<1>2. ASSUME NEW f \in Fanouts, WindowCheck(f) \/ DayCheck(f) \/ TypeCheck(f) \/ Undelivered(f)
      PROVE  Held' /\ Told'
  <2>1. PICK p \in {"idle", "day", "type", "send"} : Goto(f, p)
    BY <1>2, ChecksGo
  <2>2. pc[f] # "record"
    BY <1>2 DEF WindowCheck, DayCheck, TypeCheck, Undelivered
  <2> QED BY <2>1, <2>2 DEF Goto, rows
<1>3. ASSUME NEW f \in Fanouts, Deliver(f)
      PROVE  Held' /\ Told'
  <2>1. PICK p \in PushIds : sent' = sent \cup {p} /\ push' = [push EXCEPT ![f] = p]
    BY <1>3 DEF Deliver
  <2>2. pc[f] = "send" /\ pc' = [pc EXCEPT ![f] = "record"] /\ logged' = logged /\ lost' = lost
    BY <1>3 DEF Deliver
  <2> QED BY <2>1, <2>2
<1>4. ASSUME NEW f \in Fanouts, RecordNotification(f) \/ RecordFails(f)
      PROVE  Held' /\ Told'
  BY <1>4 DEF RecordNotification, RecordFails
<1>5. CASE Crash
  BY <1>5 DEF Crash
<1>6. CASE Tick
  BY <1>6 DEF Tick, fanVars
<1>7. CASE UNCHANGED vars
  BY <1>7 DEF vars, rows, fanVars
<1> QED BY <1>1, <1>2, <1>3, <1>4, <1>5, <1>6, <1>7 DEF Next

-----------------------------------------------------------------------------
(* The places *)

\* The caps leave room for a natural number of rows and places.
LEMMA Caps ==
  /\ MaxPerWindow + Cardinality(Fanouts) - 1 \in Nat
  /\ MaxPerDay + Cardinality(Fanouts) - 1 \in Nat
BY Places, PushAssumption DEF PushAssumption

LEMMA WindowStep ==
  ASSUME TypeOK, Held, WindowPlaces, [Next]_vars
  PROVE  WindowPlaces'
<1> USE PushAssumption DEF PushAssumption, TypeOK, WindowPlaces, PastWindow, At
<1>0. MaxPerWindow + Cardinality(Fanouts) - 1 \in Nat
  BY Caps
<1>1. CASE logged' \subseteq logged /\ PastWindow' \subseteq PastWindow
  <2>1. /\ logged \in SUBSET PushIds /\ logged' \in SUBSET logged
        /\ PastWindow \in SUBSET Fanouts /\ PastWindow' \in SUBSET PastWindow
    BY <1>1
  <2> HIDE DEF PastWindow
  <2> QED BY <1>0, <2>1, Fewer
<1>2. ASSUME NEW f \in Fanouts, NEW k \in Kinds, Dispatch(f, k)
      PROVE  WindowPlaces'
  BY <1>1, <1>2 DEF Dispatch, rows
<1>3. ASSUME NEW f \in Fanouts, WindowCheck(f)
      PROVE  WindowPlaces'
  <2>1. CASE Cardinality(logged) >= MaxPerWindow
    BY <1>1, <1>3, <2>1 DEF WindowCheck, Goto, rows
  <2>2. CASE ~(Cardinality(logged) >= MaxPerWindow)
    <3>1. logged' = logged /\ logged \in SUBSET PushIds /\ PastWindow' \in SUBSET Fanouts
      BY <1>3 DEF WindowCheck, Goto, rows
    <3> HIDE DEF PastWindow
    <3> QED BY <2>2, <3>1, Passed
  <2> QED BY <2>1, <2>2
<1>4. ASSUME NEW f \in Fanouts, DayCheck(f) \/ TypeCheck(f) \/ Undelivered(f)
      PROVE  WindowPlaces'
  <2>1. PICK p \in {"idle", "day", "type", "send"} : Goto(f, p)
    BY <1>4, ChecksGo
  <2>2. pc[f] \in {"day", "type", "send"}
    BY <1>4 DEF DayCheck, TypeCheck, Undelivered
  <2> QED BY <1>1, <2>1, <2>2 DEF Goto, rows
<1>5. ASSUME NEW f \in Fanouts, Deliver(f)
      PROVE  WindowPlaces'
  BY <1>1, <1>5 DEF Deliver
<1>6. ASSUME NEW f \in Fanouts, RecordNotification(f)
      PROVE  WindowPlaces'
  <2>1. /\ push[f] \in PushIds /\ logged' = logged \cup {push[f]}
        /\ f \in PastWindow /\ PastWindow' = PastWindow \ {f}
    BY <1>6 DEF RecordNotification, Held
  <2>2. logged \in SUBSET PushIds /\ logged' \in SUBSET (logged \cup {push[f]}) /\ PastWindow \in SUBSET Fanouts
    BY <2>1
  <2> HIDE DEF PastWindow
  <2> QED BY <1>0, <2>1, <2>2, Exchange
<1>7. ASSUME Crash \/ \E f \in Fanouts : RecordFails(f)
      PROVE  WindowPlaces'
  BY <1>1, <1>7 DEF Crash, RecordFails
<1>8. CASE Tick
  BY <1>1, <1>8 DEF Tick, fanVars
<1>9. CASE UNCHANGED vars
  BY <1>1, <1>9 DEF vars, rows, fanVars
<1> QED BY <1>2, <1>3, <1>4, <1>5, <1>6, <1>7, <1>8, <1>9 DEF Next

LEMMA DayStep ==
  ASSUME TypeOK, Held, DayPlaces, [Next]_vars
  PROVE  DayPlaces'
<1> USE PushAssumption DEF PushAssumption, TypeOK, DayPlaces, PastDay, At
<1> DEFINE L == ThisDay(logged)
<1>0. MaxPerDay + Cardinality(Fanouts) - 1 \in Nat
  BY Caps
<1>1. CASE L' \subseteq L /\ PastDay' \subseteq PastDay
  <2>1. /\ L \in SUBSET PushIds /\ L' \in SUBSET L
        /\ PastDay \in SUBSET Fanouts /\ PastDay' \in SUBSET PastDay
    BY <1>1 DEF ThisDay
  <2> HIDE DEF PastDay, L
  <2>2. Cardinality(L') + Cardinality(PastDay') <= MaxPerDay + Cardinality(Fanouts) - 1
    <3>1. Cardinality(L) + Cardinality(PastDay) <= MaxPerDay + Cardinality(Fanouts) - 1
      BY DEF L
    <3> QED BY <1>0, <2>1, <3>1, Fewer
  <2> QED BY <2>2 DEF L
<1>2. ASSUME NEW f \in Fanouts, NEW k \in Kinds, Dispatch(f, k)
      PROVE  DayPlaces'
  BY <1>1, <1>2 DEF Dispatch, rows, ThisDay
<1>3. ASSUME NEW f \in Fanouts, DayCheck(f)
      PROVE  DayPlaces'
  <2>1. CASE Cardinality(ThisDay(logged)) >= MaxPerDay
    BY <1>1, <1>3, <2>1 DEF DayCheck, Goto, rows, ThisDay
  <2>2. CASE ~(Cardinality(ThisDay(logged)) >= MaxPerDay)
    <3>1. L' = L /\ L \in SUBSET PushIds /\ PastDay' \in SUBSET Fanouts
      BY <1>3 DEF DayCheck, Goto, rows, ThisDay
    <3>2. ~(Cardinality(L) >= MaxPerDay)
      BY <2>2
    <3> HIDE DEF PastDay, L
    <3>3. Cardinality(L') + Cardinality(PastDay') <= MaxPerDay + Cardinality(Fanouts) - 1
      BY <3>1, <3>2, Passed
    <3> QED BY <3>3 DEF L
  <2> QED BY <2>1, <2>2
<1>4. ASSUME NEW f \in Fanouts, WindowCheck(f) \/ TypeCheck(f) \/ Undelivered(f)
      PROVE  DayPlaces'
  <2>1. PICK p \in {"idle", "day", "send"} : Goto(f, p) /\ (p = "send" => pc[f] = "type")
    BY <1>4 DEF WindowCheck, TypeCheck, Undelivered
  <2> QED BY <1>1, <2>1 DEF Goto, rows, ThisDay
<1>5. ASSUME NEW f \in Fanouts, Deliver(f)
      PROVE  DayPlaces'
  <2>1. PICK p \in PushIds : p \notin sent /\ age' = [age EXCEPT ![p] = 0]
    BY <1>5 DEF Deliver
  <2>2. logged' = logged /\ \A q \in logged : age'[q] = age[q]
    BY <1>5, <2>1 DEF Deliver
  <2> QED BY <1>1, <1>5, <2>2 DEF Deliver, ThisDay
<1>6. ASSUME NEW f \in Fanouts, RecordNotification(f)
      PROVE  DayPlaces'
  <2>1. /\ push[f] \in PushIds /\ logged' = logged \cup {push[f]} /\ age' = age
        /\ f \in PastDay /\ PastDay' = PastDay \ {f}
    BY <1>6 DEF RecordNotification, Held
  <2>2. L \in SUBSET PushIds /\ L' \in SUBSET (L \cup {push[f]}) /\ PastDay \in SUBSET Fanouts
    BY <2>1 DEF ThisDay
  <2>3. Cardinality(L) + Cardinality(PastDay) <= MaxPerDay + Cardinality(Fanouts) - 1
    OBVIOUS
  <2> HIDE DEF PastDay, L
  <2>4. Cardinality(L') + Cardinality(PastDay') <= MaxPerDay + Cardinality(Fanouts) - 1
    BY <1>0, <2>1, <2>2, <2>3, Exchange
  <2> QED BY <2>4 DEF L
<1>7. ASSUME Crash \/ \E f \in Fanouts : RecordFails(f)
      PROVE  DayPlaces'
  BY <1>1, <1>7 DEF Crash, RecordFails, ThisDay
<1>8. CASE Tick
  <2>1. \A p \in logged' : p \in logged /\ age'[p] = age[p] + 1
    BY <1>8 DEF Tick
  <2>2. L' \subseteq L
    BY <2>1 DEF ThisDay
  <2> QED BY <1>1, <1>8, <2>2 DEF Tick, fanVars
<1>9. CASE UNCHANGED vars
  BY <1>1, <1>9 DEF vars, rows, fanVars, ThisDay
<1> QED BY <1>2, <1>3, <1>4, <1>5, <1>6, <1>7, <1>8, <1>9 DEF Next

-----------------------------------------------------------------------------
(* PushBudget: the caps *)

LEMMA IInvInit == Init => IInv
<1> SUFFICES ASSUME Init PROVE IInv
  OBVIOUS
<1>1. TypeOK
  BY TypeInit
<1>2. Held /\ Told
  BY DEF Init, Held, Told, Live
<1>3. PastWindow = {} /\ PastDay = {} /\ logged = {} /\ ThisDay(logged) = {}
  BY DEF Init, PastWindow, PastDay, At, ThisDay
<1>4. Cardinality({}) = 0
  BY FS_EmptySet
<1>5. WindowPlaces /\ DayPlaces
  BY <1>3, <1>4, Caps DEF WindowPlaces, DayPlaces
<1> QED BY <1>1, <1>2, <1>5 DEF IInv

LEMMA IInvStep == IInv /\ [Next]_vars => IInv'
BY TypeStep, HandsStep, WindowStep, DayStep DEF IInv

\* The state keeps its types: in particular a row is written for a push that
\* was delivered.
THEOREM TypeCorrect == Spec => []TypeOK
<1>1. IInv => TypeOK
  BY DEF IInv
<1> QED BY IInvInit, IInvStep, <1>1, PTL DEF Spec

\* The pushes of a week exceed the cap by less than the number of fan-outs that
\* overlap, for any number of them (canSendPush's first read).
THEOREM WindowCapHolds == Spec => []TwoAWeek
<1>1. ASSUME IInv
      PROVE  TwoAWeek
  <2>1. /\ Live \in SUBSET PushIds /\ logged \in SUBSET PushIds
        /\ At({"record"}) \in SUBSET Fanouts
        /\ push \in [Fanouts -> PushIds \cup {NoPush}]
    BY <1>1 DEF IInv, TypeOK, Live, At
  <2>2. Cardinality(Live) <= Cardinality(logged) + Cardinality(At({"record"}))
    BY <1>1, <2>1, LogAndHands DEF IInv, Told
  <2>3. PastWindow \in SUBSET Fanouts /\ At({"record"}) \in SUBSET PastWindow
    BY DEF PastWindow, At
  <2>4. Cardinality(logged) + Cardinality(At({"record"})) <= MaxPerWindow + Cardinality(Fanouts) - 1
    BY <1>1, <2>1, <2>3, Caps, Fewer DEF IInv, WindowPlaces
  <2>5. Cardinality(Live) \in Nat /\ Cardinality(logged) \in Nat /\ Cardinality(At({"record"})) \in Nat
    BY <2>1, Pushes, Places
  <2> QED BY <2>2, <2>4, <2>5, Caps DEF TwoAWeek, Live
<1> QED BY IInvInit, IInvStep, <1>1, PTL DEF Spec

\* The same of the pushes of 24 hours and the daily ceiling (its second read).
THEOREM DayCapHolds == Spec => []OneADay
<1>1. ASSUME IInv
      PROVE  OneADay
  <2>1. /\ ThisDay(Live) \in SUBSET PushIds /\ ThisDay(logged) \in SUBSET PushIds
        /\ At({"record"}) \in SUBSET Fanouts
        /\ push \in [Fanouts -> PushIds \cup {NoPush}]
    BY <1>1 DEF IInv, TypeOK, Live, At, ThisDay
  <2>2. \A p \in ThisDay(Live) : p \in ThisDay(logged) \/ \E f \in At({"record"}) : push[f] = p
    BY <1>1 DEF IInv, Told, ThisDay
  <2>3. Cardinality(ThisDay(Live)) <= Cardinality(ThisDay(logged)) + Cardinality(At({"record"}))
    BY <2>1, <2>2, LogAndHands
  <2>4. PastDay \in SUBSET Fanouts /\ At({"record"}) \in SUBSET PastDay
    BY DEF PastDay, At
  <2>5. Cardinality(ThisDay(logged)) + Cardinality(At({"record"})) <= MaxPerDay + Cardinality(Fanouts) - 1
    BY <1>1, <2>1, <2>4, Caps, Fewer DEF IInv, DayPlaces
  <2>6. Cardinality(ThisDay(Live)) \in Nat /\ Cardinality(ThisDay(logged)) \in Nat /\ Cardinality(At({"record"})) \in Nat
    BY <2>1, Pushes, Places
  <2> QED BY <2>3, <2>5, <2>6, Caps DEF OneADay, Live
<1> QED BY IInvInit, IInvStep, <1>1, PTL DEF Spec

-----------------------------------------------------------------------------
(* ReactionBudget: the inductive invariant *)

\* The table holds the newest rows: what was trimmed is no newer than what is left, and was
\* trimmed from a full table.
TrimInv ==
  \A q \in performed \ table :
    Cardinality(table) >= MaxHistory /\ \A r \in table : rAge[r] <= rAge[q]

\* The budgeted reactions of the day, and the performers whose check has let one more in.
Budgeted == {r \in R!Today(performed) : rKind[r] \notin R!Exempt}
Admitted == {j \in Performers : rPc[j] = "record" /\ R!First(cands[j]) \notin R!Exempt}

\* A performer that passed the check holds its place until its row exists.
PlacesInv ==
  Cardinality(Budgeted) + Cardinality(Admitted) <= DailyBudget + Cardinality(Performers) - 1

\* As long as no two performers were alive together, one that is past the weekly cap with an
\* overspend finds no other of the week in the table until it has recorded its own.
AloneInv ==
  ~racing => \A j, k \in Performers : rPc[j] # "idle" /\ rPc[k] # "idle" => j = k
ClearInv ==
  ~racing => \A j \in Performers :
    rPc[j] \in {"count", "record"} /\ R!First(cands[j]) = "overspend" =>
       \A r \in table : rKind[r] = "overspend" => rAge[r] >= WeekTicks

\* A performer that is not idle is at a candidate.
BusyInv == \A j \in Performers : rPc[j] # "idle" => cands[j] # {}

ReactionInv ==
  R!TypeOK /\ BusyInv /\ TrimInv /\ PlacesInv /\ AloneInv /\ ClearInv /\ R!OverspendOncePerWeek

\* The instance counts as FiniteSets does.
LEMMA SameCount ==
  \A x : R!IsFiniteSet(x) = IsFiniteSet(x) /\ R!Cardinality(x) = Cardinality(x)
BY DEF R!IsFiniteSet, IsFiniteSet, R!Cardinality, Cardinality

LEMMA Limits ==
  ASSUME R!ReactionAssumption
  PROVE  /\ IsFiniteSet(Performers) /\ IsFiniteSet(ReactionIds)
         /\ Cardinality(Performers) \in Nat \ {0}
         /\ ReactionDayTicks \in Nat \ {0} /\ WeekTicks \in Nat /\ ReactionDayTicks <= WeekTicks
         /\ DailyBudget \in Nat \ {0} /\ MaxHistory \in Nat /\ DailyBudget <= MaxHistory
         /\ DailyBudget + Cardinality(Performers) - 1 \in Nat
<1>1. IsFiniteSet(Performers) /\ IsFiniteSet(ReactionIds) /\ Performers # {}
  BY SameCount DEF R!ReactionAssumption
<1>2. Cardinality(Performers) \in Nat \ {0}
  BY <1>1, FS_CardinalityType, FS_EmptySet
<1> QED BY <1>1, <1>2 DEF R!ReactionAssumption

LEMMA SomeReactions ==
  ASSUME R!ReactionAssumption, NEW A \in SUBSET ReactionIds
  PROVE  IsFiniteSet(A) /\ Cardinality(A) \in Nat /\ \A B \in SUBSET A : Cardinality(B) <= Cardinality(A)
BY Limits, FS_Subset, FS_CardinalityType

LEMMA SomePerformers ==
  ASSUME R!ReactionAssumption, NEW A \in SUBSET Performers
  PROVE  /\ IsFiniteSet(A) /\ Cardinality(A) \in Nat /\ Cardinality(A) <= Cardinality(Performers)
         /\ \A B \in SUBSET A : Cardinality(B) <= Cardinality(A)
BY Limits, FS_Subset, FS_CardinalityType

\* Of some candidates, the first is one of them.
LEMMA FirstOf ==
  ASSUME NEW cs \in SUBSET R!Direct, cs # {}
  PROVE  R!First(cs) \in cs
<1>1. \E c \in cs : \A e \in cs : R!Precedence[c] <= R!Precedence[e]
  <2>1. R!Precedence["celebration"] = 1 /\ R!Precedence["routine"] = 2 /\ R!Precedence["overspend"] = 3
    BY DEF R!Precedence
  <2>2. \A e \in cs : e \in R!Direct /\ R!Precedence[e] \in {1, 2, 3}
    BY <2>1 DEF R!Direct
  <2>3. CASE "celebration" \in cs
    BY <2>1, <2>2, <2>3
  <2>4. CASE "celebration" \notin cs /\ "routine" \in cs
    <3>1. \A e \in cs : e \in {"routine", "overspend"}
      BY <2>2, <2>4 DEF R!Direct
    <3> QED BY <2>1, <2>4, <3>1
  <2>5. CASE "celebration" \notin cs /\ "routine" \notin cs
    <3>1. cs = {"overspend"}
      BY <2>2, <2>5 DEF R!Direct
    <3> QED BY <2>1, <3>1
  <2> QED BY <2>3, <2>4, <2>5
<1> QED BY <1>1 DEF R!First

\* Where the loop is left when it considers what remains.
LEMMA Considered ==
  ASSUME R!TypeOK, NEW j \in Performers, NEW cs \in SUBSET R!Direct, R!Consider(j, cs)
  PROVE  /\ rPc' \in [Performers -> {"idle", "cap", "count", "record"}]
         /\ cands' \in [Performers -> SUBSET R!Direct] /\ cands'[j] = cs
         /\ \A k \in Performers \ {j} : rPc'[k] = rPc[k] /\ cands'[k] = cands[k]
         /\ cs = {} => rPc'[j] = "idle"
         /\ rPc'[j] \in {"count", "record"} => R!First(cs) # "overspend"
         /\ rPc'[j] = "record" => R!First(cs) \in R!Exempt
BY DEF R!TypeOK, R!Consider

LEMMA Batches ==
  ASSUME R!TypeOK, NEW j \in Performers
  PROVE  /\ cands[j] \in SUBSET R!Direct /\ {} \in SUBSET R!Direct
         /\ \A c : cands[j] \ {c} \in SUBSET R!Direct
BY DEF R!TypeOK

\* A step of the loop that writes no row: the performer goes on to what remains of its batch, or
\* past a check.
Skips(j) == \E cs \in SUBSET R!Direct : R!Consider(j, cs)
PastCap(j) ==
  /\ rPc[j] = "cap" /\ rPc' = [rPc EXCEPT ![j] = "count"]
  /\ cands' = cands
  /\ \A r \in table : rKind[r] = "overspend" => ~(rAge[r] < WeekTicks)
PastCount(j) ==
  /\ rPc[j] = "count" /\ rPc' = [rPc EXCEPT ![j] = "record"] /\ cands' = cands
  /\ ~(Cardinality(R!Today(table)) >= DailyBudget)

LEMMA LoopSteps ==
  ASSUME R!TypeOK, NEW j \in Performers, R!WeeklyCap(j) \/ R!DailyBudgetCheck(j) \/ R!Abandon(j)
  PROVE  (Skips(j) \/ PastCap(j) \/ PastCount(j)) /\ rPc[j] # "idle" /\ UNCHANGED <<hour, R!rows, racing>>
<1>1. CASE R!WeeklyCap(j)
  <2>1. CASE \E r \in table : rKind[r] = "overspend" /\ rAge[r] < WeekTicks
    BY <1>1, <2>1, Batches DEF R!WeeklyCap, Skips
  <2>2. CASE ~\E r \in table : rKind[r] = "overspend" /\ rAge[r] < WeekTicks
    BY <1>1, <2>2 DEF R!WeeklyCap, PastCap
  <2> QED BY <1>1, <2>1, <2>2 DEF R!WeeklyCap
<1>2. CASE R!DailyBudgetCheck(j)
  <2>1. CASE Cardinality(R!Today(table)) >= DailyBudget
    BY <1>2, <2>1, Batches, SameCount DEF R!DailyBudgetCheck, Skips
  <2>2. CASE ~(Cardinality(R!Today(table)) >= DailyBudget)
    BY <1>2, <2>2, SameCount DEF R!DailyBudgetCheck, PastCount
  <2> QED BY <1>2, <2>1, <2>2 DEF R!DailyBudgetCheck
<1>3. CASE R!Abandon(j)
  BY <1>3, Batches DEF R!Abandon, Skips
<1> QED BY <1>1, <1>2, <1>3

\* What recordReaction leaves.
Recorded(j, x) ==
  /\ rPc[j] = "record" /\ x \in ReactionIds \ performed
  /\ performed' = performed \cup {x} /\ table' \subseteq table \cup {x}
  /\ rKind' = [rKind EXCEPT ![x] = R!First(cands[j])] /\ rAge' = [rAge EXCEPT ![x] = 0]
  /\ IF Cardinality(table \cup {x}) < MaxHistory
       THEN table' = table \cup {x} ELSE Cardinality(table') = MaxHistory
  /\ \A r \in table', q \in (table \cup {x}) \ table' : rAge'[r] <= rAge'[q]
  /\ R!Consider(j, {}) /\ UNCHANGED <<hour, racing>>

LEMMA RecordSteps ==
  ASSUME R!ReactionAssumption, R!TypeOK, NEW j \in Performers, R!Record(j)
  PROVE  \E x : Recorded(j, x)
<1> DEFINE x == CHOOSE r \in ReactionIds : r \notin performed
<1>1. x \in ReactionIds \ performed
  BY DEF R!Record, R!TypeOK
<1>2. /\ rPc[j] = "record" /\ performed' = performed \cup {x}
      /\ rKind' = [rKind EXCEPT ![x] = R!First(cands[j])] /\ rAge' = [rAge EXCEPT ![x] = 0]
      /\ table' \in R!Trim(table \cup {x}) /\ R!Consider(j, {}) /\ UNCHANGED <<hour, racing>>
  BY DEF R!Record
<1> HIDE DEF x
<1>3. /\ table' \in SUBSET (table \cup {x})
      /\ Cardinality(table') = IF Cardinality(table \cup {x}) < MaxHistory
                                 THEN Cardinality(table \cup {x}) ELSE MaxHistory
      /\ \A r \in table', q \in (table \cup {x}) \ table' : rAge'[r] <= rAge'[q]
  BY <1>2, SameCount DEF R!Trim
<1>4. IsFiniteSet(table \cup {x})
  <2>1. table \cup {x} \in SUBSET ReactionIds
    BY <1>1 DEF R!TypeOK
  <2> QED BY <2>1, SomeReactions
<1>5. Cardinality(table') = Cardinality(table \cup {x}) => table' = table \cup {x}
  BY <1>3, <1>4, FS_Subset
<1> QED BY <1>1, <1>2, <1>3, <1>5 DEF Recorded

-----------------------------------------------------------------------------
\* A step of a performer that writes no row.
LEMMA LoopTypes ==
  ASSUME R!TypeOK, BusyInv, NEW j \in Performers, Skips(j) \/ PastCap(j) \/ PastCount(j),
         UNCHANGED <<hour, R!rows>>, racing' \in BOOLEAN
  PROVE  R!TypeOK' /\ BusyInv'
<1>1. rPc' \in [Performers -> {"idle", "cap", "count", "record"}] /\ cands' \in [Performers -> SUBSET R!Direct]
  <2>1. CASE Skips(j)
    BY <2>1, Considered DEF Skips
  <2>2. CASE PastCap(j) \/ PastCount(j)
    BY <2>2 DEF PastCap, PastCount, R!TypeOK
  <2> QED BY <2>1, <2>2
<1>2. BusyInv'
  <2>1. CASE Skips(j)
    BY <2>1, Considered DEF Skips, BusyInv
  <2>2. CASE PastCap(j) \/ PastCount(j)
    BY <2>2 DEF PastCap, PastCount, R!TypeOK, BusyInv
  <2> QED BY <2>1, <2>2
<1> QED BY <1>1, <1>2 DEF R!TypeOK, R!rows

LEMMA PerformSteps ==
  ASSUME R!TypeOK, NEW j \in Performers, NEW batch \in SUBSET R!Direct \ {{}}, R!Perform(j, batch)
  PROVE  /\ Skips(j) /\ rPc[j] = "idle" /\ UNCHANGED <<hour, R!rows>>
         /\ racing' = (racing \/ \E k \in Performers : rPc[k] # "idle")
BY DEF R!Perform, Skips

LEMMA ReactionTypeStep ==
  ASSUME R!ReactionAssumption, R!TypeOK, BusyInv, [R!Next]_R!vars
  PROVE  R!TypeOK' /\ BusyInv'
<1>1. ASSUME NEW j \in Performers, NEW batch \in SUBSET R!Direct \ {{}}, R!Perform(j, batch)
      PROVE  R!TypeOK' /\ BusyInv'
  BY <1>1, PerformSteps, LoopTypes DEF R!TypeOK
<1>2. ASSUME NEW j \in Performers, R!WeeklyCap(j) \/ R!DailyBudgetCheck(j) \/ R!Abandon(j)
      PROVE  R!TypeOK' /\ BusyInv'
  BY <1>2, LoopSteps, LoopTypes DEF R!TypeOK
<1>3. ASSUME NEW j \in Performers, R!Record(j)
      PROVE  R!TypeOK' /\ BusyInv'
  <2>1. PICK x : Recorded(j, x)
    BY <1>3, RecordSteps
  <2>2. R!First(cands[j]) \in R!Direct
    BY <2>1, FirstOf, Batches DEF Recorded, BusyInv
  <2>3. /\ rPc' \in [Performers -> {"idle", "cap", "count", "record"}]
        /\ cands' \in [Performers -> SUBSET R!Direct] /\ BusyInv'
    BY <2>1, Considered, Batches DEF Recorded, BusyInv
  <2>4. rAge' \in [ReactionIds -> 0..WeekTicks]
    BY <2>1, Limits DEF Recorded, R!TypeOK
  <2> QED BY <2>1, <2>2, <2>3, <2>4 DEF Recorded, R!TypeOK
<1>4. CASE R!Tick
  <2>1. hour' \in 0..ReactionDayTicks - 1
    BY <1>4, Limits DEF R!Tick, R!TypeOK
  <2>2. performed' \subseteq ReactionIds /\ table' \subseteq performed'
    BY <1>4 DEF R!Tick, R!TypeOK
  <2>3. \A r \in performed' : rAge[r] + 1 \in 0..WeekTicks
    BY <1>4, Limits DEF R!Tick, R!TypeOK
  <2>4. rKind' \in [ReactionIds -> R!Direct] /\ rAge' \in [ReactionIds -> 0..WeekTicks]
    BY <1>4, <2>3, Limits DEF R!Tick, R!TypeOK, R!Direct
  <2> QED BY <1>4, <2>1, <2>2, <2>4 DEF R!Tick, R!TypeOK, BusyInv
<1>5. CASE UNCHANGED R!vars
  BY <1>5 DEF R!vars, R!rows, R!TypeOK, BusyInv
<1> QED BY <1>1, <1>2, <1>3, <1>4, <1>5 DEF R!Next

-----------------------------------------------------------------------------
\* Hours pass only when no performer is alive, and bring nothing into a window.
LEMMA Aged ==
  ASSUME R!ReactionAssumption, R!TypeOK, R!Tick
  PROVE  /\ \A j \in Performers : rPc[j] = "idle"
         /\ UNCHANGED <<rPc, cands, racing>>
         /\ performed' = {r \in performed : rAge[r] < WeekTicks} /\ table' = table \cap performed'
         /\ \A r \in performed' : rAge'[r] = rAge[r] + 1 /\ rKind'[r] = rKind[r]
         /\ R!Today(performed)' \subseteq R!Today(performed)
<1>1. \A r \in performed' : r \in performed /\ rAge'[r] = rAge[r] + 1 /\ rKind'[r] = rKind[r] /\ rAge[r] \in Nat
  BY Limits DEF R!Tick, R!TypeOK
<1>2. hour' = 0 \/ hour' = hour + 1
  BY Limits DEF R!Tick, R!TypeOK
<1>3. hour \in Nat
  BY Limits DEF R!TypeOK
<1>4. R!Today(performed)' \subseteq R!Today(performed)
  BY <1>1, <1>2, <1>3 DEF R!Today
<1> QED BY <1>1, <1>4 DEF R!Tick

LEMMA TrimStep ==
  ASSUME R!ReactionAssumption, R!TypeOK, TrimInv, [R!Next]_R!vars
  PROVE  TrimInv'
<1>0. \A r \in ReactionIds : rAge[r] \in Nat
  BY Limits DEF R!TypeOK
<1>1. CASE UNCHANGED R!rows
  BY <1>1 DEF R!rows, TrimInv
<1>2. ASSUME NEW j \in Performers, R!Record(j)
      PROVE  TrimInv'
  <2>1. PICK x : Recorded(j, x)
    BY <1>2, RecordSteps
  <2>2. /\ x \in ReactionIds \ performed /\ performed' = performed \cup {x}
        /\ table' \subseteq table \cup {x} /\ rAge'[x] = 0 /\ \A r \in performed : rAge'[r] = rAge[r]
        /\ \A r \in table', q \in (table \cup {x}) \ table' : rAge'[r] <= rAge'[q]
    BY <2>1 DEF Recorded, R!TypeOK
  <2>3. table \in SUBSET ReactionIds /\ table \cup {x} \in SUBSET ReactionIds /\ MaxHistory \in Nat
    BY <2>2, Limits DEF R!TypeOK
  <2>4. Cardinality(table) <= Cardinality(table \cup {x}) /\ Cardinality(table) \in Nat
        /\ Cardinality(table \cup {x}) \in Nat
    BY <2>3, SomeReactions
  <2>5. CASE Cardinality(table \cup {x}) < MaxHistory
    <3>1. table' = table \cup {x}
      BY <2>1, <2>5 DEF Recorded
    <3>2. performed \ table = {}
      BY <2>3, <2>4, <2>5 DEF TrimInv
    <3> QED BY <2>2, <3>1, <3>2 DEF TrimInv
  <2>6. CASE ~(Cardinality(table \cup {x}) < MaxHistory)
    <3>1. Cardinality(table') = MaxHistory
      BY <2>1, <2>6 DEF Recorded
    <3>2. ASSUME NEW q \in performed' \ table', NEW r \in table'
          PROVE  rAge'[r] <= rAge'[q]
      <4>1. CASE q \in table \cup {x}
        BY <2>2, <4>1
      <4>2. CASE q \notin table \cup {x}
        <5>1. q \in performed \ table /\ q \in ReactionIds
          BY <2>2, <4>2 DEF R!TypeOK
        <5>2. CASE r = x
          BY <1>0, <2>2, <5>1, <5>2
        <5>3. CASE r \in table
          BY <2>2, <5>1, <5>3 DEF TrimInv, R!TypeOK
        <5> QED BY <2>2, <5>2, <5>3
      <4> QED BY <4>1, <4>2
    <3> QED BY <2>3, <3>1, <3>2 DEF TrimInv
  <2> QED BY <2>5, <2>6
<1>3. CASE R!Tick
  <2> SUFFICES ASSUME NEW q \in performed' \ table'
               PROVE  Cardinality(table') >= MaxHistory /\ \A r \in table' : rAge'[r] <= rAge'[q]
    BY DEF TrimInv
  <2>1. q \in performed \ table /\ rAge[q] < WeekTicks /\ rAge'[q] = rAge[q] + 1
    BY <1>3, Aged
  <2>2. Cardinality(table) >= MaxHistory /\ \A r \in table : rAge[r] <= rAge[q]
    BY <2>1 DEF TrimInv
  <2>3. table \subseteq performed /\ performed \subseteq ReactionIds /\ WeekTicks \in Nat
    BY Limits DEF R!TypeOK
  <2>4. \A r \in table : r \in performed'
    BY <1>0, <1>3, <2>1, <2>2, <2>3, Aged
  <2>5. table' = table
    BY <1>3, <2>4, Aged
  <2> QED BY <1>0, <1>3, <2>1, <2>2, <2>3, <2>4, <2>5, Aged
<1>4. \/ R!Tick \/ UNCHANGED R!rows \/ \E j \in Performers : R!Record(j)
  BY DEF R!Next, R!Perform, R!WeeklyCap, R!DailyBudgetCheck, R!Abandon, R!vars
<1> QED BY <1>1, <1>2, <1>3, <1>4

-----------------------------------------------------------------------------
(* The daily budget *)

LEMMA PlacesKept ==
  ASSUME R!ReactionAssumption, R!TypeOK, PlacesInv, Budgeted' \subseteq Budgeted, Admitted' \subseteq Admitted
  PROVE  PlacesInv'
<1>1. Budgeted \in SUBSET ReactionIds /\ Admitted \in SUBSET Performers
  BY DEF Budgeted, Admitted, R!Today, R!TypeOK
<1>2. PICK m : m = Budgeted'
  OBVIOUS
<1>3. PICK n : n = Admitted'
  OBVIOUS
<1>4. /\ Cardinality(m) <= Cardinality(Budgeted) /\ Cardinality(n) <= Cardinality(Admitted)
      /\ Cardinality(Budgeted) \in Nat /\ Cardinality(Admitted) \in Nat
      /\ Cardinality(m) \in Nat /\ Cardinality(n) \in Nat
  <2>1. m \in SUBSET ReactionIds /\ n \in SUBSET Performers
    BY <1>1, <1>2, <1>3
  <2> QED BY <1>1, <1>2, <1>3, <2>1, SomeReactions, SomePerformers
<1>5. Cardinality(m) + Cardinality(n) <= DailyBudget + Cardinality(Performers) - 1
  BY <1>4, Limits DEF PlacesInv
<1> QED BY <1>2, <1>3, <1>5 DEF PlacesInv

\* The count reads the trimmed table, and that is enough: had a row of today been trimmed, the
\* table would be full of today's rows and the check would not have passed.
LEMMA CountIsEnough ==
  ASSUME R!ReactionAssumption, R!TypeOK, TrimInv, ~(Cardinality(R!Today(table)) >= DailyBudget)
  PROVE  R!Today(performed) = R!Today(table)
<1>1. \A r \in performed : rAge[r] \in Nat
  BY Limits DEF R!TypeOK
<1>2. table \subseteq performed /\ table \in SUBSET ReactionIds /\ hour \in Nat
  BY Limits DEF R!TypeOK
<1>3. ASSUME NEW q \in R!Today(performed), q \notin table
      PROVE  FALSE
  <2>1. q \in performed \ table /\ rAge[q] <= hour
    BY <1>3 DEF R!Today
  <2>2. Cardinality(table) >= MaxHistory /\ \A r \in table : rAge[r] <= rAge[q]
    BY <2>1 DEF TrimInv
  <2>3. R!Today(table) = table
    BY <1>1, <1>2, <2>1, <2>2 DEF R!Today
  <2>4. Cardinality(table) \in Nat
    BY <1>2, SomeReactions
  <2> QED BY <2>2, <2>3, <2>4, Limits
<1> QED BY <1>2, <1>3 DEF R!Today

LEMMA AdmittedSkip ==
  ASSUME R!TypeOK, NEW j \in Performers, Skips(j) \/ PastCap(j)
  PROVE  Admitted' \subseteq Admitted
<1>1. CASE Skips(j)
  BY <1>1, Considered DEF Skips, Admitted
<1>2. CASE PastCap(j)
  BY <1>2 DEF PastCap, R!TypeOK, Admitted
<1> QED BY <1>1, <1>2

LEMMA SameBudgeted ==
  ASSUME UNCHANGED <<hour, R!rows>>
  PROVE  Budgeted' = Budgeted
BY DEF Budgeted, R!Today, R!rows

LEMMA PlacesStep ==
  ASSUME R!ReactionAssumption, R!TypeOK, BusyInv, TrimInv, PlacesInv, R!TypeOK', [R!Next]_R!vars
  PROVE  PlacesInv'
<1>1. ASSUME NEW j \in Performers, Skips(j) \/ PastCap(j), UNCHANGED <<hour, R!rows>>
      PROVE  PlacesInv'
  BY <1>1, PlacesKept, SameBudgeted, AdmittedSkip
<1>2. ASSUME NEW j \in Performers, PastCount(j), UNCHANGED <<hour, R!rows>>
      PROVE  PlacesInv'
  <2>1. ~(Cardinality(R!Today(table)) >= DailyBudget)
    BY <1>2 DEF PastCount
  <2>2. Budgeted \subseteq R!Today(table)
    BY <2>1, CountIsEnough DEF Budgeted
  <2>3. R!Today(table) \in SUBSET ReactionIds
    BY DEF R!Today, R!TypeOK
  <2>4. Cardinality(Budgeted) <= Cardinality(R!Today(table)) /\ Cardinality(R!Today(table)) \in Nat
    BY <2>2, <2>3, SomeReactions
  <2>5. Cardinality(Budgeted) \in Nat
    <3>1. Budgeted \in SUBSET ReactionIds
      BY <2>2, <2>3
    <3> QED BY <3>1, SomeReactions
  <2>6. PICK n : n = Admitted'
    OBVIOUS
  <2>7. n \in SUBSET Performers
    BY <2>6 DEF Admitted
  <2>8. Cardinality(n) \in Nat /\ Cardinality(n) <= Cardinality(Performers)
    BY <2>7, SomePerformers
  <2>9. Cardinality(Budgeted) + Cardinality(n) <= DailyBudget + Cardinality(Performers) - 1
    BY <2>1, <2>4, <2>5, <2>8, Limits
  <2> QED BY <1>2, <2>6, <2>9, SameBudgeted DEF PlacesInv
<1>3. ASSUME NEW j \in Performers, R!Record(j)
      PROVE  PlacesInv'
  <2>1. PICK x : Recorded(j, x)
    BY <1>3, RecordSteps
  <2>2. /\ x \in ReactionIds \ performed /\ performed' = performed \cup {x} /\ hour' = hour
        /\ rKind'[x] = R!First(cands[j]) /\ rAge'[x] = 0
        /\ \A r \in performed : rKind'[r] = rKind[r] /\ rAge'[r] = rAge[r]
    BY <2>1 DEF Recorded, R!TypeOK
  <2>3. rPc[j] = "record" /\ rPc'[j] = "idle"
        /\ \A k \in Performers \ {j} : rPc'[k] = rPc[k] /\ cands'[k] = cands[k]
    BY <2>1, Considered, Batches DEF Recorded
  <2>4. hour \in Nat
    BY Limits DEF R!TypeOK
  <2>5. CASE R!First(cands[j]) \in R!Exempt
    <3>1. Budgeted' \subseteq Budgeted
      BY <2>2, <2>5 DEF Budgeted, R!Today
    <3>2. Admitted' \subseteq Admitted
      BY <2>3 DEF Admitted
    <3> QED BY <3>1, <3>2, PlacesKept
  <2>6. CASE R!First(cands[j]) \notin R!Exempt
    <3>1. Budgeted' = Budgeted \cup {x} /\ x \notin Budgeted
      BY <2>2, <2>4, <2>6 DEF Budgeted, R!Today
    <3>2. Admitted' = Admitted \ {j} /\ j \in Admitted
      BY <2>3, <2>6 DEF Admitted
    <3>3. Budgeted \in SUBSET ReactionIds /\ Admitted \in SUBSET Performers
      BY DEF Budgeted, Admitted, R!Today, R!TypeOK
    <3>4. /\ IsFiniteSet(Budgeted) /\ IsFiniteSet(Admitted)
          /\ Cardinality(Budgeted) \in Nat /\ Cardinality(Admitted) \in Nat
      BY <3>3, SomeReactions, SomePerformers
    <3>5. Cardinality(Budgeted \cup {x}) = Cardinality(Budgeted) + 1
      BY <3>1, <3>4, FS_AddElement
    <3>6. Cardinality(Admitted \ {j}) = Cardinality(Admitted) - 1
      BY <3>2, <3>4, FS_RemoveElement
    <3>7. Cardinality(Budgeted \cup {x}) + Cardinality(Admitted \ {j})
            <= DailyBudget + Cardinality(Performers) - 1
      BY <3>4, <3>5, <3>6, Limits DEF PlacesInv
    <3> QED BY <3>1, <3>2, <3>7 DEF PlacesInv
  <2> QED BY <2>5, <2>6
<1>4. CASE R!Tick
  <2>1. Budgeted' \subseteq Budgeted
    BY <1>4, Aged DEF Budgeted, R!Today
  <2>2. Admitted' = Admitted
    BY <1>4, Aged DEF Admitted
  <2> QED BY <2>1, <2>2, PlacesKept
<1>5. CASE UNCHANGED R!vars
  BY <1>5, SameBudgeted DEF R!vars, PlacesInv, Admitted
<1>6. ASSUME NEW j \in Performers, NEW batch \in SUBSET R!Direct \ {{}}, R!Perform(j, batch)
      PROVE  PlacesInv'
  BY <1>1, <1>6, PerformSteps
<1>7. ASSUME NEW j \in Performers, R!WeeklyCap(j) \/ R!DailyBudgetCheck(j) \/ R!Abandon(j)
      PROVE  PlacesInv'
  BY <1>1, <1>2, <1>7, LoopSteps
<1> QED BY <1>3, <1>4, <1>5, <1>6, <1>7 DEF R!Next

-----------------------------------------------------------------------------
(* The weekly cap *)

LEMMA AloneStep ==
  ASSUME R!ReactionAssumption, R!TypeOK, BusyInv, AloneInv, [R!Next]_R!vars
  PROVE  AloneInv' /\ (racing => racing')
<1>1. ASSUME NEW j \in Performers, Skips(j) \/ PastCap(j) \/ PastCount(j)
      PROVE  \A k \in Performers \ {j} : rPc'[k] = rPc[k]
  BY <1>1, Considered DEF Skips, PastCap, PastCount, R!TypeOK
<1>2. ASSUME NEW j \in Performers, NEW batch \in SUBSET R!Direct \ {{}}, R!Perform(j, batch)
      PROVE  AloneInv' /\ (racing => racing')
  BY <1>1, <1>2, PerformSteps DEF AloneInv
<1>3. ASSUME NEW j \in Performers, R!WeeklyCap(j) \/ R!DailyBudgetCheck(j) \/ R!Abandon(j)
      PROVE  AloneInv' /\ (racing => racing')
  BY <1>1, <1>3, LoopSteps DEF AloneInv
<1>4. ASSUME NEW j \in Performers, R!Record(j)
      PROVE  AloneInv' /\ (racing => racing')
  <2>1. PICK x : Recorded(j, x)
    BY <1>4, RecordSteps
  <2>2. rPc'[j] = "idle" /\ (\A k \in Performers \ {j} : rPc'[k] = rPc[k]) /\ racing' = racing
    BY <2>1, Considered, Batches DEF Recorded
  <2> QED BY <2>2 DEF AloneInv
<1>5. CASE R!Tick
  BY <1>5, Aged DEF AloneInv
<1>6. CASE UNCHANGED R!vars
  BY <1>6 DEF R!vars, AloneInv
<1> QED BY <1>2, <1>3, <1>4, <1>5, <1>6 DEF R!Next

LEMMA ClearStep ==
  ASSUME R!ReactionAssumption, R!TypeOK, BusyInv, AloneInv, ClearInv, [R!Next]_R!vars
  PROVE  ClearInv'
<1>0. \A r \in ReactionIds : rAge[r] \in Nat
  BY Limits DEF R!TypeOK
<1>1. ASSUME NEW j \in Performers, Skips(j) \/ PastCap(j) \/ PastCount(j), UNCHANGED R!rows, racing => racing'
      PROVE  ClearInv'
  <2>1. table' = table /\ rKind' = rKind /\ rAge' = rAge
    BY <1>1 DEF R!rows
  <2>2. CASE Skips(j)
    BY <1>1, <2>1, <2>2, Considered DEF Skips, ClearInv
  <2>3. CASE PastCap(j)
    <3>1. \A r \in table : rKind[r] = "overspend" => rAge[r] >= WeekTicks
      BY <1>0, <2>3, Limits DEF PastCap, R!TypeOK
    <3> QED BY <1>1, <2>1, <3>1 DEF ClearInv
  <2>4. CASE PastCount(j)
    <3>1. rPc[j] = "count" /\ cands' = cands /\ \A k \in Performers \ {j} : rPc'[k] = rPc[k]
      BY <2>4 DEF PastCount, R!TypeOK
    <3> QED BY <1>1, <2>1, <3>1 DEF ClearInv
  <2> QED BY <1>1, <2>2, <2>3, <2>4
<1>2. racing => racing'
  BY AloneStep
<1>3. ASSUME NEW j \in Performers, NEW batch \in SUBSET R!Direct \ {{}}, R!Perform(j, batch)
      PROVE  ClearInv'
  BY <1>1, <1>2, <1>3, PerformSteps
<1>4. ASSUME NEW j \in Performers, R!WeeklyCap(j) \/ R!DailyBudgetCheck(j) \/ R!Abandon(j)
      PROVE  ClearInv'
  BY <1>1, <1>2, <1>4, LoopSteps
<1>5. ASSUME NEW j \in Performers, R!Record(j)
      PROVE  ClearInv'
  <2>1. PICK x : Recorded(j, x)
    BY <1>5, RecordSteps
  <2>2. rPc[j] = "record" /\ rPc'[j] = "idle" /\ (\A k \in Performers \ {j} : rPc'[k] = rPc[k])
    BY <2>1, Considered, Batches DEF Recorded
  <2>3. ~racing' => \A k \in Performers : rPc'[k] = "idle"
    BY <1>2, <2>2 DEF AloneInv
  <2> QED BY <2>3 DEF ClearInv
<1>6. CASE R!Tick
  BY <1>6, Aged DEF ClearInv
<1>7. CASE UNCHANGED R!vars
  BY <1>7 DEF R!vars, R!rows, ClearInv
<1> QED BY <1>3, <1>4, <1>5, <1>6, <1>7 DEF R!Next

\* The reactions as recent as one of two.
Around(x, y) == {z \in performed : rAge[z] <= rAge[x] \/ rAge[z] <= rAge[y]}
Overspends(x) == x \in performed /\ rKind[x] = "overspend" /\ rAge[x] < WeekTicks
WeekInv == \A x, y : Overspends(x) /\ Overspends(y) /\ x # y => Cardinality(Around(x, y)) > MaxHistory + 1

LEMMA WeekInvIs == R!OverspendOncePerWeek <=> (~racing => WeekInv)
BY SameCount DEF R!OverspendOncePerWeek, WeekInv, Overspends, Around

LEMMA AroundGrows ==
  ASSUME R!ReactionAssumption, R!TypeOK', NEW m, NEW x, NEW y, m \subseteq Around(x, y)', Cardinality(m) > MaxHistory + 1
  PROVE  (Cardinality(Around(x, y)) > MaxHistory + 1)'
<1>1. PICK n : n = Around(x, y)'
  OBVIOUS
<1>2. n \in SUBSET ReactionIds /\ m \in SUBSET n
  BY <1>1 DEF Around, R!TypeOK
<1>3. Cardinality(m) \in Nat /\ Cardinality(n) \in Nat /\ Cardinality(m) <= Cardinality(n)
  <2>1. m \in SUBSET ReactionIds
    BY <1>2
  <2> QED BY <1>2, <2>1, SomeReactions
<1>4. Cardinality(n) > MaxHistory + 1
  BY <1>3, Limits
<1> QED BY <1>1, <1>4

LEMMA OverspendStep ==
  ASSUME R!ReactionAssumption, R!TypeOK, BusyInv, TrimInv, AloneInv, ClearInv, R!OverspendOncePerWeek,
         R!TypeOK', [R!Next]_R!vars
  PROVE  R!OverspendOncePerWeek'
<1>0. (racing => racing') /\ \A r \in ReactionIds : rAge[r] \in Nat
  BY AloneStep, Limits DEF R!TypeOK
<1>a. (R!OverspendOncePerWeek <=> (~racing => WeekInv))'
  BY WeekInvIs, PTL
<1> SUFFICES ASSUME ~racing', NEW r, NEW q, Overspends(r)', Overspends(q)', r # q
             PROVE  (Cardinality(Around(r, q)) > MaxHistory + 1)'
  BY <1>a DEF WeekInv
<1>1. WeekInv
  BY <1>0, WeekInvIs
<1>2. CASE UNCHANGED R!rows
  <2>1. Overspends(r) /\ Overspends(q)
    BY <1>2 DEF Overspends, R!rows
  <2>2. Around(r, q)' = Around(r, q)
    BY <1>2 DEF Around, R!rows
  <2> QED BY <1>1, <2>1, <2>2 DEF WeekInv
<1>3. ASSUME NEW j \in Performers, R!Record(j)
      PROVE  (Cardinality(Around(r, q)) > MaxHistory + 1)'
  <2>1. PICK x : Recorded(j, x)
    BY <1>3, RecordSteps
  <2>2. /\ x \in ReactionIds \ performed /\ performed' = performed \cup {x}
        /\ rKind'[x] = R!First(cands[j]) /\ rAge'[x] = 0 /\ rPc[j] = "record"
        /\ \A z \in performed : rKind'[z] = rKind[z] /\ rAge'[z] = rAge[z]
    BY <2>1 DEF Recorded, R!TypeOK
  <2>3. CASE r # x /\ q # x
    <3>1. Overspends(r) /\ Overspends(q)
      BY <2>2, <2>3 DEF Overspends
    <3>2. Around(r, q) \subseteq Around(r, q)'
      BY <2>2, <3>1 DEF Around, Overspends
    <3> QED BY <1>1, <3>1, <3>2, AroundGrows DEF WeekInv
  <2>4. CASE r = x \/ q = x
    <3>1. PICK w : (r = x /\ q = w) \/ (r = w /\ q = x)
      BY <2>4
    <3>2. Overspends(x)' /\ Overspends(w) /\ w \in performed
      BY <2>2, <3>1 DEF Overspends
    <3>3. w \notin table
      <4>1. R!First(cands[j]) = "overspend"
        BY <2>2, <3>2 DEF Overspends
      <4>2. \A z \in table : rKind[z] = "overspend" => rAge[z] >= WeekTicks
        BY <1>0, <2>2, <4>1 DEF ClearInv
      <4> QED BY <1>0, <3>2, <4>2, Limits DEF Overspends, R!TypeOK
    <3>4. Cardinality(table) >= MaxHistory /\ \A z \in table : rAge[z] <= rAge[w]
      BY <3>2, <3>3 DEF TrimInv
    <3>5. table \subseteq performed /\ table \in SUBSET ReactionIds
      BY DEF R!TypeOK
    <3>6. table \cup {x, w} \subseteq Around(r, q)'
      <4>1. table \subseteq Around(r, q)'
        BY <2>2, <3>1, <3>2, <3>4, <3>5 DEF Around
      <4>2. x \in performed' /\ w \in performed' /\ rAge'[x] <= rAge'[x] /\ rAge'[w] <= rAge'[w]
        BY <1>0, <2>2, <3>2 DEF R!TypeOK
      <4>3. x \in Around(r, q)' /\ w \in Around(r, q)'
        BY <3>1, <4>2 DEF Around
      <4> QED BY <4>1, <4>3
    <3>7. x \notin table /\ x # w
      BY <2>2, <3>2, <3>5
    <3>8. IsFiniteSet(table) /\ Cardinality(table) \in Nat
      BY <3>5, SomeReactions
    <3>9. Cardinality(table \cup {x, w}) = Cardinality(table) + 2
      <4>1. PICK more : more = table \cup {x}
        OBVIOUS
      <4>2. IsFiniteSet(more) /\ Cardinality(more) = Cardinality(table) + 1
        BY <3>7, <3>8, <4>1, FS_AddElement
      <4>3. w \notin more /\ table \cup {x, w} = more \cup {w}
        BY <3>3, <3>7, <4>1
      <4>4. Cardinality(table \cup {x, w}) = Cardinality(more) + 1
        BY <4>2, <4>3, FS_AddElement
      <4> QED BY <3>8, <4>2, <4>4
    <3>10. Cardinality(table \cup {x, w}) > MaxHistory + 1
      BY <3>4, <3>8, <3>9, Limits
    <3> QED BY <3>6, <3>10, AroundGrows
  <2> QED BY <2>3, <2>4
<1>4. CASE R!Tick
  <2>1. performed' = {z \in performed : rAge[z] < WeekTicks} /\ performed \subseteq ReactionIds
        /\ \A z \in performed' : rAge'[z] = rAge[z] + 1 /\ rKind'[z] = rKind[z]
    BY <1>4, Aged DEF R!TypeOK
  <2>2. Overspends(r) /\ Overspends(q)
    BY <2>1 DEF Overspends
  <2>3. \A z \in Around(r, q) : z \in performed'
    BY <1>0, <2>1, <2>2, Limits DEF Around, Overspends
  <2>4. Around(r, q) \subseteq Around(r, q)'
    BY <1>0, <2>1, <2>2, <2>3 DEF Around, Overspends
  <2> QED BY <1>1, <2>2, <2>4, AroundGrows DEF WeekInv
<1>5. \/ R!Tick \/ UNCHANGED R!rows \/ \E j \in Performers : R!Record(j)
  BY DEF R!Next, R!Perform, R!WeeklyCap, R!DailyBudgetCheck, R!Abandon, R!vars
<1> QED BY <1>2, <1>3, <1>4, <1>5

-----------------------------------------------------------------------------
LEMMA ReactionInitial ==
  ASSUME R!ReactionAssumption, R!Init
  PROVE  ReactionInv
<1>1. R!TypeOK
  <2>1. hour \in 0..ReactionDayTicks - 1 /\ 0 \in 0..WeekTicks
    BY Limits DEF R!Init
  <2>2. "routine" \in R!Direct
    BY DEF R!Direct
  <2> QED BY <2>1, <2>2 DEF R!Init, R!TypeOK
<1>2. Budgeted = {} /\ Admitted = {}
  BY DEF R!Init, Budgeted, Admitted, R!Today
<1>3. PlacesInv
  BY <1>2, Limits, FS_EmptySet DEF PlacesInv
<1> QED BY <1>1, <1>3 DEF R!Init, ReactionInv, BusyInv, TrimInv, AloneInv, ClearInv, R!OverspendOncePerWeek

LEMMA ReactionStep ==
  ASSUME R!ReactionAssumption, ReactionInv, [R!Next]_R!vars
  PROVE  ReactionInv'
<1>1. R!TypeOK' /\ BusyInv'
  BY ReactionTypeStep DEF ReactionInv
<1>2. TrimInv' /\ PlacesInv' /\ AloneInv'
  BY <1>1, TrimStep, PlacesStep, AloneStep DEF ReactionInv
<1>3. ClearInv' /\ R!OverspendOncePerWeek'
  BY <1>1, ClearStep, OverspendStep DEF ReactionInv
<1> QED BY <1>1, <1>2, <1>3 DEF ReactionInv

LEMMA ReactionLimits ==
  ASSUME R!ReactionAssumption, ReactionInv
  PROVE  R!DailyBudgetHolds
<1>1. Budgeted \in SUBSET ReactionIds /\ Admitted \in SUBSET Performers
  BY DEF ReactionInv, Budgeted, Admitted, R!Today, R!TypeOK
<1>2. Cardinality(Budgeted) \in Nat /\ Cardinality(Admitted) \in Nat
  BY <1>1, SomeReactions, SomePerformers
<1>3. Cardinality(Budgeted) <= DailyBudget + Cardinality(Performers) - 1
  BY <1>2, Limits DEF ReactionInv, PlacesInv
<1> QED BY <1>3, SameCount DEF R!DailyBudgetHolds, Budgeted

-----------------------------------------------------------------------------
(* Induction and sums *)

\* A set of numbers has a least one.
LEMMA LeastNumber ==
  ASSUME NEW ns \in SUBSET Nat, ns # {}
  PROVE  \E n \in ns : \A k \in ns : n <= k
<1> DEFINE less == {p \in Nat \X Nat : p[1] < p[2]}
<1>1. IsWellFoundedOn(less, Nat)
  BY NatLessThanWellFounded DEF OpToRel
<1> HIDE DEF less
<1>2. PICK n \in ns : \A k \in ns : <<k, n>> \notin less
  BY <1>1, WFMin
<1> USE DEF less
<1>3. ASSUME NEW k \in ns, k < n
      PROVE  FALSE
  BY <1>2, <1>3
<1> QED BY <1>2, <1>3

\* Induction on numbers, for a set of them.
LEMMA Climb ==
  ASSUME NEW ns \in SUBSET Nat, 0 \in ns, \A n \in ns : n + 1 \in ns
  PROVE  ns = Nat
<1> SUFFICES ASSUME Nat \ ns # {}
             PROVE  FALSE
  OBVIOUS
<1>1. PICK n \in Nat \ ns : \A k \in Nat \ ns : n <= k
  BY LeastNumber
<1>2. n - 1 \in ns /\ n = (n - 1) + 1
  BY <1>1
<1> QED BY <1>1, <1>2

\* Induction on the subsets of a finite set, for a set of them.
LEMMA Gather ==
  ASSUME NEW all, IsFiniteSet(all), NEW fine \in SUBSET SUBSET all, {} \in fine,
         \A part \in fine : \A x \in all \ part : part \cup {x} \in fine
  PROVE  fine = SUBSET all
<1> DEFINE ns == {n \in Nat : \A part \in SUBSET all : Cardinality(part) = n => part \in fine}
<1>0. \A part \in SUBSET all : IsFiniteSet(part) /\ Cardinality(part) \in Nat
  BY FS_Subset, FS_CardinalityType
<1>1. 0 \in ns
  <2>1. \A part \in SUBSET all : Cardinality(part) = 0 => part = {}
    BY <1>0, FS_EmptySet
  <2> QED BY <2>1
<1>2. ASSUME NEW n \in ns
      PROVE  n + 1 \in ns
  <2> SUFFICES ASSUME NEW part \in SUBSET all, Cardinality(part) = n + 1
               PROVE  part \in fine
    OBVIOUS
  <2>1. PICK x \in part : TRUE
    BY <1>0, FS_EmptySet
  <2> DEFINE less == part \ {x}
  <2>2. Cardinality(less) = n
    BY <1>0, FS_RemoveElement
  <2>3. less \in fine /\ x \in all \ less /\ less \cup {x} = part
    BY <2>1, <2>2
  <2> HIDE DEF less
  <2> QED BY <2>3
<1>3. ns = Nat
  <2> HIDE DEF ns
  <2>1. ns \in SUBSET Nat
    BY DEF ns
  <2> QED BY <1>1, <1>2, <2>1, Climb
<1> QED BY <1>0, <1>3

First(part) == CHOOSE x \in part : TRUE
\* g adds up f over every subset of all, an element at a time.
AddsUp(g, f, all) ==
  g = [part \in SUBSET all |-> IF part = {} THEN 0 ELSE f[First(part)] + g[part \ {First(part)}]]

LEMMA SumAddsUp ==
  ASSUME NEW f, NEW all
  PROVE  N!Sum(f, all) = (CHOOSE g : AddsUp(g, f, all))[all]
BY DEF N!Sum, N!MapThenSumSet, N!MapThenFoldSet, AddsUp, First

LEMMA Firsts == \A part : part # {} => First(part) \in part
BY DEF First

LEMMA Exhausted ==
  ASSUME NEW all, IsFiniteSet(all), NEW part \in SUBSET all, part # {}
  PROVE  part \ {First(part)} \in SUBSET all /\ Cardinality(part \ {First(part)}) + 1 = Cardinality(part)
<1>1. IsFiniteSet(part) /\ First(part) \in part
  BY FS_Subset, Firsts
<1>2. Cardinality(part) \in Nat /\ Cardinality(part \ {First(part)}) = Cardinality(part) - 1
  BY <1>1, FS_RemoveElement, FS_CardinalityType
<1> QED BY <1>2

\* There is such a function.
LEMMA Additive ==
  ASSUME NEW f, NEW all, IsFiniteSet(all)
  PROVE  \E g : AddsUp(g, f, all)
<1> DEFINE rest(part) == part \ {First(part)}
           upTo(g, n) == /\ g = [part \in SUBSET all |-> g[part]]
                         /\ \A part \in SUBSET all : Cardinality(part) <= n =>
                              g[part] = IF part = {} THEN 0 ELSE f[First(part)] + g[rest(part)]
           ns == {n \in Nat : \E g : upTo(g, n)}
<1>0. \A part \in SUBSET all : IsFiniteSet(part) /\ Cardinality(part) \in Nat /\ (Cardinality(part) = 0 <=> part = {})
  BY FS_Subset, FS_CardinalityType, FS_EmptySet
<1>1. 0 \in ns
  <2> DEFINE g == [part \in SUBSET all |-> 0]
  <2>1. upTo(g, 0)
    BY <1>0
  <2> QED BY <2>1
<1>2. ASSUME NEW n \in ns
      PROVE  n + 1 \in ns
  <2>1. PICK g : upTo(g, n)
    OBVIOUS
  <2> DEFINE h == [part \in SUBSET all |-> IF part = {} THEN 0 ELSE f[First(part)] + g[rest(part)]]
  <2>2. \A part \in SUBSET all : Cardinality(part) <= n => h[part] = g[part]
    BY <2>1
  <2>3. ASSUME NEW part \in SUBSET all, Cardinality(part) <= n + 1, part # {}
        PROVE  h[part] = f[First(part)] + h[rest(part)]
    <3>1. rest(part) \in SUBSET all /\ Cardinality(rest(part)) <= n
      BY <1>0, <2>3, Exhausted
    <3>2. h[rest(part)] = g[rest(part)]
      BY <2>2, <3>1
    <3> QED BY <2>3, <3>2
  <2>4. upTo(h, n + 1)
    BY <2>3
  <2> HIDE DEF h, upTo
  <2>5. n + 1 \in Nat /\ \E q : upTo(q, n + 1)
    BY <2>4
  <2> QED BY <2>5
<1>3. Cardinality(all) \in ns
  <2> HIDE DEF ns
  <2>1. ns \in SUBSET Nat
    BY DEF ns
  <2>2. ns = Nat
    BY <1>1, <1>2, <2>1, Climb
  <2> QED BY <2>2, FS_CardinalityType
<1>4. PICK g : upTo(g, Cardinality(all))
  BY <1>3
<1>5. \A part \in SUBSET all : Cardinality(part) <= Cardinality(all)
  BY FS_Subset
<1>6. AddsUp(g, f, all)
  BY <1>4, <1>5 DEF AddsUp
<1> QED BY <1>6

\* Two that add up functions that agree give the same sums.
LEMMA SameSums ==
  ASSUME NEW f, NEW g, NEW all, NEW more, IsFiniteSet(more), all \subseteq more, NEW p, NEW q,
         AddsUp(p, f, all), AddsUp(q, g, more), \A x \in all : f[x] = g[x]
  PROVE  p[all] = q[all]
<1> DEFINE ns == {n \in Nat : \A part \in SUBSET all : Cardinality(part) = n => p[part] = q[part]}
<1>0. IsFiniteSet(all) /\ \A part \in SUBSET all : IsFiniteSet(part) /\ Cardinality(part) \in Nat
                                                    /\ (Cardinality(part) = 0 <=> part = {})
  BY FS_Subset, FS_CardinalityType, FS_EmptySet
<1>1. 0 \in ns
  BY <1>0 DEF AddsUp
<1>2. ASSUME NEW n \in ns
      PROVE  n + 1 \in ns
  <2> SUFFICES ASSUME NEW part \in SUBSET all, Cardinality(part) = n + 1
               PROVE  p[part] = q[part]
    OBVIOUS
  <2>1. part # {} /\ First(part) \in all
    BY <1>0, Firsts
  <2>2. part \ {First(part)} \in SUBSET all /\ Cardinality(part \ {First(part)}) = n
    BY <1>0, <2>1, Exhausted
  <2>3. p[part \ {First(part)}] = q[part \ {First(part)}]
    BY <2>2
  <2>4. p[part] = f[First(part)] + p[part \ {First(part)}] /\ q[part] = g[First(part)] + q[part \ {First(part)}]
    BY <2>1 DEF AddsUp
  <2> QED BY <2>1, <2>3, <2>4
<1>3. Cardinality(all) \in ns
  <2> HIDE DEF ns
  <2>1. ns \in SUBSET Nat
    BY DEF ns
  <2>2. ns = Nat
    BY <1>1, <1>2, <2>1, Climb
  <2> QED BY <2>2, <1>0
<1> QED BY <1>3

\* A sum depends on its terms only.
LEMMA SumSame ==
  ASSUME NEW f, NEW g, NEW all, IsFiniteSet(all), \A x \in all : f[x] = g[x]
  PROVE  N!Sum(f, all) = N!Sum(g, all)
<1>1. AddsUp(CHOOSE p : AddsUp(p, f, all), f, all) /\ AddsUp(CHOOSE q : AddsUp(q, g, all), g, all)
  BY Additive
<1> QED BY <1>1, SameSums, SumAddsUp

LEMMA SumEmpty == \A f : N!Sum(f, {}) = 0
<1> TAKE f
<1>1. AddsUp(CHOOSE p : AddsUp(p, f, {}), f, {})
  BY Additive, FS_EmptySet
<1> QED BY <1>1, SumAddsUp DEF AddsUp

LEMMA SumFirst ==
  ASSUME NEW f, NEW all, IsFiniteSet(all), all # {}
  PROVE  N!Sum(f, all) = f[First(all)] + N!Sum(f, all \ {First(all)})
<1> DEFINE rest == all \ {First(all)}
<1>1. PICK p : p = CHOOSE q : AddsUp(q, f, all)
  OBVIOUS
<1>2. PICK r : r = CHOOSE q : AddsUp(q, f, rest)
  OBVIOUS
<1>3. AddsUp(p, f, all) /\ AddsUp(r, f, rest) /\ rest \subseteq all
  BY <1>1, <1>2, Additive, FS_Subset
<1>4. r[rest] = p[rest]
  BY <1>3, SameSums
<1>5. p[all] = f[First(all)] + p[rest]
  BY <1>3 DEF AddsUp
<1> QED BY <1>1, <1>2, <1>4, <1>5, SumAddsUp

LEMMA SumType ==
  ASSUME NEW f, NEW all, IsFiniteSet(all), \A x \in all : f[x] \in Int
  PROVE  \A part \in SUBSET all : N!Sum(f, part) \in Int
<1> DEFINE ns == {n \in Nat : \A part \in SUBSET all : Cardinality(part) = n => N!Sum(f, part) \in Int}
<1>0. \A part \in SUBSET all : IsFiniteSet(part) /\ Cardinality(part) \in Nat /\ (Cardinality(part) = 0 <=> part = {})
  BY FS_Subset, FS_CardinalityType, FS_EmptySet
<1>1. 0 \in ns
  BY <1>0, SumEmpty
<1>2. ASSUME NEW n \in ns
      PROVE  n + 1 \in ns
  <2> SUFFICES ASSUME NEW part \in SUBSET all, Cardinality(part) = n + 1
               PROVE  N!Sum(f, part) \in Int
    OBVIOUS
  <2>1. part # {} /\ First(part) \in all
    BY <1>0, Firsts
  <2>2. N!Sum(f, part \ {First(part)}) \in Int
    BY <1>0, <2>1, Exhausted
  <2>3. N!Sum(f, part) = f[First(part)] + N!Sum(f, part \ {First(part)})
    BY <1>0, <2>1, SumFirst
  <2> QED BY <2>1, <2>2, <2>3
<1>3. ns = Nat
  <2> HIDE DEF ns
  <2>1. ns \in SUBSET Nat
    BY DEF ns
  <2> QED BY <1>1, <1>2, <2>1, Climb
<1> QED BY <1>0, <1>3

\* Any element may be taken out first.
LEMMA SumOut ==
  ASSUME NEW f, NEW all, IsFiniteSet(all), \A x \in all : f[x] \in Int
  PROVE  \A part \in SUBSET all : \A x \in part : N!Sum(f, part) = f[x] + N!Sum(f, part \ {x})
<1> DEFINE ns == {n \in Nat : \A part \in SUBSET all : Cardinality(part) = n =>
                    \A x \in part : N!Sum(f, part) = f[x] + N!Sum(f, part \ {x})}
<1>0. \A part \in SUBSET all : IsFiniteSet(part) /\ Cardinality(part) \in Nat /\ (Cardinality(part) = 0 <=> part = {})
  BY FS_Subset, FS_CardinalityType, FS_EmptySet
<1>1. 0 \in ns
  BY <1>0
<1>2. ASSUME NEW n \in ns
      PROVE  n + 1 \in ns
  <2> SUFFICES ASSUME NEW part \in SUBSET all, Cardinality(part) = n + 1, NEW x \in part
               PROVE  N!Sum(f, part) = f[x] + N!Sum(f, part \ {x})
    OBVIOUS
  <2> DEFINE y == First(part)
  <2>1. y \in part /\ N!Sum(f, part) = f[y] + N!Sum(f, part \ {y})
    BY <1>0, SumFirst, Firsts
  <2> HIDE DEF y
  <2>2. CASE x # y
    <3> DEFINE both == (part \ {y}) \ {x}
    <3>1. Cardinality(part \ {y}) = n /\ Cardinality(part \ {x}) = n
      BY <1>0, <2>1, FS_RemoveElement
    <3>2. N!Sum(f, part \ {y}) = f[x] + N!Sum(f, both)
      BY <2>2, <3>1
    <3>3. N!Sum(f, part \ {x}) = f[y] + N!Sum(f, both)
      <4>1. both = (part \ {x}) \ {y}
        OBVIOUS
      <4> QED BY <2>1, <2>2, <3>1, <4>1
    <3>4. N!Sum(f, both) \in Int /\ f[x] \in Int /\ f[y] \in Int
      BY <2>1, SumType
    <3> HIDE DEF both
    <3> QED BY <2>1, <3>2, <3>3, <3>4
  <2> QED BY <2>1, <2>2
<1>3. ns = Nat
  <2> HIDE DEF ns
  <2>1. ns \in SUBSET Nat
    BY DEF ns
  <2> QED BY <1>1, <1>2, <2>1, Climb
<1> QED BY <1>0, <1>3

LEMMA SumAdd ==
  ASSUME NEW f, NEW all, IsFiniteSet(all), NEW x, x \notin all, \A y \in all \cup {x} : f[y] \in Int
  PROVE  N!Sum(f, all \cup {x}) = f[x] + N!Sum(f, all)
<1> DEFINE more == all \cup {x}
<1>1. IsFiniteSet(more) /\ x \in more /\ more \ {x} = all
  BY FS_AddElement
<1>2. \A y \in more : f[y] \in Int
  OBVIOUS
<1> HIDE DEF more
<1>3. N!Sum(f, more) = f[x] + N!Sum(f, more \ {x})
  BY <1>1, <1>2, SumOut
<1> QED BY <1>1, <1>3 DEF more

\* Larger terms, larger sum.
LEMMA SumGrows ==
  ASSUME NEW f, NEW g, NEW all, IsFiniteSet(all),
         \A x \in all : f[x] \in Int /\ g[x] \in Int /\ f[x] <= g[x]
  PROVE  N!Sum(f, all) <= N!Sum(g, all)
<1> DEFINE fine == {part \in SUBSET all : N!Sum(f, part) <= N!Sum(g, part)}
<1>1. {} \in fine
  BY SumEmpty
<1>2. ASSUME NEW part \in fine, NEW x \in all \ part
      PROVE  part \cup {x} \in fine
  <2>1. N!Sum(f, part \cup {x}) = f[x] + N!Sum(f, part) /\ N!Sum(g, part \cup {x}) = g[x] + N!Sum(g, part)
    BY SumAdd, FS_Subset
  <2>2. N!Sum(f, part) \in Int /\ N!Sum(g, part) \in Int
    BY SumType
  <2> QED BY <2>1, <2>2
<1>3. fine = SUBSET all
  <2> HIDE DEF fine
  <2>1. fine \in SUBSET SUBSET all
    BY DEF fine
  <2> QED BY <1>1, <1>2, <2>1, Gather
<1> QED BY <1>3

LEMMA SumUnion ==
  ASSUME NEW f, NEW all, IsFiniteSet(all), \A x \in all : f[x] \in Int,
         NEW left \in SUBSET all, NEW right \in SUBSET all, left \cap right = {}
  PROVE  N!Sum(f, left \cup right) = N!Sum(f, left) + N!Sum(f, right)
<1> DEFINE fine == {part \in SUBSET right : N!Sum(f, left \cup part) = N!Sum(f, left) + N!Sum(f, part)}
<1>0. \A part \in SUBSET all : IsFiniteSet(part) /\ N!Sum(f, part) \in Int
  BY FS_Subset, SumType
<1>1. {} \in fine
  BY <1>0, SumEmpty
<1>2. ASSUME NEW part \in fine, NEW x \in right \ part
      PROVE  part \cup {x} \in fine
  <2> DEFINE both == left \cup part
  <2>1. left \cup (part \cup {x}) = both \cup {x} /\ x \notin both /\ both \in SUBSET all /\ part \in SUBSET all
    OBVIOUS
  <2> HIDE DEF both
  <2>2. N!Sum(f, part \cup {x}) = f[x] + N!Sum(f, part) /\ N!Sum(f, both \cup {x}) = f[x] + N!Sum(f, both)
    BY <1>0, <2>1, SumAdd
  <2>3. N!Sum(f, both) = N!Sum(f, left) + N!Sum(f, part)
    BY DEF both
  <2>4. f[x] \in Int /\ N!Sum(f, part) \in Int /\ N!Sum(f, left) \in Int
    BY <1>0, <2>1
  <2>5. N!Sum(f, left \cup (part \cup {x})) = N!Sum(f, left) + N!Sum(f, part \cup {x})
    <3>1. N!Sum(f, left \cup (part \cup {x})) = N!Sum(f, both \cup {x})
      BY <2>1
    <3> QED BY <2>2, <2>3, <2>4, <3>1
  <2> QED BY <2>5
<1>3. fine = SUBSET right
  <2> HIDE DEF fine
  <2>1. fine \in SUBSET SUBSET right
    BY DEF fine
  <2> QED BY <1>0, <1>1, <1>2, <2>1, Gather
<1> QED BY <1>3

LEMMA SumOne ==
  ASSUME NEW f, NEW x, f[x] \in Int
  PROVE  N!Sum(f, {x}) = f[x]
<1>1. IsFiniteSet({}) /\ {} \cup {x} = {x} /\ N!Sum(f, {}) = 0
  BY FS_EmptySet, SumEmpty
<1>2. N!Sum(f, {} \cup {x}) = f[x] + N!Sum(f, {})
  BY <1>1, SumAdd
<1> QED BY <1>1, <1>2

Rows(c) == {s \in N!Sources : s[1] = c}

\* A sum over classes of the sums over their rows is the sum over all rows.
LEMMA SumByClass ==
  ASSUME NEW f, NEW g, IsFiniteSet(N!Sources), \A s \in N!Sources : f[s] \in Int,
         NEW cs, IsFiniteSet(cs), \A c \in cs : g[c] = N!Sum(f, Rows(c))
  PROVE  N!Sum(g, cs) = N!Sum(f, {s \in N!Sources : s[1] \in cs})
<1> DEFINE of(part) == {s \in N!Sources : s[1] \in part}
           fine == {part \in SUBSET cs : N!Sum(g, part) = N!Sum(f, of(part))}
<1>0. \A c : Rows(c) \in SUBSET N!Sources /\ N!Sum(f, Rows(c)) \in Int
  <2>1. \A c : Rows(c) \in SUBSET N!Sources
    BY DEF Rows
  <2> QED BY <2>1, SumType
<1>1. {} \in fine
  <2>1. of({}) = {}
    OBVIOUS
  <2> QED BY <2>1, SumEmpty
<1>2. ASSUME NEW part \in fine, NEW c \in cs \ part
      PROVE  part \cup {c} \in fine
  <2>1. of(part \cup {c}) = of(part) \cup Rows(c) /\ of(part) \cap Rows(c) = {} /\ of(part) \in SUBSET N!Sources
    BY DEF Rows
  <2>2. N!Sum(f, of(part) \cup Rows(c)) = N!Sum(f, of(part)) + N!Sum(f, Rows(c))
    <3> HIDE DEF of
    <3> QED BY <1>0, <2>1, SumUnion
  <2>3. \A e \in cs : g[e] \in Int
    BY <1>0
  <2>4. N!Sum(g, part \cup {c}) = g[c] + N!Sum(g, part)
    BY <2>3, SumAdd, FS_Subset
  <2>5. N!Sum(f, of(part)) \in Int /\ N!Sum(g, part) = N!Sum(f, of(part))
    BY <2>1, SumType
  <2> HIDE DEF of
  <2>6. N!Sum(g, part \cup {c}) = N!Sum(f, of(part \cup {c}))
    <3>1. N!Sum(f, of(part \cup {c})) = N!Sum(f, of(part) \cup Rows(c))
      BY <2>1
    <3> QED BY <1>0, <2>2, <2>4, <2>5, <3>1
  <2> QED BY <2>6 DEF of
<1>3. fine = SUBSET cs
  <2> HIDE DEF fine
  <2>1. fine \in SUBSET SUBSET cs
    BY DEF fine
  <2> QED BY <1>1, <1>2, <2>1, Gather
<1> QED BY <1>3

-----------------------------------------------------------------------------
(* NetWorth: what its operators return *)

\* What the constants promise. The instance's notion of a finite set is that of FiniteSets.
LEMMA Given == N!NetWorthAssumption /\ IsFiniteSet(N!Sources)
<1>1. \A x : N!IsFiniteSet(x) = IsFiniteSet(x)
  BY DEF N!IsFiniteSet, IsFiniteSet
<1> QED BY <1>1, MachinesAssumption DEF N!NetWorthAssumption

LEMMA ClassesFinite == IsFiniteSet(N!Classes) /\ IsFiniteSet(N!Sources)
<1> DEFINE named(part) == {s[1] : s \in part}
           fine == {part \in SUBSET N!Sources : IsFiniteSet(named(part))}
<1>0. IsFiniteSet(N!Sources)
  BY Given DEF N!NetWorthAssumption
<1>1. {} \in fine
  <2>1. named({}) = {}
    OBVIOUS
  <2> QED BY <2>1, FS_EmptySet
<1>2. ASSUME NEW part \in fine, NEW x \in N!Sources \ part
      PROVE  part \cup {x} \in fine
  <2>1. named(part \cup {x}) = named(part) \cup {x[1]}
    OBVIOUS
  <2>2. IsFiniteSet(named(part) \cup {x[1]})
    <3>1. IsFiniteSet(named(part))
      OBVIOUS
    <3> HIDE DEF named
    <3> QED BY <3>1, FS_AddElement
  <2>3. part \cup {x} \in SUBSET N!Sources
    OBVIOUS
  <2> QED BY <2>1, <2>2, <2>3
<1>3. fine = SUBSET N!Sources
  <2> HIDE DEF fine
  <2>1. fine \in SUBSET SUBSET N!Sources
    BY DEF fine
  <2> QED BY <1>0, <1>1, <1>2, <2>1, Gather
<1>4. N!Sources \in fine
  <2> HIDE DEF fine
  <2> QED BY <1>3
<1>5. IsFiniteSet(named(N!Sources))
  BY <1>4
<1> QED BY <1>0, <1>5 DEF N!Classes

LEMMA RowsSubsets ==
  ASSUME N!TypeOK, NEW c
  PROVE  N!Held(c) \subseteq Rows(c) /\ N!Valued(c) \subseteq N!Held(c) /\ N!Counted(c) \subseteq N!Valued(c)
         /\ Rows(c) \in SUBSET N!Sources
BY DEF N!Held, N!Valued, N!Counted, Rows

LEMMA ValuesType ==
  ASSUME N!TypeOK, NEW S \in SUBSET N!Sources, \A s \in S : cell[s].value \in Int
  PROVE  N!Values(S) \in Int
<1> DEFINE v == [s \in S |-> cell[s].value]
<1>1. IsFiniteSet(S) /\ \A s \in S : v[s] \in Int
  BY ClassesFinite, FS_Subset
<1>2. N!Sum(v, S) \in Int
  <2> HIDE DEF v
  <2> QED BY <1>1, SumType
<1> QED BY <1>2 DEF N!Values

LEMMA ValuedType ==
  ASSUME N!TypeOK, NEW c
  PROVE  N!Values(N!Valued(c)) \in Int /\ N!Values(N!Counted(c)) \in Int
<1>1. \A s \in N!Valued(c) : s \in N!Sources /\ cell[s].value \in Int
  BY DEF N!TypeOK, N!Valued, N!Held
<1>2. N!Counted(c) \subseteq N!Valued(c)
  BY DEF N!Counted
<1> QED BY <1>1, <1>2, ValuesType

LEMMA OwedType == \A S \in SUBSET N!Sources : N!Sum(CardOwed, S) \in Int
<1>1. \A s \in N!Sources : CardOwed[s] \in Int
  BY Given DEF N!NetWorthAssumption
<1> QED BY <1>1, ClassesFinite, SumType

TheRow(c) == CHOOSE x \in N!Sources : x[1] = c
LEMMA TheRowType ==
  ASSUME NEW c \in N!Classes
  PROVE  TheRow(c) \in N!Sources /\ TheRow(c)[1] = c
BY DEF TheRow, N!Classes

LEMMA ReadingType ==
  ASSUME N!TypeOK, NEW c \in N!Classes
  PROVE  N!Reading(c).value \in Int
<1>0. TheRow(c) \in N!Sources /\ cell[TheRow(c)].value \in Int \cup {None}
  BY TheRowType DEF N!TypeOK
<1>1. N!BankReading.value \in Int
  <2> DEFINE net(S) == N!Values(S) - (IF N!DebtsUsable THEN 0 ELSE N!Sum(CardOwed, S))
  <2>1. N!Valued("bank") \in SUBSET N!Sources /\ N!Counted("bank") \in SUBSET N!Sources
    BY DEF N!Valued, N!Held, N!Counted
  <2>2. net(N!Valued("bank")) \in Int /\ net(N!Counted("bank")) \in Int
    BY <2>1, ValuedType, OwedType
  <2> QED BY <2>2 DEF N!BankReading
<1>2. N!CachedReading(c).value \in Int
  BY <1>0 DEF N!CachedReading, TheRow
<1>3. N!SingleReading(c).value \in Int
  BY <1>0 DEF N!SingleReading, TheRow
<1>4. N!Rollup(c).value \in Int
  BY ValuedType DEF N!Rollup
<1>5. N!Values(N!Valued(c)) \in Int
  BY ValuedType
<1> QED BY <1>1, <1>2, <1>3, <1>4, <1>5 DEF N!Reading

LEMMA TotalType ==
  ASSUME N!TypeOK
  PROVE  N!Total \in Int
<1> DEFINE t == [c \in N!Classes |-> IF N!Reading(c).status \notin N!Included THEN 0
                                     ELSE IF c = "debts" THEN -N!Reading(c).value ELSE N!Reading(c).value]
<1>1. \A c \in N!Classes : t[c] \in Int
  BY ReadingType
<1>2. N!Sum(t, N!Classes) \in Int
  <2> HIDE DEF t
  <2> QED BY <1>1, ClassesFinite, SumType
<1> QED BY <1>2 DEF N!Total

LEMMA AnswersType ==
  ASSUME N!TypeOK, NEW c \in N!Classes, NEW got \in N!Answers(c) \cup {[s \in N!Held(c) |-> None]}
  PROVE  N!Answered([class |-> c, got |-> got])
<1>0. N!Held(c) \subseteq N!Sources /\ \A s \in N!Held(c) : worth[s] \in Int
  BY DEF N!Held, N!TypeOK
<1> DEFINE fine(f, e) == DOMAIN f = N!Held(e) /\ \A s \in N!Held(e) : f[s] \in Int \cup {None}
<1>1. \A f \in N!Whole(c) : fine(f, c)
  BY <1>0 DEF N!Whole
<1>2. c = "crypto" => \A f \in N!Crypto : fine(f, c)
  BY <1>0 DEF N!Crypto
<1>3. c = "defi" => \A f \in N!Defi : fine(f, c)
  BY <1>0, Given DEF N!Defi, N!NetWorthAssumption
<1>4. \A f \in N!PerRow(c) : fine(f, c)
  BY <1>0 DEF N!PerRow
<1>5. fine(got, c)
  <2>1. CASE got \in N!Answers(c)
    BY <1>1, <1>2, <1>3, <1>4, <2>1 DEF N!Answers, N!DebtProfile
  <2>2. CASE got = [s \in N!Held(c) |-> None]
    BY <2>2
  <2> QED BY <2>1, <2>2
<1> QED BY <1>0, <1>5 DEF N!Answered

-----------------------------------------------------------------------------
(* A total that is neither degraded nor flawed is what the rows last read.  *)

LEMMA RealType ==
  ASSUME NEW f, \A s \in N!Sources : f[s] \in Int
  PROVE  N!RealWorth(f) \in Int
<1>1. N!Sources \ N!Owing \in SUBSET N!Sources /\ N!Owing \in SUBSET N!Sources /\ {s \in N!Sources : s[1] = "bank"} \in SUBSET N!Sources
  BY DEF N!Owing
<1>2. N!Sum(f, N!Sources \ N!Owing) \in Int /\ N!Sum(f, N!Owing) \in Int /\ N!Sum(CardOwed, {s \in N!Sources : s[1] = "bank"}) \in Int
  BY <1>1, ClassesFinite, SumType, OwedType
<1> QED BY <1>2 DEF N!RealWorth

LEMMA RealGrows ==
  ASSUME NEW f, NEW g, \A s \in N!Sources : f[s] \in Int /\ g[s] \in Int /\ f[s] <= g[s],
         \A s \in N!Owing : f[s] = g[s]
  PROVE  N!RealWorth(f) <= N!RealWorth(g)
<1> DEFINE own == N!Sources \ N!Owing
           banks == {s \in N!Sources : s[1] = "bank"}
<1>1. IsFiniteSet(own) /\ IsFiniteSet(N!Owing) /\ own \subseteq N!Sources /\ banks \in SUBSET N!Sources /\ N!Owing \subseteq N!Sources
  BY ClassesFinite, FS_Subset DEF N!Owing
<1> HIDE DEF own, banks
<1>2. N!Sum(f, own) <= N!Sum(g, own)
  BY <1>1, SumGrows
<1>3. N!Sum(f, N!Owing) = N!Sum(g, N!Owing)
  BY <1>1, SumSame
<1>4. N!Sum(f, own) \in Int /\ N!Sum(g, own) \in Int /\ N!Sum(f, N!Owing) \in Int
  BY <1>1, ClassesFinite, SumType
<1>5. N!Sum(CardOwed, banks) \in Int
  BY <1>1, OwedType
<1> QED BY <1>2, <1>3, <1>4, <1>5 DEF N!RealWorth, own, banks

\* What the rows last read.
Last == [s \in N!Sources |-> cell[s].value]
\* What a class adds to a total that counts all of it.
Share(c) == IF c = "debts" THEN -N!Sum(Last, Rows(c))
            ELSE N!Sum(Last, Rows(c)) - (IF c = "bank" /\ N!Owing = {} THEN N!Sum(CardOwed, Rows(c)) ELSE 0)

LEMMA WholeClass ==
  ASSUME N!TypeOK, ~N!Degraded, ~N!Flawed, NEW c \in N!Classes
  PROVE  /\ N!Reading(c).status \in N!Included
         /\ \A s \in Rows(c) : /\ s \notin off /\ cell[s].value \in Int /\ ~N!Expired(s)
                               /\ Opening[s] <= cell[s].value /\ cell[s].value <= worth[s]
<1>1. N!Reading(c).status \in N!Included
  BY DEF N!Degraded, N!Flawed
<1>2. ASSUME NEW s \in Rows(c)
      PROVE  /\ s \notin off /\ cell[s].value \in Int /\ ~N!Expired(s)
             /\ Opening[s] <= cell[s].value /\ cell[s].value <= worth[s]
  <2>1. s \in N!Sources /\ s[1] = c
    BY DEF Rows
  <2>2. s \notin off /\ cell[s].value # None /\ ~N!Expired(s)
        /\ ~(cell[s].value < Opening[s]) /\ ~(cell[s].value > worth[s])
    BY <1>1, <2>1 DEF N!Flawed
  <2>3. cell[s].value \in Int /\ Opening[s] \in Int /\ worth[s] \in Int
    BY <2>1, <2>2, Given DEF N!TypeOK, N!NetWorthAssumption
  <2> QED BY <2>2, <2>3
<1> QED BY <1>1, <1>2

LEMMA AllCounted ==
  ASSUME N!TypeOK, ~N!Degraded, ~N!Flawed, NEW c \in N!Classes
  PROVE  N!Held(c) = Rows(c) /\ N!Valued(c) = Rows(c) /\ N!Counted(c) = Rows(c) /\ Rows(c) # {}
         /\ N!Values(Rows(c)) = N!Sum(Last, Rows(c))
<1>1. \A s \in Rows(c) : s \notin off /\ cell[s].value \in Int /\ ~N!Expired(s)
  BY WholeClass
<1>2. N!Held(c) = Rows(c)
  BY <1>1 DEF N!Held, Rows
<1>3. N!Valued(c) = Rows(c)
  <2>1. None \notin Int
    BY Given DEF N!NetWorthAssumption
  <2> QED BY <1>1, <1>2, <2>1 DEF N!Valued
<1>4. N!Counted(c) = Rows(c)
  BY <1>1, <1>3 DEF N!Counted
<1>5. Rows(c) # {}
  BY DEF Rows, N!Classes
<1>6. N!Values(Rows(c)) = N!Sum(Last, Rows(c))
  <2> DEFINE v == [s \in Rows(c) |-> cell[s].value]
  <2>1. Rows(c) \subseteq N!Sources /\ IsFiniteSet(Rows(c))
    BY ClassesFinite, FS_Subset DEF Rows
  <2>2. \A s \in Rows(c) : v[s] = Last[s]
    BY <2>1 DEF Last
  <2>3. N!Sum(v, Rows(c)) = N!Sum(Last, Rows(c))
    <3> HIDE DEF v
    <3> QED BY <2>1, <2>2, SumSame
  <2> QED BY <2>3 DEF N!Values
<1> QED BY <1>2, <1>3, <1>4, <1>5, <1>6

\* The one row of a class that is not rolled up.
LEMMA OneRow ==
  ASSUME N!TypeOK, ~N!Degraded, ~N!Flawed, NEW c \in N!Classes \cap (N!Cached \cup N!Single)
  PROVE  cell[TheRow(c)].value = N!Sum(Last, Rows(c)) /\ TheRow(c) \in Rows(c)
<1>1. TheRow(c) \in N!Sources /\ TheRow(c)[1] = c
  BY TheRowType
<1>2. Rows(c) = {TheRow(c)}
  BY <1>1, Given DEF Rows, N!NetWorthAssumption
<1>3. Last[TheRow(c)] = cell[TheRow(c)].value /\ cell[TheRow(c)].value \in Int
  BY <1>1, <1>2, WholeClass DEF Last
<1> QED BY <1>2, <1>3, SumOne

LEMMA BureauCounts ==
  ASSUME N!TypeOK, ~N!Degraded, ~N!Flawed
  PROVE  N!DebtsUsable <=> N!Owing # {}
<1>1. "debts" \in N!Classes <=> N!Owing # {}
  BY DEF N!Classes, N!Owing
<1>2. "debts" \in N!Classes => N!CachedReading("debts").status \in N!Included
  <2>1. N!Reading("debts") = N!CachedReading("debts")
    BY DEF N!Reading, N!Cached, N!Single, N!SelfReported
  <2> QED BY <2>1, WholeClass
<1> QED BY <1>1, <1>2 DEF N!DebtsUsable

LEMMA FullReading ==
  ASSUME N!TypeOK, ~N!Degraded, ~N!Flawed, NEW c \in N!Classes
  PROVE  (IF c = "debts" THEN -N!Reading(c).value ELSE N!Reading(c).value) = Share(c)
<1>0. N!Held(c) = Rows(c) /\ N!Valued(c) = Rows(c) /\ N!Counted(c) = Rows(c) /\ Rows(c) # {}
      /\ N!Values(Rows(c)) = N!Sum(Last, Rows(c)) /\ N!Reading(c).status \in N!Included
  BY AllCounted, WholeClass
<1>00. N!Sum(Last, Rows(c)) \in Int
  <2>1. \A s \in Rows(c) : s \in N!Sources /\ cell[s].value \in Int
    BY WholeClass DEF Rows
  <2>2. IsFiniteSet(Rows(c)) /\ \A s \in Rows(c) : Last[s] \in Int
    BY <2>1, ClassesFinite, FS_Subset DEF Rows, Last
  <2> QED BY <2>2, SumType
<1>1. CASE c = "bank"
  <2>1. N!BankReading.value = N!Values(Rows(c)) - (IF N!DebtsUsable THEN 0 ELSE N!Sum(CardOwed, Rows(c)))
    BY <1>0, <1>1 DEF N!BankReading
  <2>2. N!Reading(c) = N!BankReading
    BY <1>1 DEF N!Reading, N!Cached, N!Single, N!SelfReported
  <2> QED BY <1>0, <1>1, <2>1, <2>2, BureauCounts DEF Share
<1>2. CASE c \in N!Cached \cup N!Single
  <2>1. cell[TheRow(c)].value = N!Sum(Last, Rows(c)) /\ TheRow(c) \in Rows(c)
    BY <1>2, OneRow
  <2>2. TheRow(c) \notin off /\ cell[TheRow(c)].value \in Int
    BY <2>1, WholeClass
  <2>3. cell[TheRow(c)] # N!Unread /\ cell[TheRow(c)].value # None
    BY <2>2, Given DEF N!Unread, N!NetWorthAssumption
  <2>4. N!CachedReading(c).value = cell[TheRow(c)].value /\ N!SingleReading(c).value = cell[TheRow(c)].value
    BY <2>2, <2>3 DEF N!CachedReading, N!SingleReading, TheRow
  <2>5. N!Reading(c) = N!CachedReading(c) \/ N!Reading(c) = N!SingleReading(c)
    BY <1>2 DEF N!Reading, N!Cached, N!Single, N!SelfReported
  <2>6. c # "bank"
    BY <1>2 DEF N!Cached, N!Single
  <2> QED BY <1>00, <2>1, <2>4, <2>5, <2>6 DEF Share
<1>3. CASE c \in N!SelfReported
  <2>1. N!Reading(c).value = N!Values(Rows(c)) /\ c # "bank" /\ c # "debts"
    BY <1>0, <1>3 DEF N!Reading, N!SelfReported, N!Cached, N!Single
  <2> QED BY <1>0, <1>00, <2>1 DEF Share
<1>4. CASE c = "vinyl"
  <2>1. N!Reading(c).status = "stale_excluded"
    BY <1>0, <1>4 DEF N!Reading, N!SelfReported, N!Cached, N!Single
  <2> QED BY <1>0, <2>1 DEF N!Included
<1>5. CASE c \notin {"bank", "vinyl"} \cup N!Cached \cup N!Single \cup N!SelfReported
  <2>1. N!Reading(c) = N!Rollup(c) /\ c # "debts"
    BY <1>5 DEF N!Reading, N!Cached, N!Single, N!SelfReported
  <2>2. N!Rollup(c).value = N!Values(Rows(c))
    BY <1>0 DEF N!Rollup
  <2> QED BY <1>0, <1>00, <1>5, <2>1, <2>2 DEF Share
<1> QED BY <1>1, <1>2, <1>3, <1>4, <1>5

LEMMA TotalIsLast ==
  ASSUME N!TypeOK, ~N!Degraded, ~N!Flawed
  PROVE  N!Total = N!RealWorth(Last)
<1> DEFINE t == [c \in N!Classes |-> IF N!Reading(c).status \notin N!Included THEN 0
                                     ELSE IF c = "debts" THEN -N!Reading(c).value ELSE N!Reading(c).value]
           g == [c \in N!Classes |-> N!Sum(Last, Rows(c))]
           own == N!Classes \ {"debts"}
           banks == {s \in N!Sources : s[1] = "bank"}
<1>1. N!Total = N!Sum(t, N!Classes)
  BY DEF N!Total
<1>2. \A c \in N!Classes : t[c] = Share(c)
  BY WholeClass, FullReading
<1>3. \A s \in N!Sources : Last[s] \in Int
  <2> TAKE s \in N!Sources
  <2>1. s[1] \in N!Classes /\ s \in Rows(s[1])
    BY DEF N!Classes, Rows
  <2> QED BY <2>1, WholeClass DEF Last
<1>4. \A c \in N!Classes : g[c] = N!Sum(Last, Rows(c)) /\ g[c] \in Int
  BY <1>3, ClassesFinite, SumType DEF Rows
<1>5. \A c \in N!Classes : t[c] \in Int
  <2> HIDE DEF t
  <2>1. \A c \in N!Classes : Rows(c) \in SUBSET N!Sources
    BY DEF Rows
  <2>2. \A c \in N!Classes : N!Sum(Last, Rows(c)) \in Int /\ N!Sum(CardOwed, Rows(c)) \in Int
    BY <1>3, <2>1, ClassesFinite, SumType, OwedType
  <2> QED BY <1>2, <2>2 DEF Share
<1>6. IsFiniteSet(own) /\ IsFiniteSet(own \ {"bank"})
  BY ClassesFinite, FS_Subset
<1>7. N!Sum(g, own) = N!Sum(Last, N!Sources \ N!Owing)
  <2>1. \A c \in own : g[c] = N!Sum(Last, Rows(c))
    BY <1>4
  <2>2. {s \in N!Sources : s[1] \in own} = N!Sources \ N!Owing
    BY DEF N!Classes, N!Owing
  <2>3. N!Sum(g, own) = N!Sum(Last, {s \in N!Sources : s[1] \in own})
    <3> HIDE DEF g, own
    <3> QED BY <1>3, <1>6, <2>1, ClassesFinite, SumByClass
  <2> QED BY <2>2, <2>3
<1>9. \A c \in own : (c # "bank" \/ N!Owing # {}) => t[c] = g[c]
  <2> SUFFICES ASSUME NEW c \in own, c # "bank" \/ N!Owing # {}
               PROVE  t[c] = g[c]
    OBVIOUS
  <2>1. c \in N!Classes /\ c # "debts" /\ t[c] = Share(c) /\ g[c] = N!Sum(Last, Rows(c)) /\ g[c] \in Int
    BY <1>2, <1>4
  <2> HIDE DEF t, g
  <2> QED BY <2>1 DEF Share
<1>10. N!Sum(t, own \ {"bank"}) = N!Sum(g, own \ {"bank"})
  <2> HIDE DEF t, g, own
  <2> QED BY <1>6, <1>9, SumSame
<1>11. N!Sum(t, own \ {"bank"}) \in Int /\ N!Sum(g, own) \in Int
  <2>1. own \ {"bank"} \in SUBSET N!Classes /\ own \in SUBSET N!Classes
    OBVIOUS
  <2> HIDE DEF t, g, own
  <2> QED BY <1>4, <1>5, <2>1, ClassesFinite, SumType
<1>12. CASE N!Owing # {}
  <2>1. "debts" \in N!Classes
    BY <1>12 DEF N!Owing, N!Classes
  <2>2. t["debts"] = -N!Sum(Last, N!Owing)
    <3>1. Rows("debts") = N!Owing
      BY DEF Rows, N!Owing
    <3> HIDE DEF t
    <3> QED BY <1>2, <2>1, <3>1 DEF Share
  <2>3. N!Sum(t, N!Classes) = t["debts"] + N!Sum(t, own)
    <3> HIDE DEF t
    <3> QED BY <1>5, <2>1, ClassesFinite, SumOut
  <2>4. N!Sum(t, own) = N!Sum(g, own)
    <3> HIDE DEF t, g, own
    <3> QED BY <1>6, <1>9, <1>12, SumSame
  <2>5. N!Sum(Last, N!Owing) \in Int
    BY <1>3, ClassesFinite, SumType DEF N!Owing
  <2> HIDE DEF t, g, own
  <2> QED BY <1>1, <1>7, <1>11, <1>12, <2>2, <2>3, <2>4, <2>5 DEF N!RealWorth
<1>13. CASE N!Owing = {}
  <2>1. own = N!Classes
    BY <1>13 DEF N!Owing, N!Classes
  <2>2. CASE "bank" \in N!Classes
    <3>1. t["bank"] = g["bank"] - N!Sum(CardOwed, banks)
      <4>1. Rows("bank") = banks /\ g["bank"] = N!Sum(Last, Rows("bank"))
        BY <2>2 DEF Rows
      <4> HIDE DEF t
      <4> QED BY <1>2, <1>13, <2>2, <4>1 DEF Share
    <3>2. N!Sum(t, N!Classes) = t["bank"] + N!Sum(t, own \ {"bank"}) /\ N!Sum(g, N!Classes) = g["bank"] + N!Sum(g, own \ {"bank"})
      <4>1. N!Sum(t, N!Classes) = t["bank"] + N!Sum(t, N!Classes \ {"bank"})
        <5> HIDE DEF t
        <5> QED BY <1>5, <2>2, ClassesFinite, SumOut
      <4>2. N!Sum(g, N!Classes) = g["bank"] + N!Sum(g, N!Classes \ {"bank"})
        <5> HIDE DEF g
        <5> QED BY <1>4, <2>2, ClassesFinite, SumOut
      <4> HIDE DEF t, g, own
      <4> QED BY <2>1, <4>1, <4>2
    <3>3. g["bank"] \in Int /\ N!Sum(CardOwed, banks) \in Int
      BY <1>4, <2>2, OwedType
    <3> HIDE DEF t, g, own, banks
    <3>4. N!Total = N!Sum(g, own) - N!Sum(CardOwed, banks)
      BY <1>1, <1>10, <1>11, <2>1, <3>1, <3>2, <3>3
    <3> QED BY <1>7, <1>13, <3>4 DEF N!RealWorth, banks
  <2>3. CASE "bank" \notin N!Classes
    <3>1. own \ {"bank"} = N!Classes /\ banks = {}
      BY <2>1, <2>3 DEF N!Classes
    <3>2. N!Sum(CardOwed, banks) = 0
      BY <3>1, SumEmpty
    <3> HIDE DEF t, g, own
    <3>3. N!Total = N!Sum(g, own) - 0
      <4>1. own \ {"bank"} = own /\ own = N!Classes
        BY <2>1, <3>1
      <4>2. N!Sum(t, N!Classes) = N!Sum(t, own \ {"bank"}) /\ N!Sum(g, own \ {"bank"}) = N!Sum(g, own)
        BY <4>1
      <4> QED BY <1>1, <1>10, <1>11, <4>2
    <3> HIDE DEF banks
    <3>4. N!Total = N!Sum(Last, N!Sources \ N!Owing) - N!Sum(CardOwed, banks)
      BY <1>7, <3>2, <3>3
    <3> QED BY <1>13, <3>4 DEF N!RealWorth, banks
  <2> QED BY <2>2, <2>3
<1> QED BY <1>12, <1>13

-----------------------------------------------------------------------------
(* No step of the pass saves what the user was never worth.                *)

\* The opening worth is a floor, and what is owed stays as it is.
Floor == \A s \in N!Sources : Opening[s] <= worth[s] /\ (s \in N!Owing => worth[s] = Opening[s])
\* A pass that may still save holds a total that was real, or it was flawed.
HonestTotal(a) ==
  job[a].pc = "baseline" \/ (job[a].pc = "goals" /\ ~job[a].degraded) =>
    N!RealWorth(Opening) <= job[a].total /\ job[a].total <= N!RealWorth(worth)
HonestBaseline == baseline # None => N!RealWorth(Opening) <= baseline /\ baseline <= N!RealWorth(worth)
Honest ==
  ~flawed => (\A a \in Passes : HonestTotal(a)) /\ HonestBaseline
WorthInv == N!TypeOK /\ Floor /\ Honest

LEMMA WorthInit == N!Init => WorthInv
<1> SUFFICES ASSUME N!Init
             PROVE  WorthInv
  OBVIOUS
<1>1. N!TypeOK
  <2>1. MaxAge \in Nat /\ MaxEarned \in Nat /\ Opening \in [N!Sources -> Int]
    BY Given DEF N!NetWorthAssumption
  <2>2. cell \in [N!Sources -> [value : Int \cup {None}, age : 0..MaxAge, error : Errors \cup {None}]]
    <3> DEFINE read(s) == IF s \in Known THEN [N!Unread EXCEPT !.value = Opening[s]] ELSE N!Unread
    <3>1. cell = [s \in N!Sources |-> read(s)]
      BY DEF N!Init
    <3>2. \A s \in N!Sources : read(s) \in [value : Int \cup {None}, age : 0..MaxAge, error : Errors \cup {None}]
      BY <2>1 DEF N!Unread
    <3> HIDE DEF read
    <3> QED BY <3>1, <3>2
  <2>3. job \in [Passes -> [pc : {"idle", "goals", "baseline"}, total : Int \cup {None}, degraded : BOOLEAN,
                             prev : Int \cup {None}]]
        /\ \A a \in Passes : job[a].pc = "idle"
    BY DEF N!Init, N!Idle
  <2>4. /\ worth \in [N!Sources -> Int] /\ off \subseteq N!Sources /\ baseline = None
        /\ earned = 0 /\ flawed \in BOOLEAN
    BY <2>1 DEF N!Init
  <2>5. DOMAIN call = Callers /\ \A a \in Callers : call[a] = None
    BY DEF N!Init
  <2> QED BY <2>1, <2>2, <2>3, <2>4, <2>5 DEF N!TypeOK
<1>2. Floor
  BY Given DEF N!Init, Floor, N!NetWorthAssumption
<1>3. Honest
  BY DEF N!Init, Honest, HonestTotal, HonestBaseline, N!Idle
<1> QED BY <1>1, <1>2, <1>3 DEF WorthInv

\* Everything real is an integer while the types hold.
LEMMA RealNow == N!TypeOK => N!RealWorth(worth) \in Int /\ N!RealWorth(Opening) \in Int
BY RealType, Given DEF N!TypeOK, N!NetWorthAssumption

\* The real worth never falls.
LEMMA WorthRises ==
  ASSUME N!TypeOK, N!TypeOK', Floor, Floor', worth' = worth \/ \A s \in N!Sources : worth[s] <= worth'[s]
  PROVE  N!RealWorth(worth) <= N!RealWorth(worth')
<1>1. PICK f : f = worth
  OBVIOUS
<1>2. PICK g : g = worth'
  OBVIOUS
<1>3. \A s \in N!Sources : f[s] \in Int /\ g[s] \in Int /\ f[s] <= g[s]
  BY <1>1, <1>2 DEF N!TypeOK
<1>4. \A s \in N!Owing : f[s] = g[s]
  BY <1>1, <1>2 DEF Floor, N!Owing
<1>5. N!RealWorth(f) <= N!RealWorth(g)
  BY <1>3, <1>4, RealGrows
<1> QED BY <1>1, <1>2, <1>5

\* What is already honest stays so while the real worth does not fall.
LEMMA StaysHonest ==
  ASSUME WorthInv, N!TypeOK', Floor', worth' = worth \/ \A s \in N!Sources : worth[s] <= worth'[s], ~flawed
  PROVE  /\ \A a \in Passes : job'[a] = job[a] => HonestTotal(a)'
         /\ baseline' = baseline => HonestBaseline'
<1>0. N!TypeOK /\ Floor /\ Honest
  BY DEF WorthInv
<1>1. N!RealWorth(worth) <= N!RealWorth(worth')
  BY <1>0, WorthRises
<1>2. N!RealWorth(worth) \in Int /\ N!RealWorth(worth') \in Int /\ N!RealWorth(Opening) \in Int
  <2>1. PICK g : g = worth'
    OBVIOUS
  <2>2. \A s \in N!Sources : g[s] \in Int
    BY <2>1 DEF N!TypeOK
  <2> QED BY <1>0, <2>1, <2>2, RealNow, RealType
<1>3. PICK low, now, then : low = N!RealWorth(Opening) /\ now = N!RealWorth(worth) /\ then = N!RealWorth(worth')
  OBVIOUS
<1>4. low \in Int /\ now \in Int /\ then \in Int /\ now <= then
  BY <1>1, <1>2, <1>3
<1>5. ASSUME NEW a \in Passes, job'[a] = job[a]
      PROVE  HonestTotal(a)'
  <2>1. job[a].pc = "baseline" \/ (job[a].pc = "goals" /\ ~job[a].degraded) => low <= job[a].total /\ job[a].total <= now
    BY <1>0, <1>3 DEF Honest, HonestTotal
  <2>2. job[a].pc \in {"goals", "baseline"} => job[a].total \in Int
    <3>1. job[a].total \in Int \cup {None} /\ (job[a].pc # "idle" => job[a].total # None)
      BY <1>0 DEF N!TypeOK
    <3> QED BY <3>1
  <2>3. job'[a].pc = "baseline" \/ (job'[a].pc = "goals" /\ ~job'[a].degraded) => low <= job'[a].total /\ job'[a].total <= then
    BY <1>4, <1>5, <2>1, <2>2
  <2> QED BY <1>3, <2>3 DEF HonestTotal
<1>6. ASSUME baseline' = baseline
      PROVE  HonestBaseline'
  <2>1. baseline # None => baseline \in Int /\ low <= baseline /\ baseline <= now
    BY <1>0, <1>3 DEF Honest, HonestBaseline, N!TypeOK
  <2>2. baseline' # None => low <= baseline' /\ baseline' <= then
    BY <1>4, <1>6, <2>1
  <2> QED BY <1>3, <2>2 DEF HonestBaseline
<1> QED BY <1>5, <1>6

LEMMA WorthTypes == N!TypeOK /\ [N!Next]_N!vars => N!TypeOK'
<1> SUFFICES ASSUME N!TypeOK, [N!Next]_N!vars
             PROVE  N!TypeOK'
  OBVIOUS
<1> USE Given DEF N!TypeOK
<1>1. ASSUME NEW a \in Callers, N!Store(a)
      PROVE  N!TypeOK'
  <2>1. PICK err \in Errors : cell' = [s \in N!Sources |->
          IF s \notin DOMAIN call[a].got \/ s \in off THEN cell[s]
          ELSE IF call[a].got[s] = None THEN N!RecordFailure(s, err) ELSE N!RecordSuccess(call[a].got[s])]
    BY <1>1 DEF N!Store
  <2>2. N!Answered(call[a])
    BY <1>1 DEF N!Store
  <2>3. MaxAge \in Nat
    BY DEF N!NetWorthAssumption
  <2>4. cell' \in [N!Sources -> [value : Int \cup {None}, age : 0..MaxAge, error : Errors \cup {None}]]
    <3>1. ASSUME NEW s \in N!Sources
          PROVE  cell'[s] \in [value : Int \cup {None}, age : 0..MaxAge, error : Errors \cup {None}]
      <4>1. N!RecordFailure(s, err) \in [value : Int \cup {None}, age : 0..MaxAge, error : Errors \cup {None}]
        BY DEF N!RecordFailure
      <4>2. ASSUME s \in DOMAIN call[a].got, call[a].got[s] # None
            PROVE  N!RecordSuccess(call[a].got[s]) \in [value : Int \cup {None}, age : 0..MaxAge, error : Errors \cup {None}]
        BY <2>2, <2>3, <4>2 DEF N!RecordSuccess, N!Answered
      <4> QED BY <2>1, <4>1, <4>2
    <3> QED BY <2>1, <3>1
  <2> QED BY <1>1, <2>4 DEF N!Store
<1>2. ASSUME NEW a \in Callers, NEW c \in N!Classes, N!Fetch(a, c)
      PROVE  N!TypeOK'
  <2>1. PICK got \in N!Answers(c) \cup {[s \in N!Held(c) |-> None]} : call' = [call EXCEPT ![a] = [class |-> c, got |-> got]]
    BY <1>2 DEF N!Fetch
  <2>2. N!Answered([class |-> c, got |-> got])
    BY AnswersType
  <2> QED BY <1>2, <2>1, <2>2 DEF N!Fetch
<1>3. ASSUME NEW a \in Passes, N!Assemble(a)
      PROVE  N!TypeOK'
  <2>1. N!Total \in Int /\ N!Total # None /\ N!Degraded \in BOOLEAN
    BY TotalType DEF N!Degraded, N!NetWorthAssumption
  <2> QED BY <1>3, <2>1 DEF N!Assemble, N!Idle
<1>4. ASSUME NEW a \in Passes, N!ReadBaseline(a)
      PROVE  N!TypeOK'
  BY <1>4 DEF N!ReadBaseline
<1>5. ASSUME NEW a \in Passes, N!SaveBaseline(a)
      PROVE  N!TypeOK'
  BY <1>5 DEF N!SaveBaseline, N!Idle
<1>6. ASSUME NEW a \in Passes, N!Stop(a)
      PROVE  N!TypeOK'
  BY <1>6 DEF N!Stop, N!Idle
<1>7. ASSUME NEW s \in Earner, N!Earn(s)
      PROVE  N!TypeOK'
  <2>1. s \in N!Sources /\ MaxEarned \in Nat
    BY DEF N!NetWorthAssumption
  <2> QED BY <1>7, <2>1 DEF N!Earn
<1>8. ASSUME NEW s \in Unlinkable, N!Unlink(s) \/ N!Relink(s)
      PROVE  N!TypeOK'
  <2>1. s \in N!Sources /\ MaxAge \in Nat
    BY DEF N!NetWorthAssumption
  <2>2. off' \subseteq N!Sources
    BY <1>8, <2>1 DEF N!Unlink, N!Relink
  <2>3. cell' \in [N!Sources -> [value : Int \cup {None}, age : 0..MaxAge, error : Errors \cup {None}]]
    BY <1>8, <2>1 DEF N!Unlink, N!Relink, N!Unread
  <2> QED BY <1>8, <2>2, <2>3 DEF N!Unlink, N!Relink
<1>9. ASSUME N!Tick
      PROVE  N!TypeOK'
  <2>1. Step \in Nat /\ MaxAge \in Nat
    BY DEF N!NetWorthAssumption
  <2>2. cell' \in [N!Sources -> [value : Int \cup {None}, age : 0..MaxAge, error : Errors \cup {None}]]
    BY <1>9, <2>1 DEF N!Tick
  <2> QED BY <1>9, <2>2 DEF N!Tick
<1>10. CASE UNCHANGED N!vars
  BY <1>10 DEF N!vars
<1> QED BY <1>1, <1>2, <1>3, <1>4, <1>5, <1>6, <1>7, <1>8, <1>9, <1>10 DEF N!Next

LEMMA WorthStep == WorthInv /\ [N!Next]_N!vars => WorthInv'
<1> SUFFICES ASSUME WorthInv, [N!Next]_N!vars
             PROVE  WorthInv'
  OBVIOUS
<1>0. N!TypeOK /\ Floor /\ Honest /\ N!TypeOK'
  BY WorthTypes DEF WorthInv
<1>1. Floor' /\ (worth' = worth \/ \A s \in N!Sources : worth[s] <= worth'[s])
  <2>1. ASSUME NEW s \in Earner, N!Earn(s)
        PROVE  Floor' /\ \A t \in N!Sources : worth[t] <= worth'[t]
    <3>1. s \in N!Sources \ N!Owing /\ worth' = [worth EXCEPT ![s] = @ + 1]
      BY <2>1, Given DEF N!Earn, N!NetWorthAssumption
    <3>2. \A t \in N!Sources : worth[t] \in Int /\ Opening[t] \in Int
      BY <1>0, Given DEF N!TypeOK, N!NetWorthAssumption
    <3> QED BY <1>0, <3>1, <3>2 DEF Floor, N!TypeOK
  <2>2. CASE worth' = worth
    BY <1>0, <2>2 DEF Floor
  <2>3. worth' = worth \/ \E s \in Earner : N!Earn(s)
    BY DEF N!Next, N!vars, N!Store, N!Fetch, N!Assemble, N!ReadBaseline, N!SaveBaseline, N!Stop, N!Unlink, N!Relink, N!Tick
  <2> QED BY <2>1, <2>2, <2>3
<1>2. Honest'
  <2> SUFFICES ASSUME ~flawed'
               PROVE  (\A a \in Passes : HonestTotal(a)') /\ HonestBaseline'
    BY DEF Honest
  <2>1. ~flawed
    BY DEF N!Next, N!vars, N!Store, N!Fetch, N!Assemble, N!ReadBaseline, N!SaveBaseline, N!Stop, N!Earn, N!Unlink, N!Relink, N!Tick
  <2>2. /\ \A a \in Passes : job'[a] = job[a] => HonestTotal(a)'
        /\ baseline' = baseline => HonestBaseline'
    BY <1>0, <1>1, <2>1, StaysHonest
  <2>4. ASSUME NEW a \in Passes, N!Assemble(a)
        PROVE  HonestTotal(a)'
    <3>1. job'[a].pc = "goals" /\ job'[a].total = N!Total /\ job'[a].degraded = N!Degraded /\ worth' = worth
          /\ (N!Degraded \/ ~N!Flawed)
      BY <1>0, <2>4 DEF N!Assemble, N!Idle, N!TypeOK
    <3>2. CASE N!Degraded
      <4>1. job'[a].pc = "goals" /\ job'[a].degraded
        BY <3>1, <3>2
      <4> QED BY <4>1 DEF HonestTotal
    <3>3. CASE ~N!Degraded
      <4>1. N!Total = N!RealWorth(Last)
        BY <1>0, <3>1, <3>3, TotalIsLast
      <4>2. \A s \in N!Sources : Last[s] \in Int /\ Opening[s] <= Last[s] /\ Last[s] <= worth[s] /\ Opening[s] \in Int /\ worth[s] \in Int
        <5> TAKE s \in N!Sources
        <5>1. s[1] \in N!Classes /\ s \in Rows(s[1])
          BY DEF N!Classes, Rows
        <5>2. cell[s].value \in Int /\ Opening[s] <= cell[s].value /\ cell[s].value <= worth[s]
          BY <1>0, <3>1, <3>3, <5>1, WholeClass
        <5> QED BY <1>0, <5>2, Given DEF Last, N!TypeOK, N!NetWorthAssumption
      <4>3. \A s \in N!Owing : Opening[s] = Last[s] /\ Last[s] = worth[s]
        <5>1. \A s \in N!Owing : s \in N!Sources /\ worth[s] = Opening[s]
          BY <1>0 DEF Floor, N!Owing
        <5> QED BY <4>2, <5>1
      <4>4. N!RealWorth(Opening) <= N!RealWorth(Last)
        BY <4>2, <4>3, RealGrows
      <4>5. N!RealWorth(Last) <= N!RealWorth(worth)
        BY <4>2, <4>3, RealGrows
      <4> QED BY <3>1, <4>1, <4>4, <4>5 DEF HonestTotal
    <3> QED BY <3>2, <3>3
  <2>5. ASSUME NEW a \in Passes, N!ReadBaseline(a)
        PROVE  HonestTotal(a)'
    <3>1. job[a].pc = "goals" /\ ~job[a].degraded /\ worth' = worth
          /\ job'[a].pc = "baseline" /\ job'[a].total = job[a].total
      BY <1>0, <2>5 DEF N!ReadBaseline, N!TypeOK
    <3>2. N!RealWorth(Opening) <= job[a].total /\ job[a].total <= N!RealWorth(worth)
      BY <1>0, <2>1, <3>1 DEF Honest, HonestTotal
    <3> QED BY <3>1, <3>2 DEF HonestTotal
  <2>6. ASSUME NEW a \in Passes, N!SaveBaseline(a)
        PROVE  HonestTotal(a)' /\ HonestBaseline'
    <3>1. job[a].pc = "baseline" /\ job'[a].pc = "idle" /\ worth' = worth /\ baseline' \in {baseline, job[a].total}
      BY <1>0, <2>6 DEF N!SaveBaseline, N!Idle, N!TypeOK
    <3>2. N!RealWorth(Opening) <= job[a].total /\ job[a].total <= N!RealWorth(worth)
      BY <1>0, <2>1, <3>1 DEF Honest, HonestTotal
    <3>3. HonestBaseline
      BY <1>0, <2>1 DEF Honest
    <3> QED BY <3>1, <3>2, <3>3 DEF HonestTotal, HonestBaseline
  <2>7. ASSUME NEW a \in Passes, N!Stop(a)
        PROVE  HonestTotal(a)'
    BY <1>0, <2>7 DEF N!Stop, HonestTotal, N!Idle, N!TypeOK
  <2>8. ASSUME NEW a \in Passes, N!Assemble(a) \/ N!ReadBaseline(a) \/ N!SaveBaseline(a) \/ N!Stop(a)
        PROVE  \A b \in Passes \ {a} : job'[b] = job[b]
    BY <1>0, <2>8 DEF N!Assemble, N!ReadBaseline, N!SaveBaseline, N!Stop, N!TypeOK
  <2>9. ASSUME NEW a \in Passes, N!Assemble(a) \/ N!ReadBaseline(a) \/ N!SaveBaseline(a) \/ N!Stop(a)
        PROVE  \A b \in Passes : HonestTotal(b)'
    BY <2>2, <2>4, <2>5, <2>6, <2>7, <2>8, <2>9
  <2>10. CASE \E a \in Passes : N!Assemble(a) \/ N!ReadBaseline(a) \/ N!SaveBaseline(a) \/ N!Stop(a)
    <3>1. PICK a \in Passes : N!Assemble(a) \/ N!ReadBaseline(a) \/ N!SaveBaseline(a) \/ N!Stop(a)
      BY <2>10
    <3>2. baseline' = baseline \/ N!SaveBaseline(a)
      BY <3>1 DEF N!Assemble, N!ReadBaseline, N!Stop
    <3> QED BY <2>2, <2>6, <2>9, <3>1, <3>2
  <2>11. CASE UNCHANGED <<baseline, job>>
    BY <2>2, <2>11
  <2>12. UNCHANGED <<baseline, job>> \/ \E a \in Passes : N!Assemble(a) \/ N!ReadBaseline(a) \/ N!SaveBaseline(a) \/ N!Stop(a)
    BY DEF N!Next, N!vars, N!Store, N!Fetch, N!Earn, N!Unlink, N!Relink, N!Tick
  <2> QED BY <2>10, <2>11, <2>12
<1> QED BY <1>0, <1>1, <1>2 DEF WorthInv

LEMMA WorthSafe == WorthInv => N!BaselineHonest
BY DEF WorthInv, Honest, HonestBaseline, N!BaselineHonest

-----------------------------------------------------------------------------
(* The sum of the machines *)

LEMMA MachinesMove ==
  ASSUME [MCNext]_<<machine, vars, rVars, nVars>>
  PROVE  /\ machine' = machine /\ [Next]_vars
         /\ machine = "reactions" => [R!Next]_R!vars
         /\ machine = "worth" => [N!Next]_N!vars
BY DEF MCNext, vars, rVars, R!vars, R!rows, nVars, N!vars

MachinesInv ==
  IInv /\ (machine = "reactions" => ReactionInv) /\ (machine = "worth" => WorthInv)

LEMMA MachinesStart ==
  ASSUME MCInit
  PROVE  MachinesInv
BY MachinesAssumption, IInvInit, ReactionInitial, WorthInit DEF MCInit, MachinesInv

LEMMA MachinesStep ==
  ASSUME MachinesInv, [MCNext]_<<machine, vars, rVars, nVars>>
  PROVE  MachinesInv'
<1>1. IInv'
  BY MachinesMove, IInvStep DEF MachinesInv
<1>2. machine' = "reactions" => ReactionInv'
  BY MachinesAssumption, MachinesMove, ReactionStep DEF MachinesInv
<1>3. machine' = "worth" => WorthInv'
  BY MachinesMove, WorthStep DEF MachinesInv
<1> QED BY <1>1, <1>2, <1>3 DEF MachinesInv

\* The three machines keep to their types; NetWorth's includes that a total is an integer
\* whatever the classes read (networth/read.ts) and that an answer on its way holds no more than
\* rows of its class (networth/refresh.ts).
THEOREM MachinesTyped == MCSpec => []TypesOK
<1>1. MachinesInv => TypesOK
  BY DEF MachinesInv, IInv, ReactionInv, WorthInv, TypesOK
<1> QED BY <1>1, MachinesStart, MachinesStep, PTL DEF MCSpec

\* The budgeted reactions of a UTC day exceed the budget by less than the number of calls that
\* overlap, although the count reads a table that is trimmed (reactions/perform.ts).
THEOREM DailyBudgetSafety == MCSpec => []DailyBudgetHolds
<1>1. MachinesInv => DailyBudgetHolds
  BY MachinesAssumption, ReactionLimits DEF MachinesInv, DailyBudgetHolds
<1> QED BY <1>1, MachinesStart, MachinesStep, PTL DEF MCSpec

\* While no two calls have overlapped, two overspends within a week are the doing of the trim:
\* more than MAX_HISTORY reactions are as recent as one of them (reactions/perform.ts).
THEOREM WeeklyCapSafety == MCSpec => []OverspendOncePerWeek
<1>1. MachinesInv => OverspendOncePerWeek
  BY DEF MachinesInv, ReactionInv, OverspendOncePerWeek
<1> QED BY <1>1, MachinesStart, MachinesStep, PTL DEF MCSpec

\* Unless some total was wrong without being degraded, the baseline is no less than what the user
\* was worth at the start and no more than what the user is worth: vendors that fail, classes too
\* old to count, answers stored late and goal passes that overlap neither shrink nor inflate it
\* (networth/refresh.ts, networth/read.ts).
THEOREM BaselineSafety == MCSpec => []BaselineHonest
<1>1. MachinesInv => BaselineHonest
  BY WorthSafe DEF MachinesInv, BaselineHonest
<1> QED BY <1>1, MachinesStart, MachinesStep, PTL DEF MCSpec

=============================================================================

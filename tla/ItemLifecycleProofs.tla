-------------------------- MODULE ItemLifecycleProofs --------------------------
(* Proofs about ItemLifecycle: its types, and that no recorded break is kept *)
(* from the user, for any number of overlapping handlers.                    *)
EXTENDS ItemLifecycle, TLAPS

Inv == TypeOK /\ BrokenIsTold

LEMMA InvInit == Init => Inv
<1> SUFFICES ASSUME Init PROVE Inv
  OBVIOUS
<1>1. 0 \in 0..MaxChanges /\ 0 \in 0..MaxRedeliveries /\ 0 \in 0..MaxFaults
  BY LifecycleAssumption DEF LifecycleAssumption
<1>2. changes \in 0..MaxChanges /\ redeliveries \in 0..MaxRedeliveries /\ faults \in 0..MaxFaults
  BY <1>1 DEF Init
<1>3. /\ status \in Status /\ to \in [Actors -> Status] /\ seen \in Status
      /\ pc \in [Actors -> {"idle", "ask", "read", "write", "tell", "disable"}]
  BY DEF Init, Status
<1>4. /\ truth \in {"ok", "expiring", "broken", "revoked"}
      /\ mail \subseteq Codes /\ repaired \in BOOLEAN /\ disabled \in BOOLEAN
      /\ told \in {"no", "yes", "lost"} /\ revocation \in BOOLEAN
  BY DEF Init
<1>5. BrokenIsTold
  BY DEF Init, BrokenIsTold
<1> QED BY <1>2, <1>3, <1>4, <1>5 DEF Inv, TypeOK

\* What an actor does when its transition is over keeps the types of its place,
\* and touches nobody else's.
LEMMA AfterTypes ==
  ASSUME TypeOK, NEW a \in Actors, AfterTransition(a) \/ Done(a)
  PROVE  /\ pc' \in [Actors -> {"idle", "ask", "read", "write", "tell", "disable"}]
         /\ to' \in [Actors -> Status]
         /\ \A b \in Actors \ {a} : pc'[b] = pc[b]
BY DEF TypeOK, AfterTransition, Done, Status

LEMMA TransitionTypes ==
  ASSUME TypeOK, NEW a \in Actors, NEW t \in Status, Transition(a, t), pc[a] # "tell"
  PROVE  /\ pc' \in [Actors -> {"idle", "ask", "read", "write", "tell", "disable"}]
         /\ to' \in [Actors -> Status]
         /\ \A b \in Actors : pc[b] = "tell" => pc'[b] = "tell"
BY DEF TypeOK, Transition

LEMMA InvStep ==
  ASSUME Inv, [Next]_vars
  PROVE  Inv'
<1> USE LifecycleAssumption DEF LifecycleAssumption, Inv
<1>1. CASE \/ Expire \/ Break \/ Heal \/ Revoke \/ UpdateMode \/ ReportLost
           \/ \E c \in Codes : Lose(c)
  <2>1. ASSUME NEW from, NEW t \in {"ok", "expiring", "broken", "revoked"}, NEW code \in Codes,
               Change(from, t, code)
        PROVE  Inv'
    BY <2>1 DEF Change, row, TypeOK, BrokenIsTold
  <2>2. Expire \/ Break \/ Heal \/ Revoke => Inv'
    BY <2>1 DEF Expire, Break, Heal, Revoke, Codes
  <2>3. UpdateMode \/ ReportLost => Inv'
    BY DEF UpdateMode, ReportLost, row, TypeOK, BrokenIsTold
  <2>4. ASSUME NEW c \in Codes, Lose(c)
        PROVE  Inv'
    BY <2>4 DEF Lose, row, TypeOK, BrokenIsTold
  <2> QED BY <1>1, <2>2, <2>3, <2>4
<1>2. ASSUME NEW h \in Handlers, NEW c \in Codes, Webhook(h, c)
      PROVE  Inv'
  <2>1. h \in Actors /\ StatusOf[c] \in Status
    BY DEF Actors, Codes, StatusOf, Status
  <2> QED BY <1>2, <2>1, TransitionTypes DEF Webhook, row, TypeOK, BrokenIsTold
<1>3. ASSUME NEW h \in Handlers, DataCallFails(h)
      PROVE  Inv'
  <2>1. h \in Actors /\ "reauth_required" \in Status
    BY DEF Actors, Status
  <2> QED BY <1>3, <2>1, TransitionTypes DEF DataCallFails, row, plaid, TypeOK, BrokenIsTold
<1>4. CASE StartSweep \/ Answered \/ Unanswered
  <2>1. Sweeper \in Actors /\ Found \in Status
    BY DEF Actors, Found, Status
  <2>2. CASE StartSweep
    BY <2>1, <2>2 DEF StartSweep, row, plaid, TypeOK, BrokenIsTold
  <2>3. CASE Answered \/ Unanswered
    <3>1. "healthy" \in Status
      BY DEF Status
    <3>2. pc[Sweeper] # "tell"
      BY <2>3 DEF Answered, Unanswered
    <3>3. Done(Sweeper) \/ Transition(Sweeper, Found)
      BY <2>3 DEF Answered, Unanswered
    <3> QED BY <2>1, <2>3, <3>1, <3>2, <3>3, TransitionTypes, AfterTypes
            DEF Answered, Unanswered, row, plaid, TypeOK, BrokenIsTold
  <2> QED BY <1>4, <2>2, <2>3
<1>5. CASE MarkRepaired
  BY <1>5 DEF MarkRepaired, TypeOK, BrokenIsTold, Status
<1>6. ASSUME NEW a \in Actors, Read(a)
      PROVE  Inv'
  <2>1. CASE status # to[a] /\ status \in MayReplace(to[a])
    BY <1>6, <2>1 DEF Read, row, plaid, TypeOK, BrokenIsTold
  <2>2. CASE ~(status # to[a] /\ status \in MayReplace(to[a]))
    BY <1>6, <2>2, AfterTypes DEF Read, row, plaid, TypeOK, BrokenIsTold
  <2> QED BY <2>1, <2>2
<1>7. ASSUME NEW a \in Actors, Write(a)
      PROVE  Inv'
  <2>1. status' \in Status /\ told' \in {"no", "yes", "lost"} /\ revocation' \in BOOLEAN
    BY <1>7 DEF Write, TypeOK
  <2>2. CASE to[a] = "healthy"
    BY <1>7, <2>1, <2>2, AfterTypes DEF Write, plaid, TypeOK, BrokenIsTold
  <2>3. CASE to[a] # "healthy"
    BY <1>7, <2>1, <2>3 DEF Write, plaid, TypeOK, BrokenIsTold
  <2> QED BY <2>2, <2>3
<1>8. ASSUME NEW a \in Actors, Tell(a)
      PROVE  Inv'
  BY <1>8, AfterTypes DEF Tell, plaid, TypeOK, BrokenIsTold
<1>9. ASSUME NEW a \in Actors, Disable(a)
      PROVE  Inv'
  BY <1>9, AfterTypes DEF Disable, plaid, TypeOK, BrokenIsTold
<1>10. ASSUME NEW a \in Actors, Throws(a)
       PROVE  Inv'
  <2>1. told' \in {"no", "yes", "lost"} /\ (told' = "no" => pc[a] # "tell" /\ told = "no")
    BY <1>10 DEF Throws, Lost, TypeOK
  <2> QED BY <1>10, <2>1, AfterTypes DEF Throws, plaid, TypeOK, BrokenIsTold
<1>11. CASE Crash
  BY <1>11 DEF Crash, Lost, plaid, TypeOK, BrokenIsTold, Status
<1>12. CASE UNCHANGED vars
  BY <1>12 DEF vars, row, plaid, TypeOK, BrokenIsTold
<1> QED BY <1>1, <1>2, <1>3, <1>4, <1>5, <1>6, <1>7, <1>8, <1>9, <1>10, <1>11, <1>12 DEF Next

\* Every variable keeps its type: a row never holds a status of its own making.
THEOREM TypeCorrect == Spec => []TypeOK
<1>1. Inv => TypeOK
  BY DEF Inv
<1> QED BY InvInit, InvStep, <1>1, PTL DEF Spec

\* Whoever overlaps, a recorded break has been told, is about to be, or a fault
\* came between the row and the push (transitionItemStatus).
THEOREM BreaksAreTold == Spec => []BrokenIsTold
<1>1. Inv => BrokenIsTold
  BY DEF Inv
<1> QED BY InvInit, InvStep, <1>1, PTL DEF Spec

=============================================================================

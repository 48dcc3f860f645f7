-------------------------- MODULE ItemRemovalProofs --------------------------
(* Proofs about ItemRemoval: type correctness, that the token of a billed   *)
(* Item is never lost when none of the accidents happens, and that a queued *)
(* token which still addresses an Item is lost, in any behaviour, only to   *)
(* an actor that holds an older token of it.                                *)
EXTENDS ItemRemoval, TLAPS

(***************************************************************************)
(* The inductive invariant, in two layers.                                 *)
(***************************************************************************)

\* Without a relink an Item has one token, and whoever holds one holds it.
OneToken ==
  \A i \in Items :
    /\ token[i] \in {0, 1} /\ (billed[i] => token[i] = 1)
    /\ item[i] \in {0, token[i]} /\ queue[i] \in {0, token[i]} /\ exch[i] \in {0, token[i]}
    /\ due[i] \in {0, token[i]}
    /\ \A h \in Handlers : snap[h][i] \in {0, token[i]}

\* A request or the drain that works on an Item has read its token, and a row
\* the drain is about to delete addresses nothing.
WorkHasToken ==
  \A i \in Items :
    /\ drained[i] # "none" => due[i] # 0
    /\ drained[i] = "gone" => ~billed[i]
    /\ \A h \in Handlers : stage[h][i] \in {"remove", "enqueue", "drop"} => snap[h][i] # 0

QInv == TypeOK /\ OneToken /\ WorkHasToken

\* A row is dropped only for an Item that is cancelled or queued, and a
\* deletion that is done with an Item left it in that state too.
DropIsSafe ==
  \A h \in Handlers, i \in Items :
    /\ stage[h][i] = "drop" => ~billed[i] \/ queue[i] # 0
    /\ job[h] = "delete" /\ stage[h][i] = "done" => ~billed[i] \/ queue[i] # 0

\* Nothing is being linked while the account is deleted, or after.
NoLinkAtDeletion == Deleting \/ account = "deleted" => \A i \in Items : exch[i] = 0

IInv == QInv /\ DropIsSafe /\ NoLinkAtDeletion /\ TokenHeld

\* It is kept by the behaviours that have no accident.
Held == TypeOK /\ (allowed = {} => IInv)

-----------------------------------------------------------------------------
(* Types *)

LEMMA TypeInit == Init => TypeOK
<1>1. 0 \in Version /\ 0 \in 0..MaxFaults
  BY RemovalAssumption DEF RemovalAssumption, Version
<1>2. /\ NoTokens \in [Items -> Version]
      /\ NoStages \in [Items -> {"none", "remove", "enqueue", "drop", "done"}]
      /\ NoStages \in [Items -> {"none", "due", "gone", "failing"}]
  BY <1>1 DEF NoTokens, NoStages
<1> QED BY <1>1, <1>2 DEF Init, TypeOK

LEMMA TypeStep ==
  ASSUME TypeOK, [Next]_vars
  PROVE  TypeOK'
<1>0. NoTokens \in [Items -> Version] /\ NoStages \in [Items -> {"none"}]
  BY RemovalAssumption DEF RemovalAssumption, NoTokens, NoStages, Version
<1> USE <1>0, RemovalAssumption DEF RemovalAssumption, TypeOK, Version, plaidVars, handlerVars,
                                    drainVars
<1>1. ASSUME NEW i \in Items, Exchange(i)
      PROVE  TypeOK'
  BY <1>1 DEF Exchange
<1>2. ASSUME NEW i \in Items, UpsertItem(i)
      PROVE  TypeOK'
  BY <1>2 DEF UpsertItem
<1>3. ASSUME NEW h \in Handlers, NEW kind \in {"unlink", "delete"}, Begin(h, kind)
      PROVE  TypeOK'
  BY <1>3 DEF Begin
<1>4. ASSUME NEW h \in Handlers, NEW i \in Items, RemoveAtPlaid(h, i)
      PROVE  TypeOK'
  BY <1>4 DEF RemoveAtPlaid, ItemRemove, Outcomes, SetStage
<1>5. ASSUME NEW h \in Handlers, NEW i \in Items, Enqueue(h, i)
      PROVE  TypeOK'
  BY <1>5 DEF Enqueue, SetStage
<1>6. ASSUME NEW h \in Handlers, NEW i \in Items, EnqueueThrows(h, i)
      PROVE  TypeOK'
  BY <1>6 DEF EnqueueThrows, SetStage
<1>7. ASSUME NEW h \in Handlers, NEW i \in Items, DropRow(h, i)
      PROVE  TypeOK'
  BY <1>7 DEF DropRow, SetStage
<1>8. ASSUME NEW h \in Handlers, Settle(h)
      PROVE  TypeOK'
  BY <1>8 DEF Settle, Return
<1>9. ASSUME NEW h \in Handlers, EraseAccount(h)
       PROVE  TypeOK'
  BY <1>9 DEF EraseAccount, Return
<1>10. ASSUME NEW picked \in SUBSET Items, DrainStart(picked)
       PROVE  TypeOK'
  BY <1>10 DEF DrainStart
<1>11. ASSUME NEW i \in Items, DrainRemove(i)
       PROVE  TypeOK'
  BY <1>11 DEF DrainRemove, ItemRemove, Outcomes
<1>12. ASSUME NEW i \in Items, Dequeue(i)
       PROVE  TypeOK'
  BY <1>12 DEF Dequeue, DrainNext
<1>13. ASSUME NEW i \in Items, RecordAttempt(i)
       PROVE  TypeOK'
  BY <1>13 DEF RecordAttempt, DrainNext
<1>14. CASE Crash
  BY <1>14 DEF Crash
<1>15. CASE UNCHANGED vars
  BY <1>15 DEF vars
<1> QED BY <1>1, <1>2, <1>3, <1>4, <1>5, <1>6, <1>7, <1>8, <1>9, <1>10, <1>11, <1>12, <1>13, <1>14, <1>15
     DEF Next, HandlerStep, DrainStep

\* The model's variables keep their types for any Items, requests and bounds.
THEOREM TypeCorrect == Spec => []TypeOK
<1>1. TypeOK /\ [Next]_vars => TypeOK'
  BY TypeStep
<1> QED BY TypeInit, <1>1, PTL DEF Spec

-----------------------------------------------------------------------------
(* One token per Item *)

LEMMA TokenStep ==
  ASSUME allowed = {}, QInv, [Next]_vars
  PROVE  OneToken' /\ WorkHasToken'
<1> USE DEF QInv, OneToken, WorkHasToken, TypeOK, Version, NoTokens, NoStages, Addresses,
            plaidVars, handlerVars, drainVars
<1>1. ASSUME NEW i \in Items, Exchange(i)
      PROVE  OneToken' /\ WorkHasToken'
  BY <1>1 DEF Exchange
<1>2. ASSUME NEW i \in Items, UpsertItem(i)
      PROVE  OneToken' /\ WorkHasToken'
  BY <1>2 DEF UpsertItem
<1>3. ASSUME NEW h \in Handlers, NEW kind \in {"unlink", "delete"}, Begin(h, kind)
      PROVE  OneToken' /\ WorkHasToken'
  BY <1>3 DEF Begin
<1>4. ASSUME NEW h \in Handlers, NEW i \in Items, RemoveAtPlaid(h, i)
      PROVE  OneToken' /\ WorkHasToken'
  BY <1>4 DEF RemoveAtPlaid, ItemRemove, Outcomes, SetStage
<1>5. ASSUME NEW h \in Handlers, NEW i \in Items, Enqueue(h, i)
      PROVE  OneToken' /\ WorkHasToken'
  BY <1>5 DEF Enqueue, SetStage
<1>6. ASSUME NEW h \in Handlers, NEW i \in Items, EnqueueThrows(h, i)
      PROVE  OneToken' /\ WorkHasToken'
  BY <1>6 DEF EnqueueThrows, SetStage
<1>7. ASSUME NEW h \in Handlers, NEW i \in Items, DropRow(h, i)
      PROVE  OneToken' /\ WorkHasToken'
  BY <1>7 DEF DropRow, SetStage
<1>8. ASSUME NEW h \in Handlers, Settle(h)
      PROVE  OneToken' /\ WorkHasToken'
  BY <1>8 DEF Settle, Return
<1>9. ASSUME NEW h \in Handlers, EraseAccount(h)
       PROVE  OneToken' /\ WorkHasToken'
  BY <1>9 DEF EraseAccount, Return
<1>10. ASSUME NEW picked \in SUBSET Items, DrainStart(picked)
       PROVE  OneToken' /\ WorkHasToken'
  BY <1>10 DEF DrainStart
<1>11. ASSUME NEW i \in Items, DrainRemove(i)
       PROVE  OneToken' /\ WorkHasToken'
  BY <1>11 DEF DrainRemove, ItemRemove, Outcomes
<1>12. ASSUME NEW i \in Items, Dequeue(i)
       PROVE  OneToken' /\ WorkHasToken'
  BY <1>12 DEF Dequeue, DrainNext
<1>13. ASSUME NEW i \in Items, RecordAttempt(i)
       PROVE  OneToken' /\ WorkHasToken'
  BY <1>13 DEF RecordAttempt, DrainNext
<1>14. CASE Crash
  BY <1>14 DEF Crash
<1>15. CASE UNCHANGED vars
  BY <1>15 DEF vars
<1> QED BY <1>1, <1>2, <1>3, <1>4, <1>5, <1>6, <1>7, <1>8, <1>9, <1>10, <1>11, <1>12, <1>13, <1>14, <1>15
     DEF Next, HandlerStep, DrainStep

\* Which accidents may happen is settled at the start.
LEMMA AllowedStays == [Next]_vars => allowed' = allowed
BY DEF Next, vars, Exchange, UpsertItem, Begin, HandlerStep, RemoveAtPlaid, Enqueue, EnqueueThrows,
       DropRow, Settle, EraseAccount, DrainStart, DrainStep, DrainRemove, Dequeue, RecordAttempt, Crash

-----------------------------------------------------------------------------
(* No billed Item without its token *)

LEMMA HeldStep ==
  ASSUME allowed = {}, IInv, [Next]_vars
  PROVE  DropIsSafe' /\ NoLinkAtDeletion' /\ TokenHeld'
<1> USE DEF IInv, QInv, OneToken, WorkHasToken, DropIsSafe, NoLinkAtDeletion, TokenHeld,
            Deleting, Linking, TypeOK, Version, NoTokens, NoStages, Addresses, AllDone,
            plaidVars, handlerVars, drainVars
<1>1. ASSUME NEW i \in Items, Exchange(i)
      PROVE  DropIsSafe' /\ NoLinkAtDeletion' /\ TokenHeld'
  BY <1>1 DEF Exchange
<1>2. ASSUME NEW i \in Items, UpsertItem(i)
      PROVE  DropIsSafe' /\ NoLinkAtDeletion' /\ TokenHeld'
  BY <1>2 DEF UpsertItem
<1>3. ASSUME NEW h \in Handlers, NEW kind \in {"unlink", "delete"}, Begin(h, kind)
      PROVE  DropIsSafe' /\ NoLinkAtDeletion' /\ TokenHeld'
  BY <1>3 DEF Begin
<1>4. ASSUME NEW h \in Handlers, NEW i \in Items, RemoveAtPlaid(h, i)
      PROVE  DropIsSafe' /\ NoLinkAtDeletion' /\ TokenHeld'
  BY <1>4 DEF RemoveAtPlaid, ItemRemove, Outcomes, SetStage
<1>5. ASSUME NEW h \in Handlers, NEW i \in Items, Enqueue(h, i)
      PROVE  DropIsSafe' /\ NoLinkAtDeletion' /\ TokenHeld'
  BY <1>5 DEF Enqueue, SetStage
<1>6. ASSUME NEW h \in Handlers, NEW i \in Items, EnqueueThrows(h, i)
      PROVE  DropIsSafe' /\ NoLinkAtDeletion' /\ TokenHeld'
  BY <1>6 DEF EnqueueThrows, SetStage
<1>7. ASSUME NEW h \in Handlers, NEW i \in Items, DropRow(h, i)
      PROVE  DropIsSafe' /\ NoLinkAtDeletion' /\ TokenHeld'
  BY <1>7 DEF DropRow, SetStage
<1>8. ASSUME NEW h \in Handlers, Settle(h)
      PROVE  DropIsSafe' /\ NoLinkAtDeletion' /\ TokenHeld'
  BY <1>8 DEF Settle, Return
<1>9. ASSUME NEW h \in Handlers, EraseAccount(h)
       PROVE  DropIsSafe' /\ NoLinkAtDeletion' /\ TokenHeld'
  BY <1>9 DEF EraseAccount, Return
<1>10. ASSUME NEW picked \in SUBSET Items, DrainStart(picked)
       PROVE  DropIsSafe' /\ NoLinkAtDeletion' /\ TokenHeld'
  BY <1>10 DEF DrainStart
<1>11. ASSUME NEW i \in Items, DrainRemove(i)
       PROVE  DropIsSafe' /\ NoLinkAtDeletion' /\ TokenHeld'
  BY <1>11 DEF DrainRemove, ItemRemove, Outcomes
<1>12. ASSUME NEW i \in Items, Dequeue(i)
       PROVE  DropIsSafe' /\ NoLinkAtDeletion' /\ TokenHeld'
  BY <1>12 DEF Dequeue, DrainNext
<1>13. ASSUME NEW i \in Items, RecordAttempt(i)
       PROVE  DropIsSafe' /\ NoLinkAtDeletion' /\ TokenHeld'
  BY <1>13 DEF RecordAttempt, DrainNext
<1>14. CASE Crash
  BY <1>14 DEF Crash
<1>15. CASE UNCHANGED vars
  BY <1>15 DEF vars
<1> QED BY <1>1, <1>2, <1>3, <1>4, <1>5, <1>6, <1>7, <1>8, <1>9, <1>10, <1>11, <1>12, <1>13, <1>14, <1>15
     DEF Next, HandlerStep, DrainStep

\* When no Item is linked twice, no link overlaps a deletion or dies half way
\* and the queue can be written, an Item that Plaid bills always has its token
\* in a row or in the request that links it, whatever else interleaves, fails
\* or crashes.
THEOREM TokenSafety == Spec => []TokenHeld
<1>1. Init => Held
  BY TypeInit DEF Init, Held, IInv, QInv, OneToken, WorkHasToken, DropIsSafe, NoLinkAtDeletion,
                  TokenHeld, Deleting, NoTokens, NoStages
<1>2. Held /\ [Next]_vars => Held'
  BY AllowedStays, TypeStep, TokenStep, HeldStep DEF Held, IInv, QInv
<1>3. Held => TokenHeld
  BY DEF Held, IInv, TokenHeld
<1> QED BY <1>1, <1>2, <1>3, PTL DEF Spec

-----------------------------------------------------------------------------
(* The queue *)

\* Nobody holds a token newer than the one Plaid accepts.
TokensOlder ==
  \A i \in Items :
    /\ item[i] <= token[i] /\ queue[i] <= token[i] /\ exch[i] <= token[i] /\ due[i] <= token[i]
    /\ \A h \in Handlers : snap[h][i] <= token[i]

\* A request or the drain that works on an Item has read a token of it, and
\* the one whose row the drain is about to delete addresses nothing any more.
HeldTokens ==
  \A i \in Items :
    /\ drained[i] # "none" => due[i] # 0
    /\ drained[i] = "gone" => ~Addresses(i, due[i])
    /\ \A h \in Handlers : stage[h][i] \in {"remove", "enqueue"} => snap[h][i] # 0

OlderInv == TokensOlder /\ HeldTokens

\* What QueuedTokenLostOnlyToOlder says of one step.
QueueKept == \A i \in Items : Addresses(i, queue[i]) /\ queue'[i] # queue[i] => LostOnlyToOlder(i)

LEMMA OlderStep ==
  ASSUME TypeOK, OlderInv, [Next]_vars
  PROVE  OlderInv'
<1> USE DEF OlderInv, TokensOlder, HeldTokens, TypeOK, Version, NoTokens, NoStages, Addresses,
            plaidVars, handlerVars, drainVars
<1>1. ASSUME NEW i \in Items, Exchange(i)
      PROVE  OlderInv'
  BY <1>1 DEF Exchange
<1>2. ASSUME NEW i \in Items, UpsertItem(i)
      PROVE  OlderInv'
  BY <1>2 DEF UpsertItem
<1>3. ASSUME NEW h \in Handlers, NEW kind \in {"unlink", "delete"}, Begin(h, kind)
      PROVE  OlderInv'
  BY <1>3 DEF Begin
<1>4. ASSUME NEW h \in Handlers, NEW i \in Items, RemoveAtPlaid(h, i)
      PROVE  OlderInv'
  BY <1>4 DEF RemoveAtPlaid, ItemRemove, Outcomes, SetStage
<1>5. ASSUME NEW h \in Handlers, NEW i \in Items, Enqueue(h, i)
      PROVE  OlderInv'
  BY <1>5 DEF Enqueue, SetStage
<1>6. ASSUME NEW h \in Handlers, NEW i \in Items, EnqueueThrows(h, i)
      PROVE  OlderInv'
  BY <1>6 DEF EnqueueThrows, SetStage
<1>7. ASSUME NEW h \in Handlers, NEW i \in Items, DropRow(h, i)
      PROVE  OlderInv'
  BY <1>7 DEF DropRow, SetStage
<1>8. ASSUME NEW h \in Handlers, Settle(h)
      PROVE  OlderInv'
  BY <1>8 DEF Settle, Return
<1>9. ASSUME NEW h \in Handlers, EraseAccount(h)
       PROVE  OlderInv'
  BY <1>9 DEF EraseAccount, Return
<1>10. ASSUME NEW picked \in SUBSET Items, DrainStart(picked)
       PROVE  OlderInv'
  BY <1>10 DEF DrainStart
<1>11. ASSUME NEW i \in Items, DrainRemove(i)
       PROVE  OlderInv'
  BY <1>11 DEF DrainRemove, ItemRemove, Outcomes
<1>12. ASSUME NEW i \in Items, Dequeue(i)
       PROVE  OlderInv'
  BY <1>12 DEF Dequeue, DrainNext
<1>13. ASSUME NEW i \in Items, RecordAttempt(i)
       PROVE  OlderInv'
  BY <1>13 DEF RecordAttempt, DrainNext
<1>14. CASE Crash
  BY <1>14 DEF Crash
<1>15. CASE UNCHANGED vars
  BY <1>15 DEF vars
<1> QED BY <1>1, <1>2, <1>3, <1>4, <1>5, <1>6, <1>7, <1>8, <1>9, <1>10, <1>11, <1>12, <1>13, <1>14, <1>15
     DEF Next, HandlerStep, DrainStep

LEMMA QueueStep ==
  ASSUME TypeOK, OlderInv, [Next]_vars
  PROVE  QueueKept
<1> USE DEF QueueKept, LostOnlyToOlder, OlderInv, TokensOlder, HeldTokens, TypeOK, Version, NoTokens,
            NoStages, Addresses, plaidVars, handlerVars, drainVars
<1>1. ASSUME NEW i \in Items, Exchange(i)
      PROVE  QueueKept
  BY <1>1 DEF Exchange
<1>2. ASSUME NEW i \in Items, UpsertItem(i)
      PROVE  QueueKept
  BY <1>2 DEF UpsertItem
<1>3. ASSUME NEW h \in Handlers, NEW kind \in {"unlink", "delete"}, Begin(h, kind)
      PROVE  QueueKept
  BY <1>3 DEF Begin
<1>4. ASSUME NEW h \in Handlers, NEW i \in Items, RemoveAtPlaid(h, i)
      PROVE  QueueKept
  BY <1>4 DEF RemoveAtPlaid, ItemRemove, Outcomes, SetStage
<1>5. ASSUME NEW h \in Handlers, NEW i \in Items, Enqueue(h, i)
      PROVE  QueueKept
  <2>1. \A j \in Items : queue'[j] # queue[j] => j = i /\ queue'[j] = snap[h][i]
    BY <1>5 DEF Enqueue
  <2>2. stage[h][i] = "enqueue" /\ snap[h][i] # 0 /\ snap[h][i] <= token[i]
    BY <1>5 DEF Enqueue
  <2>3. snap[h][i] \in Nat /\ token[i] \in Nat
    BY RemovalAssumption
  <2> HIDE DEF OlderInv, TypeOK
  <2> QED BY <2>1, <2>2, <2>3
<1>6. ASSUME NEW h \in Handlers, NEW i \in Items, EnqueueThrows(h, i)
      PROVE  QueueKept
  BY <1>6 DEF EnqueueThrows, SetStage
<1>7. ASSUME NEW h \in Handlers, NEW i \in Items, DropRow(h, i)
      PROVE  QueueKept
  BY <1>7 DEF DropRow, SetStage
<1>8. ASSUME NEW h \in Handlers, Settle(h)
      PROVE  QueueKept
  BY <1>8 DEF Settle, Return
<1>9. ASSUME NEW h \in Handlers, EraseAccount(h)
       PROVE  QueueKept
  BY <1>9 DEF EraseAccount, Return
<1>10. ASSUME NEW picked \in SUBSET Items, DrainStart(picked)
       PROVE  QueueKept
  BY <1>10 DEF DrainStart
<1>11. ASSUME NEW i \in Items, DrainRemove(i)
       PROVE  QueueKept
  BY <1>11 DEF DrainRemove, ItemRemove, Outcomes
<1>12. ASSUME NEW i \in Items, Dequeue(i)
       PROVE  QueueKept
  <2>1. \A j \in Items : queue'[j] # queue[j] => j = i /\ queue'[j] = 0
    BY <1>12 DEF Dequeue
  <2>2. drained[i] = "gone" /\ due[i] # 0 /\ due[i] <= token[i] /\ ~Addresses(i, due[i])
    BY <1>12 DEF Dequeue
  <2>3. due[i] \in Nat /\ token[i] \in Nat
    BY RemovalAssumption
  <2>4. ASSUME Addresses(i, queue[i])
        PROVE  0 < due[i] /\ due[i] < queue[i]
    <3>1. due[i] # token[i] /\ queue[i] = token[i]
      BY <2>2, <2>4
    <3> HIDE DEF OlderInv, TypeOK, QueueKept
    <3> QED BY <2>2, <2>3, <3>1
  <2> QED BY <2>1, <2>2, <2>4
<1>13. ASSUME NEW i \in Items, RecordAttempt(i)
       PROVE  QueueKept
  BY <1>13 DEF RecordAttempt, DrainNext
<1>14. CASE Crash
  BY <1>14 DEF Crash
<1>15. CASE UNCHANGED vars
  BY <1>15 DEF vars
<1> QED BY <1>1, <1>2, <1>3, <1>4, <1>5, <1>6, <1>7, <1>8, <1>9, <1>10, <1>11, <1>12, <1>13, <1>14, <1>15
     DEF Next, HandlerStep, DrainStep

\* Whatever accidents happen, relinks included, a queued token that still
\* addresses a billed Item is lost only to a drain or a request that holds an
\* older token of the Item.
THEOREM QueueSafety == Spec => QueuedTokenLostOnlyToOlder
<1>1. Init => OlderInv
  BY RemovalAssumption DEF Init, OlderInv, TokensOlder, HeldTokens, NoTokens, NoStages
<1>2. TypeOK /\ OlderInv /\ [Next]_vars => OlderInv'
  BY OlderStep
<1>3. TypeOK /\ OlderInv /\ [Next]_vars
        => [\A i \in Items : Addresses(i, queue[i]) /\ queue'[i] # queue[i] => LostOnlyToOlder(i)]_vars
  BY QueueStep DEF QueueKept
<1> QED BY <1>1, <1>2, <1>3, TypeCorrect, PTL DEF Spec, QueuedTokenLostOnlyToOlder

=============================================================================

--------------------------- MODULE PlaidSyncProofs ---------------------------
(* Proofs about PlaidSync, for any number of jobs, transactions and faults. *)
EXTENDS PlaidSync, FiniteSetTheorems, TLAPS

\* A spend snapshot is a number: the stored ids are a subset of 1..N.
LEMMA SpendIsNat ==
  ASSUME NEW S, S \subseteq Tx
  PROVE  Cardinality(S) \in Nat
<1>1. IsFiniteSet(Tx)
  BY SyncAssumption, FS_Interval DEF Tx
<1>2. IsFiniteSet(S)
  BY <1>1, FS_Subset
<1> QED BY <1>2, FS_CardinalityType

LEMMA TypeStep ==
  ASSUME TypeOK, [Next]_vars
  PROVE  TypeOK'
<1> USE SyncAssumption DEF TypeOK, Tx, Idle, Reading, Evaluating, Goto, Finish, Batch, HasRow, Unlinking, Detached,
                          itemVars, jobVars, history
<1>1. CASE BankPosts
  BY <1>1 DEF BankPosts
<1>2. ASSUME NEW w \in Workers, Start(w)
      PROVE  TypeOK'
  BY <1>2 DEF Start
<1>3. ASSUME NEW w \in Workers, JobStep(w)
      PROVE  TypeOK'
  <2>1. CASE FetchPage(w)
    <3>1. PICK k \in cur[w]..feed : /\ cur' = [cur EXCEPT ![w] = k]
                                   /\ pc' = [pc EXCEPT ![w] = IF k < feed THEN "paging" ELSE "snapshot"]
      BY <2>1 DEF FetchPage
    <3>2. stored' \subseteq Tx
      <4>1. PICK modified \in {{}} \cup {{t} : t \in 1..cur[w]} : stored' = stored \cup modified
        BY <2>1 DEF FetchPage
      <4>2. cur[w] \in 0..N
        OBVIOUS
      <4>3. modified \subseteq Tx
        BY <4>2
      <4> QED BY <4>1, <4>3
    <3>3. cur' \in [Workers -> 0..N] /\ pc' \in [Workers -> {Idle, Evaluating} \cup Reading]
      BY <3>1
    <3> QED BY <2>1, <3>2, <3>3 DEF FetchPage
  <2>2. CASE MutationRestart(w)
    BY <2>2 DEF MutationRestart
  <2>3. CASE SnapshotSpend(w)
    BY <2>3, SpendIsNat DEF SnapshotSpend
  <2>4. CASE Persist(w)
    <3>1. Batch(w) \subseteq Tx
      OBVIOUS
    <3>2. stored' \subseteq Tx /\ firstBatch' \subseteq Tx
      BY <2>4, <3>1 DEF Persist
    <3> QED BY <2>4, <3>2 DEF Persist
  <2>5. CASE AdvanceCursor(w)
    BY <2>5 DEF AdvanceCursor
  <2>6. CASE SettleInitial(w)
    BY <2>6 DEF SettleInitial
  <2>7. CASE SettleEmpty(w)
    BY <2>7 DEF SettleEmpty
  <2>8. CASE SettleBatch(w)
    BY <2>8 DEF SettleBatch
  <2>9. CASE ClaimEvents(w)
    <3>1. Batch(w) \subseteq Tx
      OBVIOUS
    <3>2. claims' \subseteq Tx /\ mine' \in [Workers -> SUBSET Tx]
      BY <2>9, <3>1 DEF ClaimEvents
    <3> QED BY <2>9, <3>2 DEF ClaimEvents
  <2>10. CASE SkipTransaction(w)
    BY <2>10 DEF SkipTransaction
  <2>11. CASE EvaluateTransaction(w)
    <3>1. nxt[w] \in Tx
      BY <2>11 DEF EvaluateTransaction
    <3>2. reacted' \subseteq Tx /\ again' \subseteq Tx
      BY <2>11, <3>1 DEF EvaluateTransaction, RecordReaction
    <3>3. /\ spend' \in [Workers -> Nat]
          /\ mine' \in [Workers -> SUBSET Tx]
          /\ nxt' \in [Workers -> 0..N + 1]
      BY <2>11 DEF EvaluateTransaction
    <3> QED BY <2>11, <3>2, <3>3 DEF EvaluateTransaction
  <2>12. CASE FinishEvaluation(w)
    BY <2>12 DEF FinishEvaluation
  <2> QED BY <1>3, <2>1, <2>2, <2>3, <2>4, <2>5, <2>6, <2>7, <2>8, <2>9, <2>10, <2>11, <2>12 DEF JobStep
<1>4. ASSUME NEW w \in Workers, EvaluationThrows(w)
      PROVE  TypeOK'
  <2>1. nxt[w] \in Tx /\ mine[w] \subseteq Tx
    BY <1>4 DEF EvaluationThrows
  <2>2. /\ reacted' \subseteq Tx /\ again' \subseteq Tx
        /\ released' \subseteq Tx /\ reopened' \subseteq Tx
    BY <1>4, <2>1 DEF EvaluationThrows, RecordReaction
  <2>3. faults' \in 0..MaxFaults
    <3>1. faults < MaxFaults /\ faults' = faults + 1
      BY <1>4 DEF EvaluationThrows
    <3> QED BY <3>1
  <2>5. claims' \subseteq Tx
    <3>1. claims' = claims \ mine[w]
      BY <1>4 DEF EvaluationThrows
    <3> QED BY <3>1
  <2>4. /\ pc' \in [Workers -> {Idle, Evaluating} \cup Reading]
        /\ orig' \in [Workers -> 0..N] /\ cur' \in [Workers -> 0..N]
        /\ seen' \in [Workers -> 0..N] /\ initial' \in [Workers -> BOOLEAN]
        /\ spend' \in [Workers -> Nat] /\ mine' \in [Workers -> SUBSET Tx]
        /\ nxt' \in [Workers -> 0..N + 1]
    BY <1>4 DEF EvaluationThrows
  <2> QED BY <1>4, <2>2, <2>3, <2>4, <2>5 DEF EvaluationThrows
<1>5. ASSUME NEW w \in Workers, SyncThrows(w)
      PROVE  TypeOK'
  BY <1>5 DEF SyncThrows
<1>6. ASSUME NEW t \in Tx, TrimProcessedEvents(t)
      PROVE  TypeOK'
  BY <1>6 DEF TrimProcessedEvents
<1>7. CASE Crash
  BY <1>7 DEF Crash
<1>8. CASE UnlinkStep
  BY <1>8 DEF UnlinkStep, UnlinkBegin, UnlinkDisable, UnlinkRow, UnlinkThrows, UnlinkPurge
<1>9. CASE Revoke \/ Reenable
  <2>1. faults' \in 0..MaxFaults
    BY <1>9 DEF Revoke, Reenable
  <2> QED BY <1>9, <2>1 DEF Revoke, Reenable
<1>10. CASE UNCHANGED vars
  BY <1>10 DEF vars
<1> QED BY <1>1, <1>2, <1>3, <1>4, <1>5, <1>6, <1>7, <1>8, <1>9, <1>10 DEF Next

\* Every variable keeps its type.
THEOREM TypeCorrect == Spec => []TypeOK
<1>1. Init => TypeOK
  <2> SUFFICES ASSUME Init PROVE TypeOK
    OBVIOUS
  <2>1. 0 \in 0..N /\ 0 \in 0..MaxFaults /\ 0 \in 0..N + 1
    BY SyncAssumption
  <2> QED BY <2>1, SyncAssumption DEF Init, TypeOK, Tx, Idle, Reading, Evaluating, Unlinking
<1>2. TypeOK /\ [Next]_vars => TypeOK'
  BY TypeStep
<1> QED BY <1>1, <1>2, PTL DEF Spec

-----------------------------------------------------------------------------
(* The cursor *)

\* What keeps CursorNeverAhead inductive: positions are ordered, and until the
\* user disconnects a job in flight started from a stored prefix and, once it
\* has inserted its batch, holds a stored prefix to write.
CursorInv ==
  /\ cursor <= feed
  /\ ~Detached => row = "linked"
  /\ ~Detached => 1..cursor \subseteq stored
  /\ \A w \in Workers :
       /\ orig[w] <= cur[w] /\ cur[w] <= feed
       /\ ~Detached => 1..orig[w] \subseteq stored
       /\ ~Detached /\ pc[w] = "advance" => 1..cur[w] \subseteq stored

LEMMA CursorStep ==
  ASSUME TypeOK, CursorInv, [Next]_vars
  PROVE  CursorInv'
<1> USE SyncAssumption DEF TypeOK, Tx, Idle, Reading, Evaluating, Goto, Finish, Batch, HasRow, Unlinking, Detached,
                          itemVars, jobVars, history
<1>1. CASE BankPosts
  BY <1>1 DEF BankPosts, CursorInv
<1>2. ASSUME NEW w \in Workers, Start(w)
      PROVE  CursorInv'
  BY <1>2 DEF Start, CursorInv
<1>3. ASSUME NEW w \in Workers, JobStep(w)
      PROVE  CursorInv'
  <2>1. CASE FetchPage(w)
    <3>1. PICK k \in cur[w]..feed : /\ cur' = [cur EXCEPT ![w] = k]
                                   /\ pc' = [pc EXCEPT ![w] = IF k < feed THEN "paging" ELSE "snapshot"]
      BY <2>1 DEF FetchPage
    <3>2. stored \subseteq stored'
      BY <2>1 DEF FetchPage
    <3>3. UNCHANGED <<feed, row, cursor, unlink, orig>>
      BY <2>1 DEF FetchPage
    <3>4. ASSUME NEW v \in Workers
          PROVE  /\ orig[v] <= cur'[v] /\ cur'[v] <= feed
                 /\ pc'[v] = "advance" => cur'[v] = cur[v] /\ pc[v] = "advance"
      BY <3>1, cur[v] \in 0..N, orig[v] \in 0..N DEF CursorInv
    <3> QED BY <3>2, <3>3, <3>4 DEF CursorInv
  <2>2. CASE MutationRestart(w)
    BY <2>2 DEF MutationRestart, CursorInv
  <2>3. CASE SnapshotSpend(w)
    BY <2>3 DEF SnapshotSpend, CursorInv
  <2>4. CASE Persist(w)
    <3>1. stored' = stored \cup (orig[w] + 1)..cur[w]
      BY <2>4 DEF Persist
    <3>2. ~Detached => 1..cur[w] \subseteq stored'
      BY <3>1, orig[w] \in 0..N, cur[w] \in 0..N DEF CursorInv
    <3>3. UNCHANGED <<feed, row, cursor, unlink, orig, cur>> /\ pc' = [pc EXCEPT ![w] = "advance"]
      BY <2>4 DEF Persist
    <3> QED BY <3>1, <3>2, <3>3 DEF CursorInv
  <2>5. CASE AdvanceCursor(w)
    BY <2>5 DEF AdvanceCursor, CursorInv
  <2>6. CASE SettleInitial(w)
    BY <2>6 DEF SettleInitial, CursorInv
  <2>7. CASE SettleEmpty(w)
    BY <2>7 DEF SettleEmpty, CursorInv
  <2>8. CASE SettleBatch(w)
    BY <2>8 DEF SettleBatch, CursorInv
  <2>9. CASE ClaimEvents(w)
    BY <2>9 DEF ClaimEvents, CursorInv
  <2>10. CASE SkipTransaction(w)
    BY <2>10 DEF SkipTransaction, CursorInv
  <2>11. CASE EvaluateTransaction(w)
    BY <2>11 DEF EvaluateTransaction, CursorInv
  <2>12. CASE FinishEvaluation(w)
    BY <2>12 DEF FinishEvaluation, CursorInv
  <2> QED BY <1>3, <2>1, <2>2, <2>3, <2>4, <2>5, <2>6, <2>7, <2>8, <2>9, <2>10, <2>11, <2>12 DEF JobStep
<1>4. ASSUME NEW w \in Workers, EvaluationThrows(w)
      PROVE  CursorInv'
  BY <1>4 DEF EvaluationThrows, CursorInv
<1>5. ASSUME NEW w \in Workers, SyncThrows(w)
      PROVE  CursorInv'
  BY <1>5 DEF SyncThrows, CursorInv
<1>6. ASSUME NEW t \in Tx, TrimProcessedEvents(t)
      PROVE  CursorInv'
  BY <1>6 DEF TrimProcessedEvents, CursorInv
<1>7. CASE Crash
  BY <1>7 DEF Crash, CursorInv
<1>8. CASE UnlinkStep
  BY <1>8 DEF UnlinkStep, UnlinkBegin, UnlinkDisable, UnlinkRow, UnlinkThrows, UnlinkPurge, CursorInv
<1>9. CASE Revoke \/ Reenable \/ UNCHANGED vars
  BY <1>9 DEF Revoke, Reenable, vars, CursorInv
<1> QED BY <1>1, <1>2, <1>3, <1>4, <1>5, <1>6, <1>7, <1>8, <1>9 DEF Next

LEMMA CursorInductive == Spec => []CursorInv
<1>1. Init => CursorInv
  BY SyncAssumption DEF Init, CursorInv, Detached
<1>2. TypeOK /\ CursorInv /\ [Next]_vars => CursorInv'
  BY CursorStep
<1> QED BY <1>1, <1>2, TypeCorrect, PTL DEF Spec

\* No transaction is lost behind the cursor, whatever the number of
\* overlapping deliveries, restarts, throws and crashes.
THEOREM CursorSafety == Spec => []CursorNeverAhead
<1>1. CursorInv => CursorNeverAhead
  BY DEF CursorInv, CursorNeverAhead
<1> QED BY <1>1, CursorInductive, PTL

-----------------------------------------------------------------------------
(* The claims *)

\* What keeps ReactedOncePerClaim inductive: short of `reopened`, a reaction
\* leaves its claim in the table, a job's unprocessed ids are claimed and not
\* yet reacted to, and no two jobs hold one id.
ClaimInv ==
  /\ again \subseteq reopened
  /\ \A t \in reacted : t \in claims \/ t \in reopened
  /\ \A w \in Workers : \A t \in mine[w] :
       /\ t \in claims \/ t \in reopened
       /\ t \in reacted => t \in reopened
  /\ \A v, w \in Workers : v # w => mine[v] \cap mine[w] \subseteq reopened

\* A step that leaves the claims and the histories alone and only empties
\* `unprocessed` sets keeps the invariant.
LEMMA ClaimFrame ==
  ASSUME TypeOK, ClaimInv, UNCHANGED <<claims, reacted, again, reopened>>,
         \A w \in Workers : mine'[w] \subseteq mine[w]
  PROVE  ClaimInv'
BY DEF ClaimInv

LEMMA ClaimStep ==
  ASSUME TypeOK, ClaimInv, [Next]_vars
  PROVE  ClaimInv'
<1> USE SyncAssumption DEF TypeOK, Idle, Reading, Evaluating, Goto, Finish, HasRow,
                          itemVars, jobVars, history
<1>1. CASE BankPosts
  BY <1>1 DEF BankPosts, ClaimInv
<1>2. ASSUME NEW w \in Workers, Start(w)
      PROVE  ClaimInv'
  BY <1>2 DEF Start, ClaimInv
<1>3. ASSUME NEW w \in Workers, JobStep(w)
      PROVE  ClaimInv'
  <2>1. CASE FetchPage(w) \/ MutationRestart(w) \/ SnapshotSpend(w) \/ Persist(w) \/ AdvanceCursor(w)
             \/ SettleBatch(w) \/ SkipTransaction(w)
    BY <2>1, ClaimFrame
       DEF FetchPage, MutationRestart, SnapshotSpend, Persist, AdvanceCursor, SettleBatch, SkipTransaction
  <2>2. CASE SettleInitial(w) \/ SettleEmpty(w) \/ FinishEvaluation(w)
    BY <2>2, ClaimFrame DEF SettleInitial, SettleEmpty, FinishEvaluation
  <2>3. CASE ClaimEvents(w)
    <3>1. /\ mine' = [mine EXCEPT ![w] = Batch(w) \ claims]
          /\ claims' = claims \cup Batch(w)
          /\ UNCHANGED <<reacted, again, reopened>>
      BY <2>3 DEF ClaimEvents
    <3>2. \A v \in Workers : \A t \in mine'[v] :
            /\ t \in claims' \/ t \in reopened
            /\ t \in reacted => t \in reopened
      BY <3>1 DEF ClaimInv
    <3>3. ASSUME NEW u \in Workers, NEW v \in Workers, u # v
          PROVE  mine'[u] \cap mine'[v] \subseteq reopened
      BY <3>1, <3>3 DEF ClaimInv
    <3> QED BY <3>1, <3>2, <3>3 DEF ClaimInv
  <2>4. CASE EvaluateTransaction(w)
    <3> DEFINE t == nxt[w]
    <3>1. /\ t \in mine[w]
          /\ mine' = [mine EXCEPT ![w] = @ \ {t}]
          /\ reacted' = reacted \cup {t}
          /\ again' = IF t \in reacted THEN again \cup {t} ELSE again
          /\ UNCHANGED <<claims, reopened>>
      BY <2>4 DEF EvaluateTransaction, RecordReaction
    <3>2. \A v \in Workers : mine'[v] \subseteq mine[v]
      BY <3>1
    <3>3. ASSUME NEW v \in Workers, NEW u \in mine'[v], u \in reacted'
          PROVE  u \in reopened
      BY <3>1, <3>2, <3>3 DEF ClaimInv
    <3> QED BY <3>1, <3>2, <3>3 DEF ClaimInv
  <2> QED BY <1>3, <2>1, <2>2, <2>3, <2>4 DEF JobStep
<1>4. ASSUME NEW w \in Workers, EvaluationThrows(w)
      PROVE  ClaimInv'
  <2>1. /\ nxt[w] \in mine[w]
        /\ claims' = claims \ mine[w]
        /\ mine' = [mine EXCEPT ![w] = {}]
    BY <1>4 DEF EvaluationThrows
  <2>2. \A t \in mine[w] : \A v \in Workers : v # w /\ t \in mine[v] => t \in reopened
    BY DEF ClaimInv
  <2>3. CASE /\ RecordReaction(nxt[w])
             /\ reopened' = reopened \cup (mine[w] \cap (reacted \cup {nxt[w]}))
    <3>1. /\ reacted' = reacted \cup {nxt[w]}
          /\ again' = IF nxt[w] \in reacted THEN again \cup {nxt[w]} ELSE again
      BY <2>3 DEF RecordReaction
    <3>2. again' \subseteq reopened'
      BY <2>1, <2>3, <3>1 DEF ClaimInv
    <3>3. \A t \in reacted' : t \in claims' \/ t \in reopened'
      BY <2>1, <2>3, <3>1 DEF ClaimInv
    <3>4. ASSUME NEW v \in Workers, NEW t \in mine'[v]
          PROVE  /\ t \in claims' \/ t \in reopened'
                 /\ t \in reacted' => t \in reopened'
      <4>1. v # w /\ t \in mine[v]
        BY <2>1
      <4> QED BY <4>1, <2>1, <2>2, <2>3, <3>1 DEF ClaimInv
    <3>5. \A u, v \in Workers : u # v => mine'[u] \cap mine'[v] \subseteq reopened'
      BY <2>1, <2>3 DEF ClaimInv
    <3> QED BY <3>2, <3>3, <3>4, <3>5 DEF ClaimInv
  <2>4. CASE /\ UNCHANGED <<reacted, again>>
             /\ reopened' = reopened \cup (mine[w] \cap reacted)
    <3>1. \A t \in reacted' : t \in claims' \/ t \in reopened'
      BY <2>1, <2>4 DEF ClaimInv
    <3>2. ASSUME NEW v \in Workers, NEW t \in mine'[v]
          PROVE  /\ t \in claims' \/ t \in reopened'
                 /\ t \in reacted' => t \in reopened'
      <4>1. v # w /\ t \in mine[v]
        BY <2>1
      <4> QED BY <4>1, <2>1, <2>2, <2>4 DEF ClaimInv
    <3>3. \A u, v \in Workers : u # v => mine'[u] \cap mine'[v] \subseteq reopened'
      BY <2>1, <2>4 DEF ClaimInv
    <3> QED BY <2>4, <3>1, <3>2, <3>3 DEF ClaimInv
  <2> QED BY <1>4, <2>3, <2>4 DEF EvaluationThrows
<1>5. ASSUME NEW w \in Workers, SyncThrows(w)
      PROVE  ClaimInv'
  BY <1>5, ClaimFrame DEF SyncThrows
<1>6. ASSUME NEW t \in Tx, TrimProcessedEvents(t)
      PROVE  ClaimInv'
  BY <1>6 DEF TrimProcessedEvents, ClaimInv
<1>7. CASE Crash
  BY <1>7, ClaimFrame DEF Crash
<1>8. CASE UnlinkStep
  BY <1>8 DEF UnlinkStep, UnlinkBegin, UnlinkDisable, UnlinkRow, UnlinkThrows, UnlinkPurge, ClaimInv
<1>9. CASE Revoke \/ Reenable \/ UNCHANGED vars
  BY <1>9 DEF Revoke, Reenable, vars, ClaimInv
<1> QED BY <1>1, <1>2, <1>3, <1>4, <1>5, <1>6, <1>7, <1>8, <1>9 DEF Next

\* Overlapping, repeated and interrupted deliveries never repeat a reaction
\* whose claim is still in the table.
THEOREM ReactionSafety == Spec => []ReactedOncePerClaim
<1>1. Init => ClaimInv
  BY DEF Init, ClaimInv
<1>2. TypeOK /\ ClaimInv /\ [Next]_vars => ClaimInv'
  BY ClaimStep
<1>3. ClaimInv => ReactedOncePerClaim
  BY DEF ClaimInv, ReactedOncePerClaim
<1> QED BY <1>1, <1>2, <1>3, TypeCorrect, PTL DEF Spec

-----------------------------------------------------------------------------
(* The refinement *)

\* Only reported transactions are stored.
StoredReported == stored \subseteq 1..feed

LEMMA StoredStep ==
  ASSUME TypeOK, CursorInv, StoredReported, [Next]_vars
  PROVE  StoredReported'
<1> USE DEF itemVars, jobVars, history, Finish, Goto
<1>1. ASSUME NEW w \in Workers, FetchPage(w)
      PROVE  StoredReported'
  <2>1. PICK modified \in {{}} \cup {{t} : t \in 1..cur[w]} : stored' = stored \cup modified
    BY <1>1 DEF FetchPage
  <2>2. cur[w] \in 0..feed /\ feed \in Nat /\ feed' = feed
    BY <1>1 DEF FetchPage, TypeOK, CursorInv
  <2>3. modified \subseteq 1..feed
    BY <2>2
  <2> QED BY <2>1, <2>2, <2>3 DEF StoredReported
<1>2. ASSUME NEW w \in Workers, Persist(w)
      PROVE  StoredReported'
  <2>1. stored' = stored \cup Batch(w) /\ feed' = feed
    BY <1>2 DEF Persist
  <2>2. Batch(w) \subseteq 1..feed
    BY DEF Batch, TypeOK, CursorInv
  <2> QED BY <2>1, <2>2 DEF StoredReported
<1>3. CASE BankPosts
  BY <1>3 DEF BankPosts, StoredReported, TypeOK
<1>4. CASE UnlinkPurge
  BY <1>4 DEF UnlinkPurge, StoredReported
<1>5. CASE UNCHANGED <<feed, stored>>
  BY <1>5 DEF StoredReported
<1>6. ASSUME NEW w \in Workers, JobStep(w), ~FetchPage(w), ~Persist(w)
      PROVE  UNCHANGED <<feed, stored>>
  BY <1>6 DEF JobStep, MutationRestart, SnapshotSpend, AdvanceCursor, SettleInitial, SettleEmpty, SettleBatch,
              ClaimEvents, SkipTransaction, EvaluateTransaction, FinishEvaluation
<1>7. ASSUME NEW w \in Workers, Start(w) \/ EvaluationThrows(w) \/ SyncThrows(w)
      PROVE  UNCHANGED <<feed, stored>>
  BY <1>7 DEF Start, EvaluationThrows, SyncThrows
<1>8. CASE \/ (\E t \in Tx : TrimProcessedEvents(t)) \/ Crash \/ Revoke \/ Reenable
           \/ UnlinkBegin \/ UnlinkDisable \/ UnlinkRow \/ UnlinkThrows \/ UNCHANGED vars
  BY <1>5, <1>8 DEF TrimProcessedEvents, Crash, Revoke, Reenable, UnlinkBegin, UnlinkDisable, UnlinkRow,
                   UnlinkThrows, vars
<1> QED BY <1>1, <1>2, <1>3, <1>4, <1>5, <1>6, <1>7, <1>8 DEF Next, UnlinkStep

\* Each step of the webhook is a step of the abstract consumer or leaves it
\* alone: an insert is a Store, a cursor write an Acknowledge of what is
\* stored, and everything after the disconnect is Afterwards.
LEMMA FeedStep ==
  ASSUME TypeOK, CursorInv, StoredReported, TypeOK', CursorInv', StoredReported', [Next]_vars
  PROVE  [Ledger!Next]_(Ledger!vars)
<1> USE DEF itemVars, jobVars, history, Finish, Goto, Ledger!Next, Ledger!vars
<1> DEFINE Attached == ~Detached
<1>1. CASE BankPosts
  BY <1>1 DEF BankPosts, Ledger!Report, Detached
<1>2. ASSUME NEW w \in Workers, FetchPage(w) \/ Persist(w)
      PROVE  [Ledger!Next]_(Ledger!vars)
  <2>1. stored \subseteq stored' /\ UNCHANGED <<feed, unlink, cursor>>
    BY <1>2 DEF FetchPage, Persist
  <2>2. CASE Attached
    BY <2>1, <2>2 DEF Ledger!Store, StoredReported, Detached
  <2>3. CASE ~Attached
    BY <2>1, <2>3 DEF Ledger!Afterwards, StoredReported, CursorInv, TypeOK, Detached
  <2> QED BY <2>2, <2>3
<1>3. ASSUME NEW w \in Workers, AdvanceCursor(w)
      PROVE  [Ledger!Next]_(Ledger!vars)
  <2>1. UNCHANGED <<feed, unlink, stored>>
    BY <1>3 DEF AdvanceCursor
  <2>2. cursor' \in 0..feed
    BY <2>1 DEF CursorInv, TypeOK
  <2>3. CASE Attached
    BY <1>3, <2>1, <2>2, <2>3 DEF AdvanceCursor, Ledger!Acknowledge, CursorInv, Detached
  <2>4. CASE ~Attached
    BY <2>1, <2>2, <2>4 DEF Ledger!Afterwards, StoredReported, Detached
  <2> QED BY <2>3, <2>4
<1>4. CASE UnlinkRow \/ UnlinkThrows
  <2>1. Detached' /\ UNCHANGED <<feed, stored, cursor>>
    BY <1>4 DEF UnlinkRow, UnlinkThrows, Detached
  <2> QED BY <2>1 DEF Ledger!Detach
<1>5. CASE UnlinkPurge
  <2>1. UNCHANGED <<feed, cursor>> /\ Detached /\ Detached'
    BY <1>5 DEF UnlinkPurge, Detached
  <2> QED BY <2>1 DEF Ledger!Afterwards, StoredReported, CursorInv, TypeOK
<1>6. CASE UNCHANGED <<feed, stored, cursor, unlink>>
  BY <1>6 DEF Detached
<1>7. CASE Crash \/ UnlinkBegin \/ UnlinkDisable
  <2>1. UNCHANGED <<feed, stored, cursor, Detached>>
    BY <1>7 DEF Crash, UnlinkBegin, UnlinkDisable, Detached
  <2> QED BY <2>1
<1> QED BY <1>1, <1>2, <1>3, <1>4, <1>5, <1>6, <1>7
       DEF Next, JobStep, UnlinkStep, Start, MutationRestart, SnapshotSpend, SettleInitial,
           SettleEmpty, SettleBatch, ClaimEvents, SkipTransaction, EvaluateTransaction, FinishEvaluation,
           EvaluationThrows, SyncThrows, TrimProcessedEvents, Revoke, Reenable, vars

\* The webhook implements the abstract consumer of Plaid's feed.
THEOREM FeedRefinement == Spec => ImplementsFeed
<1>1. Init => Ledger!Init
  BY DEF Init, Ledger!Init, Detached
<1>2. Init => StoredReported
  BY DEF Init, StoredReported
<1>3. TypeOK /\ CursorInv /\ StoredReported /\ [Next]_vars => StoredReported'
  BY StoredStep
<1>4. TypeOK /\ TypeOK' /\ CursorInv /\ CursorInv' /\ StoredReported /\ StoredReported' /\ [Next]_vars
      => [Ledger!Next]_(Ledger!vars)
  BY FeedStep
<1> QED BY <1>1, <1>2, <1>3, <1>4, TypeCorrect, CursorInductive, PTL DEF Spec, ImplementsFeed, Ledger!Spec

-----------------------------------------------------------------------------
(* Deliveries that do not overlap *)

\* Without overlap one job is alive, and a removed row never comes back.
AloneInv ==
  /\ ~Detached => row = "linked"
  /\ ~overlapped => \A u, v \in Workers : pc[u] # Idle /\ pc[v] # Idle => u = v

LEMMA AloneStep ==
  ASSUME TypeOK, AloneInv, [Next]_vars
  PROVE  AloneInv'
<1> USE DEF TypeOK, Idle, Reading, Evaluating, Goto, Finish, HasRow, Detached, itemVars, jobVars, history
<1>1. ASSUME NEW w \in Workers, JobStep(w) \/ EvaluationThrows(w) \/ SyncThrows(w)
      PROVE  AloneInv'
  <2>1. UNCHANGED <<unlink, row, overlapped>> /\ pc[w] # Idle
    BY <1>1 DEF JobStep, FetchPage, MutationRestart, SnapshotSpend, Persist, AdvanceCursor, SettleInitial,
                SettleEmpty, SettleBatch, ClaimEvents, SkipTransaction, EvaluateTransaction, FinishEvaluation,
                EvaluationThrows, SyncThrows
  <2>2. \A v \in Workers : v # w => pc'[v] = pc[v]
    BY <1>1 DEF JobStep, FetchPage, MutationRestart, SnapshotSpend, Persist, AdvanceCursor, SettleInitial,
                SettleEmpty, SettleBatch, ClaimEvents, SkipTransaction, EvaluateTransaction, FinishEvaluation,
                EvaluationThrows, SyncThrows
  <2> QED BY <2>1, <2>2 DEF AloneInv
<1>2. ASSUME NEW w \in Workers, Start(w)
      PROVE  AloneInv'
  BY <1>2 DEF Start, AloneInv
<1>3. CASE BankPosts \/ (\E t \in Tx : TrimProcessedEvents(t)) \/ Revoke \/ Reenable \/ UNCHANGED vars
  BY <1>3 DEF BankPosts, TrimProcessedEvents, Revoke, Reenable, vars, AloneInv
<1>4. CASE Crash
  BY <1>4 DEF Crash, AloneInv
<1>5. CASE UnlinkStep
  BY <1>5 DEF UnlinkStep, UnlinkBegin, UnlinkDisable, UnlinkRow, UnlinkThrows, UnlinkPurge, AloneInv
<1> QED BY <1>1, <1>2, <1>3, <1>4, <1>5 DEF Next

LEMMA AloneInductive == Spec => []AloneInv
<1>1. Init => AloneInv
  BY DEF Init, AloneInv, Idle, Detached
<1>2. TypeOK /\ AloneInv /\ [Next]_vars => AloneInv'
  BY AloneStep
<1> QED BY <1>1, <1>2, TypeCorrect, PTL DEF Spec

\* Without overlap the claims of earlier deliveries lie behind the cursor, so
\* a job wins its whole batch and evaluates it in order.
PositionJob(w) ==
  /\ pc[w] \in Reading => claims \subseteq 1..orig[w]
  /\ pc[w] \in {"settle", "claim"} /\ HasRow => cur[w] <= cursor
  /\ pc[w] = Evaluating => orig[w] < nxt[w] /\ mine[w] = nxt[w]..cur[w]

PositionInv == ~overlapped =>
  /\ HasRow => claims \subseteq 1..cursor
  /\ \A w \in Workers : PositionJob(w)

LEMMA PositionStep ==
  ASSUME TypeOK, CursorInv, AloneInv, PositionInv, [Next]_vars
  PROVE  PositionInv'
<1> USE DEF TypeOK, Idle, Reading, Evaluating, Goto, Finish, HasRow, itemVars, jobVars, history,
            PositionJob
<1>1. ASSUME NEW w \in Workers, Start(w)
      PROVE  PositionInv'
  BY <1>1 DEF Start, PositionInv
<1>2. ASSUME NEW w \in Workers, JobStep(w), ~overlapped
      PROVE  PositionInv'
  <2>1. pc[w] # Idle /\ UNCHANGED row
    BY <1>2 DEF JobStep, FetchPage, MutationRestart, SnapshotSpend, Persist, AdvanceCursor, SettleInitial,
                SettleEmpty, SettleBatch, ClaimEvents, SkipTransaction, EvaluateTransaction, FinishEvaluation
  <2>2. \A v \in Workers : v # w => pc[v] = Idle
    BY <2>1, <1>2 DEF AloneInv
  <2>3. CASE FetchPage(w) \/ MutationRestart(w) \/ SnapshotSpend(w) \/ Persist(w)
    <3>1. /\ UNCHANGED <<claims, cursor, orig>> /\ pc[w] \in Reading
          /\ pc'[w] \in {"paging", "snapshot", "persist", "advance"}
          /\ \A v \in Workers : v # w => pc'[v] = Idle
      BY <2>2, <2>3 DEF FetchPage, MutationRestart, SnapshotSpend, Persist
    <3> QED BY <1>2, <2>1, <3>1 DEF PositionInv
  <2>4. CASE AdvanceCursor(w)
    <3>1. /\ UNCHANGED <<claims, orig, cur>> /\ pc[w] \in Reading /\ pc'[w] = "settle"
          /\ HasRow => cursor' = IF cur[w] # 0 THEN cur[w] ELSE cursor
          /\ \A v \in Workers : v # w => pc'[v] = Idle
      BY <2>2, <2>4 DEF AdvanceCursor
    <3>2. HasRow => claims \subseteq 1..cursor'
      BY <1>2, <3>1, orig[w] \in 0..N, cur[w] \in 0..N DEF PositionInv, CursorInv
    <3>3. HasRow => cur[w] <= cursor'
      BY <3>1
    <3>4. PositionJob(w)'
      BY <1>2, <2>1, <3>1, <3>3 DEF PositionInv
    <3> QED BY <1>2, <2>1, <3>1, <3>2, <3>4 DEF PositionInv
  <2>5. CASE SettleInitial(w) \/ SettleEmpty(w) \/ FinishEvaluation(w)
    <3>1. UNCHANGED <<claims, cursor>> /\ \A v \in Workers : pc'[v] = Idle
      BY <2>2, <2>5 DEF SettleInitial, SettleEmpty, FinishEvaluation
    <3> QED BY <1>2, <2>1, <3>1 DEF PositionInv
  <2>6. CASE SettleBatch(w)
    BY <1>2, <2>2, <2>6 DEF SettleBatch, PositionInv
  <2>7. CASE ClaimEvents(w)
    <3>1. /\ UNCHANGED <<cursor, orig, cur>> /\ pc[w] = "claim" /\ pc'[w] = Evaluating
          /\ mine'[w] = ((orig[w] + 1)..cur[w]) \ claims
          /\ claims' = claims \cup (orig[w] + 1)..cur[w]
          /\ nxt'[w] = orig[w] + 1
          /\ \A v \in Workers : v # w => pc'[v] = Idle
      BY <2>2, <2>7 DEF ClaimEvents, Batch
    <3>2. claims \subseteq 1..orig[w] /\ (HasRow => cur[w] <= cursor /\ claims \subseteq 1..cursor)
      BY <1>2, <3>1 DEF PositionInv
    <3>3. mine'[w] = nxt'[w]..cur[w]
      BY <3>1, <3>2, orig[w] \in 0..N, cur[w] \in 0..N
    <3>4. ASSUME HasRow, NEW t \in claims'
          PROVE  t \in 1..cursor
      <4>1. CASE t \in claims
        BY <3>2, <3>4, <4>1
      <4>2. CASE t \in (orig[w] + 1)..cur[w]
        BY <3>2, <3>4, <4>2, cursor \in 0..N, orig[w] \in 0..N, cur[w] \in 0..N
      <4> QED BY <3>1, <3>4, <4>1, <4>2
    <3>5. PositionJob(w)'
      BY <3>1, <3>3, orig[w] \in 0..N
    <3> QED BY <1>2, <2>1, <3>1, <3>4, <3>5 DEF PositionInv
  <2>8. CASE SkipTransaction(w)
    <3>1. mine[w] = nxt[w]..cur[w] /\ nxt[w] <= cur[w] /\ nxt[w] \notin mine[w]
      BY <1>2, <2>8 DEF SkipTransaction, PositionInv
    <3> QED BY <3>1
  <2>9. CASE EvaluateTransaction(w)
    <3>1. /\ UNCHANGED <<claims, cursor, orig, cur>> /\ pc'[w] = Evaluating
          /\ mine'[w] = mine[w] \ {nxt[w]} /\ nxt'[w] = nxt[w] + 1
          /\ \A v \in Workers : v # w => pc'[v] = Idle
      BY <2>2, <2>9 DEF EvaluateTransaction
    <3>2. orig[w] < nxt[w] /\ mine[w] = nxt[w]..cur[w]
      BY <1>2, <2>9 DEF EvaluateTransaction, PositionInv
    <3>3. orig[w] < nxt'[w] /\ mine'[w] = nxt'[w]..cur[w]
      BY <3>1, <3>2, nxt[w] \in 0..N + 1, orig[w] \in 0..N, cur[w] \in 0..N, SyncAssumption
    <3> QED BY <1>2, <2>1, <3>1, <3>3 DEF PositionInv
  <2> QED BY <1>2, <2>3, <2>4, <2>5, <2>6, <2>7, <2>8, <2>9 DEF JobStep
<1>3. ASSUME NEW w \in Workers, EvaluationThrows(w) \/ SyncThrows(w), ~overlapped
      PROVE  PositionInv'
  <2>1. \A v \in Workers : pc'[v] = Idle
    BY <1>3 DEF EvaluationThrows, SyncThrows, AloneInv
  <2>2. UNCHANGED <<row, cursor>> /\ claims' \subseteq claims
    BY <1>3 DEF EvaluationThrows, SyncThrows
  <2> QED BY <1>3, <2>1, <2>2 DEF PositionInv
<1>4. ASSUME NEW t \in Tx, TrimProcessedEvents(t)
      PROVE  PositionInv'
  BY <1>4 DEF TrimProcessedEvents, PositionInv
<1>5. CASE Crash
  BY <1>5 DEF Crash, PositionInv
<1>6. CASE UnlinkStep
  <2>1. UNCHANGED <<cursor, claims, jobVars, overlapped>>
    BY <1>6 DEF UnlinkStep, UnlinkBegin, UnlinkDisable, UnlinkRow, UnlinkThrows, UnlinkPurge
  <2>2. (HasRow)' => HasRow
    BY <1>6 DEF UnlinkStep, UnlinkBegin, UnlinkDisable, UnlinkRow, UnlinkThrows, UnlinkPurge, AloneInv
  <2> QED BY <2>1, <2>2 DEF PositionInv
<1>7. CASE BankPosts \/ Revoke \/ Reenable \/ UNCHANGED vars
  BY <1>7 DEF BankPosts, Revoke, Reenable, vars, PositionInv
<1>8. ASSUME NEW w \in Workers, JobStep(w) \/ EvaluationThrows(w) \/ SyncThrows(w), overlapped
      PROVE  PositionInv'
  <2>1. overlapped' = overlapped
    BY <1>8 DEF JobStep, FetchPage, MutationRestart, SnapshotSpend, Persist, AdvanceCursor, SettleInitial,
                SettleEmpty, SettleBatch, ClaimEvents, SkipTransaction, EvaluateTransaction, FinishEvaluation,
                EvaluationThrows, SyncThrows
  <2> QED BY <1>8, <2>1 DEF PositionInv
<1> QED BY <1>1, <1>2, <1>3, <1>4, <1>5, <1>6, <1>7, <1>8 DEF Next

LEMMA PositionInductive == Spec => []PositionInv
<1>1. Init => PositionInv
  BY DEF Init, PositionInv, PositionJob, Idle, Reading, Evaluating
<1>2. TypeOK /\ CursorInv /\ AloneInv /\ PositionInv /\ [Next]_vars => PositionInv'
  BY PositionStep
<1> QED BY <1>1, <1>2, TypeCorrect, CursorInductive, AloneInductive, PTL DEF Spec

\* What keeps InitialHistorySilent inductive: until the item is marked nothing
\* is reacted to, and once it is marked what the first syncs stored lies
\* behind the cursor, from which every later job starts.
FirstJob(w) == pc[w] # Idle /\ initial[w] =>
  /\ ~initDone
  /\ pc[w] \notin {"claim", Evaluating}
  /\ pc[w] # "paging" => firstBatch \subseteq 1..cur[w]
  /\ pc[w] = "settle" /\ HasRow => firstBatch \subseteq 1..cursor

LaterJob(w) == pc[w] # Idle /\ ~initial[w] =>
  /\ initDone
  /\ firstBatch \subseteq 1..orig[w]

SilentInv ==
  /\ firstBatch \subseteq 1..feed
  /\ ~overlapped =>
       /\ reacted \cap firstBatch = {}
       /\ ~initDone => reacted = {}
       /\ initDone => firstBatch \subseteq 1..cursor
       /\ \A w \in Workers : FirstJob(w) /\ LaterJob(w)

\* What a first sync stores has been reported.
LEMMA FirstBatchStep ==
  ASSUME TypeOK, CursorInv, firstBatch \subseteq 1..feed, [Next]_vars
  PROVE  firstBatch' \subseteq 1..feed'
<1> USE DEF itemVars, jobVars, history, Finish, Goto
<1>1. ASSUME NEW w \in Workers, Persist(w)
      PROVE  firstBatch' \subseteq 1..feed'
  <2>1. Batch(w) \subseteq 1..feed
    BY DEF Batch, TypeOK, CursorInv
  <2>2. firstBatch' \subseteq firstBatch \cup Batch(w) /\ feed' = feed
    BY <1>1 DEF Persist
  <2> QED BY <2>1, <2>2
<1>2. CASE BankPosts
  BY <1>2 DEF BankPosts, TypeOK
<1>3. ASSUME NEW w \in Workers, JobStep(w), ~Persist(w)
      PROVE  UNCHANGED <<feed, firstBatch>>
  BY <1>3 DEF JobStep, FetchPage, MutationRestart, SnapshotSpend, AdvanceCursor, SettleInitial, SettleEmpty,
              SettleBatch, ClaimEvents, SkipTransaction, EvaluateTransaction, FinishEvaluation
<1>4. ASSUME NEW w \in Workers, Start(w) \/ EvaluationThrows(w) \/ SyncThrows(w)
      PROVE  UNCHANGED <<feed, firstBatch>>
  BY <1>4 DEF Start, EvaluationThrows, SyncThrows
<1>5. CASE (\E t \in Tx : TrimProcessedEvents(t)) \/ Crash \/ Revoke \/ Reenable \/ UnlinkStep \/ UNCHANGED vars
  BY <1>5 DEF TrimProcessedEvents, Crash, Revoke, Reenable, UnlinkStep, UnlinkBegin, UnlinkDisable, UnlinkRow, UnlinkThrows, UnlinkPurge, vars
<1> QED BY <1>1, <1>2, <1>3, <1>4, <1>5 DEF Next

LEMMA SilentStep ==
  ASSUME TypeOK, CursorInv, AloneInv, PositionInv, SilentInv, [Next]_vars
  PROVE  SilentInv'
<1>0. firstBatch' \subseteq 1..feed'
  BY FirstBatchStep DEF SilentInv
<1> USE DEF TypeOK, Idle, Reading, Evaluating, Goto, Finish, HasRow, itemVars, jobVars, history,
            FirstJob, LaterJob
<1>1. ASSUME NEW w \in Workers, Start(w)
      PROVE  SilentInv'
  BY <1>0, <1>1 DEF Start, SilentInv
<1>2. ASSUME NEW w \in Workers, JobStep(w), ~overlapped
      PROVE  SilentInv'
  <2>1. pc[w] # Idle /\ UNCHANGED <<row, overlapped>>
    BY <1>2 DEF JobStep, FetchPage, MutationRestart, SnapshotSpend, Persist, AdvanceCursor, SettleInitial,
                SettleEmpty, SettleBatch, ClaimEvents, SkipTransaction, EvaluateTransaction, FinishEvaluation
  <2>2. \A v \in Workers : v # w => pc[v] = Idle
    BY <2>1, <1>2 DEF AloneInv
  <2>3. CASE FetchPage(w)
    <3>1. /\ UNCHANGED <<cursor, initDone, reacted, firstBatch, orig, initial>> /\ pc[w] = "paging"
          /\ \A v \in Workers : v # w => pc'[v] = Idle
      BY <2>2, <2>3 DEF FetchPage
    <3>2. pc'[w] = "paging" \/ (pc'[w] = "snapshot" /\ cur'[w] = feed)
      <4>1. PICK k \in cur[w]..feed : /\ cur' = [cur EXCEPT ![w] = k]
                                     /\ pc' = [pc EXCEPT ![w] = IF k < feed THEN "paging" ELSE "snapshot"]
        BY <2>3 DEF FetchPage
      <4>2. cur[w] \in Nat /\ feed \in Nat
        OBVIOUS
      <4> QED BY <4>1, <4>2
    <3> QED BY <1>0, <1>2, <2>1, <3>1, <3>2 DEF SilentInv
  <2>4. CASE MutationRestart(w) \/ SnapshotSpend(w)
    <3>1. /\ UNCHANGED <<cursor, initDone, reacted, firstBatch, orig, initial>>
          /\ pc'[w] = "paging" \/ (pc[w] = "snapshot" /\ pc'[w] = "persist" /\ cur' = cur)
          /\ \A v \in Workers : v # w => pc'[v] = Idle
      BY <2>2, <2>4 DEF MutationRestart, SnapshotSpend
    <3> QED BY <1>0, <1>2, <2>1, <3>1 DEF SilentInv
  <2>5. CASE Persist(w)
    <3>1. /\ UNCHANGED <<cursor, initDone, reacted, orig, cur, initial>>
          /\ pc[w] = "persist" /\ pc'[w] = "advance"
          /\ firstBatch' = IF initial[w] THEN firstBatch \cup (orig[w] + 1)..cur[w] ELSE firstBatch
          /\ \A v \in Workers : v # w => pc'[v] = Idle
      BY <2>2, <2>5 DEF Persist, Batch
    <3>2. CASE initial[w]
      <4>1. ~initDone /\ reacted = {} /\ firstBatch \subseteq 1..cur[w]
        BY <1>2, <3>1, <3>2 DEF SilentInv
      <4>2. firstBatch' \subseteq 1..cur[w]
        <5>1. (orig[w] + 1)..cur[w] \subseteq 1..cur[w]
          BY orig[w] \in 0..N, cur[w] \in 0..N
        <5> QED BY <3>1, <3>2, <4>1, <5>1
      <4> QED BY <1>0, <1>2, <2>1, <3>1, <3>2, <4>1, <4>2 DEF SilentInv
    <3>3. CASE ~initial[w]
      BY <1>0, <1>2, <2>1, <3>1, <3>3 DEF SilentInv
    <3> QED BY <3>2, <3>3
  <2>6. CASE AdvanceCursor(w)
    <3>1. /\ UNCHANGED <<initDone, reacted, firstBatch, orig, cur, initial>>
          /\ pc[w] = "advance" /\ pc'[w] = "settle"
          /\ cursor' = IF cur[w] # 0 /\ HasRow THEN cur[w] ELSE cursor
          /\ \A v \in Workers : v # w => pc'[v] = Idle
      BY <2>2, <2>6 DEF AdvanceCursor
    <3>2. orig[w] <= cur[w] /\ orig[w] \in Nat /\ cur[w] \in Nat
      BY DEF CursorInv
    <3>3. CASE initial[w]
      <4>1. ~initDone /\ reacted = {} /\ firstBatch \subseteq 1..cur[w]
        BY <1>2, <3>1, <3>3 DEF SilentInv
      <4>2. HasRow => firstBatch \subseteq 1..cursor'
        BY <3>1, <3>2, <4>1
      <4> QED BY <1>0, <1>2, <2>1, <3>1, <3>3, <4>1, <4>2 DEF SilentInv
    <3>4. CASE ~initial[w]
      <4>1. /\ reacted \cap firstBatch = {} /\ initDone
            /\ firstBatch \subseteq 1..orig[w] /\ firstBatch \subseteq 1..cursor
        BY <1>2, <3>1, <3>4 DEF SilentInv
      <4>2. firstBatch \subseteq 1..cursor'
        BY <3>1, <3>2, <4>1
      <4> QED BY <1>0, <1>2, <2>1, <3>1, <3>4, <4>1, <4>2 DEF SilentInv
    <3> QED BY <3>3, <3>4
  <2>7. CASE SettleInitial(w)
    <3>1. /\ UNCHANGED <<cursor, reacted, firstBatch>> /\ pc[w] = "settle" /\ initial[w]
          /\ initDone' = (initDone \/ HasRow)
          /\ \A v \in Workers : pc'[v] = Idle
      BY <2>2, <2>7 DEF SettleInitial
    <3> QED BY <1>0, <1>2, <2>1, <3>1 DEF SilentInv
  <2>8. CASE SettleEmpty(w) \/ FinishEvaluation(w)
    <3>1. /\ UNCHANGED <<cursor, initDone, reacted, firstBatch>> /\ \A v \in Workers : pc'[v] = Idle
      BY <2>2, <2>8 DEF SettleEmpty, FinishEvaluation
    <3> QED BY <1>0, <1>2, <2>1, <3>1 DEF SilentInv
  <2>9. CASE SettleBatch(w) \/ ClaimEvents(w) \/ SkipTransaction(w)
    <3>1. /\ UNCHANGED <<cursor, initDone, reacted, firstBatch, orig, initial>>
          /\ ~initial[w] \/ pc[w] \in {"claim", Evaluating}
          /\ \A v \in Workers : v # w => pc'[v] = Idle
      BY <2>2, <2>9 DEF SettleBatch, ClaimEvents, SkipTransaction
    <3>2. ~initial[w]
      BY <1>2, <2>1, <3>1 DEF SilentInv
    <3> QED BY <1>0, <1>2, <2>1, <3>1, <3>2 DEF SilentInv
  <2>10. CASE EvaluateTransaction(w)
    <3>1. /\ UNCHANGED <<cursor, initDone, firstBatch, orig, initial>> /\ pc[w] = Evaluating
          /\ reacted' = reacted \cup {nxt[w]}
          /\ \A v \in Workers : v # w => pc'[v] = Idle
      BY <2>2, <2>10 DEF EvaluateTransaction, RecordReaction
    <3>2. ~initial[w] /\ initDone /\ firstBatch \subseteq 1..orig[w]
      BY <1>2, <3>1 DEF SilentInv
    <3>3. nxt[w] \notin firstBatch
      BY <1>2, <3>1, <3>2, orig[w] \in 0..N, nxt[w] \in 0..N + 1 DEF PositionInv, PositionJob
    <3> QED BY <1>0, <1>2, <2>1, <3>1, <3>2, <3>3 DEF SilentInv
  <2> QED BY <1>2, <2>3, <2>4, <2>5, <2>6, <2>7, <2>8, <2>9, <2>10 DEF JobStep
<1>3. ASSUME NEW w \in Workers, EvaluationThrows(w), ~overlapped
      PROVE  SilentInv'
  <2>1. /\ UNCHANGED <<cursor, initDone, firstBatch, overlapped>> /\ pc[w] = Evaluating
        /\ reacted' = reacted \/ reacted' = reacted \cup {nxt[w]}
        /\ \A v \in Workers : pc'[v] = Idle
    BY <1>3 DEF EvaluationThrows, RecordReaction, AloneInv
  <2>2. initDone /\ firstBatch \subseteq 1..orig[w]
    BY <1>3, <2>1 DEF SilentInv
  <2>3. nxt[w] \notin firstBatch
    BY <1>3, <2>1, <2>2, orig[w] \in 0..N, nxt[w] \in 0..N + 1 DEF PositionInv, PositionJob
  <2> QED BY <1>0, <1>3, <2>1, <2>2, <2>3 DEF SilentInv
<1>4. ASSUME NEW w \in Workers, SyncThrows(w), ~overlapped
      PROVE  SilentInv'
  <2>1. /\ UNCHANGED <<cursor, initDone, reacted, firstBatch, overlapped>>
        /\ \A v \in Workers : pc'[v] = Idle
    BY <1>4 DEF SyncThrows, AloneInv
  <2> QED BY <1>0, <1>4, <2>1 DEF SilentInv
<1>5. ASSUME NEW w \in Workers, JobStep(w) \/ EvaluationThrows(w) \/ SyncThrows(w), overlapped
      PROVE  SilentInv'
  <2>1. overlapped' = overlapped
    BY <1>5 DEF JobStep, FetchPage, MutationRestart, SnapshotSpend, Persist, AdvanceCursor, SettleInitial,
                SettleEmpty, SettleBatch, ClaimEvents, SkipTransaction, EvaluateTransaction, FinishEvaluation,
                EvaluationThrows, SyncThrows
  <2> QED BY <1>0, <1>5, <2>1 DEF SilentInv
<1>6. CASE (\E t \in Tx : TrimProcessedEvents(t)) \/ BankPosts \/ Revoke \/ Reenable \/ UNCHANGED vars
  <2>1. UNCHANGED <<row, cursor, initDone, jobVars, reacted, firstBatch, overlapped>>
    BY <1>6 DEF TrimProcessedEvents, BankPosts, Revoke, Reenable, vars
  <2> QED BY <1>0, <2>1 DEF SilentInv
<1>7. CASE Crash
  BY <1>0, <1>7 DEF Crash, SilentInv
<1>8. CASE UnlinkStep
  <2>1. UNCHANGED <<cursor, initDone, jobVars, history>>
    BY <1>8 DEF UnlinkStep, UnlinkBegin, UnlinkDisable, UnlinkRow, UnlinkThrows, UnlinkPurge
  <2>2. (HasRow)' => HasRow
    BY <1>8 DEF UnlinkStep, UnlinkBegin, UnlinkDisable, UnlinkRow, UnlinkThrows, UnlinkPurge, AloneInv
  <2> QED BY <1>0, <2>1, <2>2 DEF SilentInv
<1> QED BY <1>1, <1>2, <1>3, <1>4, <1>5, <1>6, <1>7, <1>8 DEF Next

\* While deliveries do not overlap, nothing an initial sync ingested is reacted
\* to, however many deliveries, restarts, throws and crashes there are.
THEOREM HistorySafety == Spec => []InitialHistorySilent
<1>1. Init => SilentInv
  BY DEF Init, SilentInv, FirstJob, LaterJob, Idle
<1>2. TypeOK /\ CursorInv /\ AloneInv /\ PositionInv /\ SilentInv /\ [Next]_vars => SilentInv'
  BY SilentStep
<1>3. SilentInv => InitialHistorySilent
  BY DEF SilentInv, InitialHistorySilent
<1> QED BY <1>1, <1>2, <1>3, TypeCorrect, CursorInductive, AloneInductive, PositionInductive, PTL DEF Spec

-----------------------------------------------------------------------------
(* The running total *)

LEMMA SmallerCount ==
  ASSUME NEW S, S \subseteq Tx, NEW R, R \subseteq S
  PROVE  Cardinality(R) <= Cardinality(S)
<1>1. IsFiniteSet(Tx)
  BY SyncAssumption, FS_Interval DEF Tx
<1>2. IsFiniteSet(S)
  BY <1>1, FS_Subset
<1> QED BY <1>2, FS_Subset

LEMMA OneMore ==
  ASSUME NEW S, S \subseteq Tx, NEW t
  PROVE  Cardinality(S \cup {t}) <= Cardinality(S) + 1
<1>1. IsFiniteSet(Tx)
  BY SyncAssumption, FS_Interval DEF Tx
<1>2. IsFiniteSet(S)
  BY <1>1, FS_Subset
<1>3. Cardinality(S) \in Nat
  BY SpendIsNat
<1> QED BY <1>2, <1>3, FS_AddElement

\* What keeps WeeklySpendNotUnderstated inductive: from its snapshot on, a
\* lone job's total covers every stored row outside what it has yet to count.
SpendJob(w) ==
  /\ pc[w] = "persist" => spend[w] >= Cardinality(stored)
  /\ pc[w] \in {"advance", "settle", "claim"} => spend[w] >= Cardinality(stored \ Batch(w))
  /\ pc[w] = Evaluating => spend[w] >= Cardinality(stored \ (nxt[w]..cur[w]))

SpendInv == ~overlapped => \A w \in Workers : SpendJob(w)

\* Rows that leave the table only lower what a total has to cover.
LEMMA SpendFrame ==
  ASSUME TypeOK, SpendInv, stored' \subseteq stored, UNCHANGED <<jobVars, overlapped>>
  PROVE  SpendInv'
<1> SUFFICES ASSUME ~overlapped, NEW w \in Workers
             PROVE  SpendJob(w)'
  BY DEF SpendInv
<1>1. SpendJob(w)
  BY DEF SpendInv
<1>2. ASSUME NEW X
      PROVE  /\ Cardinality(stored' \ X) <= Cardinality(stored \ X)
             /\ Cardinality(stored' \ X) \in Nat /\ Cardinality(stored \ X) \in Nat
  <2>1. stored \ X \subseteq Tx /\ stored' \ X \subseteq stored \ X
    BY DEF TypeOK
  <2>2. stored' \ X \subseteq Tx
    BY <2>1
  <2> QED BY <2>1, <2>2, SmallerCount, SpendIsNat
<1>3. /\ Cardinality(stored') <= Cardinality(stored)
      /\ Cardinality(stored') \in Nat /\ Cardinality(stored) \in Nat
  <2>1. stored \subseteq Tx /\ stored' \subseteq Tx
    BY DEF TypeOK
  <2> QED BY <2>1, SmallerCount, SpendIsNat
<1>4. spend[w] \in Nat /\ UNCHANGED <<pc, orig, cur, nxt, spend>>
  BY DEF TypeOK, jobVars
<1>5. pc'[w] = "persist" => spend'[w] >= Cardinality(stored')
  BY <1>1, <1>3, <1>4 DEF SpendJob
<1>6. pc'[w] \in {"advance", "settle", "claim"} => spend'[w] >= Cardinality(stored' \ Batch(w)')
  <2>1. Batch(w)' = Batch(w) /\ pc'[w] = pc[w] /\ spend'[w] = spend[w]
    BY <1>4 DEF Batch
  <2>2. /\ Cardinality(stored' \ Batch(w)) <= Cardinality(stored \ Batch(w))
        /\ Cardinality(stored' \ Batch(w)) \in Nat /\ Cardinality(stored \ Batch(w)) \in Nat
    BY <1>2
  <2> QED BY <1>1, <1>4, <2>1, <2>2 DEF SpendJob
<1>7. pc'[w] = Evaluating => spend'[w] >= Cardinality(stored' \ (nxt'[w]..cur'[w]))
  <2> DEFINE rest == nxt[w]..cur[w]
  <2>1. nxt'[w]..cur'[w] = rest /\ pc'[w] = pc[w] /\ spend'[w] = spend[w]
    BY <1>4
  <2>2. /\ Cardinality(stored' \ rest) <= Cardinality(stored \ rest)
        /\ Cardinality(stored' \ rest) \in Nat /\ Cardinality(stored \ rest) \in Nat
    BY <1>2
  <2>3. pc[w] = Evaluating => spend[w] >= Cardinality(stored \ rest)
    BY <1>1 DEF SpendJob
  <2>4. pc[w] = Evaluating => spend[w] >= Cardinality(stored' \ rest)
    <3> HIDE DEF rest
    <3> QED BY <1>4, <2>2, <2>3
  <2>5. Cardinality(stored' \ (nxt'[w]..cur'[w])) = Cardinality(stored' \ rest)
    BY <2>1, Zenon
  <2> HIDE DEF rest
  <2> QED BY <2>1, <2>4, <2>5
<1> QED BY <1>5, <1>6, <1>7 DEF SpendJob

LEMMA SpendStep ==
  ASSUME TypeOK, CursorInv, AloneInv, PositionInv, SpendInv, [Next]_vars
  PROVE  SpendInv'
<1> USE DEF Idle, Reading, Evaluating, Goto, Finish, HasRow, itemVars, jobVars, history
<1>1. ASSUME NEW w \in Workers, Start(w)
      PROVE  SpendInv'
  BY <1>1 DEF Start, SpendInv, SpendJob, Batch, TypeOK
<1>2. ASSUME NEW w \in Workers, JobStep(w), ~overlapped
      PROVE  SpendInv'
  <2>1. pc[w] # Idle /\ UNCHANGED overlapped
    BY <1>2 DEF JobStep, FetchPage, MutationRestart, SnapshotSpend, Persist, AdvanceCursor, SettleInitial,
                SettleEmpty, SettleBatch, ClaimEvents, SkipTransaction, EvaluateTransaction, FinishEvaluation
  <2>2. \A v \in Workers : v # w => pc'[v] = Idle
    <3>1. \A v \in Workers : v # w => pc[v] = Idle
      BY <2>1, <1>2 DEF AloneInv
    <3> QED BY <3>1, <1>2
            DEF TypeOK, JobStep, FetchPage, MutationRestart, SnapshotSpend, Persist, AdvanceCursor, SettleInitial,
                SettleEmpty, SettleBatch, ClaimEvents, SkipTransaction, EvaluateTransaction, FinishEvaluation
  <2>3. SUFFICES SpendJob(w)'
    BY <1>2, <2>1, <2>2 DEF SpendInv, SpendJob
  <2>4. SpendJob(w) /\ PositionJob(w)
    BY <1>2 DEF SpendInv, PositionInv
  <2>5. CASE FetchPage(w) \/ MutationRestart(w) \/ SettleInitial(w) \/ SettleEmpty(w) \/ FinishEvaluation(w)
    <3>1. pc'[w] \in {"paging", "snapshot", Idle}
      BY <2>5 DEF FetchPage, MutationRestart, SettleInitial, SettleEmpty, FinishEvaluation, TypeOK
    <3> QED BY <3>1 DEF SpendJob
  <2>6. CASE SnapshotSpend(w)
    <3>1. /\ pc'[w] = "persist" /\ spend'[w] = Cardinality(stored) /\ stored' = stored
      BY <2>6 DEF SnapshotSpend, TypeOK
    <3>2. Cardinality(stored) \in Nat
      BY SpendIsNat DEF TypeOK
    <3> QED BY <3>1, <3>2 DEF SpendJob
  <2>7. CASE Persist(w)
    <3>1. /\ pc[w] = "persist" /\ pc'[w] = "advance" /\ UNCHANGED <<orig, cur, spend>>
          /\ stored' = stored \cup Batch(w)
      BY <2>7 DEF Persist, TypeOK
    <3>2. /\ Cardinality(stored \ Batch(w)) <= Cardinality(stored)
          /\ Cardinality(stored \ Batch(w)) \in Nat /\ Cardinality(stored) \in Nat
      BY SmallerCount, SpendIsNat, stored \ Batch(w) \subseteq stored DEF TypeOK
    <3>3. Batch(w)' = Batch(w)
      BY <3>1 DEF Batch
    <3>4. stored' \ Batch(w)' = stored \ Batch(w)
      BY <3>1, <3>3
    <3>5. spend'[w] >= Cardinality(stored' \ Batch(w)')
      <4>1. spend[w] >= Cardinality(stored) /\ spend[w] \in Nat
        BY <2>4, <3>1 DEF SpendJob, TypeOK
      <4>2. spend[w] >= Cardinality(stored \ Batch(w))
        BY <3>2, <4>1
      <4> QED BY <3>1, <3>4, <4>2
    <3> QED BY <3>1, <3>5 DEF SpendJob
  <2>8. CASE AdvanceCursor(w) \/ SettleBatch(w)
    <3>1. /\ pc[w] \in {"advance", "settle"} /\ pc'[w] \in {"settle", "claim"}
          /\ UNCHANGED <<orig, cur, spend, stored>>
      BY <2>8 DEF AdvanceCursor, SettleBatch, TypeOK
    <3> QED BY <2>4, <3>1 DEF SpendJob, Batch
  <2>9. CASE ClaimEvents(w)
    <3>1. /\ pc[w] = "claim" /\ pc'[w] = Evaluating /\ nxt'[w] = orig[w] + 1
          /\ UNCHANGED <<orig, cur, spend, stored>>
      BY <2>9 DEF ClaimEvents, TypeOK
    <3>2. Batch(w) = nxt'[w]..cur'[w]
      BY <3>1 DEF Batch
    <3> QED BY <2>4, <3>1, <3>2 DEF SpendJob
  <2>10. CASE SkipTransaction(w)
    <3>1. mine[w] = nxt[w]..cur[w] /\ nxt[w] <= cur[w] /\ nxt[w] \notin mine[w]
      BY <2>4, <2>10 DEF SkipTransaction, PositionJob
    <3>2. nxt[w] \in Nat /\ cur[w] \in Nat
      BY SyncAssumption DEF TypeOK
    <3> QED BY <3>1, <3>2
  <2>11. CASE EvaluateTransaction(w)
    <3> DEFINE before == stored \ (nxt[w]..cur[w])
               after  == stored \ ((nxt[w] + 1)..cur[w])
    <3>1. /\ pc[w] = Evaluating /\ pc'[w] = Evaluating
          /\ nxt'[w] = nxt[w] + 1 /\ spend'[w] = spend[w] + 1
          /\ UNCHANGED <<cur, stored>>
      BY <2>11 DEF EvaluateTransaction, TypeOK
    <3>2. after \subseteq before \cup {nxt[w]}
      BY SyncAssumption, nxt[w] \in 0..N + 1, cur[w] \in 0..N DEF TypeOK
    <3>3. nxt[w] \in Tx /\ before \subseteq Tx
      BY <2>11, SyncAssumption DEF EvaluateTransaction, TypeOK
    <3>4. Cardinality(after) <= Cardinality(before \cup {nxt[w]})
      BY <3>2, <3>3, SmallerCount
    <3>5. Cardinality(before \cup {nxt[w]}) <= Cardinality(before) + 1
      BY <3>3, OneMore
    <3>6. /\ Cardinality(after) \in Nat /\ Cardinality(before) \in Nat
          /\ Cardinality(before \cup {nxt[w]}) \in Nat
      BY <3>2, <3>3, SpendIsNat
    <3>7. spend[w] >= Cardinality(before) /\ spend[w] \in Nat
      BY <2>4, <3>1 DEF SpendJob, TypeOK
    <3>8. spend'[w] >= Cardinality(after)
      BY <3>1, <3>4, <3>5, <3>6, <3>7
    <3> QED BY <3>1, <3>8 DEF SpendJob
  <2> QED BY <1>2, <2>5, <2>6, <2>7, <2>8, <2>9, <2>10, <2>11 DEF JobStep
<1>3. ASSUME NEW w \in Workers, EvaluationThrows(w) \/ SyncThrows(w), ~overlapped
      PROVE  SpendInv'
  <2>1. \A v \in Workers : pc'[v] = Idle
    BY <1>3 DEF EvaluationThrows, SyncThrows, AloneInv, TypeOK
  <2> QED BY <2>1 DEF SpendInv, SpendJob
<1>4. ASSUME NEW w \in Workers, JobStep(w) \/ EvaluationThrows(w) \/ SyncThrows(w), overlapped
      PROVE  SpendInv'
  <2>1. overlapped' = overlapped
    BY <1>4 DEF JobStep, FetchPage, MutationRestart, SnapshotSpend, Persist, AdvanceCursor, SettleInitial,
                SettleEmpty, SettleBatch, ClaimEvents, SkipTransaction, EvaluateTransaction, FinishEvaluation,
                EvaluationThrows, SyncThrows
  <2> QED BY <1>4, <2>1 DEF SpendInv
<1>5. CASE Crash
  BY <1>5 DEF Crash, SpendInv, SpendJob
<1>6. CASE \/ (\E t \in Tx : TrimProcessedEvents(t)) \/ BankPosts \/ Revoke \/ Reenable
           \/ UnlinkStep \/ UNCHANGED vars
  <2>1. stored' \subseteq stored /\ UNCHANGED <<jobVars, overlapped>>
    BY <1>6 DEF TrimProcessedEvents, BankPosts, Revoke, Reenable, UnlinkStep, UnlinkBegin, UnlinkDisable, UnlinkRow, UnlinkThrows, UnlinkPurge, vars
  <2> QED BY <2>1, SpendFrame
<1> QED BY <1>1, <1>2, <1>3, <1>4, <1>5, <1>6 DEF Next

\* While deliveries do not overlap, no rule is evaluated against a total below
\* the week's stored spend, whatever modified rows, unlinks and throws do.
THEOREM SpendSafety == Spec => []WeeklySpendNotUnderstated
<1>1. Init => SpendInv
  BY DEF Init, SpendInv, SpendJob, Idle, Evaluating
<1>2. TypeOK /\ CursorInv /\ AloneInv /\ PositionInv /\ SpendInv /\ [Next]_vars => SpendInv'
  BY SpendStep
<1>3. SpendInv => WeeklySpendNotUnderstated
  BY DEF SpendInv, SpendJob, WeeklySpendNotUnderstated
<1> QED BY <1>1, <1>2, <1>3, TypeCorrect, CursorInductive, AloneInductive, PositionInductive, PTL DEF Spec

=============================================================================

------------------------------ MODULE PlaidSync ------------------------------
(***************************************************************************)
(* The transaction path of the Plaid webhook (webhook/plaid.ts, syncItem)  *)
(* for ONE Plaid Item, with the rows it shares with every other delivery:  *)
(* the item's sync cursor (store/items.ts), the stored transactions        *)
(* (store/transactions.ts) and the claims of processed_events              *)
(* (store/events.ts).                                                      *)
(*                                                                         *)
(* A delivery is answered 200 and processed in the background, and nothing *)
(* serialises the deliveries of one Item: Workers are the background jobs  *)
(* that may be alive together, and every step below is one database        *)
(* statement or one Plaid call, the grain at which they interleave.        *)
(*                                                                         *)
(* Plaid's update log is the sequence of transaction ids 1..feed, a cursor *)
(* is a position in it, and position 0 is the null (or empty) cursor.      *)
(* Every transaction is a debit of one unit in one budgeted category,      *)
(* dated inside the weekly window, so a spend total is a number of         *)
(* transactions.                                                           *)
(***************************************************************************)
EXTENDS Naturals, FiniteSets

CONSTANTS
  Workers,    \* background jobs processing deliveries for this Item
  N,          \* bound: transactions Plaid ever reports for this Item
  MaxFaults,  \* bound: throws, process crashes and revocations
  MayUnlink   \* whether the user disconnects the bank in this behaviour

ASSUME SyncAssumption ==
  /\ N \in Nat
  /\ MaxFaults \in Nat
  /\ MayUnlink \in BOOLEAN

Tx == 1..N

VARIABLES
  feed,       \* length of Plaid's update log
  row,        \* the plaid_items row: "linked" or "gone"
  disabled,   \* plaid_items.disabled
  cursor,     \* plaid_items.cursor
  initDone,   \* plaid_items.initial_sync_complete
  stored,     \* ids with a row in transactions
  claims,     \* ids with a row in processed_events
  unlink,     \* DELETE /api/plaid/item: where its handler is
  pc,         \* where each job is
  orig,       \* item.cursor as the job read it (originalCursor)
  cur,        \* the job's local cursor
  seen,       \* feed when the job began its pagination
  initial,    \* item.initialSyncComplete was false when the job read it
  spend,      \* runningSpend: the snapshot, then the running total
  mine,       \* `unprocessed`: claimed by the job, not yet evaluated
  nxt,        \* position in `adapted` of the evaluation loop
  faults,     \* throws, crashes and revocations so far
  reacted,    \* history: ids whose performReactions ran
  again,      \* history: ids whose performReactions ran more than once
  reopened,   \* history: ids whose claim left the table after a reaction
  released,   \* history: ids given back by releaseEvents, unevaluated
  firstBatch, \* history: ids stored by a sync that skipped evaluation
  overlapped  \* history: a job began while another was alive

itemVars == <<row, disabled, cursor, initDone>>
jobVars  == <<pc, orig, cur, seen, initial, spend, mine, nxt>>
history  == <<reacted, again, reopened, released, firstBatch, overlapped>>
vars == <<feed, itemVars, stored, claims, unlink, jobVars, faults, history>>

Idle == "idle"
\* The awaits of syncItem before the claim, in program order.
Reading == {"paging", "snapshot", "persist", "advance", "settle", "claim"}
Evaluating == "evaluating"

\* `adapted`: the added transactions of the pages since the original cursor.
Batch(w) == (orig[w] + 1)..cur[w]
HasRow == row # "gone"
\* The user's disconnect is past the item rows: the data is being purged, was
\* purged, or the handler died before it could be.
Unlinking == {"idle", "removing", "dropping", "purging", "done", "died"}
Detached == unlink \in {"purging", "done", "died"}

TypeOK ==
  /\ feed \in 0..N
  /\ row \in {"linked", "gone"}
  /\ disabled \in BOOLEAN
  /\ cursor \in 0..N
  /\ initDone \in BOOLEAN
  /\ stored \subseteq Tx
  /\ claims \subseteq Tx
  /\ unlink \in Unlinking
  /\ pc \in [Workers -> {Idle, Evaluating} \cup Reading]
  /\ orig \in [Workers -> 0..N]
  /\ cur \in [Workers -> 0..N]
  /\ seen \in [Workers -> 0..N]
  /\ initial \in [Workers -> BOOLEAN]
  /\ spend \in [Workers -> Nat]
  /\ mine \in [Workers -> SUBSET Tx]
  /\ nxt \in [Workers -> 0..N + 1]
  /\ faults \in 0..MaxFaults
  /\ reacted \subseteq Tx
  /\ again \subseteq Tx
  /\ reopened \subseteq Tx
  /\ released \subseteq Tx
  /\ firstBatch \subseteq Tx
  /\ overlapped \in BOOLEAN

Init ==
  /\ feed = 0
  /\ row = "linked" /\ disabled = FALSE /\ cursor = 0 /\ initDone = FALSE
  /\ stored = {} /\ claims = {}
  /\ unlink = "idle"
  /\ pc = [w \in Workers |-> Idle]
  /\ orig = [w \in Workers |-> 0]
  /\ cur = [w \in Workers |-> 0]
  /\ seen = [w \in Workers |-> 0]
  /\ initial = [w \in Workers |-> FALSE]
  /\ spend = [w \in Workers |-> 0]
  /\ mine = [w \in Workers |-> {}]
  /\ nxt = [w \in Workers |-> 0]
  /\ faults = 0
  /\ reacted = {} /\ again = {} /\ reopened = {}
  /\ released = {} /\ firstBatch = {} /\ overlapped = FALSE

\* The job reaches pc value p. A job that ends drops its locals, so that
\* states differing only in dead locals are one state.
Goto(w, p) == pc' = [pc EXCEPT ![w] = p]

Finish(w) ==
  /\ Goto(w, Idle)
  /\ orig' = [orig EXCEPT ![w] = 0]
  /\ cur' = [cur EXCEPT ![w] = 0]
  /\ seen' = [seen EXCEPT ![w] = 0]
  /\ initial' = [initial EXCEPT ![w] = FALSE]
  /\ spend' = [spend EXCEPT ![w] = 0]
  /\ mine' = [mine EXCEPT ![w] = {}]
  /\ nxt' = [nxt EXCEPT ![w] = 0]

-----------------------------------------------------------------------------
(* Plaid *)

\* The bank reports a new transaction (external).
BankPosts ==
  /\ feed < N
  /\ feed' = feed + 1
  /\ UNCHANGED <<itemVars, stored, claims, unlink, jobVars, faults, history>>

-----------------------------------------------------------------------------
(* One delivery *)

\* dispatch: a SYNC_UPDATES_AVAILABLE or DEFAULT_UPDATE webhook (new, repeated
\* or late: the path is not behind guardReplay) reads the item row once. No
\* row means "unknown item", and the job returns; a disabled item is skipped.
\* What the row becomes afterwards the job does not see.
Start(w) ==
  /\ pc[w] = Idle /\ HasRow /\ ~disabled
  /\ Goto(w, "paging")
  /\ orig' = [orig EXCEPT ![w] = cursor]
  /\ cur' = [cur EXCEPT ![w] = cursor]
  /\ seen' = [seen EXCEPT ![w] = feed]
  /\ initial' = [initial EXCEPT ![w] = ~initDone]
  /\ overlapped' = (overlapped \/ \E u \in Workers : pc[u] # Idle)
  /\ UNCHANGED <<feed, itemVars, stored, claims, unlink, spend, mine, nxt, faults,
                 reacted, again, reopened, released, firstBatch>>

\* transactionsSync: a page up to position k; its `modified` transactions, old
\* ones, are upserted at once (upsertModifiedTransactions inserts a missing
\* row); has_more sends the job back for another page.
FetchPage(w) ==
  /\ pc[w] = "paging"
  /\ \E k \in cur[w]..feed :
       /\ k > cur[w] \/ k = feed
       /\ cur' = [cur EXCEPT ![w] = k]
       /\ Goto(w, IF k < feed THEN "paging" ELSE "snapshot")
  /\ \E modified \in {{}} \cup {{t} : t \in 1..cur[w]} : stored' = stored \cup modified
  /\ UNCHANGED <<feed, itemVars, claims, unlink, orig, seen, initial, spend, mine, nxt, faults, history>>

\* Mutant: the restart empties the batch but keeps paging from where it was.
RestartWithoutCursorReset(w) ==
  /\ pc[w] = "paging"
  /\ cur[w] # orig[w] /\ feed > seen[w]
  /\ orig' = [orig EXCEPT ![w] = cur[w]]
  /\ seen' = [seen EXCEPT ![w] = feed]
  /\ UNCHANGED <<feed, itemVars, stored, claims, unlink, pc, cur, initial, spend, mine, nxt, faults, history>>

\* TRANSACTIONS_SYNC_MUTATION_DURING_PAGINATION: the log changed since the
\* pagination began. The job starts over from the original cursor and forgets
\* the pages it holds; the modified rows it already wrote stay written.
MutationRestart(w) ==
  /\ pc[w] = "paging"
  /\ cur[w] # orig[w] /\ feed > seen[w]
  /\ cur' = [cur EXCEPT ![w] = orig[w]]
  /\ seen' = [seen EXCEPT ![w] = feed]
  /\ UNCHANGED <<feed, itemVars, stored, claims, unlink, pc, orig, initial, spend, mine, nxt, faults, history>>

\* Mutant: the running total starts from nothing.
SnapshotNothing(w) ==
  /\ pc[w] = "snapshot"
  /\ Goto(w, "persist")
  /\ UNCHANGED <<feed, itemVars, stored, claims, unlink, orig, cur, seen, initial, spend, mine, nxt, faults, history>>

\* getWeeklySpendByCategory: the rows stored before this batch is.
SnapshotSpend(w) ==
  /\ pc[w] = "snapshot"
  /\ spend' = [spend EXCEPT ![w] = Cardinality(stored)]
  /\ Goto(w, "persist")
  /\ UNCHANGED <<feed, itemVars, stored, claims, unlink, orig, cur, seen, initial, mine, nxt, faults, history>>

\* Mutant: a batch with one row already stored inserts nothing.
PersistAllOrNothing(w) ==
  /\ pc[w] = "persist"
  /\ stored' = IF Batch(w) \cap stored = {} THEN stored \cup Batch(w) ELSE stored
  /\ firstBatch' = IF initial[w] THEN firstBatch \cup Batch(w) ELSE firstBatch
  /\ Goto(w, "advance")
  /\ UNCHANGED <<feed, itemVars, claims, unlink, orig, cur, seen, initial, spend, mine, nxt, faults,
                 reacted, again, reopened, released, overlapped>>

\* persistTransactions: one INSERT ... ON CONFLICT DO NOTHING.
Persist(w) ==
  /\ pc[w] = "persist"
  /\ stored' = stored \cup Batch(w)
  /\ firstBatch' = IF initial[w] THEN firstBatch \cup Batch(w) ELSE firstBatch
  /\ Goto(w, "advance")
  /\ UNCHANGED <<feed, itemVars, claims, unlink, orig, cur, seen, initial, spend, mine, nxt, faults,
                 reacted, again, reopened, released, overlapped>>

\* Mutant: the cursor is only written while the column is null.
AdvanceNullCursor(w) ==
  /\ pc[w] = "advance"
  /\ cursor' = IF cur[w] # 0 /\ HasRow /\ cursor = 0 THEN cur[w] ELSE cursor
  /\ Goto(w, "settle")
  /\ UNCHANGED <<feed, row, disabled, initDone, stored, claims, unlink, orig, cur, seen, initial, spend, mine, nxt,
                 faults, history>>

\* `if (cursor) await setCursor(...)`: an unconditional UPDATE of the row, a
\* no-op when the row is gone. (The best-effort balance upsert that follows
\* writes no state modelled here and cannot throw.)
AdvanceCursor(w) ==
  /\ pc[w] = "advance"
  /\ cursor' = IF cur[w] # 0 /\ HasRow THEN cur[w] ELSE cursor
  /\ Goto(w, "settle")
  /\ UNCHANGED <<feed, row, disabled, initDone, stored, claims, unlink, orig, cur, seen, initial, spend, mine, nxt,
                 faults, history>>

\* Mutant: the initial sync marks the item and goes on.
SettleInitialWithoutReturn(w) ==
  /\ pc[w] = "settle" /\ initial[w]
  /\ initDone' = (initDone \/ HasRow)
  /\ Goto(w, "claim")
  /\ UNCHANGED <<feed, row, disabled, cursor, stored, claims, unlink, orig, cur, seen, initial, spend, mine, nxt,
                 faults, history>>

\* An initial sync marks the item and stops: its transactions are not claimed.
SettleInitial(w) ==
  /\ pc[w] = "settle" /\ initial[w]
  /\ initDone' = (initDone \/ HasRow)
  /\ Finish(w)
  /\ UNCHANGED <<feed, row, disabled, cursor, stored, claims, unlink, faults, history>>

\* `if (adapted.length === 0) return`
SettleEmpty(w) ==
  /\ pc[w] = "settle" /\ ~initial[w] /\ Batch(w) = {}
  /\ Finish(w)
  /\ UNCHANGED <<feed, itemVars, stored, claims, unlink, faults, history>>

SettleBatch(w) ==
  /\ pc[w] = "settle" /\ ~initial[w] /\ Batch(w) # {}
  /\ Goto(w, "claim")
  /\ UNCHANGED <<feed, itemVars, stored, claims, unlink, orig, cur, seen, initial, spend, mine, nxt, faults, history>>

\* Mutant: the job takes every id it tried to insert for a claim it won.
ClaimWithoutReturning(w) ==
  /\ pc[w] = "claim"
  /\ mine' = [mine EXCEPT ![w] = Batch(w)]
  /\ claims' = claims \cup Batch(w)
  /\ nxt' = [nxt EXCEPT ![w] = orig[w] + 1]
  /\ Goto(w, Evaluating)
  /\ UNCHANGED <<feed, itemVars, stored, unlink, orig, cur, seen, initial, spend, faults, history>>

\* claimEvents: the unique index decides, so the job wins the ids no other
\* delivery has claimed.
ClaimEvents(w) ==
  /\ pc[w] = "claim"
  /\ mine' = [mine EXCEPT ![w] = Batch(w) \ claims]
  /\ claims' = claims \cup Batch(w)
  /\ nxt' = [nxt EXCEPT ![w] = orig[w] + 1]
  /\ Goto(w, Evaluating)
  /\ UNCHANGED <<feed, itemVars, stored, unlink, orig, cur, seen, initial, spend, faults, history>>

\* trimProcessedEvents, run by any job of any user: the table is shared and
\* keeps its newest MAX_IDS rows, so a row of this Item may be evicted at any
\* moment. Which one is left open: other users' claims decide.
TrimProcessedEvents(t) ==
  /\ t \in claims
  /\ claims' = claims \ {t}
  /\ reopened' = reopened \cup {t}
  /\ UNCHANGED <<feed, itemVars, stored, unlink, jobVars, faults, reacted, again, released, firstBatch, overlapped>>

-----------------------------------------------------------------------------
(* The evaluation loop *)

\* performReactions for t ran (once more).
RecordReaction(t) ==
  /\ reacted' = reacted \cup {t}
  /\ again' = IF t \in reacted THEN again \cup {t} ELSE again

\* Mutant: the loop does not stop at the end of the batch.
SkipPastTheEnd(w) ==
  /\ pc[w] = Evaluating
  /\ nxt[w] \notin mine[w]
  /\ nxt' = [nxt EXCEPT ![w] = @ + 1]
  /\ UNCHANGED <<feed, itemVars, stored, claims, unlink, pc, orig, cur, seen, initial, spend, mine, faults, history>>

\* `if (!claimed.has(tx.id)) continue`
SkipTransaction(w) ==
  /\ pc[w] = Evaluating
  /\ nxt[w] <= cur[w] /\ nxt[w] \notin mine[w]
  /\ nxt' = [nxt EXCEPT ![w] = @ + 1]
  /\ UNCHANGED <<feed, itemVars, stored, claims, unlink, pc, orig, cur, seen, initial, spend, mine, faults, history>>

\* The transaction joins the running total, every rule is evaluated against
\* it, the matches are performed, and it leaves `unprocessed`.
EvaluateTransaction(w) ==
  /\ pc[w] = Evaluating
  /\ nxt[w] <= cur[w] /\ nxt[w] \in mine[w]
  /\ spend' = [spend EXCEPT ![w] = @ + 1]
  /\ RecordReaction(nxt[w])
  /\ mine' = [mine EXCEPT ![w] = @ \ {nxt[w]}]
  /\ nxt' = [nxt EXCEPT ![w] = @ + 1]
  /\ UNCHANGED <<feed, itemVars, stored, claims, unlink, pc, orig, cur, seen, initial, faults,
                 reopened, released, firstBatch, overlapped>>

FinishEvaluation(w) ==
  /\ pc[w] = Evaluating /\ nxt[w] > cur[w]
  /\ Finish(w)
  /\ UNCHANGED <<feed, itemVars, stored, claims, unlink, faults, history>>

\* performReactions throws, after its effects or before any: the `finally`
\* gives the rest of the batch back (releaseEvents) and the error is logged.
EvaluationThrows(w) ==
  /\ faults < MaxFaults /\ faults' = faults + 1
  /\ pc[w] = Evaluating
  /\ nxt[w] <= cur[w] /\ nxt[w] \in mine[w]
  /\ \/ /\ RecordReaction(nxt[w])
        /\ released' = released \cup (mine[w] \ (reacted \cup {nxt[w]}))
        /\ reopened' = reopened \cup (mine[w] \cap (reacted \cup {nxt[w]}))
     \/ /\ UNCHANGED <<reacted, again>>
        /\ released' = released \cup (mine[w] \ reacted)
        /\ reopened' = reopened \cup (mine[w] \cap reacted)
  /\ claims' = claims \ mine[w]
  /\ Finish(w)
  /\ UNCHANGED <<feed, itemVars, stored, unlink, firstBatch, overlapped>>

\* A Plaid call or a statement before the evaluation throws.
SyncThrows(w) ==
  /\ faults < MaxFaults /\ faults' = faults + 1
  /\ pc[w] \in Reading
  /\ Finish(w)
  /\ UNCHANGED <<feed, itemVars, stored, claims, unlink, history>>

\* The process dies. Plaid was already answered 200, so nothing resumes the
\* jobs, and no `finally` gives their claims back. The disconnect dies with it:
\* the user may ask again as long as there is an item to list.
Crash ==
  /\ faults < MaxFaults /\ faults' = faults + 1
  /\ (\E w \in Workers : pc[w] # Idle) \/ unlink \in {"removing", "dropping", "purging"}
  /\ pc' = [w \in Workers |-> Idle]
  /\ orig' = [w \in Workers |-> 0]
  /\ cur' = [w \in Workers |-> 0]
  /\ seen' = [w \in Workers |-> 0]
  /\ initial' = [w \in Workers |-> FALSE]
  /\ spend' = [w \in Workers |-> 0]
  /\ mine' = [w \in Workers |-> {}]
  /\ nxt' = [w \in Workers |-> 0]
  /\ unlink' = CASE unlink \in {"removing", "dropping"} -> "idle"
                 [] unlink = "purging"                 -> "died"
                 [] OTHER                              -> unlink
  /\ UNCHANGED <<feed, itemVars, stored, claims, history>>

-----------------------------------------------------------------------------
(* The item row                                                            *)

\* USER_PERMISSION_REVOKED: the user took Coiny's access back at the bank
\* (disableItem). The row, its cursor and the jobs in flight stay.
Revoke ==
  /\ faults < MaxFaults /\ faults' = faults + 1
  /\ HasRow
  /\ disabled' = TRUE
  /\ UNCHANGED <<feed, row, cursor, initDone, stored, claims, unlink, jobVars, history>>

\* markItemRepaired, or a fresh exchange that upserts the row.
Reenable ==
  /\ HasRow /\ disabled
  /\ disabled' = FALSE
  /\ UNCHANGED <<feed, row, cursor, initDone, stored, claims, unlink, jobVars, faults, history>>

(* DELETE /api/plaid/item, as far as it touches the rows above. ItemRemoval *)
(* models the rest of the handler.                                          *)

UnlinkBegin ==
  /\ MayUnlink
  /\ unlink = "idle" /\ HasRow
  /\ unlink' = "removing"
  /\ UNCHANGED <<feed, itemVars, stored, claims, jobVars, faults, history>>

\* disableItem, once the Item is removed at Plaid or queued.
UnlinkDisable ==
  /\ unlink = "removing"
  /\ disabled' = TRUE
  /\ unlink' = "dropping"
  /\ UNCHANGED <<feed, row, cursor, initDone, stored, claims, jobVars, faults, history>>

\* deleteItem: the row goes with its flag. (Its cursor is kept here as what
\* was last acknowledged to Plaid; nothing reads it any more.)
UnlinkRow ==
  /\ unlink = "dropping"
  /\ row' = "gone" /\ disabled' = FALSE
  /\ unlink' = "purging"
  /\ UNCHANGED <<feed, cursor, initDone, stored, claims, jobVars, faults, history>>

\* A statement of the item's callback throws (the removal queue above all):
\* allSettled swallows the error, the row stays, and the handler goes on.
UnlinkThrows ==
  /\ unlink \in {"removing", "dropping"}
  /\ unlink' = "purging"
  /\ UNCHANGED <<feed, itemVars, stored, claims, jobVars, faults, history>>

\* deletePlaidDataForUser: the transactions of every item go, kept or not.
UnlinkPurge ==
  /\ unlink = "purging"
  /\ stored' = {}
  /\ unlink' = "done"
  /\ UNCHANGED <<feed, itemVars, claims, jobVars, faults, history>>

-----------------------------------------------------------------------------
JobStep(w) ==
  \/ FetchPage(w) \/ MutationRestart(w) \/ SnapshotSpend(w) \/ Persist(w)
  \/ AdvanceCursor(w) \/ SettleInitial(w) \/ SettleEmpty(w) \/ SettleBatch(w)
  \/ ClaimEvents(w)
  \/ SkipTransaction(w) \/ EvaluateTransaction(w) \/ FinishEvaluation(w)

UnlinkStep == UnlinkBegin \/ UnlinkDisable \/ UnlinkRow \/ UnlinkThrows \/ UnlinkPurge

Next ==
  \/ BankPosts
  \/ \E w \in Workers : Start(w) \/ JobStep(w) \/ EvaluationThrows(w) \/ SyncThrows(w)
  \/ \E t \in Tx : TrimProcessedEvents(t)
  \/ Crash
  \/ Revoke \/ Reenable
  \/ UnlinkStep

Spec == Init /\ [][Next]_vars

\* A live job keeps running (nothing but a throw or a crash ends it early), and
\* Plaid sends one to four deliveries a day for a linked Item, whatever was
\* answered to the last one.
Fairness ==
  /\ \A w \in Workers : WF_vars(JobStep(w))
  /\ WF_vars(\E w \in Workers : Start(w))

FairSpec == Spec /\ Fairness

-----------------------------------------------------------------------------
(* What the code promises *)

\* The abstract specification: a consumer acknowledges only what it stored,
\* and forgets nothing while it is attached.
Ledger == INSTANCE TransactionFeed WITH acked <- cursor, detached <- Detached

\* The cursor, the transactions table and the unlink implement that consumer:
\* the code behind plaid.ts:366-371 for every interleaving of deliveries.
ImplementsFeed == Ledger!Spec

\* No data loss (plaid.ts:369): everything up to the stored cursor is stored,
\* however deliveries interleave, restart or die. Plaid never sends again what
\* lies below the cursor.
CursorNeverAhead == ~Detached => 1..cursor \subseteq stored

\* A transaction is reacted to twice only if its claim left the table after
\* the first time: trimmed, or given back when performReactions threw after
\* its effects. Concurrent and repeated deliveries alone never repeat one
\* (plaid.ts:217, "claimEvent per transaction id").
ReactedOncePerClaim == again \subseteq reopened

\* As long as no deliveries overlap, what the initial sync ingested is never
\* reacted to, whatever crashes (plaid.ts:397, "ingesting without rule
\* evaluation").
InitialHistorySilent == ~overlapped => reacted \cap firstBatch = {}

\* As long as no deliveries overlap, the running total a rule sees is never
\* below the week's stored spend so far, so no overspend is missed
\* (plaid.ts:406).
WeeklySpendNotUnderstated ==
  \A w \in Workers : ~overlapped /\ pc[w] = Evaluating =>
    spend[w] >= Cardinality(stored \ (nxt[w]..cur[w]))

\* "Disconnect means gone" (api/plaid-link.ts:381): once a disconnect has
\* deleted the item and purged the user's transactions, none is stored. The code
\* does not keep this: a job that read the row before stores after the purge.
DisconnectMeansGone == (row = "gone" /\ unlink = "done") => stored = {}

\* While the Item is enabled every transaction is ingested in the end: stale
\* cursor writes of overlapping jobs, restarted paginations and lost jobs
\* delay the cursor but do not stop it.
EventuallyCaughtUp == <>[](disabled \/ ~HasRow \/ cursor = feed)

\* "whatever is left if the loop throws is released, so a Plaid redelivery
\* retries it" (webhook/plaid.ts:417-419): a released transaction of an enabled
\* Item is evaluated in the end. The code does not keep this: the cursor is past
\* it, and no redelivery brings it back.
ReleasedAreRetried == \A t \in Tx : (t \in released) ~> (t \in reacted \/ disabled)

=============================================================================

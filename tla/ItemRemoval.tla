----------------------------- MODULE ItemRemoval -----------------------------
(***************************************************************************)
(* The life of the access tokens of one user's Plaid Items: linking        *)
(* (api/plaid-link.ts), disconnecting (DELETE /api/plaid/item), deleting   *)
(* the account (DELETE /api/account), and the removal queue that retries a *)
(* failed /item/remove on the scheduler tick (store/plaid-removal-queue.ts,*)
(* scheduler/plaid-removals.ts).                                           *)
(*                                                                         *)
(* Plaid bills an Item until /item/remove is called with its current       *)
(* token. Requests interleave at every await; the drain is one sequential  *)
(* loop over the rows it read when its tick began.                         *)
(*                                                                         *)
(* A token is its version: 1 for the first link of an Item, one more for   *)
(* each relink, and 0 where no token is held.                              *)
(***************************************************************************)
EXTENDS Naturals, FiniteSets

CONSTANTS
  Items,       \* Plaid Items the user may link
  Handlers,    \* disconnect and account-deletion requests that may overlap
  MaxLinks,    \* bound: links of one Item
  MaxFaults    \* bound: process crashes, and /item/remove calls refused for now

\* "relink": an Item still alive at Plaid is linked again, with a new token.
\* "exchange_crash": the process dies between the exchange and the insert.
\* "link_while_deleting": a link and an account deletion overlap.
\* "queue_write": the insert into the removal queue throws during a deletion.
Accidents == {"relink", "exchange_crash", "link_while_deleting", "queue_write"}

ASSUME RemovalAssumption ==
  /\ IsFiniteSet(Items) /\ IsFiniteSet(Handlers)
  /\ MaxLinks \in Nat /\ MaxFaults \in Nat

VARIABLES
  allowed,   \* the accidents that may happen in this behaviour
  billed,    \* per Item: alive at Plaid
  token,     \* per Item: the token Plaid accepts
  item,      \* per Item: the token in plaid_items
  queue,     \* per Item: the token in plaid_removal_queue
  exch,      \* per Item: the token a link request holds before its insert
  account,   \* "live" or "deleted"
  job,       \* per handler: "idle", "unlink", "delete"
  snap,      \* per handler and Item: the token getItemsByUser returned
  stage,     \* per handler and Item: "none", "remove", "enqueue", "drop", "done"
  due,       \* per Item: the token listDueRemovals returned
  drained,   \* per Item: "none", "due", "gone", "failing"
  outages, crashes

vars == <<allowed, billed, token, item, queue, exch, account, job, snap, stage, due, drained, outages, crashes>>
plaidVars == <<billed, token>>
handlerVars == <<job, snap, stage>>
drainVars == <<due, drained>>

Version == 0..MaxLinks
NoTokens == [i \in Items |-> 0]
NoStages == [i \in Items |-> "none"]

TypeOK ==
  /\ allowed \subseteq Accidents
  /\ billed \in [Items -> BOOLEAN]
  /\ token \in [Items -> Version]
  /\ item \in [Items -> Version]
  /\ queue \in [Items -> Version]
  /\ exch \in [Items -> Version]
  /\ account \in {"live", "deleted"}
  /\ job \in [Handlers -> {"idle", "unlink", "delete"}]
  /\ snap \in [Handlers -> [Items -> Version]]
  /\ stage \in [Handlers -> [Items -> {"none", "remove", "enqueue", "drop", "done"}]]
  /\ due \in [Items -> Version]
  /\ drained \in [Items -> {"none", "due", "gone", "failing"}]
  /\ outages \in 0..MaxFaults
  /\ crashes \in 0..MaxFaults

Init ==
  /\ allowed \in SUBSET Accidents
  /\ billed = [i \in Items |-> FALSE]
  /\ token = NoTokens /\ item = NoTokens /\ queue = NoTokens /\ exch = NoTokens
  /\ account = "live"
  /\ job = [h \in Handlers |-> "idle"]
  /\ snap = [h \in Handlers |-> NoTokens]
  /\ stage = [h \in Handlers |-> NoStages]
  /\ due = NoTokens /\ drained = NoStages
  /\ outages = 0 /\ crashes = 0

-----------------------------------------------------------------------------
(* Linking *)

Deleting == \E h \in Handlers : job[h] = "delete"
Linking == \E i \in Items : exch[i] # 0

\* itemPublicTokenExchange: Plaid creates the Item, or hands out a new token
\* for the one it has, and forgets the old one. (canAddConnection and itemGet
\* precede and follow; neither touches a token.)
Exchange(i) ==
  /\ account = "live" /\ exch[i] = 0
  /\ Deleting => "link_while_deleting" \in allowed
  /\ \/ token[i] = 0
     \/ billed[i] /\ "relink" \in allowed
  /\ token[i] < MaxLinks
  /\ token' = [token EXCEPT ![i] = @ + 1]
  /\ billed' = [billed EXCEPT ![i] = TRUE]
  /\ exch' = [exch EXCEPT ![i] = token[i] + 1]
  /\ UNCHANGED <<allowed, item, queue, account, handlerVars, drainVars, outages, crashes>>

\* upsertItem: the row gets the newest token. Without a user row the foreign
\* key refuses it, and the token goes with the failed request.
UpsertItem(i) ==
  /\ exch[i] # 0
  /\ item' = IF account = "live" THEN [item EXCEPT ![i] = exch[i]] ELSE item
  /\ exch' = [exch EXCEPT ![i] = 0]
  /\ UNCHANGED <<allowed, plaidVars, queue, account, handlerVars, drainVars, outages, crashes>>

-----------------------------------------------------------------------------
(* /item/remove (external) *)

\* "ok"; "lost": done, but the answer never arrived; "invalid": nothing there
\* (INVALID_ACCESS_TOKEN, ITEM_NOT_FOUND); "outage": refused for now.
Outcomes == {"ok", "lost", "invalid", "outage"}
Addresses(i, t) == billed[i] /\ t = token[i]

ItemRemove(i, t, outcome) ==
  /\ Addresses(i, t) <=> outcome # "invalid"
  /\ billed' = IF outcome \in {"ok", "lost"} THEN [billed EXCEPT ![i] = FALSE] ELSE billed
  /\ IF outcome = "outage" THEN outages + crashes < MaxFaults /\ outages' = outages + 1
                                       ELSE UNCHANGED outages
  /\ UNCHANGED token

-----------------------------------------------------------------------------
(* The two requests that end connections *)

SetStage(h, i, s) == stage' = [stage EXCEPT ![h][i] = s]

\* A request that is over keeps nothing.
Return(h) ==
  /\ job' = [job EXCEPT ![h] = "idle"]
  /\ snap' = [snap EXCEPT ![h] = NoTokens]
  /\ stage' = [stage EXCEPT ![h] = NoStages]

\* Mutant: the row is dropped before the failed removal is queued.
RemoveDroppingFirst(h, i) ==
  /\ job[h] \in {"unlink", "delete"} /\ stage[h][i] = "remove"
  /\ \E outcome \in Outcomes :
       /\ ItemRemove(i, snap[h][i], outcome)
       /\ SetStage(h, i, IF job[h] = "unlink" THEN "drop" ELSE "done")
  /\ UNCHANGED <<allowed, item, queue, exch, account, job, snap, drainVars, crashes>>

\* getItemsByUser; an empty list ends the disconnect with 204, but not the
\* deletion.
Begin(h, kind) ==
  /\ job[h] = "idle" /\ account = "live"
  /\ kind = "unlink" => \E i \in Items : item[i] # 0
  /\ kind = "delete" /\ Linking => "link_while_deleting" \in allowed
  /\ job' = [job EXCEPT ![h] = kind]
  /\ snap' = [snap EXCEPT ![h] = item]
  /\ stage' = [stage EXCEPT ![h] = [i \in Items |-> IF item[i] # 0 THEN "remove" ELSE "done"]]
  /\ UNCHANGED <<allowed, plaidVars, item, queue, exch, account, drainVars, outages, crashes>>

\* The disconnect works on its items side by side, the deletion one by one.
MayWorkOn(h, i) ==
  job[h] = "delete" => \A j \in Items \ {i} : stage[h][j] # "enqueue"

\* itemRemove with the token read at the start; an error of any kind goes to
\* the queue.
RemoveAtPlaid(h, i) ==
  /\ job[h] \in {"unlink", "delete"} /\ stage[h][i] = "remove" /\ MayWorkOn(h, i)
  /\ \E outcome \in Outcomes :
       /\ ItemRemove(i, snap[h][i], outcome)
       /\ SetStage(h, i, IF outcome # "ok" THEN "enqueue" ELSE IF job[h] = "unlink" THEN "drop" ELSE "done")
  /\ UNCHANGED <<allowed, item, queue, exch, account, job, snap, drainVars, crashes>>

\* enqueueItemRemoval: an upsert, the newest token wins.
Enqueue(h, i) ==
  /\ stage[h][i] = "enqueue"
  /\ queue' = [queue EXCEPT ![i] = snap[h][i]]
  /\ SetStage(h, i, IF job[h] = "unlink" THEN "drop" ELSE "done")
  /\ UNCHANGED <<allowed, plaidVars, item, exch, account, job, snap, drainVars, outages, crashes>>

\* The queue write throws. The disconnect leaves the item as it is
\* (allSettled); the deletion logs it and goes on to the next item.
EnqueueThrows(h, i) ==
  /\ job[h] = "delete" => "queue_write" \in allowed
  /\ stage[h][i] = "enqueue"
  /\ SetStage(h, i, "done")
  /\ UNCHANGED <<allowed, plaidVars, item, queue, exch, account, job, snap, drainVars, outages, crashes>>

\* setItemStatus, disableItem, deleteItem: the row and its token go.
DropRow(h, i) ==
  /\ stage[h][i] = "drop"
  /\ item' = [item EXCEPT ![i] = 0]
  /\ SetStage(h, i, "done")
  /\ UNCHANGED <<allowed, plaidVars, queue, exch, account, job, snap, drainVars, outages, crashes>>

AllDone(h) == \A i \in Items : stage[h][i] = "done"

\* Promise.allSettled resolved, and the request is over as far as tokens go
\* (PlaidSync models the purge of the data that follows).
Settle(h) ==
  /\ job[h] = "unlink" /\ AllDone(h)
  /\ Return(h)
  /\ UNCHANGED <<allowed, plaidVars, item, queue, exch, account, drainVars, outages, crashes>>

\* Mutant: the removal queue has a foreign key and cascades too.
EraseAccountCascading(h) ==
  /\ job[h] = "delete" /\ AllDone(h)
  /\ account' = "deleted"
  /\ item' = NoTokens /\ queue' = NoTokens
  /\ Return(h)
  /\ UNCHANGED <<allowed, plaidVars, exch, drainVars, outages, crashes>>

\* revokeUpstreamGrants (no Plaid token involved), then deleteUser: the users
\* row goes and plaid_items cascades with it; the removal queue, which has no
\* foreign key, stays.
EraseAccount(h) ==
  /\ job[h] = "delete" /\ AllDone(h)
  /\ account' = "deleted"
  /\ item' = NoTokens
  /\ Return(h)
  /\ UNCHANGED <<allowed, plaidVars, queue, exch, drainVars, outages, crashes>>

-----------------------------------------------------------------------------
(* The drain of the removal queue *)

DrainIdle == \A i \in Items : drained[i] = "none"

\* listDueRemovals: the rows whose backoff has elapsed, any of them.
DrainStart(picked) ==
  /\ DrainIdle /\ picked # {}
  /\ \A i \in picked : queue[i] # 0
  /\ due' = [i \in Items |-> IF i \in picked THEN queue[i] ELSE 0]
  /\ drained' = [i \in Items |-> IF i \in picked THEN "due" ELSE "none"]
  /\ UNCHANGED <<allowed, plaidVars, item, queue, exch, account, handlerVars, outages, crashes>>

\* Mutant: the outcome is recorded without being classified.
DrainRemoveUnclassified(i) ==
  /\ drained[i] = "due"
  /\ \A j \in Items : drained[j] \notin {"gone", "failing"}
  /\ \E outcome \in Outcomes : ItemRemove(i, due[i], outcome) /\ drained' = [drained EXCEPT ![i] = outcome]
  /\ UNCHANGED <<allowed, item, queue, exch, account, handlerVars, due, crashes>>

\* Mutant: an outage counts as an answer that ends the row.
DrainRemoveGivingUp(i) ==
  /\ drained[i] = "due"
  /\ \A j \in Items : drained[j] \notin {"gone", "failing"}
  /\ \E outcome \in Outcomes :
       /\ ItemRemove(i, due[i], outcome)
       /\ drained' = [drained EXCEPT ![i] = IF outcome # "lost" THEN "gone" ELSE "failing"]
  /\ UNCHANGED <<allowed, item, queue, exch, account, handlerVars, due, crashes>>

\* itemRemove with the token of the row as it was read; ok and the terminal
\* codes drop the row, everything else keeps it for another attempt.
DrainRemove(i) ==
  /\ drained[i] = "due"
  /\ \A j \in Items : drained[j] \notin {"gone", "failing"}
  /\ \E outcome \in Outcomes :
       /\ ItemRemove(i, due[i], outcome)
       /\ drained' = [drained EXCEPT ![i] = IF outcome \in {"ok", "invalid"} THEN "gone" ELSE "failing"]
  /\ UNCHANGED <<allowed, item, queue, exch, account, handlerVars, due, crashes>>

DrainNext(i) ==
  /\ drained' = [drained EXCEPT ![i] = "none"]
  /\ due' = [due EXCEPT ![i] = 0]

\* dequeueItemRemoval: DELETE by item id, whatever token the row holds now.
Dequeue(i) ==
  /\ drained[i] = "gone"
  /\ queue' = [queue EXCEPT ![i] = 0]
  /\ DrainNext(i)
  /\ UNCHANGED <<allowed, plaidVars, item, exch, account, handlerVars, outages, crashes>>

\* recordRemovalAttempt: attempts and the backoff grow, up to a day.
RecordAttempt(i) ==
  /\ drained[i] = "failing"
  /\ DrainNext(i)
  /\ UNCHANGED <<allowed, plaidVars, item, queue, exch, account, handlerVars, outages, crashes>>

-----------------------------------------------------------------------------
\* The process dies: requests, the drain and links in flight are gone, and the
\* rows stay as they are.
Crash ==
  /\ outages + crashes < MaxFaults /\ crashes' = crashes + 1
  /\ Linking => "exchange_crash" \in allowed
  /\ exch' = NoTokens
  /\ job' = [h \in Handlers |-> "idle"]
  /\ snap' = [h \in Handlers |-> NoTokens]
  /\ stage' = [h \in Handlers |-> NoStages]
  /\ due' = NoTokens /\ drained' = NoStages
  /\ UNCHANGED <<allowed, plaidVars, item, queue, account, outages>>

HandlerStep(h) ==
  \/ \E i \in Items : RemoveAtPlaid(h, i) \/ Enqueue(h, i) \/ EnqueueThrows(h, i) \/ DropRow(h, i)
  \/ Settle(h) \/ EraseAccount(h)

DrainStep == \E i \in Items : DrainRemove(i) \/ Dequeue(i) \/ RecordAttempt(i)

Next ==
  \/ \E i \in Items : Exchange(i) \/ UpsertItem(i)
  \/ \E h \in Handlers : \/ \E kind \in {"unlink", "delete"} : Begin(h, kind)
                         \/ HandlerStep(h)
  \/ \E picked \in SUBSET Items : DrainStart(picked)
  \/ DrainStep
  \/ Crash

Spec == Init /\ [][Next]_vars

\* Requests and the drain keep running. The scheduler ticks every 15 minutes
\* and the backoff of a row is at most a day, so every queued row is due in
\* some tick again and again. Nothing makes a user ask for anything.
Fairness ==
  /\ \A h \in Handlers : WF_vars(HandlerStep(h))
  /\ \A i \in Items : WF_vars(UpsertItem(i))
  /\ WF_vars(DrainStep)
  /\ \A i \in Items : SF_vars(\E picked \in SUBSET Items : i \in picked /\ DrainStart(picked))

FairSpec == Spec /\ Fairness

-----------------------------------------------------------------------------
(* What the code promises *)

\* A failed /item/remove must not take the token with it (account.ts:52,
\* plaid-link.ts:354): where no accident is allowed, an Item Plaid still bills
\* can always be cancelled, because a row or the request in flight holds its
\* current token, through crashes, outages, lost answers and overlapping requests.
TokenHeld ==
  allowed = {} => \A i \in Items : billed[i] => token[i] \in {item[i], queue[i], exch[i]}

\* A queued token that still addresses a billed Item leaves its row only to an
\* actor that holds an older token of the Item: a drain that read the row
\* before a relink and deletes it by item id (plaid-removals.ts:63), or a
\* request that read the item before the relink and upserts over it
\* (plaid-removal-queue.ts:68). Outages, lost answers, crashes, a failing queue
\* write and overlapping requests alone never cost a queued token.
LostOnlyToOlder(i) ==
  \/ drained[i] = "gone" /\ 0 < due[i] /\ due[i] < queue[i] /\ queue'[i] = 0
  \/ \E h \in Handlers :
       stage[h][i] = "enqueue" /\ 0 < snap[h][i] /\ snap[h][i] < queue[i] /\ queue'[i] = snap[h][i]

QueuedTokenLostOnlyToOlder ==
  [][\A i \in Items : Addresses(i, queue[i]) /\ queue'[i] # queue[i] => LostOnlyToOlder(i)]_vars

\* Dequeuing "is the only path that destroys the token, and by then it
\* addresses nothing" (plaid-removal-queue.ts:111-113). The code does not keep
\* this: it deletes by item id, whatever token the row holds by then.
DequeuedAddressesNothing ==
  [][\A i \in Items : Addresses(i, queue[i]) => queue'[i] # 0]_vars

\* "until Plaid accepts it" (plaid-removals.ts:1): an Item that is billed
\* without being linked is removed at Plaid in the end, where no accident is
\* allowed.
EventuallyUnbilled ==
  \A i \in Items : (allowed = {} /\ billed[i] /\ item[i] = 0 /\ exch[i] = 0) ~> ~billed[i]

=============================================================================

# Coiny backend: TLA+ models and proofs

Coiny is a budgeting app with a pet: a Fastify/PostgreSQL backend (`src/backend`) links banks
through Plaid and other data vendors, turns what they report into *reactions* of a creature, and sends
a few of them to the phone; an iOS app (`src/ios`) is the client. This directory models the backend's
concurrent and failure-prone parts. Paths below are relative to `src/backend/src/`.

The backend is one Node process. Between two `await`s nothing interleaves; at every `await` anything
may. Webhooks are answered first and processed in the background; a scheduler tick runs every 15
minutes; requests run beside both. There are no explicit locks and almost no transactions, so what the
components share are database rows, read and written one statement at a time. A model's step is
therefore one statement or one vendor call, and a crash may fall between any two.

## 1. Inventory

### Components modelled

| Component | State it keeps | Operations | What makes it correct |
|---|---|---|---|
| Transaction sync (`webhook/plaid.ts` `syncItem`, `store/events.ts`, `store/transactions.ts`) | `plaid_items.cursor`, `disabled`, `initial_sync_complete`; `transactions`; `processed_events` | a delivery pages through Plaid's log, stores, advances the cursor, claims ids, evaluates, reacts; the claim table is trimmed; access is revoked and given back; a disconnect disables, drops the row, purges | nothing behind the cursor is missing; a transaction is reacted to once; the first history is silent; an overspend is not missed; the cursor catches up |
| Item removal (`api/plaid-link.ts`, `api/account.ts`, `store/plaid-removal-queue.ts`, `scheduler/plaid-removals.ts`) | tokens in `plaid_items` and `plaid_removal_queue`, the `users` row | link and link again, disconnect, delete the account, drain the queue | a billed Item never loses its last token; a queued token that is needed is lost only to an actor with an older one; every unlinked Item is cancelled in the end |
| Item lifecycle (`plaid/item-lifecycle.ts`, `store/items.ts`, `scheduler/plaid-health.ts`) | `plaid_items.status`, `disabled` | ITEM webhooks, failing data calls, the daily sweep, the client's repair report, all through one SELECT/UPDATE/push transition | a recorded break is told; the row converges to what Plaid knows |
| Circuit breaker (`resilience/circuit-breaker.ts`, `util/fetch.ts`) | per hostname: state, streak, ejections, `openUntil`, `probeInFlight` | `allowRequest`, `recordBreakerSuccess`, `recordBreakerFailure` | the ejection ceiling; one probe per open period; no vendor refused for ever; recovery |
| Retry budget (`resilience/retry-budget.ts`, `util/fetch.ts`) | per hostname: a token bucket | `recordRequest`, `recordSuccess`, `recordFailure`, `canRetry` | overlapping calls together cannot amplify an outage |
| Reactions (`reactions/perform.ts`, `contract.ts`, `store/pet.ts`) | `reaction_history`, pet health | perform at most one candidate of a batch | the daily budget; one overspend a week |
| Push budget (`reactions/dispatch.ts`, `store/notifications.ts`) | `notification_log` | fan a reaction out to the devices | two pushes a week, one a day |
| Account life (`store/users.ts`, `api/account.ts`, `revoke/upstream.ts`, `store/deleted-users.ts`, `scheduler/purge.ts`) | `users` and all that hangs on it, two tables that do not, `deleted_user_ids`, the nightly copies, grants at vendors | sign up, sync, claim, report, connect, disconnect, delete, prune tombstones, copy, restore, sweep after a restore | a deletion leaves only what it could not look for or what came after it looked; no account lives beside its own tombstone |
| Sessions (`store/sessions.ts`, `plugins/auth.ts`, `api/auth.ts`) | `sessions` | sign in and evict, validate and slide, sign out, end the others, delete, purge | the cap; the absolute life; what ended stays ended |
| Encryption and key rotation (`util/crypto.ts`, `db/rotate-encryption-key.ts`, `db/backfill-encrypt-pii.ts`, `store/overrides.ts`) | what wrote each encrypted column, the keyring, `category_overrides` and its keyed primary key | requests write; deploy a key; sweep; backfill; interrupt; drop old keys | no stored value needs a dropped key; no override is under a form no lookup tries |
| Entitlements (`webhook/appstore.ts`, `store/entitlements.ts`, `api/entitlements.ts`) | `entitlements`, `app_store_notifications` | claim, apply or release a notification; report a transaction | the tier is what Apple says; one subscription grants one user |
| Net worth (`networth/classes.ts`, `read.ts`, `refresh.ts`, `store/asset-cache.ts`, `goals/snapshot.ts`) | last good value, age and error of every row; the baseline | refresh a class, assemble a total, save it as the baseline | the baseline is a sum the user was worth |
| Vendor sweeps (`scheduler/index.ts`, `sync/credential-vendors.ts`, `sync/price-classes.ts`, `store/connection-health.ts`, the vendors' routes) | per row: last attempt, last success, failures in a row | find who is due, call row by row, record, give a vendor up, connect, disconnect, restart | no due user is passed over for ever; a vendor is not called before its interval or back-off |
| Goals (`goals/`, `store/goals.ts`, `store/target-goals.ts`, `api/goals.ts`) | the ladder, the stage, target goals, guardrail periods | the pass of `refreshGoalSystem`; skip, unskip, slide, create, archive | progress is permanent; limits hold; an opt-out stands |
| Schema (`db/schema.ts`) | every table | - | what a deleted user takes with it, which columns are encrypted |

### How they interact

* A Plaid delivery (sync) produces candidates; `performReactions` picks one (Reactions), records it
  and starts a fan-out (Push budget). A status transition (Item lifecycle) dispatches a push without
  passing the reaction limits. A total that crosses a milestone (Net worth) ends there: the contract has no
  reaction to one (reactions/external.ts:116), so only the baseline it leaves is modelled.
* A disconnect (Item removal) deletes the item row and the transactions under a sync in flight: the
  tokens are in ItemRemoval, the row, its flag and the purge in PlaidSync (`Unlink*`).
* A deletion of the account is ItemRemoval's loop over the items followed by Accounts' steps; its last
  statement ends every session (Sessions `DeleteUser`). What the cascade takes is Schema's `Cascading`.
* All vendor calls but the Plaid SDK's go through `fetchWithRetry`, which asks the breaker once, then
  the budget once per failed attempt. A refused call is a failure like another to the sweep that made it.
* The scheduler runs, in this order and one tick at a time: the removal drain, class refreshes, price
  sync, credential-vendor sync, goal refresh, the daily health sweep, the daily purge. The goal refresh
  assembles the total the sweeps have filled (Net worth), then runs the pass of Goals.

### Not modelled

`PROJECT.json` lists each component with its reason. In short:

* *Pure functions without state between calls*: the rules engine and recurring subscriptions (their
  verdicts are inputs of PlaidSync), debts and payoff strategy (a simulation over floating-point
  balances), value invariants (they log), the pet's health arithmetic, pace and guardrail conditions.
* *One statement or one read per request*: device tokens, manual assets, spending, rate limits.
* *Nothing reads what they write*: analytics, crash diagnostics, the operations log, observability.
* *Cryptography*: signatures of Apple and Plaid, the envelope of a backup file. A verified payload is an input.
* *Fixtures, migrations, the mobile apps*: the apps' reports are inputs that may be lost.

Left out of components that are modelled: households and the connection gate (a count and an insert
without a lock), the manual refresh budget, the cache of quotes, edits of a goal (they change inputs of
the pass), token refreshes and exchanges (a connect in Accounts is a grant and a stored credential), the breaker's bucket ring (its rate detector
may fire on any failure instead), removed and modified transactions beyond the page that carries them.

## 2. Modules

`X.tla` is the model of a component, `MCX.tla` its instances for TLC, `XProofs.tla` the theorems
about `X`; those about an instance in a sum are in `MCXProofs.tla`.
Operators commented `Mutant:` are plausible bugs of the definition below them; no specification uses
them. Definitions keep the source's names; `PROJECT.json` gives the lines of each.

**PlaidSync** is one Item and the background jobs (`Workers`) of its deliveries. Plaid's update log is
the sequence `1..feed`, a cursor is a position in it. `pc` walks through the awaits of `syncItem`:
`paging` (pages, `modified` rows, the mutation-during-pagination restart), `snapshot`
(`getWeeklySpendByCategory`), `persist`, `advance` (`setCursor`), `settle` (the initial-sync and
empty-batch returns), `claim`, `evaluating` (one transaction per step). The local variables are the
code's: `originalCursor`, `cursor`, `runningSpend`, `unprocessed`. `SyncThrows` and `EvaluationThrows`
are the error paths (the second with its `finally`). `TrimProcessedEvents` may
evict any claim at any moment, because the table is shared by all users. `Start` reads the row once and
returns if it is gone or `disabled`; `Revoke` and `Reenable` set and clear that flag under jobs in flight.
A disconnect is `UnlinkBegin`, `UnlinkDisable`, `UnlinkRow`, `UnlinkPurge`, or `UnlinkThrows`, which leaves the
row and goes on to the purge; nothing stops a job that read the row before, so it may store after the
purge. `Crash` kills all jobs and the disconnect; what died between the rows and the purge (`died`) is never
made up for. **TransactionFeed** is the
abstract consumer it implements: acknowledge only what is stored, forget nothing while attached.
Removed transactions and the rules' verdicts are abstracted: every transaction is a debit of one unit
that matches a rule.

**ItemRemoval** is one user's Items. A token is a version number; Plaid accepts the newest one of a
billed Item (`billed`, `token` are the external side), and an Item linked again gets a newer one while rows,
requests and the drain still hold the old. A disconnect works on its items side by side
(`Promise.allSettled`), a deletion one by one; `stage` is where each item is: `remove`, `enqueue`,
`drop`, `done`. `/item/remove` may succeed, succeed with its answer lost, be refused for now, or find
nothing. The drain reads its rows first (`due`), handles them in sequence and dequeues by item. Four
accidents exist in the code and each breaks `TokenHeld` (section 5); which of them a behaviour may meet is chosen
at the start (`allowed`), and `TokenHeld` and `EventuallyUnbilled` speak of behaviours without any.
MCItemRemoval looks at two scopes: several Items without accidents, and one Item (`Lone`), linked again and
again, with all of them.

**ItemLifecycle** is one connection: `truth` is what Plaid knows, `mail` the ITEM webhooks under way
(any order, repeated, lost), `status`/`disabled` the row. Handlers and the sweep share the transition
`read` (SELECT and `onlyIfCurrent`), `write` (an UPDATE that does not repeat the condition), `tell`
(the push), and `disable` after a revocation. The sweep decides with the status of its snapshot
(`seen`). `MarkRepaired` writes unconditionally, as the code does.

**CircuitBreaker** has several vendors and overlapping calls. Each function of the breaker is an
operator (`Allows`/`HandOut`, `RecordSuccess`, `RecordFailure`, `Trip`, `CeilingWouldBlock`); the
actions are what `fetchWithRetry` does between two awaits. Time is a `Tick` that counts down `openFor`
and counts up `probeAge` and the age of calls. The rate detector may fire on any failure, which covers
every window it could compute; its bucket arithmetic is not modelled.

**RetryBudget** is the bucket of one vendor, counted in integer fractions (a failure costs `Cost`, an
answer buys back `Gain`), and the calls that share it. It is apart from CircuitBreaker because neither reads the other; there, a
retry may be granted or denied.

**ReactionBudget** and **PushBudget** are the two read-then-write budgets of one user. Reads, the
effect and the record are separate steps; rows carry their age in ticks of some hours and leave the
model when no window contains them; ids bound the rows of a window. A call takes seconds, so time does
not advance while one is in flight: crossing midnight inside a call is left out. Quiet hours, the
timezone and the contract's `push: never` decide before any read whether a fan-out begins, so
`Dispatch` is nondeterministic.

**Schema** is the tables, each with the tables whose rows its rows are deleted with, whether the user is
its key, and its encrypted columns. `Cascading` follows the foreign keys to their end; `EncryptedColumns`
and `SweptColumns` (the rotation's TARGETS) are what KeyRotation is instantiated with.

**Accounts** has a row as <<table, user, thing>> if it identifies the user: `Owned` tables go with the
`users` row, the two `Loose` ones (`processed_events`, `app_store_notifications`) have no user column and are
cleared through the transactions and the bound subscription that lead to them, which is why the order of a
deletion matters. Only a report from the client binds an entitlement (`Report`); a notification leaves its
claim, with the subscriber id, and binds nothing (`AppStoreClaim`), so it has no row in `entitlements` here.
`standing` are the grants at vendors. A sync in flight (`delivery`) stores and then claims whatever has become
of the rows; a connect in flight (`link`) is granted at the vendor before its credential is stored. `del`
walks through `upstream`, `events`, `forget`, `commit`, one or a few statements each, beside all of these.
Copies hold the whole database, with the tombstones of their day; `Restore` puts one back, not the vendors,
and keeps traffic off (`restoring`) until `Sweep`. `missed` is history: what a deletion's last look did not take
away; `left` and `known` are the ids deleted and given out, restores or not.

**Sessions** is one user. A request is at `insert`, `prune`, `evict` (a sign-in), or `slide`, `act` (a
bearer check and what follows), and holds what it read: the rows it chose to evict, the token and time
it validated.

**KeyRotation** reduces a column's value to the key version that wrote it. `job` is the sweep or the
backfill: tables it has not read, the column value or the override rows it has read and not rewritten.
The one override row lies under one of several key forms (`Forms`): plain, keyed on the AES key, keyed
on a derived key. `Rotate`, `Start`, `DropOldKeys` are the operator's procedure, `Interrupt` may end a
script anywhere.

**Entitlements** keeps what Apple holds of a subscription (`truth`) and all it has `sent`, from which
webhooks claim any position and devices report any transaction. The row is `row`; `Patch` is
`patchForNotification`, `ApplyTransaction` the upsert with the unique index. `straight` is history: no
notification applied late or to a row bound meanwhile, no old report, no grace ended by a report, no row
bound from one subscription to another. `wrote` is the history of which subscriptions wrote a row.

**NetWorth** has every asset class as a set of rows with the last good `value`, its `age` and the
`error` since. `Reading` and `Rollup` are the status and value of a class as the code derives them,
`Total` and `Degraded` the assembled sum. `Fetch` reads the vendor, `Store` writes later and in any
order. A goal pass (`Assemble`, `ReadBaseline`, `SaveBaseline`) works on the total it read, and saves it
unless the baseline it read (`prev`) is the same. `Answers` says
class by class which answers are partial or wrong and still stored as a success; `flawed` is history:
a total was assembled that is wrong without being degraded.

**Vendors** is the table of the 23 vendor classes: which loop refreshes them, how often, one row or many,
what connecting stores, what a failure does to the other rows. **Sweeps** is the refresh of one of them
for all users: due users found at the start of a pass, a user's rows read at once and written one by
one, the failure count written from the copy that was read, the streak that ends a pass, routes that
users start meanwhile, connects, disconnects, restarts. Its `Tick` lets half a day go by. Three variables are
history: `waited`, the passes in a row that found a user due and did not reach it, and the hours since the
first; `called`, the hours since the scheduler last began to call a user's one connection, with `cut`, whether
a restart ended that call; `swept`, the hours since it last recorded an attempt.

**Goals** is one user's goal system. A job is a pass or a request; `at` is its next statement and the
rest of the record the copy it works from. What a rung, a goal or a week is worth is an input
(`satisfied`, `reached`, `due`, `Answers`); what is done with it is modelled: `EvaluateLadder`,
`ResolveActive`, the stage, the yearly reset, `ReplayStreak` with its bank of repair tokens (`OnePeriod` is one turn of it).

### Sums of machines

Components that share no state are checked side by side in three MC modules: **MCAccounts** (accounts,
sessions, keys, entitlements), **MCCelebration** (net worth, reactions, pushes: from the total to
the lock screen) and **MCScheduled** (retries, sweeps, and Goals once per part: ladder, targets,
guardrails). `machine`, chosen at the start, says which of them moves; the others hold still, so the
state spaces add up instead of multiplying. No step and no property of one reads a variable of
another, so nothing is lost: an interleaving of two of them is, for each, one of its own
behaviours with stutters. Two of the MC modules narrow a machine: MCAccounts moves `Accounts` once without
copies (`accounts`) and once with copies and restores but only what a sync stores and claims (`restores`),
MCCelebration ends a behaviour once a total was wrong without being degraded. The theorems about these
machines do not use the narrowing. `MachinesAssumption` has TLC evaluate the assumptions of the INSTANCEd
modules; `SchemaAgrees` ties `Owned` and `Loose` to the schema.

## 3. Runs

| Run | Instance | Question and result |
|---|---|---|
| `plaid_sync_concurrent` | 2 jobs, 2 transactions, 1 fault, disconnect | Overlap, crash, release, trim, revocation and disconnect: no loss behind the cursor (`CursorNeverAhead`), no repeated reaction while the claim stands (`ReactedOncePerClaim`), silent first history and no understated spend while deliveries do not overlap; the whole refines TransactionFeed (`ImplementsFeed`). Holds. |
| `plaid_sync_live` | same, no disconnect, fair | `EventuallyCaughtUp`: stale cursor writes and restarts only delay, unless the Item is disabled. Holds. |
| `item_removal` | 2 requests, fair, up to 3 links and 3 faults; 2 Items and 1 fault without accidents, or 1 Item linked again with all of them | `TokenHeld`, `EventuallyUnbilled` without accidents; with all of them, a queued token that is needed is lost only to an actor with an older one (`QueuedTokenLostOnlyToOlder`). Hold. |
| `item_lifecycle` | 2 handlers and the sweep, 2 changes at Plaid, 1 redelivery, 1 fault | `BrokenIsTold`, `EventuallyShown`, `EventuallyHealed`. Hold. |
| `breaker` | 2 vendors, 2 calls of up to 2 attempts | `CeilingHolds`, `OneProbe`, `NeverRefusedForever`, `Recovers`. Hold. |
| `accounts` | 1 person, 2 ids, 1 transaction, 1 purchase, 1 grant, no copies; again with 2 copies, 2 restores, the transaction only; 3 session tokens, 2 requests, cap 1; 3 key versions, 2 tables, 2 categories; 1 subscription, 1 webhook worker, 2 devices, 3 notifications | `CleanDeletion`, `TombstonesNameTheGone`, `SessionsBounded`, `EndedStaysEnded`, `DroppedKeyUnused`, `FollowsApple`. Hold. |
| `scheduled` | 3 calls at a time, 10 in all, bucket of 12; vendors `nft`, `debts`, `metals`, `realEstate`, `kalshi`, 2 users with up to two rows each, 1 refresh by hand, 2 links; 2 jobs, rungs 1, 2, 4, 2 goals with a cap of 1, 4 weeks with a backfill of 2 | `AmplificationBounded`, `NobodyStarves`, `CallsArePaced`, `ProgressIsPermanent`, `LimitsKept`. Hold. |
| `celebration` | 2 fan-outs, 2 kinds, 2 faults; 2 performers, day of 2 and week of 3 ticks, budget 1, history 2, 4 reactions; 2 bank accounts and the debts, 2 passes, 1 refresh | `TwoAWeek`, `OneADay`, `DailyBudgetHolds`, `OverspendOncePerWeek`, `BaselineHonest`. Hold. |
| `key_rotation_unlisted` | the tables `users` and `spinwheel_connections` | Every column any call site encrypts is swept. **Violated** (`EveryColumnDecrypts`). |
| `deleted_stay_deleted` | as in `accounts`, copies and restores only | Nobody who was deleted is back after a restore and its sweep. **Violated** (`DeletedStayDeleted`). |
| `subscription_grants_two` | as in `accounts`, entitlements only | One subscription binds to one user. **Violated** (`SubscriptionGrantsOne`). |
| `ladder_opt_out` | as in `scheduled`, the ladder only | An opt-out is the user's to reverse. **Violated** (`OptOutStands`). |

**Bounds.** Two of each actor is the least number at which one overtakes another; the races of this
code are between a read and a write of a pair, and for the safety properties the proofs lift the number
where there are any. Two transactions are enough for a batch that is claimed in part, stored in part and
released in part; one fault is one crash or one throw at any point. The breaker's times keep the order
of the defaults where it matters: a call is shorter than the base ejection and the probe timeout, and
one doubling reaches the cap. The bucket admits a few retries before it runs dry, is then refilled by
answers and is drained again. A history of two rows and four reactions are the fewest in which a first overspend
is pushed out by two others and followed by a second. `PushIds` is one more than the caps and the overlap can
deliver. Three links and three faults let the drain fail once with each token of an Item, and one request hold a
token that two links have replaced.

* *Accounts*: two ids let a person sign up again after a deletion; one sync, one connect and one deletion at a
  time, each of which a step of another may meet anywhere. Deletions beside what is in flight and copies
  beside restores are two scopes, because together they do not end in time; two copies and two restores let the
  second restore be to the older or the newer copy. `AccountsProofs` proves both properties for any number of
  all of them at once. The clock runs two units with retentions of one, so that copies and tombstones expire.
* *Sessions*: a cap of one with two overlapping sign-ins reaches cap plus two, and a third token lets an
  eviction meet a row its read did not see. Lifted by `MCAccountsProofs`.
* *Keys*: three versions are two rotations, so a second starts after an interrupted first;
  `transactions` is a table both scripts touch.
* *Entitlements*: three notifications are a purchase, a renewal or failure, and a refund or
  reversal; with one worker, lateness comes from the order of claims, from retries and from reports.
* *Sweeps*: one vendor of each kind: many rows (`nft`), a cached class, keyed prices, a class refreshed by hand,
  and a connection that is called alone (`kalshi`, every 12 hours; only of those do `CallsArePaced` and the hours
  of `NobodyStarves` speak). Giving up after one failure (`Abort`) and two users make the queue
  behind a failing user as short as it can be. A tick is half a day and ages stop at three of them, past the
  back-off and the intervals of these; the theorems are about every vendor of the table.
* *Net worth*: two accounts, one of which grows while the other fails; a card owed to the bank that
  the bureau sees too; a tick of four days makes an age of seven days two ticks away.
* *Goals*: three rungs, one of which (2) no condition judges; four weeks, of which a pass looks back at two, so that
  a week settles after a later one or never.

Symmetry is used for interchangeable jobs, calls, ids, devices and fan-outs, in runs without liveness
properties only. Deadlock is not checked where the bounded environment really ends: no more
transactions, calls, links, copies or changes to come. `breaker` has no such end and is checked for
deadlock.

**Fairness** is what the runtime gives: a job, handler or request that was begun goes on until it ends,
throws or dies (weak fairness of its next step). Beyond that:

* `plaid_sync_live`: deliveries keep coming (Plaid sends one to four a day, regardless of
  the answer).
* `item_removal`: every queued row is in some drain again and again (strong fairness: the tick is
  every 15 minutes, the backoff is capped at a day). Nobody is assumed to disconnect or link.
* `item_lifecycle`: the sweep starts every day, and is answered some day (strong fairness of
  `Answered`). No webhook, data call or repair report is assumed to come.
* `breaker`: time passes; calls end; a vendor is called again and again (strong fairness, because the
  scheduler retries every connection), and one that is up answers some calls.

That no due user waits for ever is stated as a bound instead (`NobodyStarves`): within `Pace` hours of the
pass that first found a user due, the passes it was not reached in, times the failures a pass takes, stay
below the connections ever made, so it needs no fairness. `Pace` is where the code stops promising
anything: after it the connections that failed are due again, the list comes from a `SELECT DISTINCT`
without an order (credential-vendors.ts:294), and nothing keeps them from being taken first. It is 24 hours
or the vendor's interval against ticks of 15 minutes, so within it there are more passes than any
user needs as long as failing connections are few.

## 4. Proofs

`tlapm` checks these for every value of the constants that satisfies the modules' assumptions.

* **PlaidSync**: `TypeCorrect`; `CursorSafety` (`CursorNeverAhead`), `ReactionSafety`
  (`ReactedOncePerClaim`), `FeedRefinement` (`ImplementsFeed`), `HistorySafety`
  (`InitialHistorySilent`) and `SpendSafety` (`WeeklySpendNotUnderstated`), for any number of jobs,
  transactions and faults. `CursorNeverAhead` is not inductive: a job writes a cursor it computed
  earlier. The invariant adds that everything up to a job's original cursor is stored until a disconnect
  reaches the purge, and everything up to its local cursor when it is about to write that (`CursorInv`); the
  reaction part (`ClaimInv`) adds that what a job holds or has been reacted to is claimed unless its claim
  left the table after a reaction, and that two jobs hold one id only in that case. The refinement maps each step to storing, acknowledging, reporting, detaching or
  a stutter, and uses the cursor invariant for the acknowledgement.
  The last two speak of deliveries that do not overlap and say where that matters: then one job is alive
  (`AloneInv`), so the claims of earlier deliveries lie behind the cursor and a job wins its whole batch
  (`PositionInv`). What the first syncs stored lies behind the cursor once the item is marked
  (`SilentInv`: a first sync that died half way is covered because the next one pages to the end of
  Plaid's log), and from its snapshot on a job's total covers every stored row outside what it has yet to
  count (`SpendInv`).
* **ItemRemoval**: `TypeCorrect`; `QueueSafety` (`QueuedTokenLostOnlyToOlder`), whatever accidents happen and
  however often Items are linked; `TokenSafety` (`TokenHeld`), which speaks of behaviours without them. The first rests
  on two facts that survive relinks: nobody holds a token newer than Plaid's (`TokensOlder`), and the token of
  a row about to be dequeued, as the drain read it, addresses nothing any more (`HeldTokens`: what was invalid stays
  invalid). A queued token that still addresses the Item is then newer than the one in the hands of whoever takes
  it away. The second needs that whoever holds a token of an Item holds the same one (`OneToken`), that an item
  row is dropped only when the Item is cancelled or queued (`DropIsSafe`), and `NoLinkAtDeletion`.
* **ItemLifecycle**: `TypeCorrect`, `BreaksAreTold` (`BrokenIsTold`), for any number of handlers. The
  property is inductive with the types: the actor that wrote a break is at `tell` until it told.
* **CircuitBreaker**: `TypeCorrect`; `ProbeSafety` (`OneProbe`); `CeilingSafety` (`CeilingHolds`). The
  first needs `Timed`: a call in flight is younger than what is left of the open period it saw begin,
  and a half-open vendor's call is as old as its probe. It rests on the assumption that a call is shorter
  than the base ejection and the probe timeout (three attempts of 5 s and two delays of at most 2 s,
  against 30 s and 60 s); both are environment variables, and lowering them below a call's length voids
  the theorem. The ceiling needs that calls go to known vendors (`CallsKnown`), because the
  percentage is of those.
* **RetryBudget** (`MCScheduledProofs`): `TypeCorrect`, `AmplificationSafety`, from `Conserved`: what the
  retries cost plus what is left is at most a full bucket plus what answers bought back. A retry leaves
  more than half.
* **PushBudget** (`MCCelebrationProofs`): `TypeCorrect`, `WindowCapHolds`, `DayCapHolds`. The counts the
  code makes are not the counts that matter: a fan-out that passed a check has taken a place before its
  row exists. The invariant counts rows and places together (`WindowPlaces`, `DayPlaces`), and says that a
  delivered push is recorded, lost, or held by a fan-out about to record it (`Told`, `Held`).
* **Accounts**: `TypeCorrect`, `TombstoneSafety` (`TombstonesNameTheGone`), `DeletionSafety`
  (`CleanDeletion`), for any number of people, ids, copies and restores and any retentions. The first: every
  database, the live one and each copy, is `Consistent`: who has a tombstone or was erased has no users row,
  and the id was given out, so that no sign-up takes it again; a deletion under way is of a user who exists
  (`TombInv`). It holds because `deleteUser` writes tombstone and row in one transaction. The second (`CleanInv`):
  nothing of an erased person is in a table that cascades, and what is elsewhere is in `missed`, in the database
  and in each copy; and what the deletion under way has already looked through (`LookedThrough`) it has taken
  away or missed, although syncs, notifications, connects and disconnects go on beside it. `missed` grows only
  where an action says so: what could not be found at the look, and what came after it.

The components that MC modules sum are proved there, as they are instantiated, because their properties
are stated of the sum. `OneMoves` says that a step of the sum is a step or a stutter of each machine, so
that each invariant is kept by its own step lemma; `MachinesTyped` is `TypesOK` of MCAccounts, MCScheduled
and MCCelebration. The modules' assumptions enter as the hypothesis of each lemma and are discharged by
`MachinesAssumption`.

* **Sessions** (`MCAccountsProofs`): `SessionSafety` (`SessionsBounded`), `EndedSafety`
  (`EndedStaysEnded`), for any cap and any number of overlapping requests. `CapHolds` is not inductive: a
  request deletes rows that an older read chose, which another may have deleted already. `CapInv` speaks
  of every set of requests that are about to delete: whichever of them go first, the rows they leave are
  within the cap but for one per sign-in outside the set that is unfinished. The empty set is the
  property, a request that deletes leaves the sets it was part of, and a read chooses what makes the sets
  with it true. The age part (`UseInv`, `MintedInv`) says that a use in flight was accepted within the
  absolute life of the row that still has its token.
* **KeyRotation** (`MCAccountsProofs`): `KeySafety` (`DroppedKeyUnused`). `KeysInv` says that every
  listed column decrypts and every override lies under a key of the ring. That dropping keys keeps it
  needs what a sweep that has not rewritten anything has learnt (`SweepInv`): every column it has read, but
  for the one in its hands, is on the active key, and stays so because requests write with it;
  `LeftClean` carries this to the moment the operator drops.
* **Entitlements** (`MCAccountsProofs`): `AppleFollowed` (`FollowsApple`). `StoryInv` relates what was sent
  to what Apple holds (the newest notification of a subscription carries its state), `HookInv` what is in
  flight to what is claimed, and `OrderInv` says that a straight history applied every earlier
  notification of what it applied. Then the row holds what the newest notification says as soon as that
  is applied (`RowInv`, with `Holds` spelling out how each kind of notification is patched), and has the
  tier of the purchase from the first write on (`GrantTierInv`), which a refund and its reversal need,
  because their patches do not set it. The property excepts a user of two subscriptions by a history of
  who wrote the row (`wrote`): what the row says now, such as the subscription it is bound to, does not tell
  which notifications wrote it before.
* **ReactionBudget** (`MCCelebrationProofs`): `DailyBudgetSafety` (`DailyBudgetHolds`), `WeeklyCapSafety`
  (`OverspendOncePerWeek`). Both reads are of a table from which rows disappear. `TrimInv` says that what
  the trim took is no newer than anything it left, and that the table is full once it took anything;
  then the count of a day in the table is the count of the day, or the whole table, which is at least the
  budget (`CountIsEnough`; this is where `DailyBudget <= MaxHistory` is used). `PlacesInv` counts budgeted
  rows and admitted performers together. The weekly part adds `AloneInv` (without a race one performer is
  alive) and `ClearInv` (one about to perform an overspend has no overspend of the week in the table).
* **Sweeps** (`MCScheduledProofs`): `PaceSafety` (`CallsArePaced`), `StarvationSafety` (`NobodyStarves`),
  for any number of users, routes and vendors of the table and any threshold, intervals and back-off. The
  pass decides who is due from what
  the rows say of the last attempt, which routes and failures write as well, and works from that list
  while connections come and go. `SweptInv` says that a row at which the scheduler recorded an attempt shows one no older;
  `DueInv` that whoever is on the list has waited; `SyncInv` that the refresh in
  flight is of nobody on the list. `CallInv` takes this from what was recorded to what was begun: every call
  that no restart ended is in flight on a row that still exists, or an attempt was recorded since it began
  (`Accounted`). For that every vendor called alone has to record each outcome: it stops at a failure, leaves no
  row out and ends for no lack of a key (`Records`, by the table of vendors). `Pace` is the lesser of the vendor's interval and the back-off of a
  broken connection: a broken `discogs` connection is called after a day, a healthy one after seven.
  The bound on waiting is a balance (`DebtInv`). What a waiting user is owed (`Debt`: the passes given up
  times `Abort`, and the streak of the pass that is on) is paid for by connections of others: those whose
  failure was recorded since the wait began (`Failed`), and those made and no longer there. Each action
  keeps it: a failure adds one to the streak and its connection to `Failed`, where it was not
  before, because whoever is called has rested for longer than the wait is old (`FlightInv`, from
  `DueInv`); a connection that is cut while it is being refreshed leaves `Failed` unable to grow, so it is
  counted before its failure is (`Cut`); and a pass that finds the user due for the first time
  starts with the user's own connection to spare. `StreakInv` says that nothing else stops a pass.
* **Goals** (`MCScheduledProofs`): `ProgressSafety` (`ProgressIsPermanent`). A job's plan is made from the
  copy it read (`Planned`: what it is about to store keeps completed rungs, is no lower stage and settles
  only weeks that were open in the copy); a job that no other has overtaken stores it over that copy, so
  the step keeps what is stored (`GoalsStep`). `LimitsSafety` (`LimitsKept`): the cap, because a creation
  counts and inserts without being overtaken (`CapStep`), and the bank. `ReplayStreak` is a recursive function of the
  settled weeks; `Replays` shows that there is one (by induction on the weeks, with `Climb`) and `Banked`,
  again by induction, that while the weeks so far are covered the replayed bank is at most what is left of
  the first tokens and those earned: the cap on the bank can only lose some, and its floor at zero never
  gives one away, which is where the hypothesis is needed.
* **NetWorth** (`MCCelebrationProofs`): `BaselineSafety` (`BaselineHonest`), for any number of
  sources, classes, refreshes and passes and any amounts. `Floor` says that what a row is worth never falls
  below the opening; `Honest` that, unless a total was flawed, the baseline and every total a pass may still
  save lie between what the user was worth at the start and is worth now. That a total which is neither degraded nor flawed
  lies between the two is about sums over sets of any size (`TotalIsLast`). A sum is a fold of the
  community modules; `Additive` shows from its definition that the sum of a set and one more element is
  the sum and that element, by induction on finite sets (`Gather`, from the well-foundedness of `<` on
  numbers), and the other facts about sums follow (`SumAdd`, `SumGrows`, `SumOut`).

The library's induction theorems take an operator as a parameter, which the provers cannot instantiate.
`Climb` and `Gather` are inductions for a set, proved from `WFMin` and `NatLessThanWellFounded`; a claim is
inducted on as the set of numbers, or of parts of a finite set, for which it holds.

Only model-checked: liveness under fairness (`EventuallyCaughtUp`, `EventuallyUnbilled`,
`EventuallyShown`, `EventuallyHealed`, `NeverRefusedForever`, `Recovers`), because ENABLED and fairness
are outside the prover. Every other property of a passing run is a theorem.

## 5. Where the code and its words differ

Four runs end in a counterexample; each is quoted under `findings`:

1. A database restored from an old copy has the tombstones of that day, so the sweep finds nobody who was
   deleted since (store/deleted-users.ts:68 against docs/restore-runbook.md:95). They have to be carried over by hand.
2. A notification patches the row of the appAccountToken without binding it, so another user may bind the
   same subscription (webhook/appstore.ts:175, api/entitlements.ts:113).
3. The credit score is encrypted and in no entry of the rotation's TARGETS: the sweep ends clean, the old
   key is dropped, the score no longer decrypts (db/rotate-encryption-key.ts:69, store/spinwheel.ts:39).
4. A rung marked not applicable is judged again by the next refresh (goals/ladder.ts:269).

Five more places where the code and a comment part are stated in the modules, each as a definition that no run
checks and whose comment says that the code does not keep it; TLC finds each violated on an instance as small
as those above (for the last, without ending a behaviour at a total that was wrong):

* `DisconnectMeansGone` (PlaidSync): "Disconnect means gone" (plaid-link.ts:381). A sync in flight
  (webhook/plaid.ts:368), or the background seed of a fresh link (plaid-link.ts:136), stores rows after the purge,
  and no later disconnect finds them.
* `ReleasedAreRetried` (PlaidSync): "so a Plaid redelivery retries it" (webhook/plaid.ts:419). The cursor has
  passed what a failed evaluation releases (line 371), so it is never sent again.
* `DequeuedAddressesNothing` (ItemRemoval): "by then it addresses nothing" (store/plaid-removal-queue.ts:112).
  The drain dequeues by item id (line 115) and may delete a newer token than the one it tried.
* `SubscriberForgotten` (Accounts): "only the identifier is nulled" (store/users.ts:133). A deletion leaves the
  subscriber id of a purchase that a notification reported and no client did, because the row it looks
  through is bound to nothing (store/entitlements.ts:163).
* `NoShrunkenBaseline` (NetWorth): a shrunken total "must never become the baseline" (networth/refresh.ts:450). An
  account that failed for a week leaves the bank sum without the class being degraded (read.ts:399).
  Nothing is celebrated by it: a milestone has no reaction (reactions/external.ts:116).

Known from building the models, without a definition of their own:

**Plaid**

* A request that read an item before it was linked again queues the old token over the new one
  (plaid-removal-queue.ts:68). With `DequeuedAddressesNothing` it is what the accident `relink` of ItemRemoval allows,
  and the only two ways in which `QueuedTokenLostOnlyToOlder` lets a needed token go.
* A revoked item is shown healthy again: the condition on the current status is read, not repeated in
  the UPDATE, and an `ERROR` that comes late replaces "revoked" unconditionally (items.ts:114
  against 96).
* Overlapping deliveries overstate the weekly spend: rows of a batch already stored by another job are in
  the snapshot and added again (plaid.ts:366, 406). It can also be understated, and the first history can be
  reacted to, when a job with a stale cursor overlaps; hence `~overlapped` in those two properties.
* A disconnect whose process dies between the rows and the purge is not repeated: the retry finds no item and
  returns 204 (plaid-link.ts:347). Nothing purges the transactions, and no property of a run asks for it.
* A link that overlaps the deletion of the account ends with a token in no table: the foreign key
  refuses the row (plaid-link.ts:113, account.ts:52); so does a crash between the exchange and the
  insert. These are the accidents `link_while_deleting` and `exchange_crash`. `queue_write` is the
  deletion that goes on when the queue insert throws.
* When the queue write fails during a disconnect, the item row keeps its cursor while its transactions are
  purged (plaid-link.ts:365, plaid-purge.ts:7).
* A fault between the status row and the push leaves a break nobody is told of: the next sweep sees no
  change (item-lifecycle.ts:107). A crash between the revoked status and `disableItem` leaves the item
  enabled; the repair report may overwrite a revocation that came since.

**Calls, reactions and pushes**

* Retries of a call are not asked of the breaker, so a failed probe that is retried reports again into
  the breaker it just tripped (fetch.ts:165, circuit-breaker.ts:262). Half-open vendors do not count as
  ejected (circuit-breaker.ts:212, 59).
* The same-type push cooldown of 24 hours is subsumed by the one-a-day cap. The daily reaction count
  includes exempt reactions (pet.ts:110), so celebrations use up the day of routine ones, while exempt
  kinds themselves (`bill_overdue`, `debt_missed_payment`, ...) have no daily limit.
* MAX_HISTORY trimming can forget an overspend; `OverspendOncePerWeek` says exactly when.

**Accounts**

* `processed_events` of a bank that was disconnected before the deletion are never cleared: their ids are found
  through its transactions. A sync or a notification in flight writes its claim after the clearing. A connect
  that authorizes while a deletion is past the vendors leaves a grant whose credential no table holds
  (account.ts:94). `CleanDeletion` counts all of these as missed.
* A one-time code sent and never verified leaves a user at Spinwheel that a deletion does not end:
  `sendSmsOtp` creates it (api/spinwheel.ts:49), its id is in `spinwheel_pending`, and `revokeSpinwheel` reads
  `spinwheel_connections` only (revoke/upstream.ts:207).
* A disconnect of Spinwheel whose `deleteUser` throws deletes nothing (spinwheel.ts:170), while a deletion of
  the account steps over the same failure and takes the row: nobody can end the grant any more.
* Between the deploy of a key and the sweep, overrides under the old index are not found, although "old rows
  still read" (rotate-encryption-key.ts:14). A choice of category made in between is a row of its own, which the
  sweep replaces with the old one. `DroppedKeyUnused` speaks of lookups once the sweep has ended clean.
* A sign-in that dies before it prunes leaves its row; `SessionsBounded` counts it with the ones yet to finish.
* The rotation writes back the value it read: a token refreshed meanwhile is overwritten (rotate-encryption-key.ts:137).
  An override's delete and insert are two statements outside a transaction; interrupted, the override
  is lost.
* A notification claimed by a process that dies is acknowledged as a duplicate when it comes again
  (appstore.ts:94). A renewal applied after the refund that followed it makes the row active again
  (appstore.ts:222); a report during a grace period ends the grace for the row. `straight` excepts these.
* Households and connections are limited by a count before an insert (store/entitlements.ts:225, 270).

**Refreshes**

* Failure counts are read, then written plus one: overlapping failures count once (connection-health.ts:150,
  asset-cache.ts:196). Sweeps models it, but no property would notice: a wrong count moves a connection between its
  interval and its back-off. A refused call of the breaker counts as a failure (refresh.ts:46).
* A restart in the middle of a call records nothing, and the new process calls again at once
  (scheduler/index.ts); `CallsArePaced` excepts the user of that call (`cut`).
* A healthy row brings in its user's broken ones at every interval, whatever their back-off
  (credential-vendors.ts:287); broken Discogs connections are retried daily, sooner than healthy ones
  (7 days).
* A trading card that cannot be priced, and investments at a weekend, are due at every tick
  (refresh.ts:150). A holding never priced hides behind ones that were (price-classes.ts:186). When
  `findDueClassRefreshes` throws, the rest of the tick is skipped (scheduler/index.ts:198).
* Partial answers stored as a success: Coinbase assets without a price, a truncated page of Zerion
  (spam included), TrueLayer accounts that failed. A Discogs collection is withheld and keeps the total
  degraded for ever, so that its owner's baseline is never saved (read.ts:770).
* A refresh in flight writes the old account's value, or YNAB's old tokens, over a new connection.
* Unlinking an asset lowers the baseline although the user owns it still; `BaselineHonest` excepts every total
  that is wrong without being degraded.

**Goals**

* Overlapping passes: a skip or a refresh takes back a completion it did not see (store/goals.ts:141);
  the stage may drop; of two first passes one violates the key of `pet_progression` and ends.
* A period that settles after a later one is replayed before it, and the token the later one used is
  spent again (evaluation.ts:229). The yearly reset revives a goal beyond the cap of three
  (store/target-goals.ts:198 against 12), and two creations count in read-committed transactions.
* `countConsecutiveMonthsAtRate` steps back with `setMonth`, which skips a month on the 31st
  (store/goals.ts:345).
* Two edits of the category budgets are read, merged and written: one is lost (store/pet.ts:87).
  `upsertDeviceToken` leaves a token with the user it was registered for first.

## 6. Plan

Done: everything in section 2 and the proofs of section 4. Left, in this order:

1. Households and the connection gate in Entitlements: the limit is exceeded by the overlap only.
2. An abstract specification of Entitlements (the tier follows the newest transaction of the store) and
   of Sessions (a set of at most so many devices), with refinements like TransactionFeed's.
3. Pure algorithms checked against a reference definition over small inputs: the rate detector's bucket
   ring, the order of debt payoffs, the back-off.
4. The manual refresh budget, and Sweeps composed with CircuitBreaker: calls that are refused, not failed.

----------------------------- MODULE ItemLifecycle ----------------------------
(***************************************************************************)
(* What Coiny believes of ONE bank connection (plaid_items.status) against *)
(* what Plaid knows: the ITEM webhooks and a failing data call             *)
(* (webhook/plaid.ts), the daily sweep that asks Plaid (scheduler/         *)
(* plaid-health.ts), the client that reports a repair (api/plaid-link.ts), *)
(* and the transition they share, transitionItemStatus                     *)
(* (plaid/item-lifecycle.ts) over setItemStatus (store/items.ts): a        *)
(* SELECT, an UPDATE that does not repeat the condition it read, and the   *)
(* push that tells the user.                                               *)
(*                                                                         *)
(* Webhooks arrive in any order, twice, or never. guardReplay suppresses a *)
(* body that comes again within its window and after a success; the        *)
(* redeliveries here are those it lets through. Whether a dispatched push  *)
(* reaches the phone is PushBudget; unlinking is ItemRemoval.              *)
(***************************************************************************)
EXTENDS Naturals

CONSTANTS
  Handlers,       \* webhook handlers that may overlap
  Sweeper,        \* the health sweep (one at a time: the tick guard)
  MaxChanges,     \* bound: changes of the connection at Plaid
  MaxRedeliveries,\* bound: webhooks that are handled twice
  MaxFaults       \* bound: process crashes and failing statements

Actors == Handlers \cup {Sweeper}

ASSUME LifecycleAssumption ==
  /\ Sweeper \notin Handlers
  /\ MaxChanges \in Nat /\ MaxRedeliveries \in Nat /\ MaxFaults \in Nat

Status == {"healthy", "expiring", "reauth_required", "revoked"}
Codes == {"ERROR", "PENDING", "LOGIN_REPAIRED", "USER_PERMISSION_REVOKED"}

VARIABLES
  truth,     \* the connection at Plaid: "ok", "expiring", "broken", "revoked"
  mail,      \* webhooks Plaid sent that no handler has yet
  repaired,  \* update mode succeeded and the client has not reported it yet
  status,    \* plaid_items.status
  disabled,  \* plaid_items.disabled
  pc,        \* per actor: "idle", "ask", "read", "write", "tell", "disable"
  to,        \* per actor: the status it transitions to
  seen,      \* the sweep: the status in its snapshot of the live items
  told,      \* history: was the user told of this break? "no", "yes", "lost"
  revocation,\* history: recorded as revoked, still revoked, no repair reported since
  changes, redeliveries, faults

plaid == <<truth, mail, repaired, changes, redeliveries>>
row == <<status, disabled, told, revocation>>
vars == <<plaid, row, pc, to, seen, faults>>

TypeOK ==
  /\ truth \in {"ok", "expiring", "broken", "revoked"}
  /\ mail \subseteq Codes /\ repaired \in BOOLEAN
  /\ status \in Status /\ disabled \in BOOLEAN
  /\ pc \in [Actors -> {"idle", "ask", "read", "write", "tell", "disable"}]
  /\ to \in [Actors -> Status] /\ seen \in Status
  /\ told \in {"no", "yes", "lost"} /\ revocation \in BOOLEAN
  /\ changes \in 0..MaxChanges /\ redeliveries \in 0..MaxRedeliveries
  /\ faults \in 0..MaxFaults

\* A connection just linked (upsertItem).
Init ==
  /\ truth = "ok" /\ mail = {} /\ repaired = FALSE
  /\ status = "healthy" /\ disabled = FALSE
  /\ pc = [a \in Actors |-> "idle"] /\ to = [a \in Actors |-> "healthy"]
  /\ seen = "healthy" /\ told = "no" /\ revocation = FALSE
  /\ changes = 0 /\ redeliveries = 0 /\ faults = 0

-----------------------------------------------------------------------------
(* Plaid, the bank and the user *)

Change(from, t, code) ==
  /\ truth \in from /\ changes < MaxChanges /\ changes' = changes + 1
  /\ truth' = t /\ mail' = mail \cup {code}
  /\ UNCHANGED <<repaired, redeliveries, row, pc, to, seen, faults>>

Expire == Change({"ok"}, "expiring", "PENDING")
Break == Change({"ok", "expiring"}, "broken", "ERROR")
\* LOGIN_REPAIRED: the item healed without our update-mode flow.
Heal == Change({"expiring", "broken"}, "ok", "LOGIN_REPAIRED")
Revoke == Change({"ok", "expiring", "broken"}, "revoked", "USER_PERMISSION_REVOKED")

\* The user completes Link update mode, which sends no webhook ...
UpdateMode ==
  /\ truth # "ok" /\ truth' = "ok" /\ repaired' = TRUE
  /\ revocation' = FALSE
  /\ UNCHANGED <<mail, changes, redeliveries, status, disabled, told, pc, to, seen, faults>>

\* ... and the client may never report it.
ReportLost ==
  /\ repaired /\ repaired' = FALSE
  /\ UNCHANGED <<truth, mail, changes, redeliveries, row, pc, to, seen, faults>>

Lose(c) ==
  /\ c \in mail /\ mail' = mail \ {c}
  /\ UNCHANGED <<truth, repaired, changes, redeliveries, row, pc, to, seen, faults>>

-----------------------------------------------------------------------------
(* transitionItemStatus *)

Transition(a, t) ==
  /\ pc' = [pc EXCEPT ![a] = "read"] /\ to' = [to EXCEPT ![a] = t]

Done(a) ==
  /\ pc' = [pc EXCEPT ![a] = "idle"] /\ to' = [to EXCEPT ![a] = "healthy"]

\* USER_PERMISSION_REVOKED goes on to disableItem whatever the transition did.
AfterTransition(a) ==
  IF to[a] = "revoked" THEN pc' = [pc EXCEPT ![a] = "disable"] /\ UNCHANGED to ELSE Done(a)

\* onlyIfCurrent, as the webhooks and the sweep pass it.
MayReplace(t) ==
  CASE t = "expiring" -> {"healthy"}
    [] t = "healthy" -> {"reauth_required", "expiring"}
    [] OTHER -> Status

\* setItemStatus: the SELECT and the two early returns.
Read(a) ==
  /\ pc[a] = "read"
  /\ IF status # to[a] /\ status \in MayReplace(to[a])
     THEN pc' = [pc EXCEPT ![a] = "write"] /\ UNCHANGED to
     ELSE AfterTransition(a)
  /\ UNCHANGED <<plaid, row, seen, faults>>

\* setItemStatus: the UPDATE, whatever the status is by now. "healthy" is not a
\* status to tell anyone of.
Write(a) ==
  /\ pc[a] = "write"
  /\ status' = to[a]
  /\ told' = IF to[a] = "healthy" \/ status = "healthy" THEN "no" ELSE told
  /\ revocation' = (revocation \/ (to[a] = "revoked" /\ truth = "revoked"))
  /\ IF to[a] = "healthy" THEN Done(a) ELSE pc' = [pc EXCEPT ![a] = "tell"] /\ UNCHANGED to
  /\ UNCHANGED <<plaid, disabled, seen, faults>>

\* Mutant: the sweep corrects the status and tells nobody.
TellFromWebhooks(a) ==
  /\ pc[a] = "tell"
  /\ told' = IF a = Sweeper THEN told ELSE "yes"
  /\ AfterTransition(a)
  /\ UNCHANGED <<plaid, status, disabled, revocation, seen, faults>>

\* transitionItemStatus: trackServerEvent, then dispatchReaction.
Tell(a) ==
  /\ pc[a] = "tell"
  /\ told' = "yes"
  /\ AfterTransition(a)
  /\ UNCHANGED <<plaid, status, disabled, revocation, seen, faults>>

\* disableItem
Disable(a) ==
  /\ pc[a] = "disable"
  /\ disabled' = TRUE
  /\ Done(a)
  /\ UNCHANGED <<plaid, status, told, revocation, seen, faults>>

-----------------------------------------------------------------------------
(* Who notices *)

\* Mutant: the raw code is stored where the status belongs.
StatusOfRaw == [ERROR |-> "reauth_required", PENDING |-> "PENDING_EXPIRATION",
                LOGIN_REPAIRED |-> "healthy", USER_PERMISSION_REVOKED |-> "revoked"]

\* handleItemWebhook
StatusOf == [ERROR |-> "reauth_required", PENDING |-> "expiring",
             LOGIN_REPAIRED |-> "healthy", USER_PERMISSION_REVOKED |-> "revoked"]

Webhook(h, c) ==
  /\ pc[h] = "idle" /\ c \in mail
  /\ \/ mail' = mail \ {c} /\ UNCHANGED redeliveries
     \/ redeliveries < MaxRedeliveries /\ redeliveries' = redeliveries + 1 /\ UNCHANGED mail
  /\ Transition(h, StatusOf[c])
  /\ UNCHANGED <<truth, repaired, changes, row, seen, faults>>

\* A sync, liabilities or recurring call fails with ITEM_LOGIN_REQUIRED.
DataCallFails(h) ==
  /\ pc[h] = "idle" /\ truth = "broken" /\ ~disabled
  /\ Transition(h, "reauth_required")
  /\ UNCHANGED <<plaid, row, seen, faults>>

\* Mutant: only the items that are known to be broken are asked about.
StartSweepOfBroken ==
  /\ pc[Sweeper] = "idle" /\ ~disabled /\ status # "healthy"
  /\ seen' = status
  /\ pc' = [pc EXCEPT ![Sweeper] = "ask"]
  /\ UNCHANGED <<plaid, row, to, faults>>

\* Mutant: only the items that are thought to be healthy are asked about.
StartSweepOfHealthy ==
  /\ pc[Sweeper] = "idle" /\ ~disabled /\ status = "healthy"
  /\ seen' = status
  /\ pc' = [pc EXCEPT ![Sweeper] = "ask"]
  /\ UNCHANGED <<plaid, row, to, faults>>

\* listActiveItemsForHealthCheck
StartSweep ==
  /\ pc[Sweeper] = "idle" /\ ~disabled
  /\ seen' = status
  /\ pc' = [pc EXCEPT ![Sweeper] = "ask"]
  /\ UNCHANGED <<plaid, row, to, faults>>

Found == CASE truth \in {"broken", "revoked"} -> "reauth_required"
           [] truth = "expiring" -> "expiring"
           [] OTHER -> "healthy"

\* itemGet answers. An item that is fine is healed if the snapshot says otherwise.
Answered ==
  /\ pc[Sweeper] = "ask"
  /\ IF truth = "ok" /\ seen = "healthy" THEN Done(Sweeper) ELSE Transition(Sweeper, Found)
  /\ seen' = "healthy"
  /\ UNCHANGED <<plaid, row, faults>>

\* Plaid cannot answer, or answers with a transient error: never a state change.
Unanswered ==
  /\ pc[Sweeper] = "ask"
  /\ Done(Sweeper)
  /\ seen' = "healthy"
  /\ UNCHANGED <<plaid, row, faults>>

\* POST /api/plaid/item-repaired: markItemRepaired (its SELECT is for the log).
MarkRepaired ==
  /\ repaired /\ repaired' = FALSE
  /\ status' = "healthy" /\ disabled' = FALSE
  /\ told' = "no" /\ revocation' = FALSE
  /\ UNCHANGED <<truth, mail, changes, redeliveries, pc, to, seen, faults>>

-----------------------------------------------------------------------------
Lost(as) == IF told = "no" /\ \E a \in as : pc[a] = "tell" THEN "lost" ELSE told

\* A statement throws: the handler is over, and the sweep is done with the item.
Throws(a) ==
  /\ pc[a] \in {"read", "write", "tell", "disable"}
  /\ faults < MaxFaults /\ faults' = faults + 1
  /\ told' = Lost({a})
  /\ Done(a)
  /\ UNCHANGED <<plaid, status, disabled, revocation, seen>>

\* The process dies.
Crash ==
  /\ faults < MaxFaults /\ faults' = faults + 1
  /\ told' = Lost(Actors)
  /\ pc' = [a \in Actors |-> "idle"] /\ to' = [a \in Actors |-> "healthy"]
  /\ seen' = "healthy"
  /\ UNCHANGED <<plaid, status, disabled, revocation>>

Next ==
  \/ Expire \/ Break \/ Heal \/ Revoke \/ UpdateMode \/ ReportLost
  \/ \E c \in Codes : Lose(c)
  \/ \E h \in Handlers : (\E c \in Codes : Webhook(h, c)) \/ DataCallFails(h)
  \/ StartSweep \/ Answered \/ Unanswered \/ MarkRepaired
  \/ \E a \in Actors : Read(a) \/ Write(a) \/ Tell(a) \/ Disable(a) \/ Throws(a)
  \/ Crash

Spec == Init /\ [][Next]_vars

\* Node runs what it has begun, the scheduler sweeps every day, and a Plaid that
\* is asked every day answers some day. Nothing makes a webhook arrive, a data
\* call happen or a client report.
FairSpec ==
  /\ Spec
  /\ \A a \in Actors : WF_vars(Read(a) \/ Write(a) \/ Tell(a) \/ Disable(a))
  /\ WF_vars(StartSweep) /\ SF_vars(Answered)

-----------------------------------------------------------------------------
(* Properties *)

\* "recording a broken connection and telling nobody is ... the gap"
\* (item-lifecycle.ts:53): whatever handlers, sweeps and repairs interleave, a
\* recorded break has been told, or is about to be, unless a fault came between
\* the row and the push. (Then nobody is ever told: the next sweep sees no
\* change.)
BrokenIsTold ==
  status # "healthy" => told # "no" \/ \E a \in Actors : pc[a] = "tell"

\* "a confident number that is wrong" (plaid-health.ts:7): a connection that
\* stays broken is not shown healthy for ever, whichever webhooks were lost or
\* came late and whoever wrote last.
EventuallyShown == (<>[](truth # "ok")) => <>[](status # "healthy" \/ disabled)

\* And one that stays fine does not stay broken, unless it was revoked.
EventuallyHealed == (<>[](truth = "ok")) => <>[](status \in {"healthy", "revoked"} \/ disabled)

\* "LOGIN_REPAIRED must not resurrect a revoked item" (items.ts:96): what was
\* recorded as revoked, and is, is not shown healthy. The code does not keep
\* this. The UPDATE does not repeat the condition of the SELECT, so a heal that
\* read "expiring" replaces a revocation recorded since; and an ERROR that comes
\* late replaces "revoked" unconditionally, and the row it leaves may be healed.
RevokedStaysRevoked == revocation => status # "healthy"

=============================================================================

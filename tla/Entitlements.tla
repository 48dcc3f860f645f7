----------------------------- MODULE Entitlements ----------------------------
(***************************************************************************)
(* The paid tier a user has: Apple's notifications about subscriptions     *)
(* (webhook/appstore.ts), the signed transactions the app reports          *)
(* (api/entitlements.ts) and the row per user that both write              *)
(* (store/entitlements.ts). Apple signs what it sends, sends it again      *)
(* until it is acknowledged and promises no order.                         *)
(***************************************************************************)
EXTENDS Integers, Sequences, FiniteSets

CONSTANTS
  Users, Subs,   \* Coiny users; Apple subscriptions (originalTransactionId)
  Tiers,         \* paid tiers: "individual", "household"
  Workers,       \* webhook requests that may overlap
  Clients,       \* transaction reports that may overlap
  None,
  Period, Grace, \* lengths of a paid period and of a grace period
  MaxNow,        \* bound: the clock stops here
  MaxEvents      \* bound: notifications Apple ever sends

Moments == 0..(MaxNow + Period + Grace)
\* What Apple holds of a subscription, and what it says of one.
Transaction ==
  [token : Users, tier : Tiers, state : {"paid", "retry", "grace", "over", "refunded"},
   expires : 0..(MaxNow + Period), grace : Moments \cup {None}]
Notification ==
  [type : {"SUBSCRIBED", "DID_RENEW", "DID_FAIL_TO_RENEW", "GRACE_PERIOD", "GRACE_PERIOD_EXPIRED",
           "EXPIRED", "REFUND", "REFUND_REVERSED"}, sub : Subs, tx : Transaction]

EntitlementAssumption ==
  /\ Period \in Nat \ {0} /\ Grace \in Nat \ {0} /\ MaxNow \in Nat /\ MaxEvents \in Nat
  /\ "free" \notin Tiers /\ None \notin Nat \cup Users \cup Subs /\ None \notin Transaction

VARIABLES
  now,
  truth,    \* subscription |-> what Apple holds of it; None before the purchase
  sent,     \* the notifications, in the order Apple sent them
  row,      \* user |-> the entitlements row
  claimed,  \* positions in sent whose notificationUUID is claimed
  applied,  \* positions in sent whose patch has been written
  hook,     \* worker |-> the claimed notification it applies and the row it found for it
  report,   \* client |-> a reported transaction that passed the bound check
  wrote,    \* user |-> history: the subscriptions that ever wrote the row
  straight  \* history: no notification applied late or to a row bound meanwhile, no row bound
            \* from one subscription to another, no old transaction reported, no grace ended
            \* by a report

vars == <<now, truth, sent, row, claimed, applied, hook, report, wrote, straight>>

Free == [bound |-> None, tier |-> "free", status |-> "none", expires |-> 0, grace |-> None]
Statuses == {"none", "active", "grace", "billing_retry", "expired", "revoked"}

TypeOK ==
  /\ now \in 0..MaxNow /\ straight \in BOOLEAN
  /\ truth \in [Subs -> Transaction \cup {None}]
  /\ sent \in Seq(Notification) /\ Len(sent) <= MaxEvents
  /\ row \in [Users -> [bound : Subs \cup {None}, tier : Tiers \cup {"free"}, status : Statuses,
                        expires : Moments, grace : Moments \cup {None}]]
  /\ claimed \subseteq DOMAIN sent /\ applied \subseteq claimed /\ wrote \in [Users -> SUBSET Subs]
  /\ hook \in [Workers -> [at : Nat, to : SUBSET Users] \cup {None}]
  /\ report \in [Clients -> [user : Users, at : Nat] \cup {None}]

Init ==
  /\ now = 0 /\ truth = [s \in Subs |-> None] /\ sent = <<>>
  /\ row = [u \in Users |-> Free] /\ claimed = {} /\ applied = {}
  /\ hook = [w \in Workers |-> None] /\ report = [c \in Clients |-> None]
  /\ wrote = [u \in Users |-> {}] /\ straight = TRUE
-----------------------------------------------------------------------------
(* Apple. A subscription carries the appAccountToken of the user it was    *)
(* bought under and, in grace, the date that ends it.                      *)

\* Every notification carries the subscription as Apple holds it when it is sent.
Say(type, s, t) ==
  /\ Len(sent) < MaxEvents
  /\ truth' = [truth EXCEPT ![s] = t] /\ sent' = Append(sent, [type |-> type, sub |-> s, tx |-> t])
  /\ UNCHANGED <<now, row, claimed, applied, hook, report, wrote, straight>>

Purchase(s, u, tier) ==
  /\ truth[s] = None
  /\ Say("SUBSCRIBED", s,
         [token |-> u, tier |-> tier, state |-> "paid", expires |-> now + Period, grace |-> None])
Apple(s) ==
  /\ truth[s] # None
  /\ \/ /\ truth[s].state # "refunded" /\ now + Period > truth[s].expires
        /\ Say("DID_RENEW", s, [truth[s] EXCEPT !.state = "paid", !.expires = now + Period, !.grace = None])
     \/ /\ truth[s].state = "paid" /\ now >= truth[s].expires
        /\ \/ Say("DID_FAIL_TO_RENEW", s, [truth[s] EXCEPT !.state = "retry"])
           \/ Say("GRACE_PERIOD", s, [truth[s] EXCEPT !.state = "grace", !.grace = truth[s].expires + Grace])
           \/ Say("EXPIRED", s, [truth[s] EXCEPT !.state = "over"])
     \/ /\ truth[s].state = "grace" /\ now >= truth[s].grace
        /\ Say("GRACE_PERIOD_EXPIRED", s, [truth[s] EXCEPT !.state = "retry", !.grace = None])
     \/ /\ truth[s].state = "paid" /\ Say("REFUND", s, [truth[s] EXCEPT !.state = "refunded"])
     \/ /\ truth[s].state = "refunded" /\ Say("REFUND_REVERSED", s, [truth[s] EXCEPT !.state = "paid"])
Tick ==
  /\ now < MaxNow /\ now' = now + 1
  /\ UNCHANGED <<truth, sent, row, claimed, applied, hook, report, wrote, straight>>
-----------------------------------------------------------------------------
(* The row, read and patched.                                              *)

\* Mutant: the grace period is not looked at.
EntitledUntilExpiry(r) == r.expires
\* resolveEntitlement
EntitledUntil(r) == IF r.status = "grace" /\ r.grace # None /\ r.grace > r.expires THEN r.grace ELSE r.expires
Granted(u) == row[u].tier # "free" /\ row[u].status \notin {"none", "revoked", "expired"}
              /\ now < EntitledUntil(row[u])
Tier(u) == IF Granted(u) THEN row[u].tier ELSE "free"

\* findTargetRow: the row bound to the subscription, else the one whose token it was bought with.
Bound(s) == {u \in Users : row[u].bound = s}
Target(s) == IF Bound(s) # {} THEN Bound(s) ELSE {truth[s].token} \ {None}

\* patchForNotification. The patch never binds the row to the subscription.
Patch(r, n) ==
  LET until == [r EXCEPT !.expires = n.tx.expires, !.grace = None]
  IN CASE n.type \in {"SUBSCRIBED", "DID_RENEW"} ->
            [until EXCEPT !.tier = n.tx.tier, !.status = IF n.tx.expires <= now THEN "expired" ELSE "active"]
       [] n.type = "GRACE_PERIOD" -> [until EXCEPT !.status = "grace", !.grace = n.tx.grace]
       [] n.type \in {"DID_FAIL_TO_RENEW", "GRACE_PERIOD_EXPIRED"} -> [until EXCEPT !.status = "billing_retry"]
       [] n.type = "EXPIRED" -> [until EXCEPT !.status = "expired"]
       [] n.type = "REFUND" -> [r EXCEPT !.status = "revoked", !.grace = None]
       [] n.type = "REFUND_REVERSED" ->
            [r EXCEPT !.status = IF n.tx.expires > now THEN "active" ELSE "expired", !.expires = n.tx.expires]
-----------------------------------------------------------------------------
(* POST /webhooks/appstore                                                 *)

Earlier(i) == {j \in 1..(i - 1) : sent[j].sub = sent[i].sub}
\* A claimed notification is acknowledged and not looked at again. The row is read after the
\* claim, which concerns nobody else.
Claim(w, i) ==
  /\ hook[w] = None /\ i \in DOMAIN sent \ claimed
  /\ claimed' = claimed \cup {i}
  /\ hook' = [hook EXCEPT ![w] = [at |-> i, to |-> Target(sent[i].sub)]]
  /\ UNCHANGED <<now, truth, sent, row, applied, report, wrote, straight>>
ApplyNotification(w) ==
  LET i == hook[w].at
      to == hook[w].to
  IN
  /\ hook[w] # None /\ hook' = [hook EXCEPT ![w] = None] /\ applied' = applied \cup {i}
  /\ row' = [u \in Users |-> IF u \in to THEN Patch(row[u], sent[i]) ELSE row[u]]
  /\ wrote' = [u \in Users |-> IF u \in to THEN wrote[u] \cup {sent[i].sub} ELSE wrote[u]]
  /\ straight' = (straight /\ Earlier(i) \subseteq applied /\ to = Target(sent[i].sub))
  /\ UNCHANGED <<now, truth, sent, claimed, report>>
\* The claim is released and Apple sends the notification again.
Release(w) ==
  /\ hook[w] # None /\ claimed' = claimed \ {hook[w].at} /\ hook' = [hook EXCEPT ![w] = None]
  /\ UNCHANGED <<now, truth, sent, row, applied, report, wrote, straight>>
-----------------------------------------------------------------------------
(* POST /api/entitlements/transaction                                      *)

\* Any transaction Apple has signed: the app reports purchases, renewals and restores, and the
\* device may be signed in as anyone. A transaction says nothing of a grace period.
Report(c, u, i) ==
  /\ report[c] = None /\ i \in DOMAIN sent /\ Bound(sent[i].sub) \subseteq {u}
  /\ report' = [report EXCEPT ![c] = [user |-> u, at |-> i]]
  /\ UNCHANGED <<now, truth, sent, row, claimed, applied, hook, wrote, straight>>
\* applyTransaction. The unique index on original_transaction_id refuses a second binding.
ApplyTransaction(c) ==
  LET u == report[c].user
      s == sent[report[c].at].sub
      tx == sent[report[c].at].tx
      newest == \A j \in DOMAIN sent : sent[j].sub = s => j <= report[c].at
  IN /\ report[c] # None /\ report' = [report EXCEPT ![c] = None]
     /\ IF Bound(s) \subseteq {u}
        THEN /\ row' = [row EXCEPT ![u] =
                  [bound |-> s, tier |-> tx.tier, expires |-> tx.expires, grace |-> None,
                   status |-> IF tx.state = "refunded" THEN "revoked"
                              ELSE IF tx.expires <= now THEN "expired" ELSE "active"]]
             /\ wrote' = [wrote EXCEPT ![u] = @ \cup {s}]
             /\ straight' = (straight /\ newest /\ tx.grace = None /\ row[u].bound \in {None, s})
        ELSE UNCHANGED <<row, wrote, straight>>
     /\ UNCHANGED <<now, truth, sent, claimed, applied, hook>>

\* A claim that outlives its request is never applied.
Crash ==
  /\ hook' = [w \in Workers |-> None] /\ report' = [c \in Clients |-> None]
  /\ \E w \in Workers : hook[w] # None
  /\ UNCHANGED <<now, truth, sent, row, claimed, applied, wrote, straight>>

Next ==
  \/ Tick \/ Crash
  \/ \E s \in Subs : Apple(s) \/ \E u \in Users, tier \in Tiers : Purchase(s, u, tier)
  \/ \E w \in Workers : ApplyNotification(w) \/ Release(w) \/ \E i \in DOMAIN sent : Claim(w, i)
  \/ \E c \in Clients : ApplyTransaction(c) \/ \E u \in Users, i \in DOMAIN sent : Report(c, u, i)
Spec == Init /\ [][Next]_vars
-----------------------------------------------------------------------------
\* What Apple says the subscription is good for now.
Paid(s) ==
  /\ truth[s] # None
  /\ \/ truth[s].state \in {"paid", "retry", "over"} /\ now < truth[s].expires
     \/ truth[s].state = "grace" /\ now < truth[s].grace
\* Delivered in order and in full, the notifications leave the row with what Apple holds, through
\* renewals, failed ones, grace, refunds and their reversal, with retries and reports in between.
\* (A report during grace ends it for the row, which Apple does not; a second subscription of
\* the same user writes over the first.)
FollowsApple ==
  \A s \in Subs : straight /\ truth[s] # None =>
    \A u \in Target(s) :
      (/\ \A i \in DOMAIN sent : sent[i].sub = s => i \in applied
       /\ wrote[u] \subseteq {s}) =>
      Tier(u) = IF Paid(s) THEN truth[s].tier ELSE "free"

\* api/entitlements.ts:110 "An Apple subscription binds to exactly one Coiny user."
SubscriptionGrantsOne ==
  \A s \in Subs : truth[s] # None =>
    Cardinality({u \in Users : Granted(u) /\ (u \in Bound(s) \/ truth[s].token = u)}) <= 1
=============================================================================

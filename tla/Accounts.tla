------------------------------ MODULE Accounts -------------------------------
(***************************************************************************)
(* The life of an account: sign-up (findOrCreateUser, store/users.ts),     *)
(* DELETE /api/account (api/account.ts) with the upstream grants it ends   *)
(* (revoke/upstream.ts) and deleteUser (store/users.ts), the webhooks and  *)
(* connects that go on writing meanwhile, the nightly copies, a restore    *)
(* from one of them and the sweep that re-applies deletions               *)
(* (store/deleted-users.ts), the pruning of tombstones                    *)
(* (scheduler/purge.ts).                                                   *)
(*                                                                         *)
(* A row is <<table, user, thing>>, if it identifies the user. A grant is  *)
(* named for the table that holds its credential. The Plaid items of the   *)
(* account are ItemRemoval, its sessions are Sessions; a purchase is one   *)
(* user's here, Entitlements has the one that two report.                  *)
(***************************************************************************)
EXTENDS Naturals

CONSTANTS
  Subs,            \* people: the provider's subject identifiers
  Ids,             \* user ids the server may mint
  None,
  Txs,             \* bank transactions
  Purchases,       \* App Store subscriptions (originalTransactionId)
  Grants,          \* connections to vendors a user may authorize
  Revocable,       \* those the vendor lets us end
  CopyLife,        \* retention of the nightly copies, in clock units
  TombstoneLife,   \* TOMBSTONE_RETENTION_DAYS, in clock units
  MaxCopies,       \* bound: copies ever taken
  MaxRestores,     \* bound
  MaxNow           \* bound: the clock

\* What the cascade of the users row takes along, and what it does not.
Owned == {"transactions", "entitlements"} \cup Grants
Loose == {"processed_events", "app_store_notifications"}
Things == Txs \cup Purchases \cup {None}
Traces == (Owned \cup Loose) \X Ids \X Things

ASSUME AccountsAssumption ==
  /\ None \notin Ids \cup Subs /\ Revocable \subseteq Grants
  /\ Grants \cap (Loose \cup {"transactions", "entitlements"}) = {}
  /\ CopyLife \in Nat /\ TombstoneLife \in Nat /\ MaxCopies \in Nat /\ MaxRestores \in Nat
  /\ MaxNow \in Nat

NoTime == MaxNow + 1

VARIABLES
  now,
  users,     \* per id: the subject of its users row, or None
  rows,      \* the rows that identify a user
  tombs,     \* per id: deleted_user_ids.deleted_at, or NoTime
  erased,    \* history: ids whose deletion this database has committed
  missed,    \* history: traces that a deletion's last look for them did not take away
  standing,  \* <<grant, id, None>>: authorizations that stand at their vendor
  delivery,  \* the transaction sync in flight: whose, which, how far
  link,      \* the connect in flight: whose, which grant, how far
  del,       \* the deletion in progress: whose, how far
  known,    \* ids ever given out, restores or not
  left,      \* history: ids whose deletion was ever committed, restores or not
  copies,    \* the dumps that still exist
  restoring, restores, taken

db == <<users, rows, tombs, erased, missed>>
ops == <<known, left, copies, restoring, restores, taken>>
vars == <<now, db, standing, delivery, link, del, ops>>

NoDelivery == [id |-> None, tx |-> None, pc |-> "idle"]
NoLink == [id |-> None, grant |-> None, pc |-> "idle"]
NoDel == [id |-> None, pc |-> "idle"]
Copy == [at : 0..MaxNow, users : [Ids -> Subs \cup {None}], rows : SUBSET Traces,
         tombs : [Ids -> 0..NoTime], erased : SUBSET Ids, missed : SUBSET Traces]

TypeOK ==
  /\ now \in 0..MaxNow /\ users \in [Ids -> Subs \cup {None}]
  /\ rows \subseteq Traces /\ tombs \in [Ids -> 0..NoTime] /\ erased \subseteq Ids
  /\ standing \subseteq Grants \X Ids \X {None}
  /\ delivery \in {NoDelivery} \cup [id : Ids, tx : Txs, pc : {"found", "stored"}]
  /\ link \in {NoLink} \cup [id : Ids, grant : Grants, pc : {"asked", "granted"}]
  /\ del \in {NoDel} \cup [id : Ids, pc : {"upstream", "events", "forget", "commit"}]
  /\ missed \subseteq Traces /\ known \subseteq Ids /\ left \subseteq Ids
  /\ copies \subseteq Copy
  /\ restoring \in BOOLEAN /\ restores \in 0..MaxRestores /\ taken \in 0..MaxCopies

Init ==
  /\ now = 0 /\ users = [i \in Ids |-> None] /\ rows = {} /\ tombs = [i \in Ids |-> NoTime]
  /\ erased = {} /\ missed = {} /\ standing = {}
  /\ delivery = NoDelivery /\ link = NoLink /\ del = NoDel
  /\ known = {} /\ left = {} /\ copies = {}
  /\ restoring = FALSE /\ restores = 0 /\ taken = 0

Exists(i) == users[i] # None
\* The deletion of i is at one of these steps, or was: it looks for no more of what came before.
Past(i, later) == ~Exists(i) \/ (del.id = i /\ del.pc \in later)

-----------------------------------------------------------------------------
(* Sign-up and what is stored of a user                                    *)

\* findOrCreateUser of a subject that has no user: users and pet_state in one transaction.
\* The SELECT before it needs no step of its own: of two sign-ups that both found nobody,
\* the unique index refuses the second.
SignUp(s) ==
  /\ \A i \in Ids : users[i] # s
  /\ \E i \in Ids \ known : users' = [users EXCEPT ![i] = s] /\ known' = known \cup {i}
  /\ UNCHANGED <<now, rows, tombs, erased, missed, standing, delivery, link, del, left, copies,
                 restoring, restores, taken>>

\* A transaction sync has found its item and user. (Bound: one in flight.)
HookStart(i, x) ==
  /\ delivery = NoDelivery /\ Exists(i) /\ delivery' = [id |-> i, tx |-> x, pc |-> "found"]
  /\ UNCHANGED <<now, db, standing, link, del, ops>>

\* persistTransactions: the foreign key asks for the users row.
HookStore ==
  /\ delivery.pc = "found" /\ Exists(delivery.id) /\ delivery' = [delivery EXCEPT !.pc = "stored"]
  /\ rows' = rows \cup {<<"transactions", delivery.id, delivery.tx>>}
  /\ UNCHANGED <<now, users, tombs, erased, missed, standing, link, del, ops>>

\* claimEvents of what the sync holds, whatever has become of the rows and of the user.
HookClaim ==
  LET claim == <<"processed_events", delivery.id, delivery.tx>>
  IN /\ delivery.pc = "stored" /\ delivery' = NoDelivery
     /\ rows' = rows \cup {claim}
     /\ missed' = missed \cup {t \in {claim} : Past(delivery.id, {"forget", "commit"})}
     /\ UNCHANGED <<now, users, tombs, erased, standing, link, del, ops>>

\* An initial sync claims nothing; a sync throws, or dies with the process.
HookEnd ==
  /\ delivery # NoDelivery /\ delivery' = NoDelivery
  /\ UNCHANGED <<now, db, standing, link, del, ops>>

\* deletePlaidDataForUser, when the bank is disconnected: the transactions go, the claims of
\* their ids do not.
PurgeBankData(i) ==
  /\ Exists(i) /\ rows' = {r \in rows : r[1] # "transactions" \/ r[2] # i}
  /\ UNCHANGED <<now, users, tombs, erased, missed, standing, delivery, link, del, ops>>

\* An App Store notification is claimed, its subscriber id with it, before any row is looked
\* for. Apple sends them for as long as the subscription runs.
AppStoreClaim(i, p) ==
  LET claim == <<"app_store_notifications", i, p>>
  IN /\ i \in known /\ rows' = rows \cup {claim}
     /\ missed' = missed \cup {t \in {claim} : Past(i, {"commit"})}
     /\ UNCHANGED <<now, users, tombs, erased, standing, delivery, link, del, ops>>

\* applyTransaction, when the client reports the purchase: only this binds the subscription.
Report(i, p) ==
  /\ Exists(i)
  /\ rows' = {r \in rows : r[1] # "entitlements" \/ r[2] # i} \cup {<<"entitlements", i, p>>}
  /\ UNCHANGED <<now, users, tombs, erased, missed, standing, delivery, link, del, ops>>

-----------------------------------------------------------------------------
(* Vendor grants: an authorization is given, then its credential is stored *)

\* The request has been authenticated.
Connect(i, g) ==
  /\ link = NoLink /\ Exists(i) /\ link' = [id |-> i, grant |-> g, pc |-> "asked"]
  /\ UNCHANGED <<now, db, standing, delivery, del, ops>>

\* The vendor knows the user from here on (exchangeCode, sendSmsOtp).
Granted ==
  LET grant == <<link.grant, link.id, None>>
  IN /\ link.pc = "asked" /\ link' = [link EXCEPT !.pc = "granted"]
     /\ standing' = standing \cup {grant}
     /\ missed' = missed \cup
                     {t \in {grant} : Past(link.id, {"events", "forget", "commit"})}
     /\ UNCHANGED <<now, users, rows, tombs, erased, delivery, del, ops>>

StoreCredential ==
  /\ link.pc = "granted" /\ Exists(link.id) /\ link' = NoLink
  /\ rows' = rows \cup {<<link.grant, link.id, None>>}
  /\ UNCHANGED <<now, users, tombs, erased, missed, standing, delivery, del, ops>>

\* The vendor refuses, the user never comes back with the code, the user is gone, a crash.
ConnectEnd ==
  /\ link # NoLink /\ link' = NoLink
  /\ UNCHANGED <<now, db, standing, delivery, del, ops>>

\* Best effort at the vendor if it has an endpoint; the credential goes either way.
Disconnect(i, g) ==
  LET grant == <<g, i, None>>
  IN /\ Exists(i) /\ grant \in rows /\ rows' = rows \ {grant}
     /\ \/ UNCHANGED standing
        \/ g \in Revocable /\ standing' = standing \ {grant}
     /\ UNCHANGED <<now, users, tombs, erased, missed, delivery, link, del, ops>>

-----------------------------------------------------------------------------
(* Deletion *)

\* The item loop is over (ItemRemoval); the grants are next.
DeleteStart(i) ==
  /\ del = NoDel /\ Exists(i) /\ del' = [id |-> i, pc |-> "upstream"]
  /\ UNCHANGED <<now, db, standing, delivery, link, ops>>

\* revokeUpstreamGrants: every vendor that has an endpoint is asked, each on a credential
\* that is stored now; a failure is logged and stepped over.
RevokeUpstream ==
  LET due == {g \in standing : g[1] \in Revocable /\ g[2] = del.id}
  IN /\ del.pc = "upstream" /\ del' = [del EXCEPT !.pc = "events"]
     /\ \E failed \in SUBSET (due \cap rows) :
          LET kept == failed \cup (due \ rows)
          IN standing' = standing \ (due \ kept) /\ missed' = (missed \ due) \cup kept
     /\ UNCHANGED <<now, users, rows, tombs, erased, delivery, link, ops>>

\* The loose rows of the user, and those of them that rows of another table lead to.
Of(t) == {r \in rows : r[1] = t /\ r[2] = del.id}
Through(t, R) == {r \in R : <<t, del.id, r[3]>> \in rows}

\* Mutant of ClearEvents: the claims were thought to cascade.
ClearNothing ==
  LET claims == Of("processed_events")
  IN /\ del.pc = "events" /\ del' = [del EXCEPT !.pc = "forget"]
     /\ missed' = (missed \ claims) \cup (claims \ Through("transactions", claims))
     /\ UNCHANGED <<now, users, rows, tombs, erased, standing, delivery, link, ops>>

\* clearUserEvents finds the event ids through the user's stored transactions.
ClearEvents ==
  LET claims == Of("processed_events")
      found == Through("transactions", claims)
  IN /\ del.pc = "events" /\ del' = [del EXCEPT !.pc = "forget"]
     /\ rows' = rows \ found /\ missed' = (missed \ claims) \cup (claims \ found)
     /\ UNCHANGED <<now, users, tombs, erased, standing, delivery, link, ops>>

\* forgetAppStoreIdentifiers nulls the subscriber id that the entitlements row is bound to; a
\* notification does not bind it.
ForgetAppStore ==
  LET claims == Of("app_store_notifications")
      found == Through("entitlements", claims)
  IN /\ del.pc = "forget" /\ del' = [del EXCEPT !.pc = "commit"]
     /\ rows' = rows \ found /\ missed' = (missed \ claims) \cup (claims \ found)
     /\ UNCHANGED <<now, users, tombs, erased, standing, delivery, link, ops>>

Cascade(R, gone) == {r \in R : r[1] \in Loose \/ r[2] \notin gone}

\* Mutant of DeleteCommit: the tombstone first, in a statement of its own; the delete may fail.
CommitTombstoneFirst ==
  /\ del.pc = "commit" /\ del' = NoDel
  /\ tombs' = [tombs EXCEPT ![del.id] = IF @ = NoTime THEN now ELSE @]
  /\ \/ UNCHANGED <<users, rows, erased, left>>
     \/ /\ users' = [users EXCEPT ![del.id] = None] /\ rows' = Cascade(rows, {del.id})
        /\ erased' = erased \cup {del.id} /\ left' = left \cup {del.id}
  /\ UNCHANGED <<now, missed, standing, delivery, link, known, copies, restoring, restores, taken>>

\* Mutant of DeleteCommit: the step of the deletion is not reset.
CommitKeepsStep ==
  /\ del.pc = "commit" /\ del' = [id |-> None, pc |-> "done"]
  /\ tombs' = [tombs EXCEPT ![del.id] = IF @ = NoTime THEN now ELSE @]
  /\ users' = [users EXCEPT ![del.id] = None] /\ rows' = Cascade(rows, {del.id})
  /\ erased' = erased \cup {del.id} /\ left' = left \cup {del.id}
  /\ UNCHANGED <<now, missed, standing, delivery, link, known, copies, restoring, restores, taken>>

\* deleteUser's transaction: the tombstone (the first date is kept) and the row.
DeleteCommit ==
  /\ del.pc = "commit" /\ del' = NoDel
  /\ tombs' = [tombs EXCEPT ![del.id] = IF @ = NoTime THEN now ELSE @]
  /\ users' = [users EXCEPT ![del.id] = None] /\ rows' = Cascade(rows, {del.id})
  /\ erased' = erased \cup {del.id} /\ left' = left \cup {del.id}
  /\ UNCHANGED <<now, missed, standing, delivery, link, known, copies, restoring, restores, taken>>

\* The process dies or a statement throws: what was done stays done.
DeleteAbort ==
  /\ del # NoDel /\ del' = NoDel
  /\ UNCHANGED <<now, db, standing, delivery, link, ops>>

-----------------------------------------------------------------------------
(* Time, copies and restores *)

Prune == {i \in Ids : tombs[i] # NoTime /\ now - tombs[i] > TombstoneLife}

\* pruneExpiredTombstones, part of the daily purge.
PruneTombstones ==
  /\ Prune # {} /\ tombs' = [i \in Ids |-> IF i \in Prune THEN NoTime ELSE tombs[i]]
  /\ UNCHANGED <<now, users, rows, erased, missed, standing, delivery, link, del, ops>>

TakeCopy ==
  /\ taken < MaxCopies /\ taken' = taken + 1
  /\ copies' = copies \cup
       {[at |-> now, users |-> users, rows |-> rows, tombs |-> tombs, erased |-> erased,
         missed |-> missed]}
  /\ UNCHANGED <<now, db, standing, delivery, link, del, known, left, restoring, restores>>

\* pg_restore into a new branch that becomes the database, tombstones included; no request
\* survives it. The vendors are not taken back with it.
Restore ==
  /\ restores < MaxRestores /\ restores' = restores + 1 /\ restoring' = TRUE
  /\ \E c \in copies : /\ users' = c.users /\ rows' = c.rows /\ tombs' = c.tombs
                        /\ erased' = c.erased /\ missed' = c.missed \cup standing
  /\ delivery' = NoDelivery /\ link' = NoLink /\ del' = NoDel
  /\ UNCHANGED <<now, standing, known, left, copies, taken>>

\* purgeResurrectedUsers, run by hand before traffic: every id the restored database holds a
\* tombstone of goes again.
Sweep ==
  /\ restoring /\ restoring' = FALSE
  /\ LET gone == {i \in Ids : tombs[i] # NoTime}
     IN /\ users' = [i \in Ids |-> IF i \in gone THEN None ELSE users[i]]
        /\ rows' = Cascade(rows, {i \in gone : Exists(i)})
  /\ UNCHANGED <<now, tombs, erased, missed, standing, delivery, link, del, known, left, copies,
                 restores, taken>>

\* A day passes; copies past their retention are dropped with it.
Tick ==
  /\ now < MaxNow /\ now' = now + 1
  /\ copies' = {c \in copies : now' - c.at <= CopyLife}
  /\ UNCHANGED <<db, standing, delivery, link, del, known, left, restoring, restores, taken>>

\* A restore finishes before any traffic.
Serve ==
  \/ \E s \in Subs : SignUp(s)
  \/ HookStore \/ HookClaim \/ HookEnd \/ Granted \/ StoreCredential \/ ConnectEnd
  \/ \E i \in Ids : \/ PurgeBankData(i) \/ DeleteStart(i)
                    \/ \E x \in Txs : HookStart(i, x)
                    \/ \E p \in Purchases : AppStoreClaim(i, p) \/ Report(i, p)
                    \/ \E g \in Grants : Connect(i, g) \/ Disconnect(i, g)
  \/ RevokeUpstream \/ ClearEvents \/ ForgetAppStore \/ DeleteCommit \/ DeleteAbort
  \/ PruneTombstones \/ TakeCopy \/ Restore \/ Tick
Next == (~restoring /\ Serve) \/ Sweep

Spec == Init /\ [][Next]_vars

-----------------------------------------------------------------------------
(* Properties *)

\* Whatever meets a deletion, it leaves no row the cascade should reach, and of the rest only
\* what came after the step that looks for it, the claims of transactions that a disconnect had
\* purged, subscriber ids of purchases the entitlement was not bound to, and grants that the
\* vendor did not end or whose credential was not stored. The ids are resolved, and the grants
\* ended, through rows that the cascade takes (api/account.ts:94, store/users.ts:118).
CleanDeletion ==
  /\ \A r \in rows : r[2] \in erased => r[1] \in Loose /\ r \in missed
  /\ \A g \in standing : g[1] \in Revocable /\ g[2] \in erased => g \in missed

\* store/users.ts:131: for a deleted person's App Store claims "only the identifier is nulled".
\* When the deletion has been through them, none of them identifies the person any more. The code
\* does not keep this: without a bound subscription the deletion finds none (entitlements.ts:163).
SubscriberForgotten ==
  [][del.pc = "forget" /\ del'.pc = "commit" =>
       \A r \in rows' : r[1] = "app_store_notifications" => r[2] # del.id]_vars

\* store/users.ts:139: of a tombstone and a deletion "neither is allowed to happen alone". No
\* account, in the database or in a copy, exists beside its own tombstone: the sweep after a
\* restore deletes no account that lives.
TombstonesNameTheGone ==
  /\ \A i \in Ids : tombs[i] # NoTime => ~Exists(i)
  /\ \A c \in copies, i \in Ids : c.tombs[i] # NoTime => c.users[i] = None

\* store/deleted-users.ts:1: the tombstone is "kept so that a restore cannot silently undo the
\* deletion": once the sweep has run, nobody who was deleted is back.
DeletedStayDeleted == \A i \in left : ~restoring => ~Exists(i)
=============================================================================

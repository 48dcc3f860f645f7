---------------------------- MODULE AccountsProofs ----------------------------
(***************************************************************************)
(* Proofs about Accounts, for any people, ids, purchases, grants,          *)
(* retentions, copies and restores. What a run of few ids and no copy, or  *)
(* of two copies and no grant, cannot show is all of it at once.           *)
(***************************************************************************)
EXTENDS Accounts, TLAPS

LEMMA TableNames ==
  /\ {"transactions", "entitlements"} \subseteq Owned /\ Grants \subseteq Owned
  /\ Loose = {"processed_events", "app_store_notifications"}
  /\ Owned \cap Loose = {} /\ Grants \cap Loose = {}
BY AccountsAssumption DEF AccountsAssumption, Owned, Loose

LEMMA TypeStep ==
  ASSUME TypeOK, [Next]_vars
  PROVE  TypeOK'
<1> USE AccountsAssumption, TableNames
        DEF AccountsAssumption, TypeOK, NoTime, NoDel, NoDelivery, NoLink, Traces, Things
<1>0. /\ delivery # NoDelivery => delivery.id \in Ids /\ delivery.tx \in Txs
      /\ link # NoLink => link.id \in Ids /\ link.grant \in Grants
      /\ del # NoDel => del.id \in Ids
      /\ Cascade(rows, {del.id}) \subseteq rows
  BY DEF Cascade
<1>1. ASSUME NEW s \in Subs, SignUp(s)
      PROVE  TypeOK'
  BY <1>1 DEF SignUp
<1>2. ASSUME NEW i \in Ids, NEW x \in Txs, HookStart(i, x)
      PROVE  TypeOK'
  BY <1>2 DEF HookStart, db, ops
<1>3. CASE HookStore
  <2>1. delivery # NoDelivery /\ delivery' \in [id : Ids, tx : Txs, pc : {"found", "stored"}]
    BY <1>3 DEF HookStore
  <2> QED BY <1>0, <1>3, <2>1 DEF HookStore, ops
<1>4. CASE HookClaim
  <2>1. delivery # NoDelivery /\ <<"processed_events", delivery.id, delivery.tx>> \in Traces
    BY <1>0, <1>4 DEF HookClaim
  <2> QED BY <1>4, <2>1 DEF HookClaim, ops
<1>5. CASE HookEnd \/ ConnectEnd \/ DeleteAbort
  BY <1>5 DEF HookEnd, ConnectEnd, DeleteAbort, db, ops
<1>6. ASSUME NEW i \in Ids, PurgeBankData(i) \/ DeleteStart(i)
      PROVE  TypeOK'
  BY <1>6 DEF PurgeBankData, DeleteStart, db, ops
<1>7. ASSUME NEW i \in Ids, NEW p \in Purchases, AppStoreClaim(i, p) \/ Report(i, p)
      PROVE  TypeOK'
  <2>1. /\ <<"app_store_notifications", i, p>> \in Traces
        /\ <<"entitlements", i, p>> \in Traces
    OBVIOUS
  <2> QED BY <1>7, <2>1 DEF AppStoreClaim, Report, ops
<1>8. ASSUME NEW i \in Ids, NEW g \in Grants, Connect(i, g)
      PROVE  TypeOK'
  BY <1>8 DEF Connect, db, ops
<1>9. ASSUME NEW i \in Ids, NEW g \in Grants, Disconnect(i, g)
      PROVE  TypeOK'
  BY <1>9 DEF Disconnect, ops
<1>10. CASE Granted
  <2>1. link # NoLink /\ <<link.grant, link.id, None>> \in Traces \cap (Grants \X Ids \X {None})
    BY <1>0, <1>10 DEF Granted
  <2>2. link' \in [id : Ids, grant : Grants, pc : {"asked", "granted"}]
    BY <1>10, <2>1 DEF Granted
  <2> QED BY <1>10, <2>1, <2>2 DEF Granted, ops
<1>11. CASE StoreCredential
  <2>1. link # NoLink /\ <<link.grant, link.id, None>> \in Traces
    BY <1>0, <1>11 DEF StoreCredential
  <2> QED BY <1>11, <2>1 DEF StoreCredential, ops
<1>12. CASE RevokeUpstream
  <2>1. standing' \subseteq standing /\ missed' \subseteq missed \cup standing
    BY <1>12 DEF RevokeUpstream
  <2>2. standing \subseteq Traces
    OBVIOUS
  <2>3. del' \in [id : Ids, pc : {"upstream", "events", "forget", "commit"}]
    BY <1>12 DEF RevokeUpstream
  <2> QED BY <1>12, <2>1, <2>2, <2>3 DEF RevokeUpstream, ops
<1>13. CASE ClearEvents \/ ForgetAppStore
  <2>1. rows' \subseteq rows /\ missed' \subseteq missed \cup rows
    BY <1>13 DEF ClearEvents, ForgetAppStore, Of, Through
  <2>2. del' \in [id : Ids, pc : {"upstream", "events", "forget", "commit"}]
    BY <1>13 DEF ClearEvents, ForgetAppStore
  <2> QED BY <1>13, <2>1, <2>2 DEF ClearEvents, ForgetAppStore, ops
<1>14. CASE DeleteCommit
  <2>1. del.id \in Ids
    BY <1>0, <1>14 DEF DeleteCommit
  <2>2. tombs' \in [Ids -> 0..NoTime] /\ users' \in [Ids -> Subs \cup {None}]
    BY <1>14, <2>1 DEF DeleteCommit
  <2>3. rows' \subseteq Traces /\ erased' \subseteq Ids /\ left' \subseteq Ids
    BY <1>0, <1>14, <2>1 DEF DeleteCommit
  <2>4. del' = NoDel /\ UNCHANGED <<now, missed, standing, delivery, link, known, copies,
                                    restoring, restores, taken>>
    BY <1>14 DEF DeleteCommit
  <2> QED BY <2>2, <2>3, <2>4
<1>15. CASE PruneTombstones
  BY <1>15 DEF PruneTombstones, Prune, ops
<1>16. CASE TakeCopy
  BY <1>16 DEF TakeCopy, db, Copy
<1>17. CASE Restore
  <2>1. PICK c \in copies : /\ users' = c.users /\ rows' = c.rows /\ tombs' = c.tombs
                            /\ erased' = c.erased /\ missed' = c.missed \cup standing
    BY <1>17 DEF Restore
  <2>2. standing \subseteq Traces
    OBVIOUS
  <2> QED BY <1>17, <2>1, <2>2 DEF Restore, Copy
<1>18. CASE Sweep
  BY <1>18 DEF Sweep, Cascade
<1>19. CASE Tick
  BY <1>19 DEF Tick, db
<1>20. CASE UNCHANGED vars
  BY <1>20 DEF vars, db, ops
<1> QED BY <1>1, <1>2, <1>3, <1>4, <1>5, <1>6, <1>7, <1>8, <1>9, <1>10, <1>11, <1>12, <1>13,
          <1>14, <1>15, <1>16, <1>17, <1>18, <1>19, <1>20 DEF Next, Serve

LEMMA TypeInit == Init => TypeOK
<1> SUFFICES ASSUME Init PROVE TypeOK
  OBVIOUS
<1>1. now \in 0..MaxNow /\ restores \in 0..MaxRestores /\ taken \in 0..MaxCopies
  BY AccountsAssumption DEF AccountsAssumption, Init
<1>2. tombs \in [Ids -> 0..NoTime] /\ users \in [Ids -> Subs \cup {None}]
  BY AccountsAssumption DEF AccountsAssumption, Init, NoTime
<1>3. /\ rows \subseteq Traces /\ missed \subseteq Traces /\ copies \subseteq Copy
      /\ standing \subseteq Grants \X Ids \X {None}
      /\ erased \subseteq Ids /\ left \subseteq Ids /\ known \subseteq Ids
      /\ restoring \in BOOLEAN /\ del = NoDel /\ link = NoLink /\ delivery = NoDelivery
  BY DEF Init
<1> QED BY <1>1, <1>2, <1>3 DEF TypeOK

\* Every variable keeps its type.
THEOREM TypeCorrect == Spec => []TypeOK
<1>1. Init => TypeOK
  BY TypeInit
<1>2. TypeOK /\ [Next]_vars => TypeOK'
  BY TypeStep
<1> QED BY <1>1, <1>2, PTL DEF Spec

-----------------------------------------------------------------------------
(* Tombstones and copies *)

\* Who has a tombstone, or was erased, has no users row and never gets one again: the id is
\* known. Every copy was such a database.
Consistent(u, t, e) ==
  /\ \A i \in Ids : t[i] # NoTime => u[i] = None /\ i \in known
  /\ \A i \in e : u[i] = None /\ i \in known
  /\ \A i \in Ids : u[i] # None => i \in known

TombInv ==
  /\ Consistent(users, tombs, erased)
  /\ \A c \in copies : Consistent(c.users, c.tombs, c.erased)
  /\ del # NoDel => users[del.id] # None

\* Steps that touch no account, tombstone or copy.
LEMMA TombFrame ==
  ASSUME TombInv, UNCHANGED <<users, tombs, erased, copies, known>>,
         del' # NoDel => users[del'.id] # None
  PROVE  TombInv'
BY DEF TombInv, Consistent

LEMMA TombStep ==
  ASSUME TypeOK, TombInv, [Next]_vars
  PROVE  TombInv'
<1>0. /\ tombs \in [Ids -> 0..NoTime] /\ users \in [Ids -> Subs \cup {None}]
      /\ erased \subseteq Ids /\ known \subseteq Ids /\ None \notin Ids \cup Subs
      /\ del # NoDel => del.id \in Ids /\ users[del.id] # None
      /\ \A c \in copies : c.erased \subseteq Ids
  BY AccountsAssumption DEF AccountsAssumption, TypeOK, TombInv, Copy
<1>1. ASSUME NEW s \in Subs, SignUp(s)
      PROVE  TombInv'
  <2>1. PICK i \in Ids \ known : users' = [users EXCEPT ![i] = s] /\ known' = known \cup {i}
    BY <1>1 DEF SignUp
  <2>2. UNCHANGED <<tombs, erased, copies, del>> /\ \A j \in Ids \ {i} : users'[j] = users[j]
    BY <1>0, <1>1, <2>1 DEF SignUp
  <2>3. users'[i] # None /\ i \notin erased /\ tombs[i] = NoTime
    BY <1>0, <2>1 DEF TombInv, Consistent
  <2> QED BY <1>0, <2>1, <2>2, <2>3 DEF TombInv, Consistent
<1>2. ASSUME NEW i \in Ids,
             \/ PurgeBankData(i) \/ \E x \in Txs : HookStart(i, x)
             \/ \E p \in Purchases : AppStoreClaim(i, p) \/ Report(i, p)
             \/ \E g \in Grants : Connect(i, g) \/ Disconnect(i, g)
      PROVE  TombInv'
  <2>1. UNCHANGED <<users, tombs, erased, copies, known, del>>
    BY <1>2 DEF PurgeBankData, HookStart, AppStoreClaim, Report, Connect, Disconnect, db, ops
  <2> QED BY <1>0, <2>1, TombFrame
<1>3. ASSUME NEW i \in Ids, DeleteStart(i)
      PROVE  TombInv'
  BY <1>3, TombFrame DEF DeleteStart, db, ops, Exists
<1>4. CASE HookStore \/ HookClaim \/ HookEnd \/ Granted \/ StoreCredential \/ ConnectEnd
  <2>1. UNCHANGED <<users, tombs, erased, copies, known, del>>
    BY <1>4 DEF HookStore, HookClaim, HookEnd, Granted, StoreCredential, ConnectEnd, db, ops
  <2> QED BY <1>0, <2>1, TombFrame
<1>5. CASE RevokeUpstream \/ ClearEvents \/ ForgetAppStore
  <2>1. /\ UNCHANGED <<users, tombs, erased, copies, known>>
        /\ del # NoDel /\ del'.id = del.id
    BY <1>5 DEF RevokeUpstream, ClearEvents, ForgetAppStore, db, ops, NoDel, TypeOK
  <2> QED BY <1>0, <2>1, TombFrame
<1>6. CASE DeleteCommit
  <2>1. del # NoDel /\ del' = NoDel
    BY <1>6 DEF DeleteCommit, NoDel
  <2> DEFINE i == del.id
  <2>2. i \in Ids /\ i \in known
    BY <1>0, <2>1 DEF TombInv, Consistent
  <2>3. /\ users'[i] = None /\ \A j \in Ids \ {i} : tombs'[j] = tombs[j] /\ users'[j] = users[j]
        /\ erased' = erased \cup {i} /\ UNCHANGED <<copies, known>>
    BY <1>0, <1>6, <2>2 DEF DeleteCommit
  <2> HIDE DEF i
  <2> QED BY <1>0, <2>1, <2>2, <2>3 DEF TombInv, Consistent
<1>7. CASE DeleteAbort
  BY <1>7, TombFrame DEF DeleteAbort, db, ops
<1>8. CASE PruneTombstones
  <2>1. /\ \A i \in Ids : tombs'[i] = NoTime \/ tombs'[i] = tombs[i]
        /\ UNCHANGED <<users, erased, copies, known, del>>
    BY <1>8 DEF PruneTombstones, ops
  <2> QED BY <1>0, <2>1 DEF TombInv, Consistent
<1>9. CASE TakeCopy
  <2> DEFINE n == [at |-> now, users |-> users, rows |-> rows, tombs |-> tombs,
                   erased |-> erased, missed |-> missed]
  <2>1. copies' = copies \cup {n} /\ UNCHANGED <<users, tombs, erased, known, del>>
    BY <1>9 DEF TakeCopy, db
  <2>2. n.users = users /\ n.tombs = tombs /\ n.erased = erased
    OBVIOUS
  <2> HIDE DEF n
  <2> QED BY <1>0, <2>1, <2>2 DEF TombInv, Consistent
<1>10. CASE Restore
  <2>1. PICK c \in copies : users' = c.users /\ tombs' = c.tombs /\ erased' = c.erased
    BY <1>10 DEF Restore
  <2>2. UNCHANGED <<copies, known>> /\ del' = NoDel
    BY <1>10 DEF Restore
  <2> QED BY <2>1, <2>2 DEF TombInv, Consistent
<1>11. CASE Sweep
  <2>1. /\ \A i \in Ids : tombs[i] = NoTime => users'[i] = users[i]
        /\ \A i \in Ids : tombs[i] # NoTime => users'[i] = None
        /\ UNCHANGED <<tombs, erased, copies, known, del>>
    BY <1>0, <1>11 DEF Sweep
  <2>2. \A i \in Ids : users'[i] = users[i]
    BY <2>1 DEF TombInv, Consistent
  <2> QED BY <1>0, <2>1, <2>2 DEF TombInv, Consistent
<1>12. CASE Tick
  <2>1. copies' \subseteq copies /\ UNCHANGED <<users, tombs, erased, known, del>>
    BY <1>12 DEF Tick, db
  <2> QED BY <1>0, <2>1 DEF TombInv, Consistent
<1>13. CASE UNCHANGED vars
  BY <1>0, <1>13, TombFrame DEF vars, db, ops
<1> QED BY <1>1, <1>2, <1>3, <1>4, <1>5, <1>6, <1>7, <1>8, <1>9, <1>10, <1>11, <1>12, <1>13
        DEF Next, Serve

\* An account never exists beside its own tombstone, in the database or in a copy of it, however
\* deletions, prunings, copies and restores follow one another (store/users.ts:139): the sweep
\* of a restored database deletes nobody who lives.
THEOREM TombstoneSafety == Spec => []TombstonesNameTheGone
<1>1. Init => TypeOK /\ TombInv
  BY TypeInit DEF Init, TombInv, Consistent
<1>2. TypeOK /\ TombInv /\ [Next]_vars => (TypeOK /\ TombInv)'
  BY TypeStep, TombStep
<1>3. TombInv => TombstonesNameTheGone
  BY DEF TombInv, Consistent, TombstonesNameTheGone, Exists
<1> QED BY <1>1, <1>2, <1>3, PTL DEF Spec

-----------------------------------------------------------------------------
(* Clean deletions *)

\* Of the erased e, the rows R hold only loose ones that were missed, in M.
NoneLeft(R, e, M) == \A r \in R : r[2] \in e => r[1] \in Loose /\ r \in M

\* What the deletion under way has looked through, it has taken away or missed.
LookedThrough(tables, R) ==
  \A r \in R : r[1] \in tables /\ r[2] = del.id => r \in missed

CleanInv ==
  /\ NoneLeft(rows, erased, missed)
  /\ \A c \in copies : NoneLeft(c.rows, c.erased, c.missed)
  /\ \A g \in standing : g[1] \in Revocable /\ g[2] \in erased => g \in missed
  /\ del.pc \in {"events", "forget", "commit"} => LookedThrough(Revocable, standing)
  /\ del.pc \in {"forget", "commit"} => LookedThrough({"processed_events"}, rows)
  /\ del.pc = "commit" => LookedThrough({"app_store_notifications"}, rows)

\* Steps of others that add no trace, and none is missed the less.
LEMMA CleanFrame ==
  ASSUME CleanInv, rows' \subseteq rows, standing' \subseteq standing, missed \subseteq missed',
         erased' = erased, copies' \subseteq copies, del' \in {del, NoDel}
  PROVE  CleanInv'
BY DEF CleanInv, NoneLeft, LookedThrough, NoDel

\* A step that stores or authorizes one thing more, which counts as missed if it has to.
LEMMA CleanAdd ==
  ASSUME CleanInv, NEW r, NEW S \in SUBSET {r}, missed' = missed \cup S,
         rows' \subseteq rows \cup {r}, standing' \subseteq standing \cup {r},
         UNCHANGED <<erased, copies, del>>,
         r \notin S => /\ r[2] \notin erased
                       /\ r \in rows' \ rows => r[1] \notin Loose \/ r[2] # del.id
                                                \/ (r[1] = "app_store_notifications" /\ del.pc # "commit")
                                                \/ (r[1] = "processed_events" /\ del.pc \notin {"forget", "commit"})
                       /\ r \in standing' \ standing =>
                             r[2] # del.id \/ del.pc \notin {"events", "forget", "commit"},
         r \in rows' \ rows /\ r[2] \in erased => r[1] \in Loose
  PROVE  CleanInv'
<1>1. missed \subseteq missed' /\ (r \in missed' \/ r \notin S)
  OBVIOUS
<1>2. NoneLeft(rows, erased, missed)'
  BY <1>1 DEF CleanInv, NoneLeft
<1>3. \A g \in standing' : g[1] \in Revocable /\ g[2] \in erased' => g \in missed'
  BY <1>1 DEF CleanInv
<1>4. (del.pc \in {"events", "forget", "commit"} => LookedThrough(Revocable, standing))'
  BY <1>1 DEF CleanInv, LookedThrough
<1>5. /\ (del.pc \in {"forget", "commit"} => LookedThrough({"processed_events"}, rows))'
      /\ (del.pc = "commit" => LookedThrough({"app_store_notifications"}, rows))'
  BY <1>1, TableNames DEF CleanInv, LookedThrough
<1> QED BY <1>2, <1>3, <1>4, <1>5 DEF CleanInv

LEMMA CleanStep ==
  ASSUME TypeOK, TombInv, CleanInv, [Next]_vars
  PROVE  CleanInv'
<1>0. /\ users \in [Ids -> Subs \cup {None}] /\ erased \subseteq Ids /\ None \notin Ids \cup Subs
      /\ \A i \in erased : users[i] = None
      /\ del # NoDel => del.id \in Ids /\ users[del.id] # None /\ del.id \notin erased
      /\ \A r \in standing : r[1] \in Grants
      /\ delivery # NoDelivery => delivery.id \in Ids
      /\ link # NoLink => link.id \in Ids /\ link.grant \in Grants
  BY AccountsAssumption DEF AccountsAssumption, TypeOK, TombInv, Consistent
<1>1. ASSUME NEW s \in Subs, SignUp(s)
      PROVE  CleanInv'
  BY <1>1, CleanFrame DEF SignUp
<1>2. CASE HookEnd \/ ConnectEnd \/ DeleteAbort \/ PruneTombstones \/ Tick \/ UNCHANGED vars
  BY <1>2, CleanFrame DEF HookEnd, ConnectEnd, DeleteAbort, PruneTombstones, Tick, vars, db, ops
<1>3. ASSUME NEW i \in Ids,
             \/ PurgeBankData(i) \/ \E x \in Txs : HookStart(i, x)
             \/ \E g \in Grants : Connect(i, g) \/ Disconnect(i, g)
      PROVE  CleanInv'
  BY <1>3, CleanFrame DEF PurgeBankData, HookStart, Connect, Disconnect, db, ops
<1>4. CASE HookStore
  <2> DEFINE r == <<"transactions", delivery.id, delivery.tx>>
  <2>1. delivery # NoDelivery /\ users[delivery.id] # None
    BY <1>4 DEF HookStore, NoDelivery, Exists
  <2>2. r[1] \notin Loose /\ r[2] \notin erased /\ r[1] = "transactions"
    BY <1>0, <2>1, TableNames
  <2>3. missed' = missed \cup {} /\ rows' = rows \cup {r} /\ standing' = standing
        /\ UNCHANGED <<erased, copies, del>>
    BY <1>4 DEF HookStore, ops
  <2> HIDE DEF r
  <2> QED BY <2>2, <2>3, CleanAdd
<1>5. CASE HookClaim
  <2> DEFINE r == <<"processed_events", delivery.id, delivery.tx>>
             S == {t \in {r} : Past(delivery.id, {"forget", "commit"})}
  <2>1. delivery # NoDelivery
    BY <1>5 DEF HookClaim, NoDelivery
  <2>2. /\ r[1] = "processed_events" /\ r[1] \in Loose /\ r[2] = delivery.id
        /\ r \notin S => /\ users[delivery.id] # None
                         /\ ~(del.id = delivery.id /\ del.pc \in {"forget", "commit"})
    BY TableNames DEF Past, Exists
  <2>3. missed' = missed \cup S /\ rows' = rows \cup {r} /\ standing' = standing
        /\ UNCHANGED <<erased, copies, del>>
    BY <1>5 DEF HookClaim, ops
  <2>4. S \in SUBSET {r}
    OBVIOUS
  <2> HIDE DEF r, S
  <2> QED BY <1>0, <2>1, <2>2, <2>3, <2>4, CleanAdd
<1>6. ASSUME NEW i \in Ids, NEW p \in Purchases, AppStoreClaim(i, p)
      PROVE  CleanInv'
  <2> DEFINE r == <<"app_store_notifications", i, p>>
             S == {t \in {r} : Past(i, {"commit"})}
  <2>1. /\ r[1] = "app_store_notifications" /\ r[1] \in Loose /\ r[2] = i
        /\ r \notin S => users[i] # None /\ ~(del.id = i /\ del.pc = "commit")
    BY TableNames DEF Past, Exists
  <2>2. missed' = missed \cup S /\ rows' = rows \cup {r} /\ standing' = standing
        /\ UNCHANGED <<erased, copies, del>>
    BY <1>6 DEF AppStoreClaim, ops
  <2>3. S \in SUBSET {r}
    OBVIOUS
  <2> HIDE DEF r, S
  <2> QED BY <1>0, <2>1, <2>2, <2>3, CleanAdd
<1>7. ASSUME NEW i \in Ids, NEW p \in Purchases, Report(i, p)
      PROVE  CleanInv'
  <2> DEFINE r == <<"entitlements", i, p>>
  <2>1. r[1] \notin Loose /\ r[2] \notin erased
    BY <1>0, <1>7, TableNames DEF Report, Exists
  <2>2. missed' = missed \cup {} /\ rows' \subseteq rows \cup {r} /\ standing' = standing
        /\ UNCHANGED <<erased, copies, del>>
    BY <1>7 DEF Report, ops
  <2> HIDE DEF r
  <2> QED BY <2>1, <2>2, CleanAdd
<1>8. CASE Granted
  <2> DEFINE r == <<link.grant, link.id, None>>
             S == {t \in {r} : Past(link.id, {"events", "forget", "commit"})}
  <2>1. link # NoLink
    BY <1>8 DEF Granted, NoLink
  <2>2. /\ r[2] = link.id
        /\ r \notin S => /\ users[link.id] # None
                         /\ ~(del.id = link.id /\ del.pc \in {"events", "forget", "commit"})
    BY DEF Past, Exists
  <2>3. missed' = missed \cup S /\ rows' = rows /\ standing' = standing \cup {r}
        /\ UNCHANGED <<erased, copies, del>>
    BY <1>8 DEF Granted, ops
  <2>4. S \in SUBSET {r}
    OBVIOUS
  <2> HIDE DEF r, S
  <2> QED BY <1>0, <2>1, <2>2, <2>3, <2>4, CleanAdd
<1>9. CASE StoreCredential
  <2> DEFINE r == <<link.grant, link.id, None>>
  <2>1. link # NoLink /\ users[link.id] # None
    BY <1>9 DEF StoreCredential, NoLink, Exists
  <2>2. r[1] \notin Loose /\ r[2] \notin erased
    BY <1>0, <2>1, TableNames
  <2>3. missed' = missed \cup {} /\ rows' = rows \cup {r} /\ standing' = standing
        /\ UNCHANGED <<erased, copies, del>>
    BY <1>9 DEF StoreCredential, ops
  <2> HIDE DEF r
  <2> QED BY <2>2, <2>3, CleanAdd
<1>10. ASSUME NEW i \in Ids, DeleteStart(i)
       PROVE  CleanInv'
  <2>1. del'.pc = "upstream" /\ UNCHANGED <<rows, standing, missed, erased, copies>>
    BY <1>10 DEF DeleteStart, db, ops
  <2> QED BY <2>1 DEF CleanInv, NoneLeft
<1>11. CASE RevokeUpstream
  <2> DEFINE due == {g \in standing : g[1] \in Revocable /\ g[2] = del.id}
  <2>1. del.pc = "upstream" /\ del # NoDel /\ del'.pc = "events" /\ del'.id = del.id
    BY <1>11 DEF RevokeUpstream, NoDel, TypeOK
  <2>2. PICK kept \in SUBSET due :
          standing' = standing \ (due \ kept) /\ missed' = (missed \ due) \cup kept
    BY <1>11 DEF RevokeUpstream
  <2>3. UNCHANGED <<rows, erased, copies>>
    BY <1>11 DEF RevokeUpstream, ops
  <2>4. \A t : t[2] \in erased /\ t \in missed => t \in missed'
    BY <1>0, <2>1, <2>2
  <2>5. LookedThrough(Revocable, standing)'
    BY <2>1, <2>2 DEF LookedThrough
  <2>6. NoneLeft(rows, erased, missed)'
    BY <2>3, <2>4 DEF CleanInv, NoneLeft
  <2>7. \A g \in standing' : g[1] \in Revocable /\ g[2] \in erased' => g \in missed'
    BY <2>2, <2>3, <2>4 DEF CleanInv
  <2> QED BY <2>1, <2>3, <2>5, <2>6, <2>7 DEF CleanInv
<1>12. ASSUME NEW t \in Loose, NEW found \in SUBSET Of(t),
              rows' = rows \ found, missed' = (missed \ Of(t)) \cup (Of(t) \ found),
              UNCHANGED <<erased, standing, copies>>, del # NoDel, del'.id = del.id
       PROVE  /\ NoneLeft(rows, erased, missed)'
              /\ \A g \in standing' : g[1] \in Revocable /\ g[2] \in erased' => g \in missed'
              /\ LookedThrough({t}, rows)'
              /\ LookedThrough(Revocable, standing) => LookedThrough(Revocable, standing)'
              /\ \A o \in Loose : LookedThrough({o}, rows) => LookedThrough({o}, rows)'
  <2>1. \A r : r \in missed /\ (r[2] # del.id \/ r[1] # t) => r \in missed'
    BY <1>12 DEF Of
  <2>2. \A g \in standing : g[1] # t
    BY <1>0, TableNames
  <2>3. LookedThrough({t}, rows)'
    BY <1>12 DEF LookedThrough, Of
  <2>4. NoneLeft(rows, erased, missed)'
    BY <1>0, <1>12, <2>1 DEF CleanInv, NoneLeft
  <2>5. \A o \in Loose : LookedThrough({o}, rows) => LookedThrough({o}, rows)'
    BY <1>12, <2>1, <2>3 DEF LookedThrough
  <2> QED BY <1>12, <2>1, <2>2, <2>3, <2>4, <2>5 DEF CleanInv, LookedThrough
<1>13. CASE ClearEvents
  <2>1. del.pc = "events" /\ del # NoDel /\ del'.pc = "forget" /\ del'.id = del.id
    BY <1>13 DEF ClearEvents, NoDel, TypeOK
  <2>2. "processed_events" \in Loose /\ Through("transactions", Of("processed_events")) \subseteq Of("processed_events")
    BY TableNames DEF Through
  <2>3. UNCHANGED <<erased, standing, copies>>
    BY <1>13 DEF ClearEvents, ops
  <2> QED BY <1>12, <1>13, <2>1, <2>2, <2>3 DEF ClearEvents, CleanInv
<1>14. CASE ForgetAppStore
  <2>1. del.pc = "forget" /\ del # NoDel /\ del'.pc = "commit" /\ del'.id = del.id
    BY <1>14 DEF ForgetAppStore, NoDel, TypeOK
  <2>2. /\ {"processed_events", "app_store_notifications"} \subseteq Loose
        /\ Through("entitlements", Of("app_store_notifications")) \subseteq Of("app_store_notifications")
    BY TableNames DEF Through
  <2>3. UNCHANGED <<erased, standing, copies>>
    BY <1>14 DEF ForgetAppStore, ops
  <2> QED BY <1>12, <1>14, <2>1, <2>2, <2>3 DEF ForgetAppStore, CleanInv
<1>15. CASE DeleteCommit
  <2>1. /\ del.pc = "commit" /\ del' = NoDel /\ rows' = Cascade(rows, {del.id})
        /\ erased' = erased \cup {del.id} /\ UNCHANGED <<standing, missed, copies>>
    BY <1>15 DEF DeleteCommit
  <2>2. \A r \in rows' : r \in rows /\ (r[2] = del.id => r[1] \in Loose)
    BY <2>1 DEF Cascade
  <2>3. NoneLeft(rows, erased, missed)'
    BY <2>1, <2>2, TableNames DEF CleanInv, NoneLeft, LookedThrough
  <2>4. \A g \in standing' : g[1] \in Revocable /\ g[2] \in erased' => g \in missed'
    BY <2>1 DEF CleanInv, LookedThrough
  <2> QED BY <2>1, <2>3, <2>4 DEF CleanInv, NoDel
<1>16. CASE TakeCopy
  <2> DEFINE n == [at |-> now, users |-> users, rows |-> rows, tombs |-> tombs,
                   erased |-> erased, missed |-> missed]
  <2>1. copies' = copies \cup {n} /\ UNCHANGED <<rows, erased, missed, standing, del>>
    BY <1>16 DEF TakeCopy, db
  <2>2. n.rows = rows /\ n.erased = erased /\ n.missed = missed
    OBVIOUS
  <2> HIDE DEF n
  <2> QED BY <2>1, <2>2 DEF CleanInv, NoneLeft, LookedThrough
<1>17. CASE Restore
  <2>1. PICK c \in copies : /\ rows' = c.rows /\ erased' = c.erased
                            /\ missed' = c.missed \cup standing
    BY <1>17 DEF Restore
  <2>2. UNCHANGED <<copies, standing>> /\ del' = NoDel
    BY <1>17 DEF Restore
  <2> QED BY <2>1, <2>2 DEF CleanInv, NoneLeft, NoDel
<1>18. CASE Sweep
  BY <1>18, CleanFrame DEF Sweep, Cascade
<1> QED BY <1>1, <1>2, <1>3, <1>4, <1>5, <1>6, <1>7, <1>8, <1>9, <1>10, <1>11, <1>13, <1>14,
          <1>15, <1>16, <1>17, <1>18 DEF Next, Serve

\* Whatever a deletion meets, of webhooks, connects, disconnects, aborted attempts, copies and
\* restores, it leaves no row the cascade should reach, and every other trace it leaves is one
\* that its steps did not find, could not end or ran before (api/account.ts).
THEOREM DeletionSafety == Spec => []CleanDeletion
<1>1. Init => TypeOK /\ TombInv /\ CleanInv
  BY TypeInit DEF Init, TombInv, Consistent, CleanInv, NoneLeft, NoDel
<1>2. TypeOK /\ TombInv /\ CleanInv /\ [Next]_vars => (TypeOK /\ TombInv /\ CleanInv)'
  BY TypeStep, TombStep, CleanStep
<1>3. CleanInv => CleanDeletion
  BY DEF CleanInv, NoneLeft, CleanDeletion
<1> QED BY <1>1, <1>2, <1>3, PTL DEF Spec
=============================================================================

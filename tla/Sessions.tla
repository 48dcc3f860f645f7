------------------------------ MODULE Sessions -------------------------------
(***************************************************************************)
(* The sessions of one user (store/sessions.ts) and the requests that use  *)
(* them: sign-in (api/auth.ts), which inserts a row and then evicts the    *)
(* least recently used ones over the cap; the bearer check of every        *)
(* protected request (plugins/auth.ts), a SELECT and then an UPDATE by id; *)
(* logout; ending every other session and deleting the account             *)
(* (api/account.ts); the purge (scheduler/purge.ts). Every statement is a  *)
(* step of its own: requests interleave between them.                      *)
(*                                                                         *)
(* Whether the identity token of a sign-in verifies is left open: a        *)
(* sign-in that fails it changes nothing.                                  *)
(***************************************************************************)
EXTENDS Naturals, FiniteSets

CONSTANTS
  Tokens,       \* session tokens the server may mint
  Requests,     \* requests that may overlap
  NoRow,
  MaxSessions,  \* MAX_SESSIONS_PER_USER
  Ttl,          \* SESSION_TTL_MS
  AbsoluteMax,  \* SESSION_ABSOLUTE_MAX_MS
  MaxNow        \* bound: the clock

SessionsAssumption ==
  /\ IsFiniteSet(Tokens) /\ IsFiniteSet(Requests)
  /\ MaxSessions \in Nat \ {0} /\ Ttl \in Nat \ {0} /\ AbsoluteMax \in Nat /\ MaxNow \in Nat

Row == [created : Nat, used : Nat, expires : Nat]
NoRowAssumption == NoRow \notin Row

Purposes == {"read", "revoke", "delete"}   \* what an accepted request goes on to do

VARIABLES
  now,
  alive,    \* the users row exists
  rows,     \* per token: its sessions row
  minted,   \* history: tokens ever handed out
  req       \* per request: where it is and what it holds

vars == <<now, alive, rows, minted, req>>

Live == {t \in Tokens : rows[t] # NoRow}
Pruning == {r \in Requests : req[r].pc \in {"prune", "evict"}}

\* A request: its step, its token, what it goes on to do, the time it read the
\* clock, the rows its eviction chose.
Request ==
  [pc : {"idle", "insert", "prune", "evict", "slide", "act"}, token : Tokens \cup {NoRow},
   purpose : Purposes, since : Nat, victims : SUBSET Tokens]
Idle == [pc |-> "idle", token |-> NoRow, purpose |-> "read", since |-> 0, victims |-> {}]

TypeOK ==
  /\ now \in Nat /\ alive \in BOOLEAN
  /\ rows \in [Tokens -> Row \cup {NoRow}] /\ minted \subseteq Tokens
  /\ req \in [Requests -> Request]
  /\ \A r \in Requests : req[r].pc \in {"slide", "act"} => req[r].token \in Tokens

Init ==
  /\ now = 0 /\ alive = TRUE
  /\ rows = [t \in Tokens |-> NoRow] /\ minted = {}
  /\ req = [r \in Requests |-> Idle]

Becomes(r, q) == req' = [req EXCEPT ![r] = q]
Without(S) == [t \in Tokens |-> IF t \in S THEN NoRow ELSE rows[t]]

-----------------------------------------------------------------------------
(* Sign-in *)

\* POST /api/auth/apple or /google: the identity token verified, the user was found.
SignIn(r) ==
  /\ req[r].pc = "idle" /\ alive
  /\ Becomes(r, [Idle EXCEPT !.pc = "insert"])
  /\ UNCHANGED <<now, alive, rows, minted>>

\* createSession: a fresh token; the foreign key refuses it once the user is gone.
Create(r) ==
  /\ req[r].pc = "insert"
  /\ \/ /\ ~alive /\ Becomes(r, Idle) /\ UNCHANGED <<rows, minted>>
     \/ \E t \in Tokens \ minted :
          /\ alive /\ minted' = minted \cup {t}
          /\ rows' = [rows EXCEPT ![t] = [created |-> now, used |-> now, expires |-> now + Ttl]]
          /\ Becomes(r, [Idle EXCEPT !.pc = "prune"])
  /\ UNCHANGED <<now, alive>>

\* Mutant of Excess: one row too many is kept.
ExcessOffByOne(V) ==
  /\ IF Cardinality(Live) > MaxSessions + 1
       THEN Cardinality(Live \ V) = MaxSessions + 1 ELSE V = {}
  /\ \A v \in V, k \in Live \ V : rows[v].used <= rows[k].used

\* V holds the rows past the newest MaxSessions in the order of lastUsedAt.
Excess(V) ==
  /\ IF Cardinality(Live) > MaxSessions THEN Cardinality(Live \ V) = MaxSessions ELSE V = {}
  /\ \A v \in V, k \in Live \ V : rows[v].used <= rows[k].used

\* pruneOldestSessions: the SELECT.
Prune(r) ==
  /\ req[r].pc = "prune"
  /\ \E V \in SUBSET Live :
       /\ Excess(V)
       /\ Becomes(r, IF V = {} THEN Idle ELSE [Idle EXCEPT !.pc = "evict", !.victims = V])
  /\ UNCHANGED <<now, alive, rows, minted>>

\* pruneOldestSessions: the DELETE, by the ids it read.
Evict(r) ==
  /\ req[r].pc = "evict" /\ Becomes(r, Idle)
  /\ rows' = Without(req[r].victims)
  /\ UNCHANGED <<now, alive, minted>>

-----------------------------------------------------------------------------
(* A protected request *)

\* validateSession: the SELECT, and the absolute cap. A token without a live row is a 401.
Validate(r) ==
  /\ req[r].pc = "idle"
  /\ \E t \in Live, p \in Purposes :
       /\ rows[t].expires > now
       /\ IF now - rows[t].created > AbsoluteMax
            THEN rows' = Without({t}) /\ UNCHANGED req
            ELSE /\ UNCHANGED rows
                 /\ Becomes(r, [Idle EXCEPT !.pc = "slide", !.token = t, !.purpose = p,
                                            !.since = now])
  /\ UNCHANGED <<now, alive, minted>>

\* validateSession: the UPDATE by id, which finds nothing when the row went meanwhile.
\* Mutant of Slid: an upsert instead of an UPDATE.
SlidUpsert(t, at) == [rows EXCEPT ![t] = [created |-> at, used |-> at, expires |-> at + Ttl]]

Slid(t, at) ==
  IF rows[t] = NoRow THEN rows
  ELSE [rows EXCEPT ![t] = [created |-> rows[t].created, used |-> at, expires |-> at + Ttl]]

Slide(r) ==
  /\ req[r].pc = "slide" /\ rows' = Slid(req[r].token, req[r].since)
  /\ Becomes(r, IF req[r].purpose = "read" THEN Idle ELSE [req[r] EXCEPT !.pc = "act"])
  /\ UNCHANGED <<now, alive, minted>>

\* POST /api/account/sessions/revoke-all.
RevokeOthers(r) ==
  /\ req[r].pc = "act" /\ req[r].purpose = "revoke" /\ Becomes(r, Idle)
  /\ rows' = Without(Tokens \ {req[r].token})
  /\ UNCHANGED <<now, alive, minted>>

\* DELETE /api/account, its last step: the cascade takes the sessions.
DeleteUser(r) ==
  /\ req[r].pc = "act" /\ req[r].purpose = "delete" /\ Becomes(r, Idle)
  /\ alive' = FALSE /\ rows' = Without(Tokens)
  /\ UNCHANGED <<now, minted>>

\* POST /api/auth/logout: public, and the token is its own proof.
Logout ==
  /\ \E t \in Live : rows' = Without({t})
  /\ UNCHANGED <<now, alive, minted, req>>

\* runRetentionPurge deletes the rows that expired before now.
Expired == {t \in Live : rows[t].expires < now}
Purge ==
  /\ Expired # {} /\ rows' = Without(Expired)
  /\ UNCHANGED <<now, alive, minted, req>>

Tick == now < MaxNow /\ now' = now + 1 /\ UNCHANGED <<alive, rows, minted, req>>

RequestStep(r) ==
  \/ SignIn(r) \/ Create(r) \/ Prune(r) \/ Evict(r)
  \/ Validate(r) \/ Slide(r) \/ RevokeOthers(r) \/ DeleteUser(r)

Next == (\E r \in Requests : RequestStep(r)) \/ Logout \/ Purge \/ Tick

Spec == Init /\ [][Next]_vars

-----------------------------------------------------------------------------
(* Properties *)

\* No use, however often the window slides, keeps a session past its absolute
\* life plus the one window that its last accepted use opened.
BoundedLife ==
  \A t \in Live : rows[t].expires <= rows[t].created + AbsoluteMax + Ttl

\* Concurrent sign-ins insert before they evict and evict what an older read
\* chose. Whatever they interleave with, the user holds at most the cap plus one
\* row for each sign-in that has yet to finish, so the cap itself when none has.
CapHolds == Cardinality(Live) <= MaxSessions + Cardinality(Pruning)

\* The two limits on what a user's devices can hold: how many, and for how long.
SessionsBounded == CapHolds /\ BoundedLife

\* A session that ended (logout, eviction, "sign out everywhere else", deletion,
\* purge, absolute cap) never comes back, although a request that passed its
\* SELECT before still goes on to write it.
EndedStaysEnded == [][\A t \in minted : rows[t] = NoRow => rows'[t] = NoRow]_vars
=============================================================================

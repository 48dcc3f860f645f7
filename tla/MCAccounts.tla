----------------------------- MODULE MCAccounts ------------------------------
(***************************************************************************)
(* Accounts, Sessions, KeyRotation and Entitlements for TLC in one run.    *)
(* They share no variable; "machine" says which of them moves in a         *)
(* behaviour, so that their state spaces add up instead of multiplying.    *)
(* Accounts moves in two scopes: without copies of the database, or with   *)
(* copies and restores but without vendors and purchases.                  *)
(***************************************************************************)
EXTENDS Accounts, Schema

CONSTANTS
  Machines,   \* the machines this run looks at
  Tokens, Requests, NoRow, MaxSessions, Ttl, AbsoluteMax,
  SampleTables, Columns, Targets, Backfilled, Categories, Null, MaxVersion,
  Tiers, Workers, Clients, Period, Grace, MaxEvents

VARIABLES
  machine,
  clock, alive, sessions, minted, req,
  active, ring, cells, overrides, setting, job, clean,
  hour, truth, sent, row, claimed, applied, hook, report, wrote, straight

S == INSTANCE Sessions WITH now <- clock, rows <- sessions

K == INSTANCE KeyRotation

E == INSTANCE Entitlements WITH Users <- Ids, Subs <- Purchases, now <- hour

sVars == <<clock, alive, sessions, minted, req>>
kVars == <<active, ring, cells, overrides, setting, job, clean>>
eVars == <<hour, truth, sent, row, claimed, applied, hook, report, wrote, straight>>

MCInit ==
  /\ Init /\ S!Init /\ E!Init
  /\ machine \in Machines
  /\ \/ machine = "keys" /\ K!Init
     \/ /\ machine # "keys"
        /\ active = Null /\ ring = Null /\ cells = Null /\ overrides = Null
        /\ setting = Null /\ job = Null /\ clean = Null

Uncopied == machine = "accounts" /\ taken' = 0
Copied ==
  /\ machine = "restores" /\ link' = NoLink
  /\ \A r \in rows' : r[1] \in {"transactions", "processed_events"}

MCNext ==
  /\ UNCHANGED machine
  /\ \/ Next /\ (Uncopied \/ Copied) /\ UNCHANGED <<sVars, kVars, eVars>>
     \/ machine = "sessions" /\ S!Next /\ UNCHANGED <<vars, kVars, eVars>>
     \/ machine = "keys" /\ K!Next /\ UNCHANGED <<vars, sVars, eVars>>
     \/ machine = "entitlements" /\ E!Next /\ UNCHANGED <<vars, sVars, kVars>>
MCSpec == MCInit /\ [][MCNext]_<<machine, vars, sVars, kVars, eVars>>

ASSUME MachinesAssumption ==
  S!SessionsAssumption /\ S!NoRowAssumption /\ K!KeyRotationAssumption /\ E!EntitlementAssumption
ASSUME SchemaAgrees == Owned \subseteq Cascading /\ Loose \cap Cascading = {}

\* The machines keep to their types.
TypesOK == TypeOK /\ S!TypeOK /\ (machine = "keys" => K!TypeOK) /\ E!TypeOK

\* The encrypted columns of a few tables, and those of them that the sweep and the backfill list.
MCColumns == {c \in EncryptedColumns : c[1] \in SampleTables}
MCTargets == MCColumns \cap SweptColumns
MCBackfilled == MCColumns \cap {<<"transactions", "merchantName">>}

\* Properties of the machines that are not Accounts: stated in their own modules.
SessionsBounded == S!SessionsBounded
EndedStaysEnded == S!EndedStaysEnded
DroppedKeyUnused == machine = "keys" => K!DroppedKeyUnused
EveryColumnDecrypts == machine = "keys" => K!EveryColumnDecrypts
FollowsApple == E!FollowsApple
SubscriptionGrantsOne == E!SubscriptionGrantsOne

Symmetry == Permutations(Ids) \cup Permutations(Clients)
=============================================================================

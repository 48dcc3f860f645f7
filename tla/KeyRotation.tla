------------------------------ MODULE KeyRotation ------------------------------
(***************************************************************************)
(* Field encryption and the change of its key: the versioned envelopes and *)
(* the keyring (util/crypto.ts), the rotation sweep                        *)
(* (db/rotate-encryption-key.ts), the backfill of plaintext rows           *)
(* (db/backfill-encrypt-pii.ts) and, as the one table whose primary key    *)
(* depends on the key, a merchant's category override                      *)
(* (store/overrides.ts).                                                   *)
(*                                                                         *)
(* A column holds one value, reduced to what wrote it: a key version,      *)
(* Plain, or Null.   The operator follows the procedure at the head of the *)
(* sweep; requests write throughout; a deploy replaces every server.       *)
(***************************************************************************)
EXTENDS Naturals

CONSTANTS
  Columns,      \* the columns written through encryptString
  Targets,      \* TARGETS: those the sweep rewrites
  Backfilled,   \* those the backfill rewrites
  Categories,
  Null,
  MaxVersion    \* bound: rotations

Versions == 1..MaxVersion
OverrideTable == <<"category_overrides", "merchantNameEnc">>   \* swept apart: its key moves
KeyRotationAssumption ==
  /\ MaxVersion \in Nat \ {0} /\ Targets \subseteq Columns /\ Backfilled \subseteq Columns
  /\ OverrideTable \notin Columns
  /\ Null \notin Nat \cup Categories \cup Columns

Plain == 0                          \* what no key wrote
Written == Versions \cup {Plain}
\* The forms the override's key column takes: the plain merchant, the index keyed on the
\* AES key itself, the index keyed on a key derived from it.
Bare == <<"bare", Plain>>
Forms == {Bare} \cup ({"aes", "derived"} \X Versions)
\* An override row: what wrote its display copy (Null in a row older than encryption).
OverrideRow == [name : Versions \cup {Null}, category : Categories]

VARIABLES
  active,     \* DATA_ENCRYPTION_KEY_VERSION
  ring,       \* versions the keyring can decrypt
  cells,      \* per column
  overrides,  \* per form: the row of the one user and merchant, or Null
  setting,    \* setOverride between its delete and its insert: the category, or Null
  job,        \* the script that runs: [kind, todo, row, from, moved]
  clean       \* the last full sweep on this key rewrote nothing

vars == <<active, ring, cells, overrides, setting, job, clean>>

\* "todo" holds the tables not read yet, "row" the override rows read and not moved yet.
NoJob == [kind |-> "none", todo |-> {}, column |-> Null, from |-> Null, rows |-> {},
          carried |-> Null, moved |-> FALSE]
Job == [kind : {"none", "sweep", "backfill"}, todo : SUBSET (Columns \cup {OverrideTable}),
        column : Columns \cup {Null}, from : Written \cup {Null},
        rows : SUBSET (Forms \X OverrideRow), carried : OverrideRow \cup {Null}, moved : BOOLEAN]

TypeOK ==
  /\ active \in Versions /\ ring \subseteq Versions
  /\ cells \in [Columns -> Written \cup {Null}]
  /\ overrides \in [Forms -> OverrideRow \cup {Null}]
  /\ setting \in Categories \cup {Null} /\ job \in Job /\ clean \in BOOLEAN

\* Before the first rotation: rows from before encryption, rows from before the index key was
\* separated, and current ones.
Init ==
  /\ active = 1 /\ ring = {1} /\ clean = FALSE /\ setting = Null /\ job = NoJob
  /\ cells \in [Columns -> {1, Null}] \cup [Columns -> {Plain}]
  /\ \E f \in {Bare, <<"aes", 1>>, <<"derived", 1>>}, c \in Categories :
       overrides = [g \in Forms |->
         IF g # f THEN Null ELSE [name |-> IF f = Bare THEN Null ELSE 1, category |-> c]]

\* decryptString: an envelope needs its key, plaintext is tolerated.
Decrypts(by) == by \in ring \cup {Plain, Null}
\* lookupKeys
Lookups == {Bare, <<"aes", active>>, <<"derived", active>>}
Current == <<"derived", active>>

-----------------------------------------------------------------------------
(* Requests: encryptString always writes under the active key *)

Write(c) ==
  /\ cells' = [cells EXCEPT ![c] = active]
  /\ UNCHANGED <<active, ring, overrides, setting, job, clean>>

\* setOverride: the rows under older forms of the key go, then the upsert.
SetOverrideDelete(c) ==
  /\ setting = Null /\ setting' = c
  /\ overrides' = [f \in Forms |-> IF f \in Lookups \ {Current} THEN Null ELSE overrides[f]]
  /\ UNCHANGED <<active, ring, cells, job, clean>>

Upsert(row) ==
  overrides' = [overrides EXCEPT ![Current] =
    IF @ = Null THEN row ELSE [@ EXCEPT !.category = row.category]]

SetOverrideInsert ==
  /\ setting # Null /\ setting' = Null
  /\ Upsert([name |-> active, category |-> setting])
  /\ UNCHANGED <<active, ring, cells, job, clean>>

DeleteOverride ==
  /\ overrides' = [f \in Forms |-> IF f \in Lookups THEN Null ELSE overrides[f]]
  /\ UNCHANGED <<active, ring, cells, setting, job, clean>>

-----------------------------------------------------------------------------
(* The operator *)

\* Steps 1 to 3: the outgoing key joins the previous ones, the new one writes.
Rotate ==
  /\ active < MaxVersion /\ job = NoJob
  /\ active' = active + 1 /\ ring' = ring \cup {active + 1}
  /\ setting' = Null /\ clean' = FALSE
  /\ UNCHANGED <<cells, overrides, job>>

\* Step 5.
DropOldKeys ==
  /\ clean /\ job = NoJob /\ ring' = {active}
  /\ UNCHANGED <<active, cells, overrides, setting, job, clean>>

\* Step 4, and the one-shot backfill.
Start(kind) ==
  /\ job = NoJob
  /\ job' = [NoJob EXCEPT !.kind = kind,
               !.todo = {OverrideTable} \cup (IF kind = "sweep" THEN Targets ELSE Backfilled)]
  /\ UNCHANGED <<active, ring, cells, overrides, setting, clean>>

\* The process is interrupted between any two statements.
Interrupt ==
  /\ job # NoJob /\ job' = NoJob
  /\ UNCHANGED <<active, ring, cells, overrides, setting, clean>>

Finish ==
  /\ job.kind # "none" /\ job.todo = {} /\ job.column = Null /\ job.rows = {}
  /\ job.carried = Null /\ job' = NoJob
  /\ clean' = IF job.kind = "sweep" THEN ~job.moved ELSE clean
  /\ UNCHANGED <<active, ring, cells, overrides, setting>>

-----------------------------------------------------------------------------
(* The sweep and the backfill, statement by statement *)

\* Mutant of Owns: only what the last key wrote is looked for.
OwnsPrevious(by) == IF job.kind = "sweep" THEN by \in Versions /\ by = active - 1 ELSE by = Plain

\* needsReencryption, and for the backfill the rows isEncrypted does not know.
Owns(by) ==
  IF job.kind = "sweep" THEN by \notin {active, Plain, Null} ELSE by = Plain

Between == job.column = Null /\ job.rows = {} /\ job.carried = Null

\* One table's SELECT: every row of it, before any is rewritten.
ReadTable(c) ==
  /\ Between /\ c \in job.todo
  /\ job' = [job EXCEPT !.todo = @ \ {c}, !.column = IF Owns(cells[c]) THEN c ELSE Null,
                        !.from = IF Owns(cells[c]) THEN cells[c] ELSE Null]
  /\ UNCHANGED <<active, ring, cells, overrides, setting, clean>>

\* The UPDATE by primary key, with the value that was read.
RewriteRow ==
  /\ job.column # Null /\ Decrypts(job.from)
  /\ cells' = [cells EXCEPT ![job.column] = active]
  /\ job' = [job EXCEPT !.column = Null, !.from = Null, !.moved = TRUE]
  /\ UNCHANGED <<active, ring, overrides, setting, clean>>

\* Rows of category_overrides whose key must move.
Moves(f, row) ==
  IF job.kind = "sweep" THEN row.name # Null /\ (row.name # active \/ f # Current)
  ELSE row.name = Null /\ f # Current

ReadOverrides ==
  /\ Between /\ OverrideTable \in job.todo
  /\ job' = [job EXCEPT !.todo = @ \ {OverrideTable},
       !.rows = {<<f, overrides[f]>> : f \in {g \in Forms :
                   overrides[g] # Null /\ Moves(g, overrides[g])}}]
  /\ UNCHANGED <<active, ring, cells, overrides, setting, clean>>

\* Delete under the old key form ...
TakeOverride ==
  /\ job.carried = Null
  /\ \E r \in job.rows :
       /\ overrides' = [overrides EXCEPT ![r[1]] = Null]
       /\ job' = [job EXCEPT !.rows = @ \ {r}, !.carried = r[2], !.moved = TRUE]
  /\ UNCHANGED <<active, ring, cells, setting, clean>>

\* ... and insert under the current one. On a conflict the sweep overwrites, the backfill yields.
PutOverride ==
  /\ job.carried # Null /\ job' = [job EXCEPT !.carried = Null]
  /\ overrides' = [overrides EXCEPT ![Current] =
       IF job.kind = "backfill" /\ @ # Null THEN @
       ELSE [name |-> active, category |-> job.carried.category]]
  /\ UNCHANGED <<active, ring, cells, setting, clean>>

Next ==
  \/ \E c \in Columns : Write(c) \/ ReadTable(c)
  \/ (\E c \in Categories : SetOverrideDelete(c)) \/ SetOverrideInsert \/ DeleteOverride
  \/ Rotate \/ DropOldKeys \/ Start("sweep") \/ Start("backfill") \/ Interrupt \/ Finish
  \/ RewriteRow \/ ReadOverrides \/ TakeOverride \/ PutOverride

Spec == Init /\ [][Next]_vars

-----------------------------------------------------------------------------
(* Properties *)

Stored == {f \in Forms : overrides[f] # Null}

\* A key may be dropped once a sweep rewrote nothing, while requests go on writing
\* and interrupted sweeps went before: every column the sweep lists still decrypts,
\* the displayed merchant of every override decrypts, and every override that is
\* left is found by its lookup.
DroppedKeyUnused ==
  /\ \A c \in Targets : Decrypts(cells[c])
  /\ \A f \in Stored : Decrypts(overrides[f].name)
  /\ clean => Stored \subseteq Lookups

\* db/rotate-encryption-key.ts:61, "every column any call site passes through
\* encryptString": after the procedure none is left on a key that was dropped.
EveryColumnDecrypts == \A c \in Columns : Decrypts(cells[c])
=============================================================================

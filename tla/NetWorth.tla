------------------------------ MODULE NetWorth -------------------------------
(***************************************************************************)
(* One user's net worth: what each asset class last read and how old that  *)
(* is (networth/classes.ts, store/asset-cache.ts, the holdings tables),    *)
(* the total assembled from it without calling anyone (networth/read.ts),  *)
(* the refreshes that fill it (networth/refresh.ts, goals/snapshot.ts) and *)
(* the goal pass, which saves the total as the baseline that the next      *)
(* pass compares with. (A milestone crossed between the two has no effect: *)
(* reactions/external.ts lets the creature not react to one.)              *)
(*                                                                         *)
(* Every class is a set of rows: one row for a class that is read whole, a *)
(* row per account or wallet for the classes rolled up from rows.          *)
(***************************************************************************)
EXTENDS Integers, FiniteSets, FiniteSetsExt

CONSTANTS
  Opening,      \* row, <<class, name>> |-> what it is really worth at first, in dollars
  Known,        \* rows that have been read before the behaviour begins
  Earner,       \* rows whose worth grows
  Unlinkable,   \* bound: rows that the user may unlink
  CardOwed,     \* row of "bank" |-> card debt its item shows; the bureau sees it too
  Spam,         \* what junk tokens add to a wallet's unfiltered total
  Actors,       \* goal passes that may overlap: the scheduler's, a manual refresh's
  Callers,      \* refreshes that may overlap
  Errors,       \* error classes a failure is filed under (classifyError)
  None,
  Step,         \* hours that one Tick lets go by
  MaxAge,       \* bound: ages are counted up to here, past every never-show age that matters
  MaxEarned     \* bound: how often a worth grows

Sources == DOMAIN Opening
Classes == {s[1] : s \in Sources}
Cached == {"investments", "crypto", "defi", "debts"}          \* asset_class_cache
Single == {"kraken", "alpaca", "ynab", "kalshi", "truelayer"}  \* on the connection row
SelfReported == {"manual", "declared"}
Owing == {s \in Sources : s[1] = "debts"}
Day == 24
Forever == 1000 * Day

\* A class that is not rolled up has one row; what is owed does not grow.
NetWorthAssumption ==
  /\ IsFiniteSet(Sources) /\ Opening \in [Sources -> Int] /\ CardOwed \in [Sources -> Int]
  /\ \A s, t \in Sources : s[1] = t[1] /\ s[1] \in Cached \cup Single => s = t
  /\ Earner \subseteq Sources \ Owing /\ {Known, Unlinkable} \subseteq SUBSET Sources
  /\ {Spam, Step, MaxAge, MaxEarned} \subseteq Nat /\ None \notin Int \cup Errors

\* Intervals and never-show ages, in hours (FRESHNESS).
Policy(c) ==
  CASE c \in {"bank", "investments", "ynab", "truelayer", "nft"} -> [fresh |-> Day, exclude |-> 7 * Day]
    [] c = "debts" -> [fresh |-> 7 * Day, exclude |-> 45 * Day]
    [] c \in {"realEstate", "vehicles"} -> [fresh |-> 30 * Day, exclude |-> Forever]
    [] c \in {"sneakers", "pokemonCards", "tradingCards", "coins", "vinyl", "metals", "energy", "farmland"} ->
         [fresh |-> 7 * Day, exclude |-> Forever]
    [] c \in SelfReported -> [fresh |-> Forever, exclude |-> Forever]
    [] OTHER -> [fresh |-> 6, exclude |-> 7 * Day]

VARIABLES
  worth,       \* row |-> what it is really worth now
  cell,        \* row |-> the last good value, its age, the error class since
  off,         \* rows the user has unlinked or revoked
  baseline,    \* pet_state.last_net_worth_usd
  job,         \* actor |-> its goal pass: assembled total and the baseline it read
  call,        \* actor |-> a refresh whose answers are in but not yet stored
  earned, flawed

vars == <<worth, cell, off, baseline, job, call, earned, flawed>>

\* What a refresh brought back, row by row; None where it failed.
Answered(c) ==
  c.class \in Classes /\ DOMAIN c.got \subseteq Sources /\ \A s \in DOMAIN c.got : c.got[s] \in Int \cup {None}
Unread == [value |-> None, age |-> 0, error |-> None]
Idle == [pc |-> "idle", total |-> None, degraded |-> FALSE, prev |-> None]

TypeOK ==
  /\ worth \in [Sources -> Int] /\ off \subseteq Sources
  /\ cell \in [Sources -> [value : Int \cup {None}, age : 0..MaxAge, error : Errors \cup {None}]]
  /\ baseline \in Int \cup {None}
  /\ job \in [Actors -> [pc : {"idle", "goals", "baseline"}, total : Int \cup {None}, degraded : BOOLEAN,
                         prev : Int \cup {None}]]
  /\ \A a \in Actors : job[a].pc # "idle" => job[a].total # None
  /\ DOMAIN call = Callers /\ \A a \in Callers : call[a] = None \/ Answered(call[a])
  /\ earned \in 0..MaxEarned /\ flawed \in BOOLEAN

Init ==
  /\ worth = Opening /\ off = {}
  /\ cell = [s \in Sources |-> IF s \in Known THEN [Unread EXCEPT !.value = Opening[s]] ELSE Unread]
  /\ baseline = None /\ job = [a \in Actors |-> Idle]
  /\ call = [a \in Callers |-> None]
  /\ earned = 0 /\ flawed = FALSE
-----------------------------------------------------------------------------
(* Reading: deriveStatus and rollupRows.                                   *)

Held(c) == {s \in Sources \ off : s[1] = c}
Valued(c) == {s \in Held(c) : cell[s].value # None}
Expired(s) == cell[s].age > Policy(s[1]).exclude
Counted(c) == {s \in Valued(c) : ~Expired(s)}
Included == {"ok", "stale", "expiring", "reauth_required"}   \* includedInTotal
OldestAge(S) == Max({cell[s].age : s \in S})
Sum(f, S) == MapThenSumSet(LAMBDA s : f[s], S)

DeriveStatus(c, health, value, age, failed) ==
  CASE value = None -> IF failed THEN "error" ELSE "pending"
    [] value # None /\ age > Policy(c).exclude -> "stale_excluded"
    [] value # None /\ age <= Policy(c).exclude /\ health # None -> health
    [] OTHER -> IF age <= Policy(c).fresh THEN "ok" ELSE "stale"

Values(S) == Sum([s \in S |-> cell[s].value], S)
Failed(c) == \E s \in Held(c) : cell[s].error # None
CredentialHealth(c) == IF \E s \in Held(c) : cell[s].error = "auth" THEN "reauth_required" ELSE None

\* Rows past the never-show age leave the sum one by one; the class goes only with its last row.
Rollup(c) ==
  IF Held(c) = {} THEN [status |-> "not_connected", value |-> 0]
  ELSE IF Valued(c) = {} THEN [status |-> "pending", value |-> 0]
  ELSE IF Counted(c) = {} THEN [status |-> "stale_excluded", value |-> Values(Valued(c))]
  ELSE [status |-> DeriveStatus(c, None, Values(Counted(c)), OldestAge(Counted(c)), FALSE),
        value |-> Values(Counted(c))]

\* The classes of asset_class_cache: one value for the whole class. Investments hang on the
\* user's Plaid items and count as connected only once a holdings refresh has left a row.
CachedReading(c) ==
  LET s == CHOOSE x \in Sources : x[1] = c
      value == cell[s].value
  IN IF s \in off \/ (c = "investments" /\ cell[s] = Unread) THEN [status |-> "not_connected", value |-> 0]
     ELSE [status |-> DeriveStatus(c, CredentialHealth(c), value, cell[s].age, Failed(c)),
           value |-> IF value = None THEN 0 ELSE value]

\* One value on the connection row, whose refresh failures the status does not see.
SingleReading(c) ==
  LET s == CHOOSE x \in Sources : x[1] = c
      value == cell[s].value
  IN IF s \in off THEN [status |-> "not_connected", value |-> 0]
     ELSE [status |-> DeriveStatus(c, None, value, cell[s].age, FALSE), value |-> IF value = None THEN 0 ELSE value]

DebtsUsable == "debts" \in Classes /\ CachedReading("debts").status \in Included

\* Bank: live items only; card debt is subtracted unless the bureau reports it already. With
\* every account past the age the class shows the last sum, which the total leaves out.
BankReading ==
  LET net(S) == Values(S) - (IF DebtsUsable THEN 0 ELSE Sum(CardOwed, S))
  IN IF Held("bank") = {} THEN [status |-> "disconnected", value |-> 0]
     ELSE IF Valued("bank") = {} THEN [status |-> IF Failed("bank") THEN "error" ELSE "pending", value |-> 0]
     ELSE IF Counted("bank") = {} THEN [status |-> "stale_excluded", value |-> net(Valued("bank"))]
     ELSE [status |-> DeriveStatus("bank", CredentialHealth("bank"), net(Counted("bank")),
                                   OldestAge(Counted("bank")), FALSE),
           value |-> net(Counted("bank"))]

\* Self-reported values are never stale; a connected Discogs collection is always withheld.
Reading(c) ==
  CASE c = "bank" -> BankReading
    [] c \in Cached -> CachedReading(c)
    [] c \in Single -> SingleReading(c)
    [] c \in SelfReported -> [status |-> IF Held(c) = {} THEN "not_connected" ELSE "ok", value |-> Values(Valued(c))]
    [] c = "vinyl" -> [status |-> IF Held(c) = {} THEN "not_connected" ELSE "stale_excluded", value |-> 0]
    [] OTHER -> Rollup(c)

\* assembleNetWorth: the classes that count, and whether one that should is missing.
Total ==
  Sum([c \in Classes |-> IF Reading(c).status \notin Included THEN 0
                         ELSE IF c = "debts" THEN -Reading(c).value ELSE Reading(c).value], Classes)
Degraded == \E c \in Classes : Reading(c).status \notin Included \cup {"not_connected"}
-----------------------------------------------------------------------------
(* Refreshing. A call's answers (None for a failure) are stored later.     *)

\* What a refresh of the class may bring back, row by row.
Whole(c) == {[s \in Held(c) |-> worth[s]]}
\* Coinbase: an asset without a spot price is left out of a total that is stored as a success.
Crypto == UNION {[Held("crypto") -> 0..worth[s]] : s \in Held("crypto")}
\* Zerion: positions without a price or a market are left out; without a complete page of
\* filtered positions it is the vendor's own total, junk included.
Defi == UNION {[Held("defi") -> 0..(worth[s] + Spam)] : s \in Held("defi")}
\* The bureau's profile, or nothing.
DebtProfile == Whole("debts")
\* A vendor that answers per row may fail for some of the rows only.
PerRow(c) == UNION {{[s \in Held(c) |-> IF s \in ok THEN worth[s] ELSE None]} : ok \in SUBSET Held(c)}
Answers(c) ==
  CASE c = "crypto" -> Crypto
    [] c = "defi" -> Defi
    [] c = "debts" -> DebtProfile
    [] c \in {"investments"} \cup Single \cup SelfReported -> Whole(c)
    [] OTHER -> PerRow(c)

\* Every class is refreshed on its own; the whole call may fail.
Fetch(a, c) ==
  /\ call[a] = None /\ Held(c) # {}
  /\ \E got \in Answers(c) \cup {[s \in Held(c) |-> None]} : call' = [call EXCEPT ![a] = [class |-> c, got |-> got]]
  /\ UNCHANGED <<worth, cell, off, baseline, job, earned, flawed>>

\* recordClassSuccess: value and age anew, the error forgotten.
RecordSuccess(v) == [value |-> v, age |-> 0, error |-> None]
\* recordClassFailure: the value stands with the age it has. Only the cache keeps the error class.
RecordFailure(s, err) == IF s[1] \in Cached \cup {"bank"} THEN [cell[s] EXCEPT !.error = err] ELSE cell[s]
Store(a) ==
  /\ call[a] # None
  /\ LET got == call[a].got IN
     \E err \in Errors :
       cell' = [s \in Sources |-> IF s \notin DOMAIN got \/ s \in off THEN cell[s]
                                  ELSE IF got[s] = None THEN RecordFailure(s, err) ELSE RecordSuccess(got[s])]
  /\ call' = [call EXCEPT ![a] = None]
  /\ UNCHANGED <<worth, off, baseline, job, earned, flawed>>
-----------------------------------------------------------------------------
(* runGoalRefreshFromCache                                                 *)

\* A total that is short or long though nothing says so: an account or wallet past its age left
\* out of its class, an asset without a price, junk counted, a class the user holds but which
\* is not connected now.
Flawed ==
  \E c \in Classes :
    \/ Reading(c).status = "not_connected"
    \/ Reading(c).status \in Included /\ \E s \in Sources :
         s[1] = c /\ (s \in off \/ cell[s].value = None \/ Expired(s)
                      \/ cell[s].value < Opening[s] \/ cell[s].value > worth[s])

Assemble(a) ==
  /\ job[a].pc = "idle"
  /\ job' = [job EXCEPT ![a] = [Idle EXCEPT !.pc = "goals", !.total = Total, !.degraded = Degraded]]
  /\ flawed' = (flawed \/ (~Degraded /\ Flawed))
  /\ UNCHANGED <<worth, cell, off, baseline, call, earned>>

\* Mutant: a degraded total goes on to the baseline.
ReadBaselineOfAny(a) ==
  /\ job[a].pc = "goals" /\ job' = [job EXCEPT ![a].pc = "baseline", ![a].prev = baseline]
  /\ UNCHANGED <<worth, cell, off, baseline, call, earned, flawed>>
\* The pet row is read; the write is decided on what was read.
ReadBaseline(a) ==
  /\ job[a].pc = "goals" /\ ~job[a].degraded
  /\ job' = [job EXCEPT ![a].pc = "baseline", ![a].prev = baseline]
  /\ UNCHANGED <<worth, cell, off, baseline, call, earned, flawed>>
SaveBaseline(a) ==
  /\ job[a].pc = "baseline" /\ job' = [job EXCEPT ![a] = Idle]
  /\ baseline' = IF job[a].prev = job[a].total THEN baseline ELSE job[a].total
  /\ UNCHANGED <<worth, cell, off, call, earned, flawed>>
\* A degraded total is recorded as the day's point and goes no further. A restart ends the
\* pass wherever it was.
Stop(a) ==
  /\ job[a].pc # "idle" /\ job' = [job EXCEPT ![a] = Idle]
  /\ UNCHANGED <<worth, cell, off, baseline, call, earned, flawed>>
-----------------------------------------------------------------------------
(* The world.                                                              *)

Earn(s) ==
  /\ earned < MaxEarned /\ earned' = earned + 1 /\ worth' = [worth EXCEPT ![s] = @ + 1]
  /\ UNCHANGED <<cell, off, baseline, job, call, flawed>>
\* An unlinked row is gone with its value; a revoked bank item and the cache keep theirs.
Unlink(s) ==
  /\ s \notin off /\ off' = off \cup {s}
  /\ cell' = IF s[1] \in Cached \cup {"bank"} THEN cell ELSE [cell EXCEPT ![s] = Unread]
  /\ UNCHANGED <<worth, baseline, job, call, earned, flawed>>
Relink(s) ==
  /\ s \in off /\ off' = off \ {s}
  /\ UNCHANGED <<worth, cell, baseline, job, call, earned, flawed>>
Tick ==
  /\ \E s \in Sources : cell[s].value # None /\ cell[s].age < MaxAge
  /\ cell' = [s \in Sources |-> IF cell[s].value = None THEN cell[s]
                                ELSE [cell[s] EXCEPT !.age = IF @ + Step < MaxAge THEN @ + Step ELSE MaxAge]]
  /\ UNCHANGED <<worth, off, baseline, job, call, earned, flawed>>

Next ==
  \/ \E a \in Callers : Store(a) \/ \E c \in Classes : Fetch(a, c)
  \/ \E a \in Actors : Assemble(a) \/ ReadBaseline(a) \/ SaveBaseline(a) \/ Stop(a)
  \/ \E s \in Earner : Earn(s)
  \/ \E s \in Unlinkable : Unlink(s) \/ Relink(s)
  \/ Tick
Spec == Init /\ [][Next]_vars
-----------------------------------------------------------------------------
RealWorth(f) ==
  Sum(f, Sources \ Owing) - (IF Owing # {} THEN Sum(f, Owing) ELSE Sum(CardOwed, {s \in Sources : s[1] = "bank"}))

\* refresh.ts: "a total that shrank because a vendor died must never become the baseline". The
\* user is worth at least the opening sum all along, so no baseline may lie below it. The code
\* does not keep this: an account past its age leaves the sum without degrading the class.
NoShrunkenBaseline == baseline # None => RealWorth(Opening) <= baseline
\* The baseline is always a sum the user was worth at some time, unless a total was wrong without
\* being degraded: vendors that fail, classes too old to count, answers stored late and goal
\* passes that overlap neither shrink nor inflate it.
BaselineHonest ==
  flawed \/ baseline = None \/ (RealWorth(Opening) <= baseline /\ baseline <= RealWorth(worth))
=============================================================================

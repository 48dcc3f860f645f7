------------------------------- MODULE Sweeps --------------------------------
(***************************************************************************)
(* The scheduler's refresh of one vendor for all users, tick after tick    *)
(* (scheduler/index.ts, sync/credential-vendors.ts, sync/price-classes.ts),*)
(* next to the refreshes users start themselves (api/<vendor>.ts), and the *)
(* health each connection keeps (store/connection-health.ts,               *)
(* store/asset-cache.ts). The scheduler takes up to five users of a cached *)
(* class at once; they share nothing here and are taken one by one.        *)
(***************************************************************************)
EXTENDS Integers, FiniteSets, FiniteSetsExt, Vendors

CONSTANTS
  Sample,       \* vendors a behaviour may be about
  Slots,        \* <<user, row>>: the rows that may exist; <<user, 1>> where a user has one
  Routes,       \* refreshes started by users that may overlap
  Never,        \* no such time yet
  Threshold,    \* CONNECTION_ERROR_THRESHOLD; the cached classes have a limit of their own
  ClassLimit,   \* FAILURE_BACKOFF_THRESHOLD
  Broken,       \* BROKEN_RETRY_INTERVAL_MS, in hours
  Abort,        \* VENDOR_ABORT_THRESHOLD
  Step,         \* hours one tick lets go by: many real ticks in one
  MaxAge,       \* bound: ages are counted up to here
  MaxLinks      \* bound: connections ever made

\* A row's slot is a pair.
SweepAssumption ==
  /\ {Threshold, ClassLimit, Abort, Step} \subseteq Nat \ {0} /\ {Broken, MaxAge, MaxLinks} \subseteq Nat
  /\ Sample \subseteq DOMAIN Profile /\ "sweep" \notin Routes
  /\ Never \notin Nat \cup Slots /\ \A s \in Slots : s = <<s[1], s[2]>> /\ s[1] # Never

VARIABLES
  vendor,   \* what there is to know of the vendor of this behaviour
  linked,   \* rows that exist: a connection, a wallet, a holding
  health,   \* row |-> hours since the last attempt and the last success, failures in a row
  sync,     \* a refresh under way: its user, the rows left with the failures read with them
  pass,     \* the scheduler's pass: "idle", "rung" when the timer has just fired, "on"
  due,      \* users found due and not reached yet
  streak,   \* users in a row the vendor failed for
  called,   \* user |-> hours since the scheduler last began to call a lone connection
  cut,      \* users whose last such call a restart ended
  swept,    \* user |-> hours since the scheduler last recorded an attempt at one
  waited,   \* user |-> passes in a row that found the user due and did not get there; the hours
            \* since the first of them, counted where each user has one connection
  links

vars == <<vendor, linked, health, sync, pass, due, streak, called, cut, swept, waited, links>>

Users == {s[1] : s \in Slots}
Sweep == "sweep"
Actors == Routes \cup {Sweep}
RowsOf(u) == {s \in linked : s[1] = u}
\* Each user has one connection, with the health on it.
Lone == vendor.by = "credential" /\ vendor.rows = "one"
Age == 0..MaxAge \cup {Never}
\* Failures are counted up to where no rule tells counts apart.
Enough == Max({Threshold, ClassLimit})
Todos == UNION {[rows -> 0..Enough] : rows \in SUBSET Slots}
Fresh == [attempt |-> Never, synced |-> Never, fails |-> 0]
NotDue == [passes |-> 0, hours |-> Never]
NoSync == [user |-> Never, todo |-> <<>>, refused |-> Never]

TypeOK ==
  /\ vendor \in Vendors
  /\ linked \subseteq Slots /\ links \in 0..MaxLinks
  /\ health \in [Slots -> [attempt : Age, synced : Age, fails : 0..Enough]]
  /\ sync \in [Actors -> [user : Users \cup {Never}, todo : Todos, refused : Slots \cup {Never}]]
  /\ \A a \in Actors : sync[a].refused \in DOMAIN sync[a].todo \cup {Never}
  /\ pass \in {"idle", "rung", "on"} /\ due \subseteq Users /\ streak \in 0..Abort
  /\ called \in [Users -> Age] /\ cut \subseteq Users
  /\ swept \in [Users -> Age] /\ waited \in [Users -> [passes : Nat, hours : Age]]

Init ==
  /\ vendor \in {Profile[v] : v \in Sample} /\ linked = {} /\ health = [s \in Slots |-> Fresh]
  /\ sync = [a \in Actors |-> NoSync] /\ pass = "idle" /\ due = {} /\ streak = 0
  /\ called = [u \in Users |-> Never] /\ cut = {}
  /\ swept = [u \in Users |-> Never] /\ waited = [u \in Users |-> NotDue] /\ links = 0
-----------------------------------------------------------------------------
(* Who is due.                                                             *)

Older(age, hours) == age # Never /\ age > hours
\* Mutant: a broken connection is taken again with every pass, without its back-off.
RowDueAtOnce(s) ==
  health[s].attempt = Never \/ health[s].fails >= Threshold
  \/ Older(health[s].attempt, vendor.every)
\* usersDueForCredentialSync: one such row brings in all of the user's.
RowDue(s) ==
  \/ health[s].attempt = Never
  \/ health[s].fails < Threshold /\ Older(health[s].attempt, vendor.every)
  \/ health[s].fails >= Threshold /\ Older(health[s].attempt, Broken)
\* usersDueForPriceSync: SQL's min passes over the rows that were never priced.
PriceDue(u) ==
  LET ages == {health[s].synced : s \in RowsOf(u)} \ {Never}
  IN ages = {} \/ Max(ages) > vendor.every
\* findDueClassRefreshes: by the age of the value; attempts count only for a class that keeps failing.
ClassDue(s) ==
  /\ health[s].fails >= ClassLimit /\ health[s].attempt # Never => health[s].attempt >= vendor.every
  /\ health[s].synced # Never => health[s].synced >= vendor.every
DueUsers ==
  {u \in Users : RowsOf(u) # {} /\ CASE vendor.by = "credential" -> \E s \in RowsOf(u) : RowDue(s)
                                     [] vendor.by = "price" -> PriceDue(u)
                                     [] vendor.by = "class" -> \E s \in RowsOf(u) : ClassDue(s)
                                     [] OTHER -> FALSE}
-----------------------------------------------------------------------------
(* The pass.                                                               *)

\* runSchedulerTick
StartPass ==
  /\ pass = "rung"
  /\ pass' = "on" /\ due' = DueUsers /\ streak' = 0
  /\ waited' = [u \in Users |-> IF u \notin DueUsers THEN NotDue
                               ELSE IF waited[u] = NotDue THEN [NotDue EXCEPT !.hours = 0] ELSE waited[u]]
  /\ UNCHANGED <<vendor, linked, health, sync, called, cut, swept, links>>

\* The sync reads all of the user's rows at once. No rows: "not_connected".
Begin(a, u) ==
  sync' = [sync EXCEPT ![a] = IF RowsOf(u) = {} THEN NoSync
             ELSE [user |-> u, todo |-> [s \in RowsOf(u) |-> health[s].fails], refused |-> Never]]

CallUser(u) ==
  /\ pass = "on" /\ u \in due /\ streak < Abort /\ sync[Sweep] = NoSync
  /\ Begin(Sweep, u)
  /\ due' = due \ {u} /\ waited' = [waited EXCEPT ![u] = NotDue]
  /\ streak' = IF RowsOf(u) = {} THEN 0 ELSE streak
  /\ IF Lone /\ RowsOf(u) # {} THEN called' = [called EXCEPT ![u] = 0] /\ cut' = cut \ {u}
     ELSE UNCHANGED <<called, cut>>
  /\ UNCHANGED <<vendor, linked, health, pass, swept, links>>

\* All due users are done, or the rest of them is given up for this pass.
EndPass ==
  /\ pass = "on" /\ sync[Sweep] = NoSync
  /\ due = {} \/ streak = Abort
  /\ pass' = "idle" /\ due' = {} /\ streak' = 0
  /\ waited' = [u \in Users |-> IF u \in due THEN [waited[u] EXCEPT !.passes = @ + 1] ELSE waited[u]]
  /\ UNCHANGED <<vendor, linked, health, sync, called, cut, swept, links>>

\* POST /api/<vendor>/sync
RouteSync(a, u) ==
  /\ sync[a] = NoSync /\ Begin(a, u) /\ RowsOf(u) # {}
  /\ UNCHANGED <<vendor, linked, health, pass, due, streak, called, cut, swept, waited, links>>
-----------------------------------------------------------------------------
(* A refresh, row by row.                                                  *)

Left(a) == DOMAIN sync[a].todo
\* The streak counts vendors' failures: a lapsed credential leaves it, a success clears it.
NewStreak(err) ==
  CASE vendor.by # "credential" -> streak
    [] vendor.by = "credential" /\ err = "none" -> 0
    [] vendor.by = "credential" /\ err = "auth" -> streak
    [] OTHER -> streak + 1

\* The rest of the rows, or the end of the refresh with the error it throws.
Continue(a, s, err) ==
  LET left == IF err # "none" /\ vendor.failure = "stop" THEN {} ELSE Left(a) \ {s}
      todo == [t \in left |-> sync[a].todo[t]]
  IN /\ sync' = [sync EXCEPT ![a] = IF left = {} THEN NoSync ELSE [@ EXCEPT !.todo = todo, !.refused = Never]]
     /\ streak' = IF a = Sweep /\ left = {} THEN NewStreak(IF vendor.failure = "stop" THEN err ELSE "none")
                  ELSE streak

\* An UPDATE writes the rows that still exist; the cache row of a class is written back even then.
Write(a, s, h) ==
  IF s \in linked \/ vendor.by = "class"
  THEN /\ health' = [health EXCEPT ![s] = h]
       /\ swept' = IF a = Sweep /\ Lone THEN [swept EXCEPT ![s[1]] = 0] ELSE swept
  ELSE UNCHANGED <<health, swept>>

\* successPatch, recordClassSuccess
Refreshed(a, s) ==
  /\ s \in Left(a) /\ sync[a].refused = Never
  /\ Write(a, s, [attempt |-> 0, synced |-> 0, fails |-> 0])
  /\ Continue(a, s, "none")
  /\ UNCHANGED <<vendor, linked, pass, due, called, cut, waited, links>>

\* A chain without a balance or a price.
Skipped(a, s) ==
  /\ vendor.skips /\ s \in Left(a) /\ sync[a].refused = Never
  /\ Continue(a, s, "none")
  /\ UNCHANGED <<vendor, linked, health, pass, due, called, cut, swept, waited, links>>

\* The vendor fails. recordClassFailure reads the count now, the others read it with the rows.
Refused(a, s) ==
  /\ s \in Left(a) /\ sync[a].refused = Never
  /\ sync' = [sync EXCEPT ![a].refused = s,
                          ![a].todo[s] = IF vendor.by = "class" THEN health[s].fails ELSE @]
  /\ UNCHANGED <<vendor, linked, health, pass, due, streak, called, cut, swept, waited, links>>

\* Mutant: a failure only counts.
FailureOnlyCounts(s, seen) ==
  [health[s] EXCEPT !.fails = Min({seen + 1, Enough})]
\* failurePatch: one more than was read.
FailurePatch(s, seen) ==
  [health[s] EXCEPT !.attempt = 0, !.fails = Min({seen + 1, Enough})]
RecordFailure(a, err) ==
  LET s == sync[a].refused
  IN /\ s # Never
     /\ IF vendor.failure = "silent" THEN UNCHANGED <<health, swept>>
        ELSE Write(a, s, FailurePatch(s, sync[a].todo[s]))
     /\ Continue(a, s, err)
     /\ UNCHANGED <<vendor, linked, pass, due, called, cut, waited, links>>

\* Without a key of ours the class ends for every user who is left.
Unconfigured(a) ==
  /\ vendor.keyed /\ Left(a) # {} /\ sync[a].refused = Never
  /\ sync' = [sync EXCEPT ![a] = NoSync]
  /\ IF a = Sweep THEN pass' = "idle" /\ due' = {} ELSE UNCHANGED <<pass, due>>
  /\ UNCHANGED <<vendor, linked, health, streak, called, cut, swept, waited, links>>
-----------------------------------------------------------------------------
(* Connections, time and the process.                                      *)

\* A vendor that is asked first may refuse, and then nothing changes.
Connect(s) ==
  /\ s \notin linked /\ links < MaxLinks /\ links' = links + 1
  /\ vendor.rows = "many" \/ s[2] = 1
  /\ linked' = linked \cup {s}
  /\ health' = IF vendor.connect = "verify" THEN [health EXCEPT ![s].synced = 0] ELSE health
  /\ UNCHANGED <<vendor, sync, pass, due, streak, called, cut, swept, waited>>
\* A row goes with its health, except the cached value of a class.
Disconnect(s) ==
  /\ s \in linked /\ linked' = linked \ {s}
  /\ health' = IF vendor.by = "class" THEN health ELSE [health EXCEPT ![s] = Fresh]
  /\ called' = [called EXCEPT ![s[1]] = Never] /\ swept' = [swept EXCEPT ![s[1]] = Never]
  /\ UNCHANGED <<vendor, sync, pass, due, streak, cut, waited, links>>

Later(age) ==
  IF age = Never THEN Never ELSE IF age + Step < MaxAge THEN age + Step ELSE MaxAge
\* A pass starts the moment the timer fires; a tick that finds one in flight is dropped. Time
\* passes between passes and while a vendor is being called. Only ages that a due rule reads count.
Tick ==
  /\ pass # "rung" /\ (pass = "on" => sync[Sweep] # NoSync)
  /\ health' = [s \in Slots |->
       [attempt |-> IF vendor.by = "price" THEN health[s].attempt ELSE Later(health[s].attempt),
        synced |-> IF vendor.by = "credential" THEN health[s].synced ELSE Later(health[s].synced),
        fails |-> health[s].fails]]
  /\ called' = [u \in Users |-> Later(called[u])] /\ swept' = [u \in Users |-> Later(swept[u])]
  /\ waited' = [u \in Users |-> [waited[u] EXCEPT !.hours = IF Lone THEN Later(@) ELSE @]]
  /\ pass' = IF pass = "idle" THEN "rung" ELSE pass
  /\ UNCHANGED <<vendor, linked, sync, due, streak, cut, links>>

\* A crash or a deploy during a refresh: the new process ticks at once (startScheduler).
Restart ==
  /\ \E a \in Actors : sync[a] # NoSync
  /\ sync' = [a \in Actors |-> NoSync] /\ pass' = "rung" /\ due' = {} /\ streak' = 0
  /\ cut' = IF Lone THEN cut \cup ({sync[Sweep].user} \ {Never}) ELSE cut
  /\ UNCHANGED <<vendor, linked, health, called, swept, waited, links>>

Next ==
  \/ StartPass \/ EndPass \/ Tick \/ Restart
  \/ \E u \in Users : CallUser(u) \/ \E a \in Routes : RouteSync(a, u)
  \/ \E a \in Actors :
       \/ \E s \in Slots : Refreshed(a, s) \/ Skipped(a, s) \/ Refused(a, s)
       \/ \E err \in {"auth", "other"} : RecordFailure(a, err)
       \/ Unconfigured(a)
  \/ \E s \in Slots : Connect(s) \/ Disconnect(s)
Spec == Init /\ [][Next]_vars
-----------------------------------------------------------------------------
\* The hours within which the scheduler does not come back to a lone connection.
Pace == IF vendor.every < Broken THEN vendor.every ELSE Broken

\* credential-vendors.ts:335 "One user's failure never stops the vendor." A pass that is given up
\* has failed for Abort other users, who are not due again within Pace: in that time a due user
\* of a vendor whose rows do not stop each other waits at most one pass per Abort connections
\* besides its own, however many of them fail, are cut or are made anew.
Isolated ==
  \/ vendor.by = "class" \/ (vendor.by = "price" /\ ~vendor.keyed)
  \/ vendor.failure = "next" \/ vendor.rows = "one"
NobodyStarves ==
  Isolated => \A u \in Users :
    waited[u].passes > 0 /\ waited[u].hours <= Pace => waited[u].passes * Abort < links

\* The intervals are quotas ("the quota talking", credential-vendors.ts:198): the scheduler does
\* not come back to a lone connection before its interval or, where it is shorter, the back-off
\* of a broken one, is over since it called last, whatever overlaps, fails or is made anew; unless
\* a restart ended that call, and even then not so soon after an attempt that was recorded.
Rested(age) == age = Never \/ age > Pace
CallsArePaced ==
  [][\A u \in Users : CallUser(u) /\ Lone =>
       Rested(swept[u]) /\ (Rested(called[u]) \/ u \in cut)]_vars
=============================================================================

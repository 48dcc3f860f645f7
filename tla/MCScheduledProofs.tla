-------------------------- MODULE MCScheduledProofs --------------------------
(***************************************************************************)
(* Proofs about RetryBudget, and about Sweeps and Goals as MCScheduled     *)
(* instantiates them, and from them about the sum of the machines: for any *)
(* bucket and number of calls, any vendors, users and intervals, and any   *)
(* number of jobs, goals and weeks. A user's wait is counted with          *)
(* finite sets (Sweeps); what the weeks of a goal add up to is a recursive *)
(* function of its history, reasoned about by least counterexample (Goals). *)
(***************************************************************************)
EXTENDS MCScheduled, FiniteSets, FiniteSetTheorems, WellFoundedInduction, TLAPS

-----------------------------------------------------------------------------
(* RetryBudget *)

\* The bucket pays for every retry: what retries cost and what is left come to
\* no more than a full bucket and what the answers bought back.
Conserved == Cost * retriesAllowed + tokens <= MaxTokens + Gain * successes

\* Products of the constants with a counter that grows by one.
LEMMA Products ==
  ASSUME NEW n \in Nat
  PROVE  /\ Cost * n \in Nat /\ Gain * n \in Nat
         /\ Cost * (n + 1) = Cost * n + Cost
         /\ Gain * (n + 1) = Gain * n + Gain
         /\ 2 * Cost * n = 2 * (Cost * n)
         /\ 2 * Gain * n = 2 * (Gain * n)
BY BudgetAssumption, Z3 DEF BudgetAssumption

LEMMA TypeStep ==
  ASSUME TypeOK, [Next]_vars
  PROVE  TypeOK'
<1> USE BudgetAssumption DEF BudgetAssumption, TypeOK
<1>1. ASSUME NEW c \in Calls, RecordRequest(c)
      PROVE  TypeOK'
  BY <1>1 DEF RecordRequest
<1>2. ASSUME NEW c \in Calls, RecordSuccess(c)
      PROVE  TypeOK'
  BY <1>2 DEF RecordSuccess
<1>3. ASSUME NEW c \in Calls, RateLimited(c)
      PROVE  TypeOK'
  BY <1>3 DEF RateLimited
<1>4. ASSUME NEW c \in Calls, RecordFailure(c)
      PROVE  TypeOK'
  BY <1>4 DEF RecordFailure, AfterFailure
<1>5. ASSUME NEW c \in Calls, Throw(c)
      PROVE  TypeOK'
  BY <1>5 DEF Throw
<1>6. CASE UNCHANGED vars
  BY <1>6 DEF vars
<1> QED BY <1>1, <1>2, <1>3, <1>4, <1>5, <1>6 DEF Next

\* The budget's variables keep their types.
THEOREM TypeCorrect == Spec => []TypeOK
<1>1. Init => TypeOK
  BY BudgetAssumption DEF BudgetAssumption, Init, TypeOK
<1>2. TypeOK /\ [Next]_vars => TypeOK'
  BY TypeStep
<1> QED BY <1>1, <1>2, PTL DEF Spec

LEMMA BudgetStep ==
  ASSUME TypeOK, Conserved, AmplificationBounded, [Next]_vars
  PROVE  Conserved' /\ AmplificationBounded'
<1> DEFINE paid == Cost * retriesAllowed   bought == Gain * successes
<1>0. /\ paid \in Nat /\ bought \in Nat /\ tokens \in Nat
      /\ paid + tokens <= MaxTokens + bought
      /\ 2 * paid < MaxTokens + 2 * bought
      /\ MaxTokens \in Nat /\ Cost \in Nat /\ Gain \in Nat
  BY Products, BudgetAssumption DEF BudgetAssumption, TypeOK, Conserved, AmplificationBounded
<1>1. ASSUME UNCHANGED <<tokens, successes, retriesAllowed>>
      PROVE  Conserved' /\ AmplificationBounded'
  BY <1>1 DEF Conserved, AmplificationBounded
<1>2. ASSUME NEW c \in Calls, RecordSuccess(c)
      PROVE  Conserved' /\ AmplificationBounded'
  <2>1. /\ successes' = successes + 1 /\ retriesAllowed' = retriesAllowed
        /\ tokens' \in Nat /\ tokens' <= tokens + Gain
    BY <1>2, BudgetAssumption DEF BudgetAssumption, RecordSuccess, TypeOK
  <2>2. Gain * successes' = bought + Gain /\ Cost * retriesAllowed' = paid
        /\ 2 * Gain * successes' = 2 * (bought + Gain) /\ 2 * Cost * retriesAllowed' = 2 * paid
    BY <2>1, Products DEF TypeOK
  <2> HIDE DEF paid, bought
  <2> QED BY <1>0, <2>1, <2>2 DEF Conserved, AmplificationBounded
<1>3. ASSUME NEW c \in Calls, RecordFailure(c)
      PROVE  Conserved' /\ AmplificationBounded'
  <2>1. tokens' = AfterFailure /\ successes' = successes /\ AfterFailure \in Nat /\ AfterFailure <= tokens
    BY <1>3, <1>0 DEF RecordFailure, AfterFailure
  <2>2. 2 * Gain * successes = 2 * bought
    BY Products DEF TypeOK
  <2>3. CASE retriesAllowed' = retriesAllowed
    <3>1. 2 * Cost * retriesAllowed = 2 * paid
      BY Products DEF TypeOK
    <3> HIDE DEF paid, bought
    <3> QED BY <1>0, <2>1, <2>2, <2>3, <3>1 DEF Conserved, AmplificationBounded, paid, bought
  <2>4. CASE retriesAllowed' = retriesAllowed + 1 /\ 2 * AfterFailure > MaxTokens
    <3>1. Cost * retriesAllowed' = paid + Cost /\ 2 * Cost * retriesAllowed' = 2 * (paid + Cost)
      BY <2>4, Products DEF TypeOK
    <3>2. AfterFailure + Cost = tokens
      BY <1>0, <2>4 DEF AfterFailure
    <3> HIDE DEF paid, bought
    <3>3. paid + Cost + AfterFailure <= MaxTokens + bought
      BY <1>0, <2>1, <3>2
    <3>4. 2 * (paid + Cost) < MaxTokens + 2 * bought
      BY <1>0, <2>1, <2>4, <3>3
    <3>5. Conserved'
      BY <2>1, <3>1, <3>3 DEF Conserved, bought
    <3>6. AmplificationBounded'
      BY <2>1, <2>2, <3>1, <3>4 DEF AmplificationBounded
    <3> QED BY <3>5, <3>6
  <2> QED BY <1>3, <2>3, <2>4 DEF RecordFailure
<1> QED BY <1>1, <1>2, <1>3 DEF Next, RecordRequest, RateLimited, Throw, vars

\* Retries never amplify an outage beyond half a bucket.
THEOREM AmplificationSafety == Spec => []AmplificationBounded
<1>1. Init => Conserved /\ AmplificationBounded
  BY BudgetAssumption DEF BudgetAssumption, Init, Conserved, AmplificationBounded
<1>2. TypeOK /\ Conserved /\ AmplificationBounded /\ [Next]_vars => Conserved' /\ AmplificationBounded'
  BY BudgetStep
<1> QED BY TypeCorrect, <1>1, <1>2, PTL DEF Spec

-----------------------------------------------------------------------------
(* Sweeps: the inductive invariant *)

Health == [attempt : S!Age, synced : S!Age, fails : 0..S!Enough]
Syncs == [user : S!Users \cup {Never}, todo : S!Todos, refused : Slots \cup {Never}]

\* The scheduler's refresh runs within its pass, for a user who is no longer due, while the vendor
\* has not been given up.
SyncInv ==
  /\ pass # "on" => sync[S!Sweep] = S!NoSync
  /\ sync[S!Sweep] # S!NoSync => streak < Abort
  /\ \A s \in DOMAIN sync[S!Sweep].todo : s[1] \notin due

\* Where a user has one connection: what the scheduler recorded on it is what the due rule reads
\* or older, and a due user has waited for it.
RowInv == \A s \in linked : s[2] = 1
SweptInv ==
  \A s \in Slots : s[2] = 1 /\ swept[s[1]] # Never =>
    s \in linked /\ health[s].attempt # Never /\ health[s].attempt <= swept[s[1]]
DueInv == \A u \in due : swept[u] = Never \/ swept[u] > S!Pace

SweepsInv == S!TypeOK /\ SyncInv /\ (S!Lone => RowInv /\ SweptInv /\ DueInv)

-----------------------------------------------------------------------------
LEMMA Profiles ==
  ASSUME NEW v \in DOMAIN S!Profile
  PROVE  S!Profile[v] \in S!Vendors
<1> USE DEF S!Vendors, S!Credential, S!Holdings, S!Class, S!Days
<1>1. S!kraken \in S!Vendors /\ S!alpaca \in S!Vendors /\ S!kalshi \in S!Vendors /\ S!truelayer \in S!Vendors
  BY DEF S!kraken, S!alpaca, S!kalshi, S!truelayer
<1>2. S!ynab \in S!Vendors /\ S!discogs \in S!Vendors /\ S!hyperliquid \in S!Vendors /\ S!polymarket \in S!Vendors
  BY DEF S!ynab, S!discogs, S!hyperliquid, S!polymarket
<1>3. S!chain_wallets \in S!Vendors /\ S!nft \in S!Vendors /\ S!metals \in S!Vendors /\ S!energy \in S!Vendors
  BY DEF S!chain_wallets, S!nft, S!metals, S!energy
<1>4. S!farmland \in S!Vendors /\ S!sneakers \in S!Vendors /\ S!coins \in S!Vendors /\ S!trading_cards \in S!Vendors
  BY DEF S!farmland, S!sneakers, S!coins, S!trading_cards
<1>5. S!pokemon_cards \in S!Vendors /\ S!crypto \in S!Vendors /\ S!defi \in S!Vendors /\ S!debts \in S!Vendors
  BY DEF S!pokemon_cards, S!crypto, S!defi, S!debts
<1>6. S!investments \in S!Vendors /\ S!realEstate \in S!Vendors /\ S!vehicles \in S!Vendors
  BY DEF S!investments, S!realEstate, S!vehicles
<1> QED BY <1>1, <1>2, <1>3, <1>4, <1>5, <1>6 DEF S!Profile

LEMMA Sizes ==
  ASSUME S!SweepAssumption
  PROVE  /\ Threshold \in Nat \ {0} /\ ClassLimit \in Nat \ {0} /\ Abort \in Nat \ {0} /\ Step \in Nat \ {0}
         /\ Broken \in Nat /\ MaxAge \in Nat /\ MaxLinks \in Nat
         /\ Never \notin Nat /\ Never \notin Slots /\ S!Sweep \notin Routes
BY DEF S!SweepAssumption, S!Sweep

\* The largest and the smallest of two numbers are among them.
LEMMA Extremes ==
  ASSUME NEW two, NEW m \in Int, NEW n \in Int, two = {m, n}
  PROVE  S!Max(two) \in two /\ S!Min(two) \in two
<1>1. (\E x \in two : \A y \in two : x >= y) /\ (\E x \in two : \A y \in two : x <= y)
  OBVIOUS
<1> QED BY <1>1 DEF S!Max, S!Min

LEMMA Counts ==
  ASSUME S!SweepAssumption
  PROVE  S!Enough \in Nat /\ \A n \in Nat : n <= S!Enough => S!Min({n + 1, S!Enough}) \in 0..S!Enough
<1>1. S!Enough \in Nat
  <2> DEFINE two == {Threshold, ClassLimit}
  <2>1. S!Max(two) \in two
    <3>1. two = {Threshold, ClassLimit}
      OBVIOUS
    <3> HIDE DEF two
    <3> QED BY <3>1, Sizes, Extremes
  <2>2. S!Max(two) \in Nat
    <3>1. two \subseteq Nat
      BY Sizes
    <3> HIDE DEF two
    <3> QED BY <2>1, <3>1
  <2> QED BY <2>2 DEF S!Enough
<1>2. ASSUME NEW n \in Nat, n <= S!Enough
      PROVE  S!Min({n + 1, S!Enough}) \in 0..S!Enough
  <2> DEFINE two == {n + 1, S!Enough}
  <2>1. S!Min(two) \in two /\ S!Min(two) <= S!Enough
    <3>1. two = {n + 1, S!Enough}
      OBVIOUS
    <3> HIDE DEF two
    <3>2. (\E x \in two : \A y \in two : x <= y) /\ S!Enough \in two
      BY <1>1, <3>1
    <3> QED BY <3>2 DEF S!Min
  <2>2. two \subseteq Nat
    BY <1>1
  <2> HIDE DEF two
  <2>3. PICK least \in Nat : least = S!Min(two)
    BY <2>1, <2>2
  <2>4. least \in 0..S!Enough
    BY <1>1, <2>1, <2>3
  <2> QED BY <2>3, <2>4 DEF two
<1> QED BY <1>1, <1>2

LEMMA AtRest == S!NoSync \in Syncs /\ DOMAIN S!NoSync.todo = {} /\ S!NoSync.refused = Never
<1>1. <<>> \in [{} -> 0..S!Enough] /\ DOMAIN <<>> = {}
  OBVIOUS
<1>2. <<>> \in S!Todos
  BY <1>1 DEF S!Todos
<1> QED BY <1>1, <1>2 DEF S!NoSync, Syncs

LEMMA Shape ==
  ASSUME S!TypeOK, NEW a \in S!Actors
  PROVE  /\ sync[a] \in Syncs
         /\ \E rows \in SUBSET Slots : sync[a].todo \in [rows -> 0..S!Enough]
         /\ DOMAIN sync[a].todo \in SUBSET Slots
         /\ \A s \in DOMAIN sync[a].todo : sync[a].todo[s] \in 0..S!Enough
         /\ sync[a].refused = Never \/ sync[a].refused \in DOMAIN sync[a].todo
<1>1. sync[a] \in Syncs
  BY DEF S!TypeOK, Syncs
<1>2. sync[a].todo \in S!Todos
  BY <1>1 DEF Syncs
<1>3. sync[a].refused = Never \/ sync[a].refused \in DOMAIN sync[a].todo
  BY DEF S!TypeOK
<1> QED BY <1>1, <1>2, <1>3 DEF S!Todos

LEMMA Pairs ==
  ASSUME S!SweepAssumption, NEW s \in Slots, NEW t \in Slots, s[1] = t[1], s[2] = t[2]
  PROVE  s = t
BY DEF S!SweepAssumption

-----------------------------------------------------------------------------
\* What a step of a refresh does to what is left of it.
LEMMA Continued ==
  ASSUME S!SweepAssumption, S!TypeOK, SyncInv, NEW a \in S!Actors, NEW s \in DOMAIN sync[a].todo, NEW err,
         S!Continue(a, s, err), UNCHANGED <<pass, due>>
  PROVE  /\ sync' \in [S!Actors -> Syncs]
         /\ \A b \in S!Actors : sync'[b].refused \in DOMAIN sync'[b].todo \cup {Never}
         /\ streak' \in 0..Abort /\ SyncInv'
<1> DEFINE left == IF err # "none" /\ vendor.failure = "stop" THEN {} ELSE DOMAIN sync[a].todo \ {s}
           todo == [t \in left |-> sync[a].todo[t]]
           next == IF left = {} THEN S!NoSync ELSE [sync[a] EXCEPT !.todo = todo, !.refused = Never]
<1>1. /\ sync' = [sync EXCEPT ![a] = next]
      /\ streak' = IF a = S!Sweep /\ left = {} THEN S!NewStreak(IF vendor.failure = "stop" THEN err ELSE "none")
                   ELSE streak
  BY DEF S!Continue, S!Left
<1>2. left \in SUBSET DOMAIN sync[a].todo /\ left \in SUBSET Slots
  BY Shape
<1>3. todo \in [left -> 0..S!Enough] /\ DOMAIN todo = left
  BY <1>2, Shape
<1>4. todo \in S!Todos
  BY <1>2, <1>3 DEF S!Todos
<1> HIDE DEF left, todo
<1>5. next \in Syncs /\ next.refused = Never /\ DOMAIN next.todo = left /\ (left = {} => next = S!NoSync)
  <2>1. CASE left = {}
    BY <2>1, AtRest
  <2>2. CASE left # {}
    <3>1. sync[a] \in Syncs
      BY Shape
    <3> QED BY <1>3, <1>4, <2>2, <3>1 DEF Syncs
  <2> QED BY <2>1, <2>2
<1> HIDE DEF next
<1>6. sync \in [S!Actors -> Syncs] /\ sync'[a] = next /\ \A b \in S!Actors \ {a} : sync'[b] = sync[b]
  BY <1>1 DEF S!TypeOK, Syncs
<1>7. sync' \in [S!Actors -> Syncs] /\ \A b \in S!Actors : sync'[b].refused \in DOMAIN sync'[b].todo \cup {Never}
  BY <1>1, <1>5, <1>6 DEF S!TypeOK
<1>8. sync[a] # S!NoSync
  BY AtRest
<1>9. streak' \in 0..Abort /\ (sync'[S!Sweep] # S!NoSync => streak' < Abort)
  <2>1. streak \in 0..Abort /\ Abort \in Nat \ {0} /\ S!Sweep \in S!Actors
    BY Sizes DEF S!TypeOK, S!Actors
  <2>2. CASE a = S!Sweep /\ left = {}
    <3>1. streak < Abort
      BY <1>8, <2>2 DEF SyncInv
    <3>2. streak' \in {streak, 0, streak + 1}
      BY <1>1, <2>2 DEF S!NewStreak
    <3>3. sync'[S!Sweep] = S!NoSync
      BY <1>5, <1>6, <2>2
    <3> QED BY <2>1, <3>1, <3>2, <3>3
  <2>3. CASE ~(a = S!Sweep /\ left = {})
    <3>1. streak' = streak
      BY <1>1, <2>3
    <3>2. sync'[S!Sweep] # S!NoSync => sync[S!Sweep] # S!NoSync
      BY <1>6, <1>8, <2>1
    <3> QED BY <2>1, <3>1, <3>2 DEF SyncInv
  <2> QED BY <2>2, <2>3
<1>10. pass' # "on" => sync'[S!Sweep] = S!NoSync
  BY <1>6, <1>8 DEF SyncInv, S!Actors
<1>11. \A t \in DOMAIN sync'[S!Sweep].todo : t[1] \notin due'
  BY <1>2, <1>5, <1>6 DEF SyncInv, S!Actors
<1> QED BY <1>7, <1>9, <1>10, <1>11 DEF SyncInv

\* A refresh records an attempt now, on a row that exists.
LEMMA Written ==
  ASSUME S!SweepAssumption, S!TypeOK, SyncInv, NEW a \in S!Actors, NEW s \in DOMAIN sync[a].todo,
         NEW h \in Health, h.attempt = 0, S!Write(a, s, h), UNCHANGED <<vendor, linked, due>>
  PROVE  /\ health' \in [Slots -> Health] /\ swept' \in [S!Users -> S!Age]
         /\ S!Lone /\ RowInv /\ SweptInv /\ DueInv => RowInv' /\ SweptInv' /\ DueInv'
<1>1. s \in Slots /\ s[1] \in S!Users
  BY Shape DEF S!Users
<1>2. 0 \in S!Age /\ MaxAge \in Nat /\ Never \notin Nat
  BY Sizes DEF S!Age
<1>3. health' \in [Slots -> Health] /\ swept' \in [S!Users -> S!Age]
  BY <1>1, <1>2 DEF S!Write, S!TypeOK, Health
<1>4. ASSUME S!Lone, RowInv, SweptInv, DueInv
      PROVE  RowInv' /\ SweptInv' /\ DueInv'
  <2>1. CASE s \notin linked
    <3>1. UNCHANGED <<health, swept>>
      BY <1>4, <2>1 DEF S!Lone, S!Write
    <3> QED BY <1>4, <3>1 DEF RowInv, SweptInv, DueInv, S!Pace
  <2>2. CASE s \in linked
    <3>1. /\ health'[s].attempt = 0 /\ \A t \in Slots \ {s} : health'[t] = health[t]
          /\ \A u \in S!Users : swept'[u] = swept[u] \/ (u = s[1] /\ a = S!Sweep /\ swept'[u] = 0)
      BY <1>1, <1>4, <2>2 DEF S!Lone, S!Write, S!TypeOK
    <3>2. s[2] = 1
      BY <1>4, <2>2 DEF RowInv
    <3>3. \A t \in Slots \ {s} : t[2] = 1 => t[1] # s[1]
      BY <1>1, <3>2, Pairs
    <3>4. SweptInv'
      <4> SUFFICES ASSUME NEW t \in Slots, t[2] = 1, swept'[t[1]] # Never
                   PROVE  t \in linked' /\ health'[t].attempt # Never /\ health'[t].attempt <= swept'[t[1]]
        BY DEF SweptInv
      <4>1. t[1] \in S!Users
        BY DEF S!Users
      <4>2. CASE t = s
        BY <1>2, <1>3, <2>2, <3>1, <4>1, <4>2 DEF S!Age
      <4>3. CASE t # s
        BY <1>4, <3>1, <3>3, <4>1, <4>3 DEF SweptInv
      <4> QED BY <4>2, <4>3
    <3>5. DueInv'
      <4>1. a = S!Sweep => s[1] \notin due
        BY DEF SyncInv
      <4>2. due \subseteq S!Users
        BY DEF S!TypeOK
      <4> QED BY <1>4, <3>1, <4>1, <4>2 DEF DueInv, S!Pace
    <3> QED BY <1>4, <3>4, <3>5 DEF RowInv
  <2> QED BY <2>1, <2>2
<1> QED BY <1>3, <1>4

LEMMA Refresh ==
  ASSUME S!SweepAssumption, SweepsInv, NEW a \in S!Actors, NEW s \in DOMAIN sync[a].todo, NEW err,
         \/ UNCHANGED <<health, swept>>
         \/ \E h \in Health : h.attempt = 0 /\ S!Write(a, s, h),
         S!Continue(a, s, err), UNCHANGED <<vendor, linked, pass, due, called, cut, waited, links>>
  PROVE  SweepsInv'
<1>1. /\ sync' \in [S!Actors -> Syncs]
      /\ \A b \in S!Actors : sync'[b].refused \in DOMAIN sync'[b].todo \cup {Never}
      /\ streak' \in 0..Abort /\ SyncInv'
  BY Continued DEF SweepsInv
<1>2. /\ health' \in [Slots -> Health] /\ swept' \in [S!Users -> S!Age]
      /\ S!Lone /\ RowInv /\ SweptInv /\ DueInv => RowInv' /\ SweptInv' /\ DueInv'
  <2>1. CASE UNCHANGED <<health, swept>>
    BY <2>1 DEF SweepsInv, S!TypeOK, Health, RowInv, SweptInv, DueInv, S!Pace
  <2>2. CASE \E h \in Health : h.attempt = 0 /\ S!Write(a, s, h)
    BY <2>2, Written DEF SweepsInv
  <2> QED BY <2>1, <2>2
<1>3. S!Lone' = S!Lone
  BY DEF S!Lone
<1>4. S!TypeOK'
  BY <1>1, <1>2 DEF SweepsInv, S!TypeOK, Syncs, Health
<1> QED BY <1>1, <1>2, <1>3, <1>4 DEF SweepsInv

LEMMA RefreshStep ==
  ASSUME S!SweepAssumption, SweepsInv, NEW a \in S!Actors,
         \/ \E s \in Slots : S!Refreshed(a, s) \/ S!Skipped(a, s)
         \/ \E err \in {"auth", "other"} : S!RecordFailure(a, err)
  PROVE  SweepsInv'
<1>1. 0 \in S!Age /\ 0 \in 0..S!Enough
  BY Sizes, Counts DEF S!Age
<1>2. ASSUME NEW s \in Slots, S!Refreshed(a, s)
      PROVE  SweepsInv'
  <2>1. [attempt |-> 0, synced |-> 0, fails |-> 0] \in Health
    BY <1>1 DEF Health
  <2> QED BY <1>2, <2>1, Refresh DEF S!Refreshed, S!Left
<1>3. ASSUME NEW s \in Slots, S!Skipped(a, s)
      PROVE  SweepsInv'
  BY <1>3, Refresh DEF S!Skipped, S!Left
<1>4. ASSUME NEW err \in {"auth", "other"}, S!RecordFailure(a, err)
      PROVE  SweepsInv'
  <2>1. PICK s : s = sync[a].refused /\ s \in DOMAIN sync[a].todo /\ s \in Slots
    BY <1>4, Shape DEF S!RecordFailure, SweepsInv
  <2>2. sync[a].todo[s] \in Nat /\ sync[a].todo[s] <= S!Enough
    BY <2>1, Shape, Counts DEF SweepsInv
  <2>3. health[s] \in Health
    BY <2>1 DEF SweepsInv, S!TypeOK, Health
  <2>4. PICK n \in 0..S!Enough : n = S!Min({sync[a].todo[s] + 1, S!Enough})
    BY <2>2, Counts
  <2>5. S!FailurePatch(s, sync[a].todo[s]) = [health[s] EXCEPT !.attempt = 0, !.fails = n]
    BY <2>4 DEF S!FailurePatch
  <2>6. S!FailurePatch(s, sync[a].todo[s]) \in Health /\ S!FailurePatch(s, sync[a].todo[s]).attempt = 0
    BY <1>1, <2>3, <2>5 DEF Health
  <2>7. UNCHANGED <<health, swept>> \/ S!Write(a, s, S!FailurePatch(s, sync[a].todo[s]))
    BY <1>4, <2>1 DEF S!RecordFailure
  <2>8. S!Continue(a, s, err) /\ UNCHANGED <<vendor, linked, pass, due, called, cut, waited, links>>
    BY <1>4, <2>1 DEF S!RecordFailure
  <2> QED BY <2>1, <2>6, <2>7, <2>8, Refresh
<1> QED BY <1>2, <1>3, <1>4

\* The vendor's answer is in, and nothing of it is written yet.
LEMMA RefusedStep ==
  ASSUME S!SweepAssumption, SweepsInv, NEW a \in S!Actors, NEW s \in Slots, S!Refused(a, s)
  PROVE  SweepsInv'
<1>1. s \in DOMAIN sync[a].todo /\ UNCHANGED <<vendor, linked, health, pass, due, streak, called, cut, swept, waited, links>>
  BY DEF S!Refused, S!Left
<1> DEFINE count == IF vendor.by = "class" THEN health[s].fails ELSE sync[a].todo[s]
           next == [sync[a] EXCEPT !.refused = s, !.todo[s] = count]
<1>2. sync' = [sync EXCEPT ![a] = next]
  BY DEF S!Refused
<1>3. S!TypeOK /\ sync[a] \in Syncs /\ count \in 0..S!Enough
  BY <1>1, Shape DEF SweepsInv, S!TypeOK
<1> HIDE DEF count
<1>4. [sync[a].todo EXCEPT ![s] = count] \in S!Todos
  <2>1. PICK rows \in SUBSET Slots : sync[a].todo \in [rows -> 0..S!Enough]
    BY <1>3, Shape
  <2>2. [sync[a].todo EXCEPT ![s] = count] \in [rows -> 0..S!Enough]
    BY <1>3, <2>1
  <2> QED BY <2>2 DEF S!Todos
<1>5. /\ next \in Syncs /\ next.refused = s
      /\ next.todo = [sync[a].todo EXCEPT ![s] = count]
  BY <1>3, <1>4 DEF Syncs
<1>6. DOMAIN next.todo = DOMAIN sync[a].todo
  BY <1>5
<1> HIDE DEF next
<1>7. sync'[a] = next /\ (\A b \in S!Actors \ {a} : sync'[b] = sync[b]) /\ sync' \in [S!Actors -> Syncs]
  BY <1>2, <1>3, <1>5 DEF S!TypeOK, Syncs
<1>8. \A b \in S!Actors : sync'[b].refused \in DOMAIN sync'[b].todo \cup {Never}
  BY <1>1, <1>3, <1>5, <1>6, <1>7 DEF S!TypeOK
<1>9. S!TypeOK'
  BY <1>1, <1>3, <1>7, <1>8 DEF S!TypeOK, Syncs
<1>10. SyncInv'
  <2>1. sync[a] # S!NoSync
    BY <1>1, AtRest
  <2>2. \A b \in S!Actors : DOMAIN sync'[b].todo = DOMAIN sync[b].todo
    BY <1>6, <1>7
  <2>3. sync'[S!Sweep] # S!NoSync => sync[S!Sweep] # S!NoSync
    BY <1>7, <2>1 DEF S!Actors
  <2> QED BY <1>1, <2>2, <2>3 DEF SweepsInv, SyncInv, S!Actors
<1> QED BY <1>1, <1>9, <1>10 DEF SweepsInv, S!Lone, RowInv, SweptInv, DueInv, S!Pace

\* A refresh begins with the user's rows, or there are none and nothing begins.
LEMMA Begun ==
  ASSUME S!SweepAssumption, S!TypeOK, NEW a \in S!Actors, NEW u \in S!Users, S!Begin(a, u)
  PROVE  /\ sync' \in [S!Actors -> Syncs]
         /\ \A b \in S!Actors : sync'[b].refused \in DOMAIN sync'[b].todo \cup {Never}
         /\ \A b \in S!Actors \ {a} : sync'[b] = sync[b]
         /\ \A s \in DOMAIN sync'[a].todo : s[1] = u
         /\ S!RowsOf(u) = {} => sync'[a] = S!NoSync
<1> DEFINE todo == [s \in S!RowsOf(u) |-> health[s].fails]
           next == IF S!RowsOf(u) = {} THEN S!NoSync ELSE [user |-> u, todo |-> todo, refused |-> Never]
<1>1. sync' = [sync EXCEPT ![a] = next]
  BY DEF S!Begin
<1>2. S!RowsOf(u) \in SUBSET Slots /\ \A s \in S!RowsOf(u) : s[1] = u /\ health[s].fails \in 0..S!Enough
  BY DEF S!RowsOf, S!TypeOK
<1>3. todo \in S!Todos /\ DOMAIN todo = S!RowsOf(u)
  BY <1>2 DEF S!Todos
<1> HIDE DEF todo
<1>4. next \in Syncs /\ next.refused = Never /\ (\A s \in DOMAIN next.todo : s[1] = u)
      /\ (S!RowsOf(u) = {} => next = S!NoSync)
  <2>1. CASE S!RowsOf(u) = {}
    BY <2>1, AtRest
  <2>2. CASE S!RowsOf(u) # {}
    BY <1>2, <1>3, <2>2 DEF Syncs
  <2> QED BY <2>1, <2>2
<1> HIDE DEF next
<1> QED BY <1>1, <1>4 DEF S!TypeOK, Syncs

LEMMA PassStep ==
  ASSUME S!SweepAssumption, SweepsInv, S!StartPass \/ S!EndPass \/ \E u \in S!Users : S!CallUser(u)
  PROVE  SweepsInv'
<1>1. UNCHANGED <<vendor, linked, health, swept, links>> /\ S!TypeOK /\ S!Sweep \in S!Actors
  BY DEF S!StartPass, S!EndPass, S!CallUser, SweepsInv, S!Actors
<1>2. S!Lone /\ RowInv /\ SweptInv => S!Lone' /\ RowInv' /\ SweptInv'
  BY <1>1 DEF S!Lone, RowInv, SweptInv
<1>3. CASE S!StartPass
  <2>1. sync' = sync /\ pass' = "on" /\ due' = S!DueUsers /\ streak' = 0 /\ sync[S!Sweep] = S!NoSync
        /\ waited' = [u \in S!Users |-> IF u \notin S!DueUsers THEN S!NotDue
                                       ELSE IF waited[u] = S!NotDue THEN [S!NotDue EXCEPT !.hours = 0] ELSE waited[u]]
    BY <1>3 DEF S!StartPass, SweepsInv, SyncInv
  <2>2. S!DueUsers \subseteq S!Users /\ 0 \in 0..Abort
    BY Sizes DEF S!DueUsers
  <2>6. 0 \in S!Age /\ Never \in S!Age /\ 0 \in Nat
    BY Sizes DEF S!Age
  <2>7. waited' \in [S!Users -> [passes : Nat, hours : S!Age]]
    BY <1>1, <2>1, <2>6 DEF S!TypeOK, S!NotDue
  <2>3. S!TypeOK'
    BY <1>1, <1>3, <2>1, <2>2, <2>7 DEF S!TypeOK, S!StartPass
  <2>4. SyncInv'
    BY <2>1, AtRest DEF SyncInv
  <2>5. ASSUME S!Lone, RowInv, SweptInv
        PROVE  DueInv'
    <3> SUFFICES ASSUME NEW u \in S!DueUsers, swept[u] # Never
                 PROVE  swept[u] > S!Pace
      BY <1>1, <2>1 DEF DueInv, S!Pace
    <3>1. PICK s \in linked : s[1] = u /\ S!RowDue(s)
      BY <2>5 DEF S!DueUsers, S!RowsOf, S!Lone
    <3>2. s \in Slots /\ s[2] = 1 /\ u \in S!Users
      BY <1>1, <2>5, <3>1 DEF RowInv, S!TypeOK, S!Users
    <3>3. health[s].attempt # Never /\ health[s].attempt <= swept[u]
      BY <2>5, <3>1, <3>2 DEF SweptInv
    <3>4. health[s].attempt \in Nat /\ swept[u] \in Nat
      BY <1>1, <3>2, <3>3, Sizes DEF S!TypeOK, S!Age
    <3>5. health[s].attempt > vendor.every \/ health[s].attempt > Broken
      BY <3>1, <3>3 DEF S!RowDue, S!Older
    <3>6. vendor.every \in Nat /\ Broken \in Nat
      BY <1>1, Sizes DEF S!TypeOK, S!Vendors
    <3> QED BY <3>3, <3>4, <3>5, <3>6 DEF S!Pace
  <2> QED BY <1>1, <1>2, <2>3, <2>4, <2>5 DEF SweepsInv, S!Lone
<1>4. CASE S!EndPass
  <2>1. sync' = sync /\ sync[S!Sweep] = S!NoSync /\ pass' = "idle" /\ due' = {} /\ streak' = 0
        /\ waited' = [u \in S!Users |-> IF u \in due THEN [waited[u] EXCEPT !.passes = @ + 1] ELSE waited[u]]
    BY <1>4 DEF S!EndPass
  <2>2. waited' \in [S!Users -> [passes : Nat, hours : S!Age]] /\ 0 \in 0..Abort
    BY <1>1, <2>1, Sizes DEF S!TypeOK
  <2>3. S!TypeOK'
    BY <1>1, <1>4, <2>1, <2>2 DEF S!TypeOK, S!EndPass
  <2> QED BY <1>1, <1>2, <2>1, <2>3 DEF SweepsInv, SyncInv, DueInv, S!Lone
<1>5. ASSUME NEW u \in S!Users, S!CallUser(u)
      PROVE  SweepsInv'
  <2>1. /\ S!Begin(S!Sweep, u) /\ due' = due \ {u} /\ waited' = [waited EXCEPT ![u] = S!NotDue] /\ pass' = pass
        /\ pass = "on" /\ streak < Abort /\ streak' = IF S!RowsOf(u) = {} THEN 0 ELSE streak
    BY <1>5 DEF S!CallUser
  <2>2. /\ sync' \in [S!Actors -> Syncs]
        /\ \A b \in S!Actors : sync'[b].refused \in DOMAIN sync'[b].todo \cup {Never}
        /\ \A s \in DOMAIN sync'[S!Sweep].todo : s[1] = u
    BY <1>1, <2>1, Begun
  <2>3. streak' \in 0..Abort /\ streak' < Abort
    BY <1>1, <2>1, Sizes DEF S!TypeOK
  <2>7. S!NotDue \in [passes : Nat, hours : S!Age]
    BY DEF S!NotDue, S!Age
  <2>8. waited' \in [S!Users -> [passes : Nat, hours : S!Age]]
    BY <1>1, <2>1, <2>7 DEF S!TypeOK
  <2>9. called' \in [S!Users -> S!Age] /\ cut' \subseteq S!Users
    BY <1>1, <1>5, Sizes DEF S!CallUser, S!TypeOK, S!Age
  <2>4. S!TypeOK'
    BY <1>1, <2>1, <2>2, <2>3, <2>8, <2>9 DEF S!TypeOK, Syncs
  <2>5. SyncInv'
    BY <2>1, <2>2, <2>3 DEF SyncInv
  <2>6. S!Lone /\ DueInv => DueInv'
    BY <1>1, <2>1 DEF DueInv, S!Pace
  <2> QED BY <1>1, <1>2, <2>4, <2>5, <2>6 DEF SweepsInv, S!Lone
<1> QED BY <1>3, <1>4, <1>5

LEMMA RouteStep ==
  ASSUME S!SweepAssumption, SweepsInv, NEW a \in Routes, NEW u \in S!Users, S!RouteSync(a, u)
  PROVE  SweepsInv'
<1>1. UNCHANGED <<vendor, linked, health, pass, due, streak, called, cut, swept, waited, links>> /\ S!Begin(a, u) /\ S!TypeOK
  BY DEF S!RouteSync, SweepsInv
<1>2. a \in S!Actors /\ S!Sweep \in S!Actors /\ a # S!Sweep
  BY Sizes DEF S!Actors
<1>3. /\ sync' \in [S!Actors -> Syncs]
      /\ \A b \in S!Actors : sync'[b].refused \in DOMAIN sync'[b].todo \cup {Never}
      /\ sync'[S!Sweep] = sync[S!Sweep]
  BY <1>1, <1>2, Begun
<1>4. S!TypeOK'
  BY <1>1, <1>3 DEF S!TypeOK, Syncs
<1> QED BY <1>1, <1>3, <1>4 DEF SweepsInv, SyncInv, S!Lone, RowInv, SweptInv, DueInv, S!Pace

LEMMA EndedStep ==
  ASSUME S!SweepAssumption, SweepsInv, S!Restart \/ \E a \in S!Actors : S!Unconfigured(a)
  PROVE  SweepsInv'
<1>1. UNCHANGED <<vendor, linked, health, swept, waited, links>> /\ S!TypeOK /\ S!Sweep \in S!Actors
  BY DEF S!Restart, S!Unconfigured, SweepsInv, S!Actors
<1>2. CASE S!Restart
  <2>1. sync' = [a \in S!Actors |-> S!NoSync] /\ pass' = "rung" /\ due' = {} /\ streak' = 0
    BY <1>2 DEF S!Restart
  <2>4. called' = called /\ cut' \subseteq S!Users
    BY <1>1, <1>2 DEF S!Restart, S!TypeOK
  <2>2. S!TypeOK'
    BY <1>1, <2>1, <2>4, AtRest, Sizes DEF S!TypeOK, Syncs
  <2>3. SyncInv'
    BY <1>1, <2>1, AtRest DEF SyncInv
  <2> QED BY <1>1, <2>1, <2>2, <2>3 DEF SweepsInv, S!Lone, RowInv, SweptInv, DueInv
<1>3. ASSUME NEW a \in S!Actors, S!Unconfigured(a)
      PROVE  SweepsInv'
  <2>1. /\ sync' = [sync EXCEPT ![a] = S!NoSync] /\ streak' = streak
        /\ IF a = S!Sweep THEN pass' = "idle" /\ due' = {} ELSE UNCHANGED <<pass, due>>
    BY <1>3 DEF S!Unconfigured
  <2>2. sync'[a] = S!NoSync /\ \A b \in S!Actors \ {a} : sync'[b] = sync[b]
    BY <1>1, <2>1 DEF S!TypeOK
  <2>3. S!TypeOK'
    BY <1>1, <1>3, <2>1, <2>2, AtRest DEF S!TypeOK, Syncs, S!Unconfigured
  <2>4. SyncInv'
    BY <1>1, <2>1, <2>2, AtRest DEF SweepsInv, SyncInv
  <2> QED BY <1>1, <2>1, <2>3, <2>4 DEF SweepsInv, S!Lone, RowInv, SweptInv, DueInv, S!Pace
<1> QED BY <1>2, <1>3

LEMMA LinkStep ==
  ASSUME S!SweepAssumption, SweepsInv, NEW s \in Slots, S!Connect(s) \/ S!Disconnect(s)
  PROVE  SweepsInv'
<1>1. UNCHANGED <<vendor, sync, pass, due, streak, waited>> /\ S!TypeOK /\ s[1] \in S!Users
  BY DEF S!Connect, S!Disconnect, SweepsInv, S!Users
<1>2. SyncInv'
  BY <1>1 DEF SweepsInv, SyncInv
<1>3. CASE S!Connect(s)
  <2>1. /\ s \notin linked /\ (vendor.rows = "many" \/ s[2] = 1) /\ linked' = linked \cup {s} /\ swept' = swept
        /\ links < MaxLinks /\ links' = links + 1
        /\ health' = IF vendor.connect = "verify" THEN [health EXCEPT ![s].synced = 0] ELSE health
    BY <1>3 DEF S!Connect
  <2>2. 0 \in S!Age /\ links' \in 0..MaxLinks
    BY <1>1, <2>1, Sizes DEF S!Age, S!TypeOK
  <2>3. health' \in [Slots -> Health] /\ \A t \in Slots : health'[t].attempt = health[t].attempt
    BY <1>1, <2>1, <2>2 DEF S!TypeOK, Health
  <2>4. S!TypeOK'
    BY <1>1, <1>3, <2>1, <2>2, <2>3 DEF S!TypeOK, Health, S!Connect
  <2>5. S!Lone /\ RowInv /\ SweptInv /\ DueInv => RowInv' /\ SweptInv' /\ DueInv'
    BY <1>1, <2>1, <2>3 DEF S!Lone, RowInv, SweptInv, DueInv, S!Pace
  <2> QED BY <1>1, <1>2, <2>4, <2>5 DEF SweepsInv, S!Lone
<1>4. CASE S!Disconnect(s)
  <2>1. /\ linked' = linked \ {s} /\ swept' = [swept EXCEPT ![s[1]] = Never] /\ links' = links
        /\ health' = IF vendor.by = "class" THEN health ELSE [health EXCEPT ![s] = S!Fresh]
    BY <1>4 DEF S!Disconnect
  <2>2. S!Fresh \in Health /\ Never \in S!Age
    BY Sizes, Counts DEF S!Fresh, Health, S!Age
  <2>7. called' \in [S!Users -> S!Age] /\ cut' = cut
    BY <1>1, <1>4, <2>2 DEF S!Disconnect, S!TypeOK
  <2>3. S!TypeOK'
    BY <1>1, <2>1, <2>2, <2>7 DEF S!TypeOK, Health
  <2>4. swept'[s[1]] = Never /\ \A u \in S!Users \ {s[1]} : swept'[u] = swept[u]
    BY <1>1, <2>1 DEF S!TypeOK
  <2>5. \A t \in Slots \ {s} : health'[t] = health[t]
    BY <1>1, <2>1 DEF S!TypeOK
  <2>6. S!Lone /\ RowInv /\ SweptInv /\ DueInv => RowInv' /\ SweptInv' /\ DueInv'
    <3>1. \A t \in Slots : t[1] \in S!Users
      BY DEF S!Users
    <3>2. due \subseteq S!Users
      BY <1>1 DEF S!TypeOK
    <3>3. SweptInv => SweptInv'
      BY <2>1, <2>4, <2>5, <3>1 DEF SweptInv
    <3>4. DueInv => DueInv'
      BY <1>1, <2>4, <3>2 DEF DueInv, S!Pace
    <3> QED BY <2>1, <3>3, <3>4 DEF RowInv
  <2> QED BY <1>1, <1>2, <2>3, <2>6 DEF SweepsInv, S!Lone
<1> QED BY <1>3, <1>4

\* Ages grow alike up to the bound.
LEMMA Grown ==
  ASSUME S!SweepAssumption
  PROVE  /\ \A g \in S!Age : S!Later(g) \in S!Age /\ (S!Later(g) = Never <=> g = Never)
         /\ \A g \in S!Age \ {Never} : S!Later(g) >= g
         /\ \A g, h \in S!Age \ {Never} : g <= h => S!Later(g) <= S!Later(h)
<1>1. \A g \in 0..MaxAge : /\ g # Never
                           /\ S!Later(g) = IF g + Step < MaxAge THEN g + Step ELSE MaxAge
  BY Sizes DEF S!Later
<1>2. \A g \in 0..MaxAge : S!Later(g) \in 0..MaxAge /\ S!Later(g) >= g
  BY <1>1, Sizes
<1>3. Never \notin 0..MaxAge /\ S!Later(Never) = Never
  BY Sizes DEF S!Later
<1>4. \A g, h \in 0..MaxAge : g <= h => S!Later(g) <= S!Later(h)
  BY <1>1, Sizes
<1> QED BY <1>2, <1>3, <1>4 DEF S!Age

LEMMA TickStep ==
  ASSUME S!SweepAssumption, SweepsInv, S!Tick
  PROVE  SweepsInv'
<1>1. /\ UNCHANGED <<vendor, linked, sync, due, streak, links>> /\ S!TypeOK
      /\ pass # "rung" /\ (pass' = IF pass = "idle" THEN "rung" ELSE pass)
      /\ swept' = [u \in S!Users |-> S!Later(swept[u])]
  BY DEF S!Tick, SweepsInv
<1>2. health' \in [Slots -> Health] /\ swept' \in [S!Users -> S!Age]
  <2>1. \A s \in Slots : health[s].attempt \in S!Age /\ health[s].synced \in S!Age /\ health[s].fails \in 0..S!Enough
    BY <1>1 DEF S!TypeOK
  <2> QED BY <1>1, <2>1, Grown DEF S!Tick, S!TypeOK, Health
<1>6. waited' \in [S!Users -> [passes : Nat, hours : S!Age]]
  BY Grown DEF S!Tick, SweepsInv, S!TypeOK
<1>7. called' \in [S!Users -> S!Age] /\ cut' = cut
  BY <1>1, Grown DEF S!Tick, S!TypeOK
<1>3. S!TypeOK'
  BY <1>1, <1>2, <1>6, <1>7 DEF S!TypeOK, Health
<1>4. SyncInv'
  BY <1>1 DEF SweepsInv, SyncInv, S!TypeOK
<1>5. ASSUME S!Lone, SweptInv, DueInv
      PROVE  SweptInv' /\ DueInv'
  <2>1. \A s \in Slots : /\ health'[s].attempt = S!Later(health[s].attempt) /\ s[1] \in S!Users
                         /\ health[s].attempt \in S!Age
    BY <1>1, <1>5 DEF S!Tick, S!Lone, S!TypeOK, S!Users
  <2>2. \A u \in S!Users : swept'[u] = S!Later(swept[u]) /\ swept[u] \in S!Age
    BY <1>1 DEF S!TypeOK
  <2>3. SweptInv'
    <3> SUFFICES ASSUME NEW s \in Slots, s[2] = 1, swept'[s[1]] # Never
                 PROVE  s \in linked' /\ health'[s].attempt # Never /\ health'[s].attempt <= swept'[s[1]]
      BY DEF SweptInv
    <3> DEFINE tried == health[s].attempt
               since == swept[s[1]]
    <3>1. /\ tried \in S!Age /\ since \in S!Age
          /\ health'[s].attempt = S!Later(tried) /\ swept'[s[1]] = S!Later(since)
      BY <2>1, <2>2
    <3>2. since # Never
      BY <3>1, Grown
    <3>3. s \in linked /\ tried # Never /\ tried <= since
      BY <1>5, <3>2 DEF SweptInv
    <3> HIDE DEF tried, since
    <3>4. tried \in S!Age \ {Never} /\ since \in S!Age \ {Never}
      BY <3>1, <3>2, <3>3
    <3>5. S!Later(tried) <= S!Later(since) /\ S!Later(tried) # Never
      BY <3>3, <3>4, Grown
    <3>6. linked' = linked
      BY <1>1
    <3> QED BY <3>1, <3>3, <3>5, <3>6
  <2>4. DueInv'
    <3> SUFFICES ASSUME NEW u \in due, swept'[u] # Never
                 PROVE  swept'[u] > S!Pace'
      BY <1>1 DEF DueInv
    <3>1. u \in S!Users /\ swept[u] \in S!Age \ {Never} /\ swept'[u] >= swept[u] /\ swept'[u] \in S!Age \ {Never}
      BY <1>1, <2>2, Grown DEF S!TypeOK
    <3>2. swept[u] > S!Pace /\ S!Pace' = S!Pace
      BY <1>1, <1>5, <3>1 DEF DueInv, S!Pace
    <3>3. S!Pace \in Nat
      BY <1>1, Sizes DEF S!Pace, S!TypeOK, S!Vendors
    <3>4. swept[u] \in Nat /\ swept'[u] \in Nat
      BY <3>1, Sizes DEF S!Age
    <3> QED BY <3>1, <3>2, <3>3, <3>4
  <2> QED BY <2>3, <2>4
<1> QED BY <1>1, <1>3, <1>4, <1>5 DEF SweepsInv, S!Lone, RowInv

LEMMA SweepsStep ==
  ASSUME S!SweepAssumption, SweepsInv, [S!Next]_S!vars
  PROVE  SweepsInv'
<1>1. CASE UNCHANGED S!vars
  BY <1>1 DEF S!vars, SweepsInv, S!TypeOK, SyncInv, S!Lone, RowInv, SweptInv, DueInv, S!Pace
<1>2. CASE S!Next
  BY <1>2, PassStep, TickStep, EndedStep, RouteStep, RefreshStep, RefusedStep, LinkStep DEF S!Next
<1> QED BY <1>1, <1>2

LEMMA SweepsStart ==
  ASSUME S!SweepAssumption, S!Init
  PROVE  SweepsInv
<1>1. vendor \in S!Vendors
  <2>1. PICK v \in Sample : vendor = S!Profile[v]
    BY DEF S!Init
  <2> QED BY <2>1, Profiles DEF S!SweepAssumption
<1>2. S!Fresh \in Health /\ Never \in S!Age /\ S!Sweep \in S!Actors
  BY Sizes, Counts DEF S!Fresh, Health, S!Age, S!Actors
<1>3. S!TypeOK
  BY <1>1, <1>2, Sizes, AtRest DEF S!Init, S!TypeOK, Syncs, Health, S!NotDue
<1>4. SyncInv
  BY <1>2, AtRest DEF S!Init, SyncInv
<1>5. RowInv /\ SweptInv /\ DueInv
  <2>1. \A s \in Slots : swept[s[1]] = Never
    BY DEF S!Init, S!Users
  <2> QED BY <2>1 DEF S!Init, RowInv, SweptInv, DueInv
<1> QED BY <1>3, <1>4, <1>5 DEF SweepsInv

-----------------------------------------------------------------------------
(* How long a due user waits                                                *)

\* Only a lone connection's failure, recorded and thrown, adds to the streak.
Stops == vendor.by = "credential" /\ vendor.failure = "stop"
StreakInv == ~Stops => streak = 0 /\ \A u \in S!Users : waited[u].passes = 0

\* The scheduler's refresh of a lone connection is of one row, on which it has not recorded
\* anything within Pace.
Rested(u) == swept[u] = Never \/ swept[u] > S!Pace
FlightInv ==
  S!Lone => \A s \in DOMAIN sync[S!Sweep].todo :
              s[2] = 1 /\ Rested(s[1]) /\ DOMAIN sync[S!Sweep].todo = {s}

\* A wait is timed from the pass that found the user due.
TimedInv == \A u \in S!Users : u \in due \/ waited[u].passes > 0 => waited[u].hours # Never

\* For a user who has waited no longer than Pace: every pass that was given up, and the one that
\* is on, failed for others that were recorded since the wait began or are gone by now.
Others(u) == {s \in linked : s[1] # u}
Within(u, v) == swept[v] # Never /\ swept[v] <= waited[u].hours
Failed(u) == {s \in Others(u) : Within(u, s[1])}
\* The connection that is being refreshed has been cut.
Cut == IF DOMAIN sync[S!Sweep].todo \subseteq linked THEN 0 ELSE 1
Debt(u) == waited[u].passes * Abort + (IF u \in due THEN streak + Cut ELSE 0)
Short(u) == waited[u].hours # Never /\ waited[u].hours <= S!Pace
Repaid(u) == Debt(u) + 1 + Cardinality(Others(u)) <= Cardinality(Failed(u)) + links
DebtInv == S!Lone => \A u \in S!Users : Short(u) => Repaid(u)

LinksInv == IsFiniteSet(linked) /\ Cardinality(linked) <= links

WaitInv == SweepsInv /\ StreakInv /\ FlightInv /\ TimedInv /\ LinksInv /\ DebtInv

-----------------------------------------------------------------------------
LEMMA SomeLinks ==
  ASSUME LinksInv, NEW u
  PROVE  /\ IsFiniteSet(Others(u)) /\ IsFiniteSet(Failed(u))
         /\ Cardinality(linked) \in Nat /\ Cardinality(Others(u)) \in Nat /\ Cardinality(Failed(u)) \in Nat
         /\ Cardinality(Others(u)) <= Cardinality(linked)
<1>1. Others(u) \subseteq linked /\ Failed(u) \subseteq linked
  BY DEF Others, Failed
<1> QED BY <1>1, FS_Subset, FS_CardinalityType DEF LinksInv

LEMMA DebtType ==
  ASSUME S!SweepAssumption, S!TypeOK, NEW u \in S!Users
  PROVE  Debt(u) \in Nat /\ Cut \in {0, 1} /\ waited[u].passes * Abort \in Nat
         /\ waited[u].passes \in Nat /\ waited[u].hours \in S!Age /\ swept[u] \in S!Age
<1>1. waited[u].passes \in Nat /\ Abort \in Nat \ {0} /\ streak \in Nat
  BY Sizes DEF S!TypeOK
<1>2. waited[u].passes * Abort \in Nat
  BY <1>1
<1> QED BY <1>1, <1>2 DEF Debt, Cut, S!TypeOK

LEMMA PaceType ==
  ASSUME S!SweepAssumption, S!TypeOK
  PROVE  S!Pace \in Nat /\ \A g \in S!Age : g # Never => g \in Nat
BY Sizes DEF S!TypeOK, S!Vendors, S!Pace, S!Age

\* No more passes given up, no fewer failures to account for them.
LEMMA Kept ==
  ASSUME S!SweepAssumption, S!TypeOK, S!TypeOK', LinksInv, LinksInv', NEW u \in S!Users, Repaid(u),
         Debt(u)' <= Debt(u), Others(u)' = Others(u), Failed(u) \subseteq Failed(u)', links <= links'
  PROVE  Repaid(u)'
<1>1. PICK before, now : before = Failed(u) /\ now = Failed(u)'
  OBVIOUS
<1>2. IsFiniteSet(now) /\ IsFiniteSet(before)
  <2>1. Failed(u)' \subseteq linked'
    BY DEF Failed, Others
  <2> QED BY <1>1, <2>1, SomeLinks, FS_Subset DEF LinksInv
<1>3. Cardinality(before) <= Cardinality(now) /\ Cardinality(before) \in Nat /\ Cardinality(now) \in Nat
  BY <1>1, <1>2, FS_Subset, FS_CardinalityType
<1>4. Debt(u) \in Nat /\ Debt(u)' \in Nat /\ links \in Nat /\ links' \in Nat
  <2>1. links \in Nat /\ links' \in Nat
    BY Sizes DEF S!TypeOK
  <2>2. Debt(u)' \in Nat
    <3>1. waited'[u].passes \in Nat /\ Abort \in Nat \ {0} /\ streak' \in Nat
      BY Sizes DEF S!TypeOK
    <3>2. waited'[u].passes * Abort \in Nat
      BY <3>1
    <3> QED BY <3>1, <3>2 DEF Debt, Cut
  <2> QED BY <2>1, <2>2, DebtType
<1>5. Cardinality(Others(u)) \in Nat
  BY SomeLinks
<1>6. PICK owed, owes,
         n : owed = Debt(u) /\ owes = Debt(u)' /\ n = Cardinality(Others(u)) /\ n = Cardinality(Others(u)')
  OBVIOUS
<1>7. owed + 1 + n <= Cardinality(before) + links
  BY <1>1, <1>6 DEF Repaid
<1>8. owes + 1 + n <= Cardinality(now) + links'
  BY <1>3, <1>4, <1>5, <1>6, <1>7
<1> QED BY <1>1, <1>6, <1>8 DEF Repaid

LEMMA WaitStart ==
  ASSUME S!SweepAssumption, S!Init
  PROVE  WaitInv
<1>1. SweepsInv
  BY SweepsStart
<1>2. sync[S!Sweep] = S!NoSync /\ linked = {} /\ \A u \in S!Users : waited[u] = S!NotDue
  BY DEF S!Init, S!Actors
<1>3. StreakInv /\ TimedInv
  BY <1>2 DEF S!Init, StreakInv, TimedInv, S!NotDue
<1>4. FlightInv
  BY <1>2, AtRest DEF FlightInv
<1>5. LinksInv
  BY <1>2, FS_EmptySet DEF S!Init, LinksInv
<1>6. DebtInv
  BY <1>2 DEF DebtInv, Short, S!NotDue
<1> QED BY <1>1, <1>3, <1>4, <1>5, <1>6 DEF WaitInv

LEMMA LinksStep ==
  ASSUME S!SweepAssumption, S!TypeOK, LinksInv, [S!Next]_S!vars
  PROVE  LinksInv'
<1>1. ASSUME NEW s \in Slots, S!Connect(s)
      PROVE  LinksInv'
  <2>1. linked' = linked \cup {s} /\ s \notin linked /\ links' = links + 1
    BY <1>1 DEF S!Connect
  <2>2. Cardinality(linked) \in Nat /\ links \in Nat
    BY FS_CardinalityType, Sizes DEF LinksInv, S!TypeOK
  <2> QED BY <2>1, <2>2, FS_AddElement DEF LinksInv
<1>2. ASSUME NEW s \in Slots, S!Disconnect(s)
      PROVE  LinksInv'
  <2>1. linked' = linked \ {s} /\ links' = links
    BY <1>2 DEF S!Disconnect
  <2>2. Cardinality(linked') <= Cardinality(linked) /\ IsFiniteSet(linked')
    BY <2>1, FS_Subset DEF LinksInv
  <2>3. Cardinality(linked) \in Nat /\ Cardinality(linked') \in Nat /\ links \in Nat
    BY <2>2, FS_CardinalityType, Sizes DEF LinksInv, S!TypeOK
  <2> QED BY <2>1, <2>2, <2>3 DEF LinksInv
<1>3. (UNCHANGED <<linked, links>>) => LinksInv'
  BY DEF LinksInv
<1> QED BY <1>1, <1>2, <1>3 DEF S!Next, S!vars, S!StartPass, S!EndPass, S!Tick, S!Restart, S!CallUser,
         S!RouteSync, S!Refreshed,
              S!Skipped, S!Refused, S!RecordFailure, S!Unconfigured

\* What the steps of a refresh have in common.
LEMMA Steps ==
  ASSUME SweepsInv, NEW a \in S!Actors,
         \/ \E s \in Slots : S!Refreshed(a, s) \/ S!Skipped(a, s)
         \/ \E err \in {"auth", "other"} : S!RecordFailure(a, err)
  PROVE  /\ UNCHANGED <<vendor, linked, pass, due, called, cut, waited, links>>
         /\ \E s \in DOMAIN sync[a].todo, err \in {"none", "auth", "other"} :
              /\ S!Continue(a, s, err)
              /\ UNCHANGED <<health, swept>> \/ \E h : S!Write(a, s, h)
              /\ err = "other" => vendor.failure = "silent" \/ \E h : S!Write(a, s, h)
<1>1. ASSUME NEW s \in Slots, S!Refreshed(a, s) \/ S!Skipped(a, s)
      PROVE  /\ UNCHANGED <<vendor, linked, pass, due, called, cut, waited, links>> /\ s \in DOMAIN sync[a].todo
             /\ S!Continue(a, s, "none") /\ (UNCHANGED <<health, swept>> \/ \E h : S!Write(a, s, h))
  BY <1>1 DEF S!Refreshed, S!Skipped, S!Left
<1>2. ASSUME NEW err \in {"auth", "other"}, S!RecordFailure(a, err)
      PROVE  /\ UNCHANGED <<vendor, linked, pass, due, called, cut, waited, links>>
             /\ \E s \in DOMAIN sync[a].todo :
                  /\ S!Continue(a, s, err)
                  /\ UNCHANGED <<health, swept>> \/ \E h : S!Write(a, s, h)
                  /\ vendor.failure = "silent" \/ \E h : S!Write(a, s, h)
  <2>1. PICK s : s = sync[a].refused /\ s \in DOMAIN sync[a].todo
    BY <1>2, Shape DEF S!RecordFailure, SweepsInv
  <2> QED BY <1>2, <2>1 DEF S!RecordFailure
<1> QED BY <1>1, <1>2

\* A refresh that is not the scheduler's leaves the scheduler's alone.
LEMMA Elsewhere ==
  ASSUME S!SweepAssumption, S!TypeOK, NEW a \in Routes, NEW s, NEW err, S!Continue(a, s, err)
  PROVE  sync'[S!Sweep] = sync[S!Sweep] /\ streak' = streak
<1>1. a # S!Sweep /\ S!Sweep \in S!Actors
  BY Sizes DEF S!Actors
<1> QED BY <1>1 DEF S!Continue, S!TypeOK

\* The scheduler's refresh of a lone connection is over with its one row.
LEMMA LoneEnds ==
  ASSUME S!SweepAssumption, S!TypeOK, FlightInv, S!Lone, NEW s \in DOMAIN sync[S!Sweep].todo, NEW err,
           S!Continue(S!Sweep, s, err)
  PROVE  /\ sync'[S!Sweep] = S!NoSync /\ s[2] = 1 /\ Rested(s[1]) /\ DOMAIN sync[S!Sweep].todo = {s}
         /\ streak' = S!NewStreak(IF vendor.failure = "stop" THEN err ELSE "none")
<1>1. DOMAIN sync[S!Sweep].todo = {s} /\ s[2] = 1 /\ Rested(s[1])
  BY DEF FlightInv
<1>2. S!Left(S!Sweep) \ {s} = {}
  BY <1>1 DEF S!Left
<1>3. sync'[S!Sweep] = S!NoSync /\ streak' = S!NewStreak(IF vendor.failure = "stop" THEN err ELSE "none")
  BY <1>2 DEF S!Continue, S!TypeOK, S!Actors
<1> QED BY <1>1, <1>3

\* Whoever records something rests by it.
LEMMA Recorded ==
  ASSUME S!SweepAssumption, S!TypeOK, NEW a \in S!Actors, NEW s \in DOMAIN sync[a].todo, NEW h, S!Write(a, s, h)
  PROVE  /\ s \in Slots /\ s[1] \in S!Users
         /\ \A u \in S!Users : swept'[u] = swept[u] \/ (a = S!Sweep /\ u = s[1] /\ swept'[u] = 0)
         /\ a = S!Sweep /\ S!Lone /\ s \in linked => swept'[s[1]] = 0
<1>1. s \in Slots /\ s[1] \in S!Users
  BY Shape DEF S!Users
<1> QED BY <1>1 DEF S!Write, S!TypeOK

LEMMA StreakStep ==
  ASSUME S!SweepAssumption, SweepsInv, StreakInv, [S!Next]_S!vars
  PROVE  StreakInv'
<1> SUFFICES ASSUME ~Stops'
             PROVE  streak' = 0 /\ \A u \in S!Users : waited'[u].passes = 0
  BY DEF StreakInv
<1>1. vendor' = vendor
  BY DEF S!Next, S!vars, S!StartPass, S!EndPass, S!Tick, S!Restart, S!CallUser, S!RouteSync, S!Refreshed,
           S!Skipped, S!Refused,
         S!RecordFailure, S!Unconfigured, S!Connect, S!Disconnect
<1>2. ~Stops /\ streak = 0 /\ \A u \in S!Users : waited[u].passes = 0
  BY <1>1 DEF Stops, StreakInv
<1>3. S!TypeOK /\ Abort \in Nat \ {0}
  BY Sizes DEF SweepsInv
<1>4. CASE S!StartPass
  BY <1>2, <1>4 DEF S!StartPass, S!NotDue
<1>5. CASE S!EndPass
  <2>1. due = {} /\ streak' = 0
    BY <1>2, <1>3, <1>5 DEF S!EndPass
  <2> QED BY <1>2, <1>5, <2>1 DEF S!EndPass
<1>6. CASE S!Tick
  BY <1>2, <1>3, <1>6 DEF S!Tick, S!TypeOK
<1>7. ASSUME NEW u \in S!Users, S!CallUser(u)
      PROVE  streak' = 0 /\ \A v \in S!Users : waited'[v].passes = 0
  BY <1>2, <1>3, <1>7 DEF S!CallUser, S!TypeOK, S!NotDue
<1>8. ASSUME NEW a \in S!Actors,
             \/ \E s \in Slots : S!Refreshed(a, s) \/ S!Skipped(a, s)
             \/ \E err \in {"auth", "other"} : S!RecordFailure(a, err)
      PROVE  streak' = 0 /\ \A u \in S!Users : waited'[u].passes = 0
  <2>1. waited' = waited
    BY <1>8, Steps
  <2>2. PICK s, err : S!Continue(a, s, err)
    BY <1>8, Steps
  <2>3. streak' = 0
    <3>1. streak' \in {streak, S!NewStreak(IF vendor.failure = "stop" THEN err ELSE "none")}
      BY <2>2 DEF S!Continue
    <3>2. S!NewStreak(IF vendor.failure = "stop" THEN err ELSE "none") \in {0, streak}
      BY <1>2 DEF Stops, S!NewStreak
    <3> QED BY <1>2, <3>1, <3>2
  <2> QED BY <1>2, <2>1, <2>3
<1>9. CASE UNCHANGED <<streak, waited>> \/ S!Restart
  BY <1>2, <1>9 DEF S!Restart
<1>10. CASE S!Next
  BY <1>4, <1>5, <1>6, <1>7, <1>8, <1>9, <1>10 DEF S!Next, S!RouteSync, S!Refused, S!Unconfigured,
           S!Connect, S!Disconnect
<1> QED BY <1>9, <1>10 DEF S!vars

LEMMA TimedStep ==
  ASSUME S!SweepAssumption, SweepsInv, TimedInv, [S!Next]_S!vars
  PROVE  TimedInv'
<1>1. S!TypeOK /\ Never # 0
  BY Sizes DEF SweepsInv
<1>2. CASE S!StartPass
  <2>1. due' = S!DueUsers /\ \A u \in S!Users :
          waited'[u] = IF u \notin S!DueUsers THEN S!NotDue
                       ELSE IF waited[u] = S!NotDue THEN [S!NotDue EXCEPT !.hours = 0] ELSE waited[u]
    BY <1>2 DEF S!StartPass
  <2> SUFFICES ASSUME NEW u \in S!Users, u \in due' \/ waited'[u].passes > 0
               PROVE  waited'[u].hours # Never
    BY DEF TimedInv
  <2>2. u \in S!DueUsers
    BY <2>1 DEF S!NotDue
  <2>3. CASE waited[u] = S!NotDue
    BY <1>1, <2>1, <2>2, <2>3 DEF S!NotDue
  <2>4. CASE waited[u] # S!NotDue
    <3>1. waited[u] \in [passes : Nat, hours : S!Age]
      BY <1>1 DEF S!TypeOK
    <3>2. waited[u].passes > 0 \/ waited[u].hours # Never
      BY <2>4, <3>1 DEF S!NotDue
    <3> QED BY <2>1, <2>2, <2>4, <3>2 DEF TimedInv
  <2> QED BY <2>3, <2>4
<1>3. CASE S!EndPass
  BY <1>1, <1>3 DEF S!EndPass, TimedInv, S!TypeOK
<1>4. ASSUME NEW u \in S!Users, S!CallUser(u)
      PROVE  TimedInv'
  BY <1>1, <1>4 DEF S!CallUser, TimedInv, S!TypeOK, S!NotDue
<1>5. CASE S!Tick
  <2>1. \A u \in S!Users : waited[u].hours \in S!Age /\ waited'[u].passes = waited[u].passes
                           /\ waited'[u].hours \in {waited[u].hours, S!Later(waited[u].hours)}
    BY <1>1, <1>5 DEF S!Tick, S!TypeOK
  <2>2. due' = due
    BY <1>5 DEF S!Tick
  <2> QED BY <2>1, <2>2, Grown DEF TimedInv
<1>6. CASE waited' = waited /\ due' \subseteq due
  BY <1>6 DEF TimedInv
<1>7. CASE S!Next
  <2>1. (waited' = waited /\ due' \subseteq due) \/ S!StartPass \/ S!EndPass \/ S!Tick \/ \E u \in S!Users : S!CallUser(u)
    BY <1>7 DEF S!Next, S!Restart, S!RouteSync, S!Refused, S!Unconfigured, S!Connect, S!Disconnect,
             S!Refreshed, S!Skipped, S!RecordFailure
  <2> QED BY <1>2, <1>3, <1>4, <1>5, <1>6, <2>1
<1> QED BY <1>6, <1>7 DEF S!vars

LEMMA FlightStep ==
  ASSUME S!SweepAssumption, SweepsInv, FlightInv, [S!Next]_S!vars
  PROVE  FlightInv'
<1> SUFFICES ASSUME S!Lone'
             PROVE  \A s \in DOMAIN sync'[S!Sweep].todo : s[2] = 1 /\ Rested(s[1])' /\ DOMAIN sync'[S!Sweep].todo = {s}
  BY DEF FlightInv
<1>1. vendor' = vendor
  BY DEF S!Next, S!vars, S!StartPass, S!EndPass, S!Tick, S!Restart, S!CallUser, S!RouteSync, S!Refreshed,
           S!Skipped, S!Refused,
         S!RecordFailure, S!Unconfigured, S!Connect, S!Disconnect
<1>2. S!Lone /\ S!TypeOK /\ S!Sweep \in S!Actors /\ S!Pace' = S!Pace /\ RowInv /\ DueInv
      /\ \A s \in DOMAIN sync[S!Sweep].todo : s[2] = 1 /\ Rested(s[1]) /\ DOMAIN sync[S!Sweep].todo = {s}
  BY <1>1 DEF S!Lone, SweepsInv, S!Actors, S!Pace, FlightInv
<1>3. \A a \in S!Actors : DOMAIN sync[a].todo \in SUBSET Slots
  BY <1>2, Shape
<1>4. CASE DOMAIN sync'[S!Sweep].todo \subseteq DOMAIN sync[S!Sweep].todo
           /\ \A s \in DOMAIN sync'[S!Sweep].todo : swept'[s[1]] = swept[s[1]] \/ Rested(s[1])'
  <2> TAKE s \in DOMAIN sync'[S!Sweep].todo
  <2>1. s[2] = 1 /\ Rested(s[1]) /\ DOMAIN sync[S!Sweep].todo = {s}
    BY <1>2, <1>4
  <2>2. DOMAIN sync'[S!Sweep].todo = {s}
    BY <1>4, <2>1
  <2>3. Rested(s[1])'
    BY <1>2, <1>4, <2>1 DEF Rested
  <2> QED BY <2>1, <2>2, <2>3
<1>5. ASSUME NEW u \in S!Users, S!CallUser(u)
      PROVE  \A s \in DOMAIN sync'[S!Sweep].todo : s[2] = 1 /\ Rested(s[1])' /\ DOMAIN sync'[S!Sweep].todo = {s}
  <2>1. u \in due /\ swept' = swept /\ linked \subseteq Slots
        /\ sync'[S!Sweep] = IF S!RowsOf(u) = {} THEN S!NoSync
                            ELSE [user |-> u, todo |-> [s \in S!RowsOf(u) |-> health[s].fails],
                                     refused |-> Never]
    BY <1>2, <1>5 DEF S!CallUser, S!Begin, S!TypeOK
  <2>2. Rested(u)'
    BY <1>2, <2>1 DEF DueInv, Rested
  <2>3. DOMAIN sync'[S!Sweep].todo \subseteq S!RowsOf(u) /\ (DOMAIN sync'[S!Sweep].todo # {} => DOMAIN sync'[S!Sweep].todo = S!RowsOf(u))
    BY <2>1, AtRest
  <2>4. \A s, t \in S!RowsOf(u) : s[1] = u /\ s[2] = 1 /\ s = t
    BY <1>2, <2>1, Pairs DEF S!RowsOf, RowInv
  <2> QED BY <2>2, <2>3, <2>4
<1>6. ASSUME NEW a \in S!Actors,
             \/ \E s \in Slots : S!Refreshed(a, s) \/ S!Skipped(a, s)
             \/ \E err \in {"auth", "other"} : S!RecordFailure(a, err)
      PROVE  \A s \in DOMAIN sync'[S!Sweep].todo : s[2] = 1 /\ Rested(s[1])' /\ DOMAIN sync'[S!Sweep].todo = {s}
  <2>1. PICK s \in DOMAIN sync[a].todo, err \in {"none", "auth", "other"} :
          S!Continue(a, s, err) /\ (UNCHANGED <<health, swept>> \/ \E h : S!Write(a, s, h))
    BY <1>6, Steps
  <2>2. CASE a = S!Sweep
    <3>1. sync'[S!Sweep] = S!NoSync
      BY <1>2, <2>1, <2>2, LoneEnds
    <3> QED BY <3>1, AtRest
  <2>3. CASE a # S!Sweep
    <3>1. sync'[S!Sweep] = sync[S!Sweep]
      BY <1>2, <2>1, <2>3, Elsewhere DEF S!Actors
    <3>2. \A u \in S!Users : swept'[u] = swept[u]
      BY <1>2, <2>1, <2>3, Recorded
    <3>3. \A t \in DOMAIN sync'[S!Sweep].todo : t[1] \in S!Users
      BY <1>2, <1>3, <3>1 DEF S!Users
    <3> QED BY <1>4, <3>1, <3>2, <3>3
  <2> QED BY <2>2, <2>3
<1>7. ASSUME NEW a \in S!Actors, NEW s \in Slots, S!Refused(a, s)
      PROVE  \A t \in DOMAIN sync'[S!Sweep].todo : t[2] = 1 /\ Rested(t[1])' /\ DOMAIN sync'[S!Sweep].todo = {t}
  <2>1. DOMAIN sync'[S!Sweep].todo = DOMAIN sync[S!Sweep].todo /\ swept' = swept
    BY <1>2, <1>7 DEF S!Refused, S!TypeOK
  <2> QED BY <1>4, <2>1
<1>8. CASE S!Tick
  <2>1. sync' = sync /\ \A u \in S!Users : swept'[u] = S!Later(swept[u]) /\ swept[u] \in S!Age
    BY <1>2, <1>8 DEF S!Tick, S!TypeOK
  <2>2. \A s \in DOMAIN sync[S!Sweep].todo : s[1] \in S!Users
    BY <1>2, <1>3 DEF S!Users
  <2>3. \A u \in S!Users : Rested(u) => Rested(u)'
    <3> SUFFICES ASSUME NEW u \in S!Users, Rested(u)
                 PROVE  Rested(u)'
      OBVIOUS
    <3>1. CASE swept[u] = Never
      BY <2>1, <3>1, Grown DEF Rested
    <3>2. CASE swept[u] # Never
      <4>1. swept[u] \in Nat /\ swept'[u] \in Nat /\ S!Pace \in Nat /\ swept'[u] >= swept[u]
        BY <1>2, <2>1, <3>2, Grown, PaceType
      <4>2. swept[u] > S!Pace
        BY <3>2 DEF Rested
      <4>3. swept'[u] > S!Pace
        BY <4>1, <4>2
      <4> QED BY <1>2, <4>3 DEF Rested
    <3> QED BY <3>1, <3>2
  <2> QED BY <1>2, <1>4, <2>1, <2>2, <2>3
<1>9. ASSUME NEW s \in Slots, S!Connect(s) \/ S!Disconnect(s)
      PROVE  \A t \in DOMAIN sync'[S!Sweep].todo : t[2] = 1 /\ Rested(t[1])' /\ DOMAIN sync'[S!Sweep].todo = {t}
  <2>1. sync' = sync /\ \A u \in S!Users : swept'[u] \in {swept[u], Never}
    BY <1>2, <1>9 DEF S!Connect, S!Disconnect, S!TypeOK
  <2>2. \A t \in DOMAIN sync[S!Sweep].todo : t[1] \in S!Users
    BY <1>2, <1>3 DEF S!Users
  <2> QED BY <1>4, <2>1, <2>2 DEF Rested
<1>10. ASSUME NEW a \in Routes, NEW u \in S!Users, S!RouteSync(a, u)
       PROVE  \A s \in DOMAIN sync'[S!Sweep].todo : s[2] = 1 /\ Rested(s[1])' /\ DOMAIN sync'[S!Sweep].todo = {s}
  <2>1. a # S!Sweep /\ a \in S!Actors
    BY Sizes DEF S!Actors
  <2>2. sync'[S!Sweep] = sync[S!Sweep] /\ swept' = swept
    BY <1>2, <1>10, <2>1 DEF S!RouteSync, S!Begin, S!TypeOK
  <2> QED BY <1>4, <2>2
<1>11. ASSUME S!Restart \/ \E a \in S!Actors : S!Unconfigured(a)
       PROVE  \A s \in DOMAIN sync'[S!Sweep].todo : s[2] = 1 /\ Rested(s[1])' /\ DOMAIN sync'[S!Sweep].todo = {s}
  <2>1. sync'[S!Sweep] \in {sync[S!Sweep], S!NoSync} /\ swept' = swept
    BY <1>2, <1>11 DEF S!Restart, S!Unconfigured, S!TypeOK
  <2> QED BY <1>4, <2>1, AtRest
<1>12. CASE UNCHANGED <<sync, swept>>
  BY <1>4, <1>12
<1>13. CASE S!Next
  BY <1>5, <1>6, <1>7, <1>8, <1>9, <1>10, <1>11, <1>12, <1>13 DEF S!Next, S!StartPass, S!EndPass
<1> QED BY <1>12, <1>13 DEF S!vars

\* The same counts, one step on.
LEMMA NextCounts ==
  ASSUME S!SweepAssumption, S!TypeOK', LinksInv', NEW u \in S!Users
  PROVE  /\ IsFiniteSet(Others(u)') /\ IsFiniteSet(Failed(u)') /\ Debt(u)' \in Nat /\ links' \in Nat
         /\ Cardinality(Others(u)') \in Nat /\ Cardinality(Failed(u)') \in Nat
<1>1. Others(u)' \subseteq linked' /\ Failed(u)' \subseteq linked'
  BY DEF Others, Failed
<1>2. IsFiniteSet(Others(u)') /\ IsFiniteSet(Failed(u)')
  BY <1>1, FS_Subset DEF LinksInv
<1>3. waited'[u].passes \in Nat /\ Abort \in Nat \ {0} /\ streak' \in Nat /\ links' \in Nat
  BY Sizes DEF S!TypeOK
<1>4. waited'[u].passes * Abort \in Nat
  BY <1>3
<1>5. Debt(u)' \in Nat
  BY <1>3, <1>4 DEF Debt, Cut
<1>6. \A all : IsFiniteSet(all) => Cardinality(all) \in Nat
  BY FS_CardinalityType
<1> QED BY <1>2, <1>3, <1>5, <1>6

\* What a step adds to the debt and to the others it takes from the links and the failed.
LEMMA Balanced ==
  ASSUME S!SweepAssumption, S!TypeOK, S!TypeOK', LinksInv, LinksInv', NEW u \in S!Users, Repaid(u),
         Debt(u)' + Cardinality(Others(u)') + Cardinality(Failed(u)) + links
           <= Debt(u) + Cardinality(Others(u)) + Cardinality(Failed(u)') + links'
  PROVE  Repaid(u)'
<1>1. ASSUME NEW owed \in Nat, NEW owes \in Nat, NEW n \in Nat, NEW m \in Nat, NEW f \in Nat, NEW g \in Nat,
             NEW k \in Nat, NEW l \in Nat, owed + 1 + n <= f + k, owes + m + f + k <= owed + n + g + l
      PROVE  owes + 1 + m <= g + l
  BY <1>1
<1>2. /\ Debt(u) \in Nat /\ Debt(u)' \in Nat /\ Cardinality(Others(u)) \in Nat /\ Cardinality(Others(u)') \in Nat
      /\ Cardinality(Failed(u)) \in Nat /\ Cardinality(Failed(u)') \in Nat /\ links \in Nat /\ links' \in Nat
  BY DebtType, SomeLinks, NextCounts, Sizes DEF S!TypeOK
<1>3. Debt(u)' + 1 + Cardinality(Others(u)') <= Cardinality(Failed(u)') + links'
  BY <1>1, <1>2 DEF Repaid
<1> QED BY <1>3 DEF Repaid

\* Who has failed for a user only changes with the connections and what is recorded on them.
LEMMA Alike ==
  ASSUME S!TypeOK, linked' = linked, NEW u \in S!Users, \A v \in S!Users : swept'[v] = swept[v],
         waited'[u].hours = waited[u].hours, vendor' = vendor
  PROVE  Others(u)' = Others(u) /\ Failed(u)' = Failed(u) /\ (Short(u)' => Short(u))
<1>1. \A s \in linked : s[1] \in S!Users
  BY DEF S!TypeOK, S!Users
<1>2. Others(u)' = Others(u)
  BY DEF Others
<1>3. \A s \in linked : Within(u, s[1])' <=> Within(u, s[1])
  BY <1>1 DEF Within
<1>4. Failed(u)' = Failed(u)
  BY <1>2, <1>3 DEF Failed, Others
<1> QED BY <1>2, <1>4 DEF Short, S!Pace

LEMMA Carried ==
  ASSUME S!SweepAssumption, WaitInv, S!TypeOK', LinksInv', S!Lone, vendor' = vendor, UNCHANGED <<linked,
           links>>,
         NEW u \in S!Users, \A v \in S!Users : swept'[v] = swept[v], waited'[u].hours = waited[u].hours,
         Debt(u)' <= Debt(u), Short(u)'
  PROVE  Repaid(u)'
<1>1. Others(u)' = Others(u) /\ Failed(u)' = Failed(u) /\ Short(u)
  BY Alike DEF WaitInv, SweepsInv
<1>2. Repaid(u)
  BY <1>1 DEF WaitInv, DebtInv
<1>3. links <= links'
  BY Sizes DEF WaitInv, SweepsInv, S!TypeOK
<1> QED BY <1>1, <1>2, <1>3, Kept DEF WaitInv, SweepsInv

LEMMA DebtPass ==
  ASSUME S!SweepAssumption, WaitInv, S!TypeOK', LinksInv', S!Lone, NEW u \in S!Users, Short(u)',
           S!StartPass \/ S!EndPass
  PROVE  Repaid(u)'
<1>1. S!TypeOK /\ waited[u].passes \in Nat /\ Abort \in Nat \ {0} /\ waited[u].passes * Abort \in Nat /\ streak \in Nat
  BY DebtType, Sizes DEF WaitInv, SweepsInv, S!TypeOK
<1>2. CASE S!StartPass
  <2>1. sync'[S!Sweep] = S!NoSync
    BY <1>2 DEF S!StartPass, WaitInv, SweepsInv, SyncInv
  <2>2. streak' = 0 /\ Cut' = 0
    BY <1>2, <2>1, AtRest DEF S!StartPass, Cut
  <2>3. waited'[u] = IF u \notin S!DueUsers THEN S!NotDue
                     ELSE IF waited[u] = S!NotDue THEN [S!NotDue EXCEPT !.hours = 0] ELSE waited[u]
    BY <1>2 DEF S!StartPass
  <2>4. u \in S!DueUsers
    BY <2>3 DEF Short, S!NotDue
  <2>5. CASE waited[u] = S!NotDue
    <3>1. waited'[u].passes = 0
      BY <2>3, <2>4, <2>5 DEF S!NotDue
    <3>2. Debt(u)' = 0
      BY <1>1, <2>2, <3>1 DEF Debt
    <3>3. PICK s \in linked : s[1] = u
      BY <2>4 DEF S!DueUsers, S!RowsOf
    <3>4. s \notin Others(u) /\ Others(u) \cup {s} \subseteq linked
      BY <3>3 DEF Others
    <3>5. Cardinality(Others(u)) + 1 <= Cardinality(linked) /\ Cardinality(linked) <= links
      <4>1. Cardinality(Others(u) \cup {s}) = Cardinality(Others(u)) + 1
        BY <3>4, SomeLinks, FS_AddElement DEF WaitInv
      <4> QED BY <3>4, <4>1, FS_Subset DEF WaitInv, LinksInv
    <3>6. Others(u)' = Others(u) /\ links' = links
      BY <1>2 DEF S!StartPass, Others
    <3>7. PICK n, m, g : n = Cardinality(Others(u)) /\ m = Cardinality(linked) /\ g = Cardinality(Failed(u)')
      OBVIOUS
    <3>8. n \in Nat /\ m \in Nat /\ g \in Nat /\ links \in Nat
      BY <1>1, <3>7, SomeLinks, NextCounts, Sizes DEF WaitInv, S!TypeOK
    <3>9. 0 + 1 + n <= g + links
      BY <3>5, <3>7, <3>8
    <3> QED BY <3>2, <3>6, <3>7, <3>9 DEF Repaid
  <2>6. CASE waited[u] # S!NotDue
    <3>1. waited'[u] = waited[u]
      BY <2>3, <2>4, <2>6
    <3>2. Debt(u)' <= Debt(u)
      BY <1>1, <2>2, <3>1 DEF Debt, Cut
    <3> QED BY <1>2, <3>1, <3>2, Carried DEF S!StartPass
  <2> QED BY <2>5, <2>6
<1>3. CASE S!EndPass
  <2>1. due' = {} /\ (u \in due => streak = Abort)
        /\ waited'[u] = IF u \in due THEN [waited[u] EXCEPT !.passes = @ + 1] ELSE waited[u]
    BY <1>3 DEF S!EndPass
  <2>2. waited[u] \in [passes : Nat, hours : S!Age]
    BY <1>1 DEF S!TypeOK
  <2>3. waited'[u].hours = waited[u].hours /\ waited'[u].passes = IF u \in due THEN waited[u].passes + 1 ELSE waited[u].passes
    BY <2>1, <2>2
  <2>4. Debt(u)' = waited'[u].passes * Abort
    <3>1. waited'[u].passes * Abort \in Nat
      BY <1>1, <2>3
    <3> QED BY <2>1, <3>1 DEF Debt
  <2>5. Cut \in {0, 1}
    BY DEF Cut
  <2>6. Debt(u)' <= Debt(u)
    <3>1. CASE u \in due
      <4>1. (waited[u].passes + 1) * Abort = waited[u].passes * Abort + Abort
        BY <1>1
      <4>2. Debt(u) = waited[u].passes * Abort + (Abort + Cut)
        BY <2>1, <3>1 DEF Debt
      <4>3. Debt(u)' = waited[u].passes * Abort + Abort
        BY <2>3, <2>4, <3>1, <4>1
      <4> HIDE DEF Debt
      <4> QED BY <1>1, <2>5, <4>2, <4>3
    <3>2. CASE u \notin due
      BY <1>1, <2>3, <2>4, <3>2 DEF Debt
    <3> QED BY <3>1, <3>2
  <2> QED BY <1>3, <2>3, <2>6, Carried DEF S!EndPass
<1> QED BY <1>2, <1>3

\* A debt that only shrinks with what it is made of.
LEMMA Shrunk ==
  ASSUME S!SweepAssumption, S!TypeOK, S!TypeOK', NEW u \in S!Users, waited'[u].passes = waited[u].passes,
         u \in due' => u \in due /\ streak' <= streak /\ Cut' <= Cut
  PROVE  Debt(u)' <= Debt(u)
<1>1. waited[u].passes * Abort \in Nat /\ streak \in Nat /\ streak' \in Nat /\ Cut \in {0, 1} /\ Cut' \in {0, 1}
  BY DebtType, Sizes DEF S!TypeOK, Cut
<1>2. PICK owed : owed = waited[u].passes * Abort
  OBVIOUS
<1>3. PICK lost, loses : lost = Cut /\ loses = Cut'
  OBVIOUS
<1>4. Debt(u) = owed + (IF u \in due THEN streak + lost ELSE 0)
      /\ Debt(u)' = owed + (IF u \in due' THEN streak' + loses ELSE 0)
  BY <1>2, <1>3 DEF Debt
<1> QED BY <1>1, <1>2, <1>3, <1>4

LEMMA DebtCalls ==
  ASSUME S!SweepAssumption, WaitInv, S!TypeOK', LinksInv', S!Lone, NEW u \in S!Users, Short(u)',
         \/ \E v \in S!Users : S!CallUser(v) \/ \E a \in Routes : S!RouteSync(a, v)
         \/ \E a \in S!Actors : S!Unconfigured(a) \/ \E s \in Slots : S!Refused(a, s)
         \/ S!Restart
  PROVE  Repaid(u)'
<1>1. S!TypeOK /\ linked \subseteq Slots /\ sync \in [S!Actors -> Syncs] /\ S!Sweep \in S!Actors /\ streak \in Nat
  BY Sizes DEF WaitInv, SweepsInv, S!TypeOK, Syncs, S!Actors
<1>2. ASSUME NEW v \in S!Users, S!CallUser(v)
      PROVE  Repaid(u)'
  <2>1. waited'[u] = IF u = v THEN S!NotDue ELSE waited[u]
    BY <1>1, <1>2 DEF S!CallUser, S!TypeOK
  <2>2. u # v /\ waited'[u] = waited[u]
    BY <2>1 DEF Short, S!NotDue
  <2>3. DOMAIN sync'[S!Sweep].todo \subseteq S!RowsOf(v)
    BY <1>1, <1>2, AtRest DEF S!CallUser, S!Begin
  <2>4. Cut' = 0
    BY <1>2, <2>3 DEF Cut, S!RowsOf, S!CallUser
  <2>5. streak' <= streak /\ (u \in due' => u \in due)
    BY <1>1, <1>2 DEF S!CallUser
  <2>6. Debt(u)' <= Debt(u)
    BY <1>1, <2>2, <2>4, <2>5, Shrunk DEF Cut
  <2> QED BY <1>2, <2>2, <2>6, Carried DEF S!CallUser
<1>3. ASSUME UNCHANGED <<vendor, linked, links, swept, waited>>, streak' <= streak, u \in due' => u \in due,
             u \in due' => DOMAIN sync'[S!Sweep].todo \subseteq DOMAIN sync[S!Sweep].todo
      PROVE  Repaid(u)'
  <2>1. Debt(u)' <= Debt(u)
    BY <1>1, <1>3, Shrunk DEF Cut
  <2> QED BY <1>3, <2>1, Carried
<1>4. ASSUME NEW a \in Routes, NEW v \in S!Users, S!RouteSync(a, v)
      PROVE  Repaid(u)'
  <2>1. sync'[S!Sweep] = sync[S!Sweep]
    BY <1>1, <1>4, Sizes DEF S!RouteSync, S!Begin, S!Actors
  <2> QED BY <1>1, <1>3, <1>4, <2>1 DEF S!RouteSync
<1>5. ASSUME NEW a \in S!Actors, S!Unconfigured(a)
      PROVE  Repaid(u)'
  <2>1. u \in due' => u \in due /\ sync'[S!Sweep] = sync[S!Sweep]
    BY <1>1, <1>5 DEF S!Unconfigured
  <2> QED BY <1>1, <1>3, <1>5, <2>1 DEF S!Unconfigured
<1>6. ASSUME NEW a \in S!Actors, NEW s \in Slots, S!Refused(a, s)
      PROVE  Repaid(u)'
  <2>1. DOMAIN sync'[S!Sweep].todo = DOMAIN sync[S!Sweep].todo
    BY <1>1, <1>6 DEF S!Refused, Syncs
  <2> QED BY <1>1, <1>3, <1>6, <2>1 DEF S!Refused
<1>7. CASE S!Restart
  BY <1>1, <1>3, <1>7 DEF S!Restart
<1> QED BY <1>2, <1>4, <1>5, <1>6, <1>7

\* The scheduler's refresh of a lone connection ends: a failure is one more in the streak, and is
\* recorded, or the connection is gone and was counted as cut.
LEMMA DebtSweep ==
  ASSUME S!SweepAssumption, WaitInv, S!TypeOK', LinksInv', S!Lone, NEW u \in S!Users, Short(u)',
         \/ \E s \in Slots : S!Refreshed(S!Sweep, s) \/ S!Skipped(S!Sweep, s)
         \/ \E err \in {"auth", "other"} : S!RecordFailure(S!Sweep, err)
  PROVE  Repaid(u)'
<1>1. SweepsInv /\ S!TypeOK /\ FlightInv /\ LinksInv /\ S!Sweep \in S!Actors /\ linked \subseteq Slots
      /\ \A s \in DOMAIN sync[S!Sweep].todo : s[1] \notin due
  BY DEF WaitInv, SweepsInv, SyncInv, S!Actors, S!TypeOK
<1>2. UNCHANGED <<vendor, linked, pass, due, called, cut, waited, links>>
  BY <1>1, Steps
<1>3. PICK s \in DOMAIN sync[S!Sweep].todo, err \in {"none", "auth", "other"} :
        /\ S!Continue(S!Sweep, s, err)
        /\ UNCHANGED <<health, swept>> \/ \E h : S!Write(S!Sweep, s, h)
        /\ err = "other" => vendor.failure = "silent" \/ \E h : S!Write(S!Sweep, s, h)
  BY <1>1, Steps
<1>4. /\ sync'[S!Sweep] = S!NoSync /\ s[2] = 1 /\ Rested(s[1]) /\ DOMAIN sync[S!Sweep].todo = {s}
      /\ streak' = S!NewStreak(IF vendor.failure = "stop" THEN err ELSE "none")
  BY <1>1, <1>3, LoneEnds
<1>5. \A v \in S!Users : swept'[v] = swept[v] \/ (v = s[1] /\ swept'[v] = 0)
  BY <1>1, <1>3, Recorded
<1>6. Short(u) /\ Repaid(u) /\ waited[u].hours \in Nat /\ waited'[u].hours = waited[u].hours
  <2>1. Short(u)
    BY <1>2 DEF Short, S!Pace
  <2> QED BY <1>1, <1>2, <2>1, DebtType, Sizes DEF WaitInv, DebtInv, Short, S!Age
<1>7. Others(u)' = Others(u) /\ Failed(u) \subseteq Failed(u)'
  <2>1. Others(u)' = Others(u)
    BY <1>2 DEF Others
  <2>2. \A t \in linked : t[1] \in S!Users
    BY <1>1 DEF S!Users
  <2>3. \A t \in linked : Within(u, t[1]) => Within(u, t[1])'
    BY <1>1, <1>2, <1>5, <1>6, <2>2, Sizes DEF Within
  <2> QED BY <2>1, <2>3 DEF Failed, Others
<1>8. Cut' = 0
  BY <1>4, AtRest DEF Cut
<1>9. links \in Nat /\ streak \in Nat /\ streak' \in Nat
  BY <1>1, Sizes DEF S!TypeOK
<1>10. CASE u \in due => streak' <= streak
  <2>1. Debt(u)' <= Debt(u)
    BY <1>1, <1>2, <1>8, <1>10, Shrunk DEF Cut
  <2> QED BY <1>1, <1>2, <1>6, <1>7, <1>9, <2>1, Kept
<1>11. CASE u \in due /\ streak' > streak
  <2>1. vendor.by = "credential" /\ vendor.failure = "stop" /\ err = "other" /\ streak' = streak + 1
    BY <1>4, <1>9, <1>11 DEF S!NewStreak
  <2>2. PICK owed : owed = waited[u].passes * Abort /\ owed = waited'[u].passes * Abort /\ owed \in Nat
    BY <1>1, <1>2, DebtType
  <2>3. Debt(u)' = owed + (streak + 1) /\ Debt(u) = owed + (streak + Cut)
    BY <1>2, <1>8, <1>9, <1>11, <2>1, <2>2 DEF Debt
  <2>4. CASE s \notin linked
    <3>1. Cut = 1
      BY <1>4, <2>4 DEF Cut
    <3>2. Debt(u)' <= Debt(u)
      BY <1>9, <2>2, <2>3, <3>1
    <3> QED BY <1>1, <1>2, <1>6, <1>7, <1>9, <3>2, Kept
  <2>5. CASE s \in linked
    <3>1. s[1] # u /\ s[1] \in S!Users
      BY <1>1, <1>3, <1>11, <2>5 DEF S!Users
    <3>2. swept'[s[1]] = 0
      BY <1>1, <1>3, <2>1, <2>5, Recorded
    <3>3. s \in Failed(u)'
      BY <1>2, <1>6, <2>5, <3>1, <3>2, Sizes DEF Failed, Others, Within
    <3>4. s \notin Failed(u)
      <4>1. swept[s[1]] = Never \/ swept[s[1]] \in Nat
        BY <1>1, <3>1, DebtType DEF S!Age
      <4>2. S!Pace \in Nat
        BY <1>1, PaceType
      <4> QED BY <1>4, <1>6, <4>1, <4>2 DEF Failed, Within, Rested, Short
    <3>5. Cut = 0
      BY <1>4, <2>5 DEF Cut
    <3>6. Cardinality(Failed(u)) + 1 <= Cardinality(Failed(u)')
      <4>1. PICK before, now : before = Failed(u) /\ now = Failed(u)'
        OBVIOUS
      <4>2. IsFiniteSet(before) /\ IsFiniteSet(now) /\ before \cup {s} \subseteq now /\ s \notin before
        BY <1>1, <1>7, <3>3, <3>4, <4>1, SomeLinks, NextCounts
      <4>3. Cardinality(before \cup {s}) = Cardinality(before) + 1
        BY <4>2, FS_AddElement
      <4> QED BY <4>1, <4>2, <4>3, FS_Subset
    <3>7. ASSUME NEW n \in Nat, NEW f \in Nat, NEW g \in Nat, f + 1 <= g
          PROVE  (owed + (streak + 1)) + n + f + links <= (owed + (streak + 0)) + n + g + links
      BY <1>9, <2>2, <3>7
    <3>8. /\ Cardinality(Others(u)) \in Nat /\ Cardinality(Failed(u)) \in Nat /\ Cardinality(Failed(u)') \in Nat
      BY <1>1, SomeLinks, NextCounts
    <3>9. Debt(u)' + Cardinality(Others(u)') + Cardinality(Failed(u)) + links
           <= Debt(u) + Cardinality(Others(u)) + Cardinality(Failed(u)') + links'
      BY <1>2, <1>7, <2>3, <3>5, <3>6, <3>7, <3>8
    <3> QED BY <1>1, <1>6, <3>9, Balanced
  <2> QED BY <2>4, <2>5
<1> QED BY <1>9, <1>10, <1>11

LEMMA DebtRoute ==
  ASSUME S!SweepAssumption, WaitInv, S!TypeOK', LinksInv', S!Lone, NEW u \in S!Users, Short(u)',
           NEW a \in Routes,
         \/ \E s \in Slots : S!Refreshed(a, s) \/ S!Skipped(a, s)
         \/ \E err \in {"auth", "other"} : S!RecordFailure(a, err)
  PROVE  Repaid(u)'
<1>1. SweepsInv /\ S!TypeOK /\ a \in S!Actors /\ a # S!Sweep /\ streak \in Nat
  BY Sizes DEF WaitInv, SweepsInv, S!Actors, S!TypeOK
<1>2. PICK s \in DOMAIN sync[a].todo, err \in {"none", "auth", "other"} :
        S!Continue(a, s, err) /\ (UNCHANGED <<health, swept>> \/ \E h : S!Write(a, s, h))
  BY <1>1, Steps
<1>3. UNCHANGED <<vendor, linked, pass, due, called, cut, waited, links>>
  BY <1>1, Steps
<1>4. sync'[S!Sweep] = sync[S!Sweep] /\ streak' = streak
  BY <1>1, <1>2, Elsewhere
<1>5. \A v \in S!Users : swept'[v] = swept[v]
  BY <1>1, <1>2, Recorded
<1>6. Debt(u)' <= Debt(u)
  BY <1>1, <1>3, <1>4, Shrunk DEF Cut
<1> QED BY <1>3, <1>5, <1>6, Carried

LEMMA DebtConnect ==
  ASSUME S!SweepAssumption, WaitInv, S!TypeOK', LinksInv', S!Lone, NEW u \in S!Users, Short(u)',
         NEW s \in Slots, S!Connect(s)
  PROVE  Repaid(u)'
<1>1. /\ SweepsInv /\ S!TypeOK /\ LinksInv /\ links \in Nat /\ streak \in Nat
      /\ linked' = linked \cup {s} /\ s \notin linked /\ links' = links + 1
      /\ UNCHANGED <<vendor, sync, pass, due, streak, swept, waited>>
  BY Sizes DEF WaitInv, SweepsInv, S!TypeOK, S!Connect
<1>2. Short(u) /\ Repaid(u)
  BY <1>1 DEF Short, S!Pace, WaitInv, DebtInv
<1>3. Debt(u)' <= Debt(u)
  BY <1>1, Shrunk DEF Cut
<1>4. Others(u)' = (IF s[1] = u THEN Others(u) ELSE Others(u) \cup {s}) /\ s \notin Others(u)
  BY <1>1 DEF Others
<1>5. Failed(u) \subseteq Failed(u)'
  BY <1>1, <1>4 DEF Failed, Within, Others
<1>6. CASE s[1] = u
  BY <1>1, <1>2, <1>3, <1>4, <1>5, <1>6, Kept
<1>7. CASE s[1] # u
  <2>1. Cardinality(Others(u)') = Cardinality(Others(u)) + 1
    BY <1>1, <1>4, <1>7, SomeLinks, FS_AddElement
  <2>2. Cardinality(Failed(u)) <= Cardinality(Failed(u)')
    BY <1>5, NextCounts, FS_Subset
  <2>3. /\ Cardinality(Others(u)) \in Nat /\ Cardinality(Failed(u)) \in Nat /\ Cardinality(Failed(u)') \in Nat
        /\ Debt(u) \in Nat /\ Debt(u)' \in Nat
    BY <1>1, SomeLinks, NextCounts, DebtType
  <2>4. ASSUME NEW owed \in Nat, NEW owes \in Nat, NEW n \in Nat, NEW f \in Nat, NEW g \in Nat,
           owes <= owed, f <= g
        PROVE  owes + (n + 1) + f + links <= owed + n + g + (links + 1)
    BY <1>1, <2>4
  <2>5. Debt(u)' + Cardinality(Others(u)') + Cardinality(Failed(u)) + links
           <= Debt(u) + Cardinality(Others(u)) + Cardinality(Failed(u)') + links'
    BY <1>1, <1>3, <2>1, <2>2, <2>3, <2>4
  <2> QED BY <1>1, <1>2, <2>5, Balanced
<1> QED BY <1>6, <1>7

\* A connection that is cut takes its failure with it, or it had none and may be in flight.
LEMMA DebtDisconnect ==
  ASSUME S!SweepAssumption, WaitInv, S!TypeOK', LinksInv', S!Lone, NEW u \in S!Users, Short(u)',
         NEW s \in Slots, S!Disconnect(s)
  PROVE  Repaid(u)'
<1>1. /\ SweepsInv /\ S!TypeOK /\ LinksInv /\ RowInv /\ FlightInv /\ links \in Nat /\ streak \in Nat /\ linked \subseteq Slots
      /\ linked' = linked \ {s} /\ s \in linked /\ links' = links /\ s[1] \in S!Users
      /\ UNCHANGED <<vendor, sync, pass, due, streak, waited>>
      /\ swept' = [swept EXCEPT ![s[1]] = Never]
      /\ \A t \in DOMAIN sync[S!Sweep].todo : t[1] \notin due
  BY Sizes DEF WaitInv, SweepsInv, SyncInv, S!TypeOK, S!Disconnect, S!Users
<1>2. Short(u) /\ Repaid(u)
  BY <1>1 DEF Short, S!Pace, WaitInv, DebtInv
<1>3. \A t \in linked : t # s => t[1] # s[1] /\ t[1] \in S!Users
  BY <1>1, Pairs DEF RowInv, S!Users
<1>4. Others(u)' = Others(u) \ {s} /\ Failed(u) \ {s} \subseteq Failed(u)'
  <2>1. Others(u)' = Others(u) \ {s}
    BY <1>1 DEF Others
  <2>2. \A t \in linked \ {s} : swept'[t[1]] = swept[t[1]]
    BY <1>1, <1>3 DEF S!TypeOK
  <2>3. \A t \in linked \ {s} : Within(u, t[1]) => Within(u, t[1])'
    BY <1>1, <2>2 DEF Within
  <2> QED BY <2>1, <2>3 DEF Failed, Others
<1>5. s \notin DOMAIN sync[S!Sweep].todo => Debt(u)' <= Debt(u)
  BY <1>1, Shrunk DEF Cut
<1>6. s[1] = u => Debt(u)' <= Debt(u)
  <2>1. CASE s \in DOMAIN sync[S!Sweep].todo /\ s[1] = u
    BY <1>1, <2>1, Shrunk
  <2> QED BY <1>5, <2>1
<1>7. s \in Failed(u) => s \notin DOMAIN sync[S!Sweep].todo
  <2>1. swept[s[1]] = Never \/ swept[s[1]] \in Nat
    BY <1>1, DebtType DEF S!Age
  <2>2. S!Pace \in Nat /\ (waited[u].hours = Never \/ waited[u].hours \in Nat)
    BY <1>1, PaceType, DebtType DEF S!Age
  <2> QED BY <1>1, <1>2, <2>1, <2>2 DEF FlightInv, Failed, Within, Rested, Short
<1>8. /\ Cardinality(Others(u)) \in Nat /\ Cardinality(Failed(u)) \in Nat /\ Cardinality(Failed(u)') \in Nat
      /\ Debt(u) \in Nat /\ Debt(u)' \in Nat /\ IsFiniteSet(Others(u)) /\ IsFiniteSet(Failed(u)) /\ IsFiniteSet(Failed(u)')
  BY <1>1, SomeLinks, NextCounts, DebtType
<1>9. CASE s[1] = u
  <2>1. s \notin Others(u) /\ s \notin Failed(u)
    BY <1>9 DEF Failed, Others
  <2>2. Others(u)' = Others(u) /\ Failed(u) \subseteq Failed(u)'
    BY <1>4, <2>1
  <2> QED BY <1>1, <1>2, <1>6, <1>9, <2>2, Kept
<1>10. CASE s[1] # u
  <2>1. s \in Others(u)
    BY <1>1, <1>10 DEF Others
  <2>2. Cardinality(Others(u)') = Cardinality(Others(u)) - 1
    BY <1>4, <1>8, <2>1, FS_RemoveElement
  <2>3. CASE s \in Failed(u)
    <3>1. Cardinality(Failed(u) \ {s}) = Cardinality(Failed(u)) - 1
      BY <1>8, <2>3, FS_RemoveElement
    <3>2. Cardinality(Failed(u)) - 1 <= Cardinality(Failed(u)')
      BY <1>4, <1>8, <3>1, FS_Subset
    <3>3. ASSUME NEW owed \in Nat, NEW owes \in Nat, NEW n \in Nat, NEW f \in Nat, NEW g \in Nat,
             owes <= owed, f - 1 <= g
          PROVE  owes + (n - 1) + f + links <= owed + n + g + links
      BY <1>1, <3>3
    <3>4. Debt(u)' + Cardinality(Others(u)') + Cardinality(Failed(u)) + links
             <= Debt(u) + Cardinality(Others(u)) + Cardinality(Failed(u)') + links'
      BY <1>1, <1>5, <1>7, <1>8, <2>2, <2>3, <3>2, <3>3
    <3> QED BY <1>1, <1>2, <3>4, Balanced
  <2>4. CASE s \notin Failed(u)
    <3>1. Cardinality(Failed(u)) <= Cardinality(Failed(u)')
      <4>1. Failed(u) \subseteq Failed(u)'
        BY <1>4, <2>4
      <4> QED BY <1>8, <4>1, FS_Subset
    <3>2. Debt(u)' <= Debt(u) + 1
      <4>1. PICK owed : owed = waited[u].passes * Abort /\ owed = waited'[u].passes * Abort /\ owed \in Nat
        BY <1>1, DebtType
      <4>2. PICK lost \in {0, 1}, loses \in {0, 1} : lost = Cut /\ loses = Cut'
        BY DEF Cut
      <4>3. Debt(u) = owed + (IF u \in due THEN streak + lost ELSE 0)
            /\ Debt(u)' = owed + (IF u \in due THEN streak + loses ELSE 0)
        BY <1>1, <4>1, <4>2 DEF Debt
      <4> QED BY <1>1, <4>1, <4>2, <4>3
    <3>3. ASSUME NEW owed \in Nat, NEW owes \in Nat, NEW n \in Nat, NEW f \in Nat, NEW g \in Nat,
             owes <= owed + 1, f <= g
          PROVE  owes + (n - 1) + f + links <= owed + n + g + links
      BY <1>1, <3>3
    <3>4. Debt(u)' + Cardinality(Others(u)') + Cardinality(Failed(u)) + links
             <= Debt(u) + Cardinality(Others(u)) + Cardinality(Failed(u)') + links'
      BY <1>1, <1>8, <2>2, <3>1, <3>2, <3>3
    <3> QED BY <1>1, <1>2, <3>4, Balanced
  <2> QED BY <2>3, <2>4
<1> QED BY <1>9, <1>10

LEMMA DebtTick ==
  ASSUME S!SweepAssumption, WaitInv, S!TypeOK', LinksInv', S!Lone, NEW u \in S!Users, Short(u)', S!Tick
  PROVE  Repaid(u)'
<1>1. /\ S!TypeOK /\ LinksInv /\ links \in Nat /\ streak \in Nat /\ linked \subseteq Slots
      /\ UNCHANGED <<vendor, linked, sync, due, streak, links>>
      /\ \A v \in S!Users : swept'[v] = S!Later(swept[v]) /\ swept[v] \in S!Age
  BY Sizes DEF WaitInv, SweepsInv, S!TypeOK, S!Tick
<1>2. waited'[u].passes = waited[u].passes /\ waited'[u].hours = S!Later(waited[u].hours) /\ waited[u].hours \in S!Age
  <2>1. waited[u] \in [passes : Nat, hours : S!Age]
    BY <1>1 DEF S!TypeOK
  <2>2. waited'[u] = [waited[u] EXCEPT !.hours = IF S!Lone THEN S!Later(@) ELSE @]
    BY DEF S!Tick
  <2> QED BY <2>1, <2>2
<1>3. S!Pace \in Nat /\ S!Pace' = S!Pace
  BY <1>1, PaceType DEF S!Pace
<1>4. waited[u].hours # Never /\ waited[u].hours \in Nat /\ waited'[u].hours \in Nat
      /\ waited[u].hours <= waited'[u].hours /\ waited'[u].hours <= S!Pace
  <2>1. waited'[u].hours # Never /\ waited'[u].hours <= S!Pace
    BY <1>3 DEF Short
  <2>2. waited[u].hours # Never /\ waited'[u].hours \in S!Age /\ waited[u].hours <= waited'[u].hours
    BY <1>2, <2>1, Grown
  <2> QED BY <1>2, <2>1, <2>2, Sizes DEF S!Age
<1>5. Short(u)
  BY <1>3, <1>4 DEF Short
<1>6. Repaid(u)
  BY <1>5 DEF WaitInv, DebtInv
<1>7. Others(u)' = Others(u)
  BY <1>1 DEF Others
<1>8. \A v \in S!Users : Within(u, v) => Within(u, v)'
  BY <1>1, <1>2, <1>4, Grown DEF Within
<1>9. Failed(u) \subseteq Failed(u)'
  BY <1>1, <1>7, <1>8 DEF Failed, Others, S!Users
<1>10. Debt(u)' <= Debt(u)
  BY <1>1, <1>2, Shrunk DEF Cut
<1> QED BY <1>1, <1>6, <1>7, <1>9, <1>10, Kept

LEMMA DebtStep ==
  ASSUME S!SweepAssumption, WaitInv, S!TypeOK', LinksInv', [S!Next]_S!vars
  PROVE  DebtInv'
<1> SUFFICES ASSUME S!Lone', NEW u \in S!Users, Short(u)'
             PROVE  Repaid(u)'
  BY DEF DebtInv
<1>1. S!Lone
  BY DEF S!Lone, S!Next, S!vars, S!StartPass, S!EndPass, S!Tick, S!Restart, S!CallUser, S!RouteSync,
           S!Refreshed, S!Skipped, S!Refused,
         S!RecordFailure, S!Unconfigured, S!Connect, S!Disconnect
<1>2. ASSUME NEW a \in S!Actors, (\E s \in Slots : S!Refreshed(a, s) \/ S!Skipped(a, s))
                                 \/ \E err \in {"auth", "other"} : S!RecordFailure(a, err)
      PROVE  Repaid(u)'
  BY <1>1, <1>2, DebtSweep, DebtRoute DEF S!Actors
<1>3. CASE UNCHANGED S!vars
  <2>1. S!TypeOK /\ streak \in Nat
    BY Sizes DEF WaitInv, SweepsInv, S!TypeOK
  <2>2. UNCHANGED <<vendor, linked, sync, due, streak, swept, waited, links>>
    BY <1>3 DEF S!vars
  <2>3. Debt(u)' <= Debt(u)
    BY <2>1, <2>2, Shrunk DEF Cut
  <2> QED BY <1>1, <2>2, <2>3, Carried
<1>4. CASE S!Next
  BY <1>1, <1>2, <1>4, DebtPass, DebtCalls, DebtConnect, DebtDisconnect, DebtTick DEF S!Next
<1> QED BY <1>3, <1>4

LEMMA WaitStep ==
  ASSUME S!SweepAssumption, WaitInv, [S!Next]_S!vars
  PROVE  WaitInv'
<1>1. SweepsInv' /\ S!TypeOK' /\ S!TypeOK
  BY SweepsStep DEF WaitInv, SweepsInv
<1>2. LinksInv'
  BY <1>1, LinksStep DEF WaitInv
<1> QED BY <1>1, <1>2, StreakStep, FlightStep, TimedStep, DebtStep DEF WaitInv

-----------------------------------------------------------------------------
(* How far apart the scheduler's calls are                                  *)

\* Every call of a lone connection that no restart ended is under way on a row that exists, or is
\* recorded on it: such a vendor stops at a failure, leaves no row out and needs no key of ours.
Owned == \A s \in DOMAIN sync[S!Sweep].todo : s[1] = sync[S!Sweep].user
InFlight(u) == \E s \in DOMAIN sync[S!Sweep].todo \cap linked : s[1] = u
Accounted(u) ==
  called[u] # Never /\ u \notin cut => InFlight(u) \/ (swept[u] # Never /\ swept[u] <= called[u])
CallInv ==
  S!Lone => /\ vendor.failure = "stop" /\ ~vendor.skips /\ ~vendor.keyed
            /\ Owned /\ \A u \in S!Users : Accounted(u)

LEMMA Records ==
  ASSUME NEW v \in DOMAIN S!Profile, S!Profile[v].by = "credential", S!Profile[v].rows = "one"
  PROVE  S!Profile[v].failure = "stop" /\ ~S!Profile[v].skips /\ ~S!Profile[v].keyed
<1> DEFINE Good(p) == p.by = "credential" /\ p.rows = "one" => p.failure = "stop" /\ ~p.skips /\ ~p.keyed
<1> USE DEF S!Credential, S!Holdings, S!Class
<1>1. Good(S!kraken) /\ Good(S!alpaca) /\ Good(S!kalshi) /\ Good(S!truelayer)
  BY DEF S!kraken, S!alpaca, S!kalshi, S!truelayer
<1>2. Good(S!ynab) /\ Good(S!discogs) /\ Good(S!hyperliquid) /\ Good(S!polymarket)
  BY DEF S!ynab, S!discogs, S!hyperliquid, S!polymarket
<1>3. Good(S!chain_wallets) /\ Good(S!nft) /\ Good(S!metals) /\ Good(S!energy)
  BY DEF S!chain_wallets, S!nft, S!metals, S!energy
<1>4. Good(S!farmland) /\ Good(S!sneakers) /\ Good(S!coins) /\ Good(S!trading_cards)
  BY DEF S!farmland, S!sneakers, S!coins, S!trading_cards
<1>5. Good(S!pokemon_cards) /\ Good(S!crypto) /\ Good(S!defi) /\ Good(S!debts)
  BY DEF S!pokemon_cards, S!crypto, S!defi, S!debts
<1>6. Good(S!investments) /\ Good(S!realEstate) /\ Good(S!vehicles)
  BY DEF S!investments, S!realEstate, S!vehicles
<1> HIDE DEF Good
<1>7. Good(S!Profile[v])
  BY <1>1, <1>2, <1>3, <1>4, <1>5, <1>6 DEF S!Profile
<1> QED BY <1>7 DEF Good

LEMMA CallStart ==
  ASSUME S!SweepAssumption, S!Init
  PROVE  CallInv
<1>1. PICK v \in Sample : vendor = S!Profile[v]
  BY DEF S!Init
<1>2. S!Lone => vendor.failure = "stop" /\ ~vendor.skips /\ ~vendor.keyed
  BY <1>1, Records DEF S!Lone, S!SweepAssumption
<1>3. Owned /\ \A u \in S!Users : Accounted(u)
  BY AtRest DEF S!Init, S!Actors, Owned, Accounted
<1> QED BY <1>2, <1>3 DEF CallInv

LEMMA CallStep ==
  ASSUME S!SweepAssumption, WaitInv, CallInv, [S!Next]_S!vars
  PROVE  CallInv'
<1>1. vendor' = vendor
  BY DEF S!Next, S!vars, S!StartPass, S!EndPass, S!Tick, S!Restart, S!CallUser, S!RouteSync, S!Refreshed,
           S!Skipped, S!Refused, S!RecordFailure, S!Unconfigured, S!Connect, S!Disconnect
<1>2. (S!Lone' <=> S!Lone) /\ S!TypeOK /\ S!Sweep \in S!Actors
  BY <1>1 DEF S!Lone, WaitInv, SweepsInv, S!Actors
<1> SUFFICES ASSUME S!Lone
             PROVE  Owned' /\ \A u \in S!Users : Accounted(u)'
  BY <1>1, <1>2 DEF CallInv
<1>3. /\ vendor.failure = "stop" /\ ~vendor.skips /\ ~vendor.keyed /\ vendor.by # "class"
      /\ Owned /\ \A u \in S!Users : Accounted(u)
  BY DEF CallInv, S!Lone
<1>4. CASE /\ linked \subseteq linked' /\ UNCHANGED <<called, cut, swept>>
           /\ DOMAIN sync'[S!Sweep].todo = DOMAIN sync[S!Sweep].todo
           /\ sync'[S!Sweep].user = sync[S!Sweep].user
  BY <1>3, <1>4 DEF Owned, Accounted, InFlight
<1>5. CASE S!StartPass \/ S!EndPass \/ (\E s \in Slots : S!Connect(s)) \/ UNCHANGED S!vars
  BY <1>4, <1>5 DEF S!StartPass, S!EndPass, S!Connect, S!vars
<1>6. ASSUME NEW a \in Routes, NEW u \in S!Users, S!RouteSync(a, u)
      PROVE  Owned' /\ \A v \in S!Users : Accounted(v)'
  <2>1. sync'[S!Sweep] = sync[S!Sweep]
    BY <1>2, <1>6, Sizes DEF S!RouteSync, S!Begin, S!TypeOK
  <2> QED BY <1>4, <1>6, <2>1 DEF S!RouteSync
<1>7. ASSUME NEW a \in S!Actors, NEW s \in Slots, S!Refused(a, s)
      PROVE  Owned' /\ \A u \in S!Users : Accounted(u)'
  <2>1. /\ sync'[S!Sweep].user = sync[S!Sweep].user
        /\ DOMAIN sync'[S!Sweep].todo = DOMAIN sync[S!Sweep].todo
    <3>1. sync[a] \in Syncs /\ sync \in [S!Actors -> Syncs]
      BY <1>2 DEF S!TypeOK, Syncs
    <3>2. CASE a = S!Sweep
      BY <1>7, <3>1, <3>2 DEF S!Refused, S!Left, Syncs
    <3>3. CASE a # S!Sweep
      BY <1>2, <1>7, <3>1, <3>3 DEF S!Refused
    <3> QED BY <3>2, <3>3
  <2> QED BY <1>4, <1>7, <2>1 DEF S!Refused
<1>8. ASSUME NEW u \in S!Users, S!CallUser(u)
      PROVE  Owned' /\ \A v \in S!Users : Accounted(v)'
  <2>1. CASE S!RowsOf(u) = {}
    <3>1. sync[S!Sweep] = S!NoSync /\ sync'[S!Sweep] = S!NoSync
      BY <1>2, <1>8, <2>1 DEF S!CallUser, S!Begin, S!TypeOK
    <3> QED BY <1>4, <1>8, <2>1, <3>1 DEF S!CallUser
  <2>2. CASE S!RowsOf(u) # {}
    <3>1. /\ sync[S!Sweep] = S!NoSync /\ sync'[S!Sweep].user = u
          /\ DOMAIN sync'[S!Sweep].todo = S!RowsOf(u)
      BY <1>2, <1>8, <2>2 DEF S!CallUser, S!Begin, S!TypeOK
    <3>2. linked' = linked /\ swept' = swept /\ cut' = cut \ {u}
          /\ \A v \in S!Users \ {u} : called'[v] = called[v]
      BY <1>2, <1>8, <2>2 DEF S!CallUser, S!TypeOK
    <3>3. Owned' /\ Accounted(u)'
      BY <2>2, <3>1, <3>2 DEF Owned, Accounted, InFlight, S!RowsOf
    <3>4. ASSUME NEW v \in S!Users \ {u}
          PROVE  Accounted(v)'
      <4>1. ~InFlight(v)
        BY <3>1, AtRest DEF InFlight
      <4> QED BY <1>3, <3>2, <4>1 DEF Accounted
    <3> QED BY <3>3, <3>4
  <2> QED BY <2>1, <2>2
<1>9. ASSUME NEW a \in S!Actors, NEW s \in DOMAIN sync[a].todo, NEW err, NEW h,
             S!Write(a, s, h), S!Continue(a, s, err), UNCHANGED <<linked, called, cut>>
      PROVE  Owned' /\ \A u \in S!Users : Accounted(u)'
  <2>1. CASE a \in Routes
    <3>1. sync'[S!Sweep] = sync[S!Sweep]
      BY <1>2, <1>9, <2>1, Elsewhere
    <3>2. swept' = swept
      BY <1>9, <2>1, Sizes DEF S!Write
    <3> QED BY <1>4, <1>9, <3>1, <3>2
  <2>2. CASE a = S!Sweep
    <3>1. sync'[S!Sweep] = S!NoSync /\ DOMAIN sync[S!Sweep].todo = {s}
      BY <1>2, <1>9, <2>2, LoneEnds DEF WaitInv
    <3>2. /\ \A u \in S!Users : swept'[u] = swept[u] \/ (u = s[1] /\ swept'[u] = 0)
          /\ s \in linked => swept'[s[1]] = 0
      BY <1>2, <1>9, <2>2, Recorded
    <3>3. ASSUME NEW u \in S!Users, called[u] # Never, u \notin cut
          PROVE  swept'[u] # Never /\ swept'[u] <= called[u]
      <4>1. called[u] \in Nat /\ Never # 0
        BY <1>2, <3>3, Sizes DEF S!TypeOK, S!Age
      <4>2. CASE InFlight(u)
        <5>1. s \in linked /\ s[1] = u
          BY <3>1, <4>2 DEF InFlight
        <5> QED BY <3>2, <4>1, <5>1
      <4>3. CASE ~InFlight(u)
        BY <1>3, <3>2, <3>3, <4>1, <4>3 DEF Accounted
      <4> QED BY <4>2, <4>3
    <3> QED BY <1>9, <3>1, <3>3, AtRest DEF Owned, Accounted
  <2> QED BY <2>1, <2>2 DEF S!Actors
<1>10. ASSUME NEW a \in S!Actors, NEW s \in Slots, S!Refreshed(a, s) \/ S!Skipped(a, s)
       PROVE  Owned' /\ \A u \in S!Users : Accounted(u)'
  BY <1>3, <1>9, <1>10 DEF S!Refreshed, S!Skipped, S!Left
<1>11. ASSUME NEW a \in S!Actors, NEW err \in {"auth", "other"}, S!RecordFailure(a, err)
       PROVE  Owned' /\ \A u \in S!Users : Accounted(u)'
  <2>1. PICK s : s = sync[a].refused /\ s \in DOMAIN sync[a].todo
    BY <1>2, <1>11, Shape DEF S!RecordFailure
  <2> QED BY <1>3, <1>9, <1>11, <2>1 DEF S!RecordFailure
<1>12. ASSUME NEW s \in Slots, S!Disconnect(s)
       PROVE  Owned' /\ \A u \in S!Users : Accounted(u)'
  <2>1. /\ linked' = linked \ {s} /\ sync' = sync /\ cut' = cut /\ s[1] \in S!Users
        /\ called'[s[1]] = Never
        /\ \A u \in S!Users \ {s[1]} : called'[u] = called[u] /\ swept'[u] = swept[u]
    BY <1>2, <1>12 DEF S!Disconnect, S!TypeOK, S!Users
  <2>2. ASSUME NEW u \in S!Users
        PROVE  Accounted(u)'
    <3>1. CASE u = s[1]
      BY <2>1, <3>1 DEF Accounted
    <3>2. CASE u # s[1]
      <4>1. InFlight(u) => InFlight(u)'
        BY <2>1, <3>2 DEF InFlight
      <4> QED BY <1>3, <2>1, <3>2, <4>1 DEF Accounted
    <3> QED BY <3>1, <3>2
  <2> QED BY <1>3, <2>1, <2>2 DEF Owned
<1>13. CASE S!Tick
  <2>1. linked' = linked /\ sync' = sync /\ cut' = cut
        /\ \A u \in S!Users : /\ called[u] \in S!Age /\ called'[u] = S!Later(called[u])
                              /\ swept[u] \in S!Age /\ swept'[u] = S!Later(swept[u])
    BY <1>2, <1>13 DEF S!Tick, S!TypeOK
  <2>2. ASSUME NEW u \in S!Users
        PROVE  Accounted(u)'
    <3>1. InFlight(u)' <=> InFlight(u)
      BY <2>1 DEF InFlight
    <3> DEFINE last == called[u]
               since == swept[u]
    <3>2. /\ last \in S!Age /\ since \in S!Age
          /\ called'[u] = S!Later(last) /\ swept'[u] = S!Later(since)
          /\ (last # Never /\ u \notin cut => InFlight(u) \/ (since # Never /\ since <= last))
      BY <1>3, <2>1 DEF Accounted
    <3> HIDE DEF last, since
    <3>3. S!Later(last) # Never => last # Never
      BY <3>2, Grown
    <3>4. last # Never /\ since # Never /\ since <= last => S!Later(since) # Never /\ S!Later(since) <= S!Later(last)
      BY <3>2, Grown
    <3> QED BY <2>1, <3>1, <3>2, <3>3, <3>4 DEF Accounted
  <2> QED BY <1>3, <2>1, <2>2 DEF Owned
<1>14. CASE S!Restart
  <2>1. /\ sync'[S!Sweep] = S!NoSync /\ UNCHANGED <<linked, called, swept>>
        /\ cut' = cut \cup ({sync[S!Sweep].user} \ {Never})
    BY <1>2, <1>14 DEF S!Restart
  <2>2. ASSUME NEW u \in S!Users
        PROVE  Accounted(u)'
    <3>1. u # Never
      BY DEF S!Users, S!SweepAssumption
    <3>2. InFlight(u) => u \in cut'
      BY <1>3, <2>1, <3>1 DEF InFlight, Owned
    <3> QED BY <1>3, <2>1, <3>2 DEF Accounted
  <2> QED BY <2>1, <2>2, AtRest DEF Owned
<1>15. ~\E a \in S!Actors : S!Unconfigured(a)
  BY <1>3 DEF S!Unconfigured
<1> QED BY <1>5, <1>6, <1>7, <1>8, <1>10, <1>11, <1>12, <1>13, <1>14, <1>15 DEF S!Next

\* A call starts when nothing is under way, so the last one is recorded, no later than it began.
LEMMA Paced ==
  ASSUME S!SweepAssumption, WaitInv, CallInv, NEW u \in S!Users, S!CallUser(u), S!Lone
  PROVE  S!Rested(swept[u]) /\ (S!Rested(called[u]) \/ u \in cut)
<1>1. S!Rested(swept[u])
  BY DEF WaitInv, SweepsInv, DueInv, S!CallUser, S!Rested
<1>2. ~InFlight(u)
  BY AtRest DEF S!CallUser, InFlight
<1>3. called[u] # Never /\ u \notin cut => swept[u] # Never /\ swept[u] <= called[u]
  BY <1>2 DEF CallInv, Accounted
<1>4. S!TypeOK /\ called[u] \in S!Age /\ swept[u] \in S!Age
  BY DEF WaitInv, SweepsInv, S!TypeOK
<1>5. S!Pace \in Nat /\ \A g \in S!Age : g # Never => g \in Nat
  BY <1>4, PaceType
<1> QED BY <1>1, <1>3, <1>4, <1>5 DEF S!Rested

\* A pass that was given up failed for others who have a connection to show for it, or had.
LEMMA WaitSafe ==
  ASSUME S!SweepAssumption, WaitInv
  PROVE  S!NobodyStarves
<1> SUFFICES ASSUME S!Isolated, NEW u \in S!Users, waited[u].passes > 0, waited[u].hours <= S!Pace
             PROVE  waited[u].passes * Abort < links
  BY DEF S!NobodyStarves
<1>1. S!TypeOK /\ LinksInv /\ links \in Nat /\ streak \in Nat
  BY Sizes DEF WaitInv, SweepsInv, S!TypeOK
<1>2. waited[u].passes \in Nat /\ waited[u].passes * Abort \in Nat /\ Cut \in {0, 1} /\ Debt(u) \in Nat
  BY <1>1, DebtType
<1>3. Stops
  BY <1>2 DEF WaitInv, StreakInv
<1>4. S!Lone
  BY <1>3 DEF Stops, S!Isolated, S!Lone
<1>5. Repaid(u)
  BY <1>4 DEF WaitInv, TimedInv, DebtInv, Short
<1>6. Cardinality(Failed(u)) <= Cardinality(Others(u))
      /\ Cardinality(Failed(u)) \in Nat /\ Cardinality(Others(u)) \in Nat
  <2>1. Failed(u) \subseteq Others(u)
    BY DEF Failed
  <2> QED BY <1>1, <2>1, SomeLinks, FS_Subset
<1>7. waited[u].passes * Abort <= Debt(u)
  <2>1. PICK owed \in Nat : owed = waited[u].passes * Abort
    BY <1>2
  <2>2. Debt(u) = owed + (IF u \in due THEN streak + Cut ELSE 0)
    BY <2>1 DEF Debt
  <2> QED BY <1>1, <1>2, <2>1, <2>2
<1>8. ASSUME NEW owed \in Nat, NEW debt \in Nat, NEW n \in Nat, NEW f \in Nat, owed <= debt, f <= n,
         debt + 1 + n <= f + links
      PROVE  owed < links
  BY <1>1, <1>8
<1> QED BY <1>2, <1>5, <1>6, <1>7, <1>8 DEF Repaid

-----------------------------------------------------------------------------
(* Goals: what a job carries *)

Marks == Rungs \cup {0}

\* What a job carries at each step of its handler.
LEMMA Carries ==
  ASSUME NEW s \in G!JobStates
  PROVE  /\ s.at = "ladder" => s \in [at : {"ladder"}, prior : G!Ladders \cup {Never}]
         /\ s.at = "stage" => s \in [at : {"stage"}, reached : Marks]
         /\ s.at = "raise" => s \in [at : {"raise"}, reached : Marks, seen : Rungs \cup {0, Never}]
         /\ s.at = "pace" => s \in [at : {"pace"}, todo : SUBSET GoalIds, was : SUBSET GoalIds]
         /\ s.at = "roll" =>
              s \in [at : {"roll"}, goal : GoalIds, todo : SUBSET GoalIds, was : SUBSET GoalIds]
         /\ s.at = "periods" =>
              s \in [at : {"periods"}, seen : [1..Weeks -> G!Outcomes], next : 1..Weeks + 1, upto : 0..Weeks]
BY DEF G!JobStates, G!Idle, Marks

LEMMA Reached ==
  ASSUME G!GoalsAssumption, NEW ladders \in G!Ladders
  PROVE  G!StageForLadder(ladders) \in Marks
<1> DEFINE done == {0} \cup {r \in Rungs : ladders[r] = "completed"}
<1>1. \E x \in done : \A y \in done : x >= y
  <2>1. done \subseteq {0} \cup 0..7 /\ 0 \in done
    BY DEF G!GoalsAssumption
  <2> HIDE DEF done
  <2>2. \A y \in done : y \in {0, 1, 2, 3, 4, 5, 6, 7}
    BY <2>1
  <2>3. CASE \E x \in done : x >= 4
    BY <2>2, <2>3
  <2>4. CASE ~\E x \in done : x >= 4
    BY <2>1, <2>2, <2>4
  <2> QED BY <2>3, <2>4
<1>2. G!Max(done) \in done
  BY <1>1 DEF G!Max
<1> QED BY <1>2 DEF G!StageForLadder, Marks

\* Which rung is active says nothing of a settled one.
LEMMA Resolved ==
  ASSUME NEW ladders \in G!Ladders
  PROVE  /\ G!ResolveActive(ladders) \in G!Ladders
         /\ \A r \in Rungs : ladders[r] = "completed" => G!ResolveActive(ladders)[r] = "completed"
BY DEF G!ResolveActive, G!Ladders, G!Statuses, G!OptedOut

\* A completed rung stays, whatever is satisfied now.
LEMMA Evaluated ==
  ASSUME NEW prior \in G!Ladders \cup {Never}, NEW satisfied
  PROVE  /\ G!EvaluateLadder(prior, satisfied) \in G!Ladders
         /\ prior # Never =>
              \A r \in Rungs : prior[r] = "completed" => G!EvaluateLadder(prior, satisfied)[r] = "completed"
<1> DEFINE judged == [r \in Rungs |->
             IF prior # Never /\ prior[r] \in {"skipped", "completed"} THEN prior[r]
             ELSE IF r \in satisfied THEN "completed" ELSE "pending"]
<1>1. judged \in G!Ladders
  BY DEF G!Ladders, G!Statuses, G!OptedOut
<1>2. prior # Never => \A r \in Rungs : prior[r] = "completed" => judged[r] = "completed"
  OBVIOUS
<1>3. G!EvaluateLadder(prior, satisfied) = G!ResolveActive(judged)
  BY DEF G!EvaluateLadder
<1> HIDE DEF judged
<1> QED BY <1>1, <1>2, <1>3, Resolved

\* Of two numbers, the larger is one of them.
LEMMA Larger ==
  ASSUME NEW two, NEW m \in Int, NEW n \in Int, two = {m, n}
  PROVE  G!Max(two) \in two /\ G!Max(two) >= m /\ G!Max(two) >= n
<1>1. \E x \in two : \A y \in two : x >= y
  OBVIOUS
<1> QED BY <1>1 DEF G!Max

\* The instance counts as FiniteSets does.
LEMMA SameCount ==
  \A x : G!IsFiniteSet(x) = IsFiniteSet(x) /\ G!Cardinality(x) = Cardinality(x)
BY DEF G!IsFiniteSet, IsFiniteSet, G!Cardinality, Cardinality

LEMMA SomeGoals ==
  ASSUME G!GoalsAssumption, NEW A \in SUBSET GoalIds
  PROVE  G!Cardinality(A) \in 0..G!Cardinality(GoalIds)
<1>1. IsFiniteSet(GoalIds)
  BY SameCount DEF G!GoalsAssumption
<1> QED BY <1>1, SameCount, FS_Subset, FS_CardinalityType

\* Stages are numbers, and None is no stage.
LEMMA Stages ==
  ASSUME G!GoalsAssumption
  PROVE  \A n \in Marks : n \in Int /\ n # Never
<1>1. Marks \subseteq {0} \cup 0..7 /\ Never \notin Nat
  BY DEF G!GoalsAssumption, Marks
<1> QED BY <1>1

\* The goals a pass has left to do exist: no goal is ever deleted.
Fits(s) == s.at \in {"pace", "roll"} => s.todo \subseteq made
Planned == \A j \in Jobs : Fits(job[j])

LEMMA Moves ==
  ASSUME G!TypeOK, NEW j \in Jobs, NEW s, G!Goto(j, s)
  PROVE  job'[j] = s /\ \A k \in Jobs \ {j} : job'[k] = job[k]
BY DEF G!TypeOK, G!Goto

LEMMA MoveTypes ==
  ASSUME G!TypeOK, NEW j \in Jobs, NEW s \in G!JobStates, G!Goto(j, s)
  PROVE  job' \in [Jobs -> G!JobStates]
BY DEF G!TypeOK, G!Goto

LEMMA PlanKept ==
  ASSUME G!TypeOK, Planned, NEW j \in Jobs, made \subseteq made', job'[j].at \in {"pace",
           "roll"} => job'[j].todo \subseteq made',
         \E s : G!Goto(j, s)
  PROVE  Planned'
BY Moves DEF Planned, Fits

-----------------------------------------------------------------------------
\* What a step keeps, unless its job is overtaken.
Keeps ==
  /\ \A r \in Rungs : ladder # Never /\ ladder[r] = "completed" => ladder'[r] = "completed"
  /\ stage # Never => stage' # Never /\ stage' >= stage
  /\ \A w \in 1..Weeks : periods[w] \in G!Settled => periods'[w] = periods[w]

LEMMA LadderStep ==
  ASSUME G!GoalsAssumption, G!TypeOK, Planned, NEW j \in Jobs,
         \/ G!RefreshLadder(j) \/ \E r \in Rungs : G!SkipRung(j, r) \/ G!UnskipRung(j, r)
  PROVE  G!TypeOK' /\ Planned' /\ (~G!Overtaken(j) => Keeps)
<1>1. UNCHANGED <<stage, G!goalVars, G!periodVars>> /\ job[j].at = "ladder"
  BY DEF G!RefreshLadder, G!SkipRung, G!UnskipRung
<1>2. job[j] \in G!JobStates
  BY DEF G!TypeOK
<1>3. PICK prior : prior = job[j].prior /\ prior \in G!Ladders \cup {Never}
  BY <1>1, <1>2, Carries
<1> DEFINE Stays == \A r \in Rungs : ladder # Never /\ ladder[r] = "completed" => ladder'[r] = "completed"
           Moved == /\ job' \in [Jobs -> G!JobStates] /\ ladder' \in G!Ladders \cup {Never}
                    /\ job'[j].at \in {"stage", "idle"} /\ (\E s : G!Goto(j, s)) /\ (prior = ladder => Stays)
<1>4. Moved
  <2>1. CASE G!RefreshLadder(j)
    <3>1. PICK satisfied \in SUBSET G!Judgeable :
            /\ ladder' = G!EvaluateLadder(prior, satisfied)
            /\ G!Goto(j, [at |-> "stage", reached |-> G!StageForLadder(G!EvaluateLadder(prior, satisfied))])
      BY <1>3, <2>1 DEF G!RefreshLadder
    <3>2. ladder' \in G!Ladders
      BY <1>3, <3>1, Evaluated
    <3>3. G!StageForLadder(G!EvaluateLadder(prior, satisfied)) \in Marks
      BY <1>3, Evaluated, Reached
    <3>4. [at |-> "stage", reached |-> G!StageForLadder(G!EvaluateLadder(prior, satisfied))] \in G!JobStates
      BY <3>3 DEF G!JobStates, Marks
    <3>5. job' \in [Jobs -> G!JobStates]
      BY <3>1, <3>4, MoveTypes
    <3>6. job'[j].at = "stage"
      BY <3>1, Moves
    <3>7. prior = ladder => Stays
      BY <1>3, <3>1, Evaluated
    <3> QED BY <3>1, <3>2, <3>5, <3>6, <3>7
  <2>2. ASSUME NEW r \in Rungs, G!SkipRung(j, r) \/ G!UnskipRung(j, r)
        PROVE  Moved
    <3>1. G!Goto(j, G!Idle) /\ prior # Never
      BY <1>3, <2>2 DEF G!SkipRung, G!UnskipRung
    <3>2. job' \in [Jobs -> G!JobStates] /\ job'[j].at = "idle"
      <4>1. G!Idle \in G!JobStates
        BY DEF G!JobStates
      <4> QED BY <3>1, <4>1, Moves, MoveTypes DEF G!Idle
    <3>3. CASE UNCHANGED ladder
      BY <3>1, <3>2, <3>3 DEF G!TypeOK
    <3>4. ASSUME ladder' # ladder
          PROVE  Moved
      <4>1. PICK status \in G!Statuses :
              prior[r] # "completed" /\ ladder' = G!ResolveActive([prior EXCEPT ![r] = status])
        BY <1>3, <2>2, <3>4 DEF G!SkipRung, G!UnskipRung, G!Statuses, G!OptedOut
      <4>2. /\ [prior EXCEPT ![r] = status] \in G!Ladders
            /\ \A q \in Rungs : prior[q] = "completed" => [prior EXCEPT ![r] = status][q] = "completed"
        BY <1>3, <3>1, <4>1 DEF G!Ladders
      <4> QED BY <3>1, <3>2, <4>1, <4>2, Resolved
    <3> QED BY <3>3, <3>4
  <2> QED BY <2>1, <2>2
<1>5. G!TypeOK'
  BY <1>1, <1>4 DEF G!TypeOK, G!goalVars, G!periodVars
<1>6. ~G!Overtaken(j) => prior = ladder
  BY <1>1, <1>3, <1>4 DEF G!Overtaken
<1>8. Planned'
  BY <1>1, <1>4, PlanKept DEF G!goalVars
<1>7. (stage # Never => stage' # Never /\ stage' >= stage) /\ periods' = periods
  <2>1. stage # Never => stage \in Int
    BY Stages DEF G!TypeOK, Marks
  <2> QED BY <1>1, <2>1 DEF G!periodVars
<1> QED BY <1>4, <1>5, <1>6, <1>7, <1>8 DEF Keeps

LEMMA StageStep ==
  ASSUME G!GoalsAssumption, G!TypeOK, Planned, NEW j \in Jobs, G!RaiseStage(j)
  PROVE  G!TypeOK' /\ Planned' /\ (~G!Overtaken(j) => Keeps)
<1>1. UNCHANGED <<ladder, G!goalVars, G!periodVars>> /\ job[j].at = "raise"
  BY DEF G!RaiseStage
<1>2. job[j] \in G!JobStates /\ stage \in Rungs \cup {0, Never}
  BY DEF G!TypeOK
<1>3. PICK reached, seen : /\ reached = job[j].reached /\ seen = job[j].seen
                           /\ reached \in Marks /\ seen \in Rungs \cup {0, Never}
  BY <1>1, <1>2, Carries
<1>4. stage' = stage \/ (stage' = reached /\ (seen = Never \/ reached > seen))
  BY <1>3 DEF G!RaiseStage
<1>5. \E s \in {G!Idle, [at |-> "goals"]} : G!Goto(j, s)
  BY DEF G!RaiseStage
<1>6. job' \in [Jobs -> G!JobStates] /\ job'[j].at \in {"idle", "goals"}
  <2>1. G!Idle \in G!JobStates /\ [at |-> "goals"] \in G!JobStates
    BY DEF G!JobStates
  <2>2. G!Idle.at = "idle"
    BY DEF G!Idle
  <2> QED BY <1>5, <2>1, <2>2, Moves, MoveTypes
<1>7. G!TypeOK'
  BY <1>1, <1>3, <1>4, <1>6 DEF G!TypeOK, G!goalVars, G!periodVars, Marks
<1>11. Planned'
  BY <1>1, <1>5, <1>6, PlanKept DEF G!goalVars
<1>8. ~G!Overtaken(j) => seen = stage
  BY <1>1, <1>3, <1>6 DEF G!Overtaken
<1>9. \A n \in Marks : n \in Int /\ n # Never
  BY Stages
<1>10. ~G!Overtaken(j) /\ stage # Never => stage' # Never /\ stage' >= stage
  <2>1. stage # Never => stage \in Marks
    BY <1>2 DEF Marks
  <2> QED BY <1>3, <1>4, <1>8, <1>9, <2>1
<1> QED BY <1>1, <1>7, <1>10, <1>11 DEF Keeps, G!periodVars

\* Of all else, only closing a week and judging one touch anything but the goals.
LEMMA Untouched ==
  ASSUME G!GoalsAssumption, G!TypeOK, UNCHANGED <<G!ladderVars, periods>>
  PROVE  Keeps
<1>1. stage # Never => stage \in Int
  BY Stages DEF G!TypeOK, Marks
<1> QED BY <1>1 DEF Keeps, G!ladderVars

LEMMA ReadStep ==
  ASSUME G!GoalsAssumption, G!TypeOK, Planned, NEW j \in Jobs,
         G!ReadLadder(j) \/ G!ReadStage(j) \/ G!CountGoals(j) \/ G!ListGoals(j) \/ G!ReadPeriods(j) \/ G!EndPass(j)
  PROVE  G!TypeOK' /\ Planned' /\ Keeps
<1>1. UNCHANGED <<G!ladderVars, G!goalVars, G!periodVars>>
  BY DEF G!ReadLadder, G!ReadStage, G!CountGoals, G!ListGoals, G!ReadPeriods, G!EndPass
<1>2. job[j] \in G!JobStates
  BY DEF G!TypeOK
<1>3. \E s \in G!JobStates : G!Goto(j, s) /\ Fits(s)
  <2>1. CASE G!ReadLadder(j)
    <3>1. [at |-> "ladder", prior |-> ladder] \in G!JobStates
      BY DEF G!TypeOK, G!JobStates
    <3>2. G!Goto(j, [at |-> "ladder", prior |-> ladder])
      BY <2>1 DEF G!ReadLadder
    <3> QED BY <3>1, <3>2 DEF Fits
  <2>2. CASE G!ReadStage(j)
    <3>1. job[j].reached \in Marks
      BY <1>2, <2>2, Carries DEF G!ReadStage
    <3>2. [at |-> "raise", reached |-> job[j].reached, seen |-> stage] \in G!JobStates
      BY <3>1 DEF G!TypeOK, G!JobStates, Marks
    <3> QED BY <2>2, <3>2 DEF G!ReadStage, Fits
  <2>3. CASE G!CountGoals(j)
    <3>1. G!Cardinality(G!Active) \in 0..G!Cardinality(GoalIds)
      <4>1. G!Active \in SUBSET GoalIds
        BY DEF G!TypeOK, G!Active
      <4> QED BY <4>1, SomeGoals
    <3>2. [at |-> "create", count |-> G!Cardinality(G!Active)] \in G!JobStates
      BY <3>1 DEF G!JobStates
    <3> QED BY <2>3, <3>2 DEF G!CountGoals, Fits
  <2>4. CASE G!ListGoals(j)
    <3>1. [at |-> "pace", todo |-> made \ archived, was |-> achieved] \in G!JobStates
      BY DEF G!TypeOK, G!JobStates
    <3> QED BY <2>4, <3>1 DEF G!ListGoals, Fits
  <2>5. CASE G!ReadPeriods(j)
    <3>1. G!Max({1, week - Backfill + 1}) \in 1..Weeks + 1
      <4>1. week \in 0..Weeks /\ Weeks \in Nat /\ Backfill \in Nat \ {0}
        BY DEF G!TypeOK, G!GoalsAssumption
      <4>2. week - Backfill + 1 \in Int /\ week - Backfill + 1 <= Weeks + 1
        BY <4>1
      <4> DEFINE two == {1, week - Backfill + 1}
      <4>3. G!Max(two) \in two /\ G!Max(two) >= 1
        <5> HIDE DEF two
        <5>1. 1 \in Int /\ two = {1, week - Backfill + 1}
          BY DEF two
        <5> QED BY <4>2, <5>1, Larger
      <4>4. G!Max(two) \in Int /\ G!Max(two) <= Weeks + 1
        <5>1. \A n \in two : n \in Int /\ n <= Weeks + 1
          BY <4>1, <4>2
        <5> HIDE DEF two
        <5> QED BY <4>3, <5>1
      <4>5. G!Max(two) \in 1..Weeks + 1
        <5> HIDE DEF two
        <5> QED BY <4>1, <4>3, <4>4
      <4> QED BY <4>5
    <3>2. [at |-> "periods", seen |-> periods, upto |-> week, next |-> G!Max({1,
             week - Backfill + 1})] \in G!JobStates
      BY <3>1 DEF G!TypeOK, G!JobStates
    <3> QED BY <2>5, <3>2 DEF G!ReadPeriods, Fits
  <2>6. CASE G!EndPass(j)
    BY <2>6 DEF G!EndPass, G!JobStates, G!Idle, Fits
  <2> QED BY <2>1, <2>2, <2>3, <2>4, <2>5, <2>6
<1>4. job' \in [Jobs -> G!JobStates]
  BY <1>3, MoveTypes
<1>5. G!TypeOK'
  BY <1>1, <1>4 DEF G!TypeOK, G!ladderVars, G!goalVars, G!periodVars
<1>6. Planned'
  <2>1. PICK s : G!Goto(j, s) /\ Fits(s)
    BY <1>3
  <2> QED BY <1>1, <2>1, Moves, PlanKept DEF G!goalVars, Fits
<1> QED BY <1>1, <1>5, <1>6, Untouched DEF G!periodVars

LEMMA GoalStep ==
  ASSUME G!GoalsAssumption, G!TypeOK, Planned, NEW j \in Jobs,
           G!CreateGoal(j) \/ G!RefreshPace(j) \/ G!ResetRecurring(j)
  PROVE  G!TypeOK' /\ Planned' /\ Keeps
<1>1. UNCHANGED <<G!ladderVars, archived, G!periodVars>>
  BY DEF G!CreateGoal, G!RefreshPace, G!ResetRecurring
<1>2. job[j] \in G!JobStates
  BY DEF G!TypeOK
<1>3. /\ made' \subseteq GoalIds /\ made \subseteq made' /\ achieved' \subseteq made'
      /\ \E s \in G!JobStates : G!Goto(j, s) /\ Fits(s)
  <2>1. CASE G!CreateGoal(j)
    BY <2>1 DEF G!CreateGoal, G!TypeOK, G!JobStates, G!Idle, Fits
  <2>2. CASE G!RefreshPace(j)
    <3>1. job[j] \in [at : {"pace"}, todo : SUBSET GoalIds, was : SUBSET GoalIds] /\ made' = made
      BY <1>2, <2>2, Carries DEF G!RefreshPace
    <3>a. job[j].todo \subseteq made
      BY <2>2 DEF G!RefreshPace, Planned, Fits
    <3>b. achieved' \subseteq made
      BY <2>2, <3>a DEF G!RefreshPace, G!TypeOK
    <3>2. \E g \in job[j].todo : \E s \in G!JobStates : G!Goto(j, s) /\ Fits(s)
      <4>1. PICK g \in job[j].todo, reached \in BOOLEAN, again \in BOOLEAN :
              G!Goto(j, IF again /\ (reached \/ g \in job[j].was)
                        THEN [at |-> "roll", goal |-> g, todo |-> [job[j] EXCEPT !.todo = @ \ {g}].todo,
                              was |-> job[j].was]
                        ELSE [job[j] EXCEPT !.todo = @ \ {g}])
        BY <2>2 DEF G!RefreshPace
      <4>2. [job[j] EXCEPT !.todo = @ \ {g}] \in [at : {"pace"}, todo : SUBSET GoalIds, was : SUBSET GoalIds]
        BY <3>1
      <4>3. [job[j] EXCEPT !.todo = @ \ {g}] \in G!JobStates
        BY <4>2 DEF G!JobStates
      <4>4. [at |-> "roll", goal |-> g, todo |-> [job[j] EXCEPT !.todo = @ \ {g}].todo, was |-> job[j].was]
              \in G!JobStates
        BY <3>1, <4>2 DEF G!JobStates
      <4>5. [job[j] EXCEPT !.todo = @ \ {g}].todo \subseteq made
        BY <3>1, <3>a
      <4> QED BY <4>1, <4>3, <4>4, <4>5 DEF Fits
    <3> QED BY <3>1, <3>2, <3>b DEF G!TypeOK
  <2>3. CASE G!ResetRecurring(j)
    <3>1. job[j].todo \in SUBSET GoalIds /\ job[j].was \in SUBSET GoalIds
      BY <1>2, <2>3, Carries DEF G!ResetRecurring
    <3>2. [at |-> "pace", todo |-> job[j].todo, was |-> job[j].was] \in G!JobStates
      BY <3>1 DEF G!JobStates
    <3>3. job[j].todo \subseteq made
      BY <2>3 DEF G!ResetRecurring, Planned, Fits
    <3> QED BY <2>3, <3>2, <3>3 DEF G!ResetRecurring, G!TypeOK, Fits
  <2> QED BY <2>1, <2>2, <2>3
<1>4. job' \in [Jobs -> G!JobStates]
  BY <1>3, MoveTypes
<1>5. G!TypeOK'
  BY <1>1, <1>3, <1>4 DEF G!TypeOK, G!ladderVars, G!periodVars
<1>6. Planned'
  <2>1. PICK s : G!Goto(j, s) /\ Fits(s)
    BY <1>3
  <2> QED BY <1>3, <2>1, Moves, PlanKept DEF Fits
<1> QED BY <1>1, <1>5, <1>6, Untouched DEF G!periodVars

LEMMA PeriodStep ==
  ASSUME G!GoalsAssumption, G!TypeOK, Planned, NEW j \in Jobs, G!EvaluatePeriod(j)
  PROVE  G!TypeOK' /\ Planned' /\ (~G!Overtaken(j) => Keeps)
<1>1. UNCHANGED <<G!ladderVars, G!goalVars, week>> /\ job[j].at = "periods" /\ job[j].next <= job[j].upto
  BY DEF G!EvaluatePeriod
<1>2. job[j] \in G!JobStates /\ Weeks \in Nat
  BY DEF G!TypeOK, G!GoalsAssumption
<1>3. job[j] \in [at : {"periods"}, seen : [1..Weeks -> G!Outcomes], next : 1..Weeks + 1, upto : 0..Weeks]
  BY <1>1, <1>2, Carries
<1>4. PICK w : w = job[j].next /\ w \in 1..Weeks /\ w + 1 \in 1..Weeks + 1 /\ w + 1 # w
  BY <1>1, <1>2, <1>3
<1> DEFINE Judged(outcome) ==
             /\ job[j].seen[w] \notin G!Settled /\ outcome \in G!Outcomes
             /\ periods' = [periods EXCEPT ![w] = outcome]
             /\ G!Goto(j, [job[j] EXCEPT !.next = w + 1, !.seen[w] = outcome])
<1>5. \/ UNCHANGED periods /\ G!Goto(j, [job[j] EXCEPT !.next = w + 1])
      \/ \E outcome : Judged(outcome)
  BY <1>4 DEF G!EvaluatePeriod, G!Answers, G!Outcomes, G!Settled
<1>6. ASSUME UNCHANGED periods, G!Goto(j, [job[j] EXCEPT !.next = w + 1])
      PROVE  G!TypeOK' /\ Planned' /\ Keeps
  <2>1. [job[j] EXCEPT !.next = w + 1] \in
          [at : {"periods"}, seen : [1..Weeks -> G!Outcomes], next : 1..Weeks + 1, upto : 0..Weeks]
    BY <1>3, <1>4
  <2>2. [job[j] EXCEPT !.next = w + 1] \in G!JobStates
    BY <2>1 DEF G!JobStates
  <2>3. job' \in [Jobs -> G!JobStates] /\ job'[j].at = "periods"
    BY <1>6, <2>1, <2>2, Moves, MoveTypes
  <2>4. G!TypeOK'
    BY <1>1, <1>6, <2>3 DEF G!TypeOK, G!ladderVars, G!goalVars
  <2>5. Planned'
    BY <1>1, <1>6, <2>3, PlanKept DEF G!goalVars
  <2> QED BY <1>1, <1>6, <2>4, <2>5, Untouched
<1>7. ASSUME NEW outcome, Judged(outcome)
      PROVE  G!TypeOK' /\ Planned' /\ (~G!Overtaken(j) => Keeps)
  <2> DEFINE moved == [job[j] EXCEPT !.next = w + 1, !.seen[w] = outcome]
  <2>0. [job[j].seen EXCEPT ![w] = outcome] \in [1..Weeks -> G!Outcomes]
    BY <1>3, <1>7
  <2>1. moved \in [at : {"periods"}, seen : [1..Weeks -> G!Outcomes], next : 1..Weeks + 1, upto : 0..Weeks]
    BY <1>3, <1>4, <2>0
  <2>2. moved \in G!JobStates
    BY <2>1 DEF G!JobStates
  <2>3. job' \in [Jobs -> G!JobStates] /\ job'[j] = moved /\ moved.at = "periods" /\ moved.next = w + 1
    BY <1>3, <1>7, <2>1, <2>2, Moves, MoveTypes
  <2>4. G!TypeOK'
    BY <1>1, <1>7, <2>3 DEF G!TypeOK, G!ladderVars, G!goalVars
  <2>5. Planned'
    BY <1>1, <1>7, <2>3, PlanKept DEF G!goalVars
  <2>6. ~G!Overtaken(j) => job[j].seen = periods
    <3>1. job'[j] # job[j]
      BY <1>4, <2>3
    <3> QED BY <1>1, <3>1 DEF G!Overtaken
  <2>7. job[j].seen = periods => \A v \in 1..Weeks : periods[v] \in G!Settled => periods'[v] = periods[v]
    BY <1>7 DEF G!TypeOK
  <2>8. stage # Never => stage \in Int
    BY Stages DEF G!TypeOK, Marks
  <2> QED BY <1>1, <2>4, <2>5, <2>6, <2>7, <2>8 DEF Keeps, G!ladderVars
<1> QED BY <1>5, <1>6, <1>7

LEMMA OtherStep ==
  ASSUME G!GoalsAssumption, G!TypeOK, Planned, G!CloseWeek \/ G!Crash \/ \E g \in GoalIds : G!ArchiveGoal(g)
  PROVE  G!TypeOK' /\ Planned' /\ Keeps
<1>1. CASE G!CloseWeek
  BY <1>1, Untouched DEF G!CloseWeek, G!TypeOK, Planned, Fits, G!ladderVars, G!goalVars, G!GoalsAssumption
<1>2. CASE G!Crash
  <2>1. job' \in [Jobs -> G!JobStates] /\ \A j \in Jobs : job'[j].at = "idle"
    BY <1>2 DEF G!Crash, G!JobStates, G!Idle
  <2>2. UNCHANGED <<G!ladderVars, G!goalVars, G!periodVars>>
    BY <1>2 DEF G!Crash
  <2> QED BY <2>1, <2>2, Untouched DEF G!TypeOK, Planned, Fits, G!ladderVars, G!goalVars, G!periodVars
<1>3. ASSUME NEW g \in GoalIds, G!ArchiveGoal(g)
      PROVE  G!TypeOK' /\ Planned' /\ Keeps
  BY <1>3, Untouched DEF G!ArchiveGoal, G!TypeOK, Planned, Fits, G!ladderVars, G!periodVars
<1> QED BY <1>1, <1>2, <1>3

GoalsInv == G!TypeOK /\ Planned

LEMMA GoalsStart ==
  ASSUME G!GoalsAssumption, G!Init
  PROVE  GoalsInv
BY DEF G!GoalsAssumption, G!Init, GoalsInv, G!TypeOK, Planned, Fits, G!JobStates, G!Idle, G!Outcomes

LEMMA GoalsStep ==
  ASSUME G!GoalsAssumption, GoalsInv, [G!Next]_G!vars
  PROVE  GoalsInv' /\ (job' # job => (\E j \in Jobs : G!Overtaken(j)) \/ Keeps)
<1>1. ASSUME NEW j \in Jobs,
             \/ G!ReadLadder(j) \/ G!RefreshLadder(j) \/ G!ReadStage(j) \/ G!RaiseStage(j)
             \/ \E r \in Rungs : G!SkipRung(j, r) \/ G!UnskipRung(j, r)
             \/ G!CountGoals(j) \/ G!CreateGoal(j) \/ G!ListGoals(j) \/ G!RefreshPace(j) \/ G!ResetRecurring(j)
             \/ G!ReadPeriods(j) \/ G!EvaluatePeriod(j) \/ G!EndPass(j)
      PROVE  GoalsInv' /\ (G!Overtaken(j) \/ Keeps)
  BY <1>1, LadderStep, StageStep, ReadStep, GoalStep, PeriodStep DEF GoalsInv
<1>2. ASSUME G!CloseWeek \/ G!Crash \/ \E g \in GoalIds : G!ArchiveGoal(g)
      PROVE  GoalsInv' /\ Keeps
  BY <1>2, OtherStep DEF GoalsInv
<1>3. CASE UNCHANGED G!vars
  BY <1>3 DEF G!vars, GoalsInv, G!TypeOK, Planned, Fits
<1> QED BY <1>1, <1>2, <1>3 DEF G!Next

-----------------------------------------------------------------------------
(* What is limited *)

\* A set of numbers has a least one.
LEMMA LeastNumber ==
  ASSUME NEW ns \in SUBSET Nat, ns # {}
  PROVE  \E n \in ns : \A k \in ns : n <= k
<1> DEFINE less == {p \in Nat \X Nat : p[1] < p[2]}
<1>1. IsWellFoundedOn(less, Nat)
  BY NatLessThanWellFounded DEF OpToRel
<1> HIDE DEF less
<1>2. PICK n \in ns : \A k \in ns : <<k, n>> \notin less
  BY <1>1, WFMin
<1> USE DEF less
<1>3. ASSUME NEW k \in ns, k < n
      PROVE  FALSE
  BY <1>2, <1>3
<1> QED BY <1>2, <1>3

\* Induction on numbers, for a set of them.
LEMMA Climb ==
  ASSUME NEW ns \in SUBSET Nat, 0 \in ns, \A n \in ns : n + 1 \in ns
  PROVE  ns = Nat
<1> SUFFICES ASSUME Nat \ ns # {}
             PROVE  FALSE
  OBVIOUS
<1>1. PICK n \in Nat \ ns : \A k \in Nat \ ns : n <= k
  BY LeastNumber
<1>2. n - 1 \in ns /\ n = (n - 1) + 1
  BY <1>1
<1> QED BY <1>1, <1>2

\* The replay is what it says week by week: there is one such function.
NoWeeks == [streak |-> 0, tokens |-> Tokens, passed |-> 0]
Turn(history, after, n) == IF n = 0 THEN NoWeeks ELSE G!OnePeriod(after[n - 1], history[n])

LEMMA Replays ==
  ASSUME G!GoalsAssumption, NEW history
  PROVE  \A n \in 0..Weeks : G!ReplayStreak(history)[n] = Turn(history, G!ReplayStreak(history), n)
<1> DEFINE upTo(m) == \E after : \A n \in 0..m : after[n] = Turn(history, after, n)
           ns == {m \in Nat : upTo(m)}
<1>1. 0 \in ns
  <2>1. \A n \in 0..0 : [z \in {0} |-> NoWeeks][n] = Turn(history, [z \in {0} |-> NoWeeks], n)
    BY DEF Turn
  <2> QED BY <2>1
<1>2. ASSUME NEW m \in ns
      PROVE  m + 1 \in ns
  <2>1. m \in Nat
    OBVIOUS
  <2>2. PICK after : \A n \in 0..m : after[n] = Turn(history, after, n)
    OBVIOUS
  <2> DEFINE more == [n \in 0..m + 1 |-> IF n = m + 1 THEN G!OnePeriod(after[m], history[m + 1]) ELSE after[n]]
  <2>3. \A n \in 0..m : more[n] = after[n]
    BY <2>1
  <2>4. more[m + 1] = Turn(history, more, m + 1)
    <3>1. more[m + 1] = G!OnePeriod(after[m], history[m + 1])
      BY <2>1
    <3>2. more[m] = after[m] /\ m + 1 # 0 /\ (m + 1) - 1 = m
      BY <2>1, <2>3
    <3> HIDE DEF more
    <3> QED BY <3>1, <3>2 DEF Turn
  <2>5. ASSUME NEW n \in 0..m
        PROVE  more[n] = Turn(history, more, n)
    <3>1. n # 0 => n - 1 \in 0..m
      BY <2>1
    <3>2. n # 0 => more[n - 1] = after[n - 1]
      BY <2>3, <3>1
    <3> HIDE DEF more
    <3> QED BY <2>2, <2>3, <3>2 DEF Turn
  <2>6. \A n \in 0..m + 1 : more[n] = Turn(history, more, n)
    <3> HIDE DEF more
    <3> QED BY <2>1, <2>4, <2>5
  <2> HIDE DEF more
  <2> QED BY <2>1, <2>6
<1>3. ns = Nat
  <2> HIDE DEF ns
  <2>1. ns \subseteq Nat
    BY DEF ns
  <2> QED BY <1>1, <1>2, <2>1, Climb
<1>4. Weeks \in Nat
  BY DEF G!GoalsAssumption
<1>5. PICK after : \A n \in 0..Weeks : after[n] = Turn(history, after, n)
  BY <1>3, <1>4
<1> DEFINE all == [n \in 0..Weeks |-> after[n]]
           body(f) == [n \in 0..Weeks |-> IF n = 0 THEN [streak |-> 0, tokens |-> Tokens, passed |-> 0]
                                                   ELSE G!OnePeriod(f[n - 1], history[n])]
<1>6. all = body(all)
  <2>1. ASSUME NEW n \in 0..Weeks
        PROVE  all[n] = body(all)[n]
    <3>1. n # 0 => n - 1 \in 0..Weeks
      BY <1>4
    <3>2. all[n] = after[n] /\ (n # 0 => all[n - 1] = after[n - 1])
      BY <3>1
    <3> QED BY <1>5, <3>2 DEF Turn, NoWeeks
  <2> QED BY <2>1
<1>7. G!ReplayStreak(history) = CHOOSE f : f = body(f)
  BY DEF G!ReplayStreak
<1>8. G!ReplayStreak(history) = body(G!ReplayStreak(history))
  <2> HIDE DEF all, body
  <2> QED BY <1>6, <1>7
<1> QED BY <1>8 DEF Turn, NoWeeks

LEMMA WeeklyNext ==
  ASSUME NEW history, NEW outcome, NEW n \in Nat
  PROVE  /\ G!Weekly(history, outcome, n) \in Nat /\ G!Weekly(history, outcome, 0) = 0
         /\ G!Weekly(history, outcome, n + 1) =
                G!Weekly(history, outcome, n) + (IF history[n + 1] = outcome THEN 1 ELSE 0)
<1> DEFINE some(m) == {w \in 1..m : history[w] = outcome}
<1>1. \A m \in Nat : IsFiniteSet(some(m)) /\ Cardinality(some(m)) \in Nat
  <2> TAKE m \in Nat
  <2>1. IsFiniteSet(1..m)
    BY FS_Interval
  <2>2. some(m) \subseteq 1..m
    OBVIOUS
  <2> HIDE DEF some
  <2> QED BY <2>1, <2>2, FS_Subset, FS_CardinalityType
<1>2. some(0) = {}
  OBVIOUS
<1>3. some(n + 1) = (IF history[n + 1] = outcome THEN some(n) \cup {n + 1} ELSE some(n)) /\ n + 1 \notin some(n)
  <2>1. 1..n + 1 = (1..n) \cup {n + 1} /\ n + 1 \notin 1..n
    OBVIOUS
  <2> QED BY <2>1
<1>4. \A m : G!Weekly(history, outcome, m) = Cardinality(some(m))
  BY SameCount DEF G!Weekly
<1> HIDE DEF some
<1>5. Cardinality(some(0)) = 0
  BY <1>2, FS_EmptySet
<1>6. Cardinality(some(n + 1)) = Cardinality(some(n)) + (IF history[n + 1] = outcome THEN 1 ELSE 0)
  <2>1. CASE history[n + 1] = outcome
    BY <1>1, <1>3, <2>1, FS_AddElement
  <2>2. CASE history[n + 1] # outcome
    BY <1>1, <1>3, <2>2
  <2> QED BY <2>1, <2>2
<1> QED BY <1>1, <1>4, <1>5, <1>6

\* A weekly count is about the weeks up to its own.
LEMMA WeeklySame ==
  ASSUME NEW history, NEW other, NEW outcome, NEW n \in Nat, \A w \in 1..n : history[w] = other[w]
  PROVE  G!Weekly(history, outcome, n) = G!Weekly(other, outcome, n)
<1>1. {w \in 1..n : history[w] = outcome} = {w \in 1..n : other[w] = outcome}
  OBVIOUS
<1> QED BY <1>1 DEF G!Weekly

\* What passed weeks earn never shrinks, and grows with every EarnEvery of them.
LEMMA Earned ==
  ASSUME G!GoalsAssumption, NEW n \in Nat
  PROVE  /\ n \div EarnEvery \in Nat /\ 0 \div EarnEvery = 0
         /\ (n + 1) \div EarnEvery >= n \div EarnEvery
         /\ (n + 1) % EarnEvery = 0 => (n + 1) \div EarnEvery >= n \div EarnEvery + 1
<1>1. EarnEvery \in Nat /\ EarnEvery >= 1
  BY DEF G!GoalsAssumption
<1>2. PICK e \in Nat : e = EarnEvery /\ e >= 1
  BY <1>1
<1>3. n \div e \in Nat /\ (n + 1) \div e \in Nat
  BY <1>2
<1>4. PICK q \in Nat, p \in Nat : q = n \div e /\ p = (n + 1) \div e
  BY <1>3
<1>5. n = e * q + (n % e) /\ n % e \in 0..e - 1 /\ n + 1 = e * p + ((n + 1) % e) /\ (n + 1) % e \in 0..e - 1
  BY <1>2, <1>4
<1>6. p >= q
  BY <1>2, <1>4
<1>7. (n + 1) % e = 0 => p >= q + 1
  <2> SUFFICES ASSUME (n + 1) % e = 0, p <= q
               PROVE  FALSE
    BY <1>4
  <2>1. e * p <= e * q
    BY <1>2, <1>4
  <2> QED BY <1>5, <2>1, <1>2, <1>4
<1>8. 0 \div e = 0
  BY <1>2
<1> QED BY <1>2, <1>3, <1>4, <1>6, <1>7, <1>8

LEMMA Smaller ==
  ASSUME NEW two, NEW m \in Int, NEW n \in Int, two = {m, n}
  PROVE  G!Min(two) \in two /\ G!Min(two) <= m /\ G!Min(two) <= n
<1>1. \E x \in two : \A y \in two : x <= y
  OBVIOUS
<1> QED BY <1>1 DEF G!Min

Banks == [streak : Nat, tokens : Nat, passed : Nat]

LEMMA PeriodBank ==
  ASSUME G!GoalsAssumption, NEW before \in Banks, NEW outcome
  PROVE  /\ G!OnePeriod(before, outcome) \in Banks
         /\ G!OnePeriod(before, outcome).passed = before.passed + (IF outcome = "passed" THEN 1 ELSE 0)
         /\ G!OnePeriod(before, outcome).tokens <=
                IF outcome = "passed" /\ (before.passed + 1) % EarnEvery = 0 THEN before.tokens + 1
                ELSE IF outcome = "repaired" /\ before.tokens > 0 THEN before.tokens - 1 ELSE before.tokens
<1>1. before.streak \in Nat /\ before.tokens \in Nat /\ before.passed \in Nat /\ Tokens \in Nat
  BY DEF Banks, G!GoalsAssumption
<1>2. PICK more \in Nat : more = G!Min({Tokens, before.tokens + 1}) /\ more <= before.tokens + 1
  <2> DEFINE two == {Tokens, before.tokens + 1}
  <2>1. G!Min(two) \in two /\ G!Min(two) <= before.tokens + 1
    <3>1. two = {Tokens, before.tokens + 1} /\ Tokens \in Int /\ before.tokens + 1 \in Int
      BY <1>1
    <3> HIDE DEF two
    <3> QED BY <3>1, Smaller
  <2>2. two \subseteq Nat
    BY <1>1
  <2> QED BY <2>1, <2>2
<1>3. PICK fewer \in Nat : fewer = G!Max({0, before.tokens - 1})
                           /\ fewer <= IF before.tokens > 0 THEN before.tokens - 1 ELSE before.tokens
  <2> DEFINE two == {0, before.tokens - 1}
  <2>1. G!Max(two) \in two /\ G!Max(two) >= 0 /\ G!Max(two) >= before.tokens - 1
    <3>1. two = {0, before.tokens - 1} /\ 0 \in Int /\ before.tokens - 1 \in Int
      BY <1>1
    <3> HIDE DEF two
    <3> QED BY <3>1, Larger
  <2>2. \A n \in two : n = 0 \/ n = before.tokens - 1
    OBVIOUS
  <2>3. PICK n : n = G!Max(two)
    OBVIOUS
  <2>4. n \in Nat /\ n <= IF before.tokens > 0 THEN before.tokens - 1 ELSE before.tokens
    <3> HIDE DEF two
    <3> QED BY <1>1, <2>1, <2>2, <2>3
  <2> QED BY <2>3, <2>4
<1>4. CASE outcome = "passed"
  <2>1. G!OnePeriod(before, outcome) =
            [streak |-> before.streak + 1, passed |-> before.passed + 1,
             tokens |-> IF (before.passed + 1) % EarnEvery = 0 THEN more ELSE before.tokens]
    BY <1>2, <1>4 DEF G!OnePeriod
  <2> QED BY <1>1, <1>2, <1>4, <2>1 DEF Banks
<1>5. CASE outcome = "missed"
  <2>1. G!OnePeriod(before, outcome) = [before EXCEPT !.streak = 0]
    BY <1>5 DEF G!OnePeriod
  <2> QED BY <1>1, <1>5, <2>1 DEF Banks
<1>6. CASE outcome = "repaired"
  <2>1. G!OnePeriod(before, outcome) = [before EXCEPT !.tokens = fewer]
    BY <1>3, <1>6 DEF G!OnePeriod, Banks
  <2> QED BY <1>1, <1>3, <1>6, <2>1 DEF Banks
<1>7. CASE outcome \notin {"passed", "missed", "repaired"}
  <2>1. G!OnePeriod(before, outcome) = before
    BY <1>7 DEF G!OnePeriod
  <2> QED BY <1>1, <1>7, <2>1
<1> QED BY <1>4, <1>5, <1>6, <1>7

\* While every week so far is covered, the bank is no more than what is left over.
LEMMA Banked ==
  ASSUME G!GoalsAssumption, NEW history, NEW w \in 1..Weeks, \A n \in 1..w - 1 : G!Covered(history, n)
  PROVE  /\ G!ReplayStreak(history)[w - 1].tokens \in Nat
         /\ G!ReplayStreak(history)[w - 1].tokens + G!Weekly(history, "repaired", w - 1)
                <= Tokens + G!Weekly(history, "passed", w - 1) \div EarnEvery
<1>1. PICK after : after = G!ReplayStreak(history)
  OBVIOUS
<1>2. Weeks \in Nat /\ Tokens \in Nat /\ EarnEvery \in Nat \ {0} /\ w - 1 \in Nat /\ w - 1 \in 0..Weeks
  BY DEF G!GoalsAssumption
<1>3. \A n \in 0..Weeks : after[n] = IF n = 0 THEN NoWeeks ELSE G!OnePeriod(after[n - 1], history[n])
  BY <1>1, Replays DEF Turn
<1> DEFINE fits(n) == /\ after[n] \in Banks /\ after[n].passed = G!Weekly(history, "passed", n)
                      /\ after[n].tokens + G!Weekly(history, "repaired", n)
                           <= Tokens + G!Weekly(history, "passed", n) \div EarnEvery
           ns == {n \in Nat : n <= w - 1 => fits(n)}
<1>4. 0 \in ns
  <2>1. G!Weekly(history, "passed", 0) = 0 /\ G!Weekly(history, "repaired", 0) = 0
    BY WeeklyNext
  <2>2. after[0] = NoWeeks
    BY <1>2, <1>3
  <2>3. after[0] \in Banks /\ after[0].passed = 0 /\ after[0].tokens = Tokens
    BY <1>2, <2>2 DEF Banks, NoWeeks
  <2>4. 0 \div EarnEvery = 0
    BY Earned
  <2> QED BY <1>2, <2>1, <2>3, <2>4
<1>5. ASSUME NEW n \in ns
      PROVE  n + 1 \in ns
  <2> SUFFICES ASSUME n + 1 <= w - 1
               PROVE  fits(n + 1)
    OBVIOUS
  <2>1. n \in Nat /\ fits(n)
    BY <1>2
  <2>2. after[n + 1] = G!OnePeriod(after[n], history[n + 1])
    <3>1. n + 1 \in 0..Weeks /\ n + 1 # 0 /\ (n + 1) - 1 = n
      BY <1>2, <2>1
    <3> QED BY <1>3, <3>1
  <2> DEFINE won == IF history[n + 1] = "passed" THEN 1 ELSE 0
             lost == IF history[n + 1] = "repaired" THEN 1 ELSE 0
  <2>3. /\ G!Weekly(history, "passed", n) \in Nat /\ G!Weekly(history, "repaired", n) \in Nat
        /\ G!Weekly(history, "passed", n + 1) = G!Weekly(history, "passed", n) + won
        /\ G!Weekly(history, "repaired", n + 1) = G!Weekly(history, "repaired", n) + lost
    BY <2>1, WeeklyNext
  <2>4. PICK p \in Nat, r \in Nat : p = G!Weekly(history, "passed", n) /\ r = G!Weekly(history, "repaired", n)
    BY <2>3
  <2>5. PICK a : a = after[n]
    OBVIOUS
  <2>6. a \in Banks /\ a.passed = p /\ a.tokens \in Nat /\ a.tokens + r <= Tokens + p \div EarnEvery
    BY <2>1, <2>4, <2>5 DEF Banks
  <2>7. PICK b : b = after[n + 1] /\ b = G!OnePeriod(a, history[n + 1])
    BY <2>2, <2>5
  <2>8. /\ b \in Banks /\ b.passed = p + won /\ b.tokens \in Nat
        /\ b.tokens <= IF history[n + 1] = "passed" /\ (p + 1) % EarnEvery = 0 THEN a.tokens + 1
                       ELSE IF history[n + 1] = "repaired" /\ a.tokens > 0 THEN a.tokens - 1 ELSE a.tokens
    <3>1. /\ b \in Banks /\ b.passed = a.passed + won
          /\ b.tokens <= IF history[n + 1] = "passed" /\ (a.passed + 1) % EarnEvery = 0 THEN a.tokens + 1
                         ELSE IF history[n + 1] = "repaired" /\ a.tokens > 0 THEN a.tokens - 1 ELSE a.tokens
      BY <2>6, <2>7, PeriodBank
    <3>2. b.tokens \in Nat
      BY <3>1 DEF Banks
    <3> QED BY <2>6, <3>1, <3>2
  <2>9. r + lost <= Tokens + (p + won) \div EarnEvery
    <3>1. n + 1 \in 1..w - 1
      BY <1>2, <2>1
    <3> QED BY <2>3, <2>4, <3>1 DEF G!Covered
  <2>10. b.tokens + (r + lost) <= Tokens + (p + won) \div EarnEvery
    <3>1. /\ p \div EarnEvery \in Nat /\ (p + 1) \div EarnEvery >= p \div EarnEvery
          /\ (p + 1) % EarnEvery = 0 => (p + 1) \div EarnEvery >= p \div EarnEvery + 1
          /\ (p + 1) \div EarnEvery \in Nat
      BY <2>4, Earned
    <3>2. PICK less \in Nat, more \in Nat : less = p \div EarnEvery /\ more = (p + 1) \div EarnEvery
      BY <3>1
    <3>3. CASE history[n + 1] = "passed"
      <4>1. won = 1 /\ lost = 0
        BY <3>3
      <4>2. b.tokens <= IF (p + 1) % EarnEvery = 0 THEN a.tokens + 1 ELSE a.tokens
        BY <2>8, <3>3
      <4>3. b.tokens + r <= Tokens + more
        <5>1. CASE (p + 1) % EarnEvery = 0
          <6>1. b.tokens <= a.tokens + 1 /\ more >= less + 1 /\ a.tokens + r <= Tokens + less
            BY <2>6, <3>1, <3>2, <4>2, <5>1
          <6> QED BY <1>2, <2>4, <2>6, <2>8, <3>2, <6>1
        <5>2. CASE (p + 1) % EarnEvery # 0
          <6>1. b.tokens <= a.tokens /\ more >= less /\ a.tokens + r <= Tokens + less
            BY <2>6, <3>1, <3>2, <4>2, <5>2
          <6> QED BY <1>2, <2>4, <2>6, <2>8, <3>2, <6>1
        <5> QED BY <5>1, <5>2
      <4> QED BY <2>4, <3>2, <4>1, <4>3
    <3>4. CASE history[n + 1] = "repaired"
      <4>1. won = 0 /\ lost = 1 /\ p + won = p
        BY <3>4, <2>4
      <4>2. r + 1 <= Tokens + less /\ a.tokens + r <= Tokens + less
        BY <2>6, <2>9, <3>2, <4>1
      <4>3. b.tokens <= IF a.tokens > 0 THEN a.tokens - 1 ELSE a.tokens
        BY <2>8, <3>4
      <4>4. b.tokens + (r + 1) <= Tokens + less
        BY <1>2, <2>4, <2>6, <2>8, <3>2, <4>2, <4>3
      <4> QED BY <3>2, <4>1, <4>4
    <3>5. CASE history[n + 1] \notin {"passed", "repaired"}
      <4>1. won = 0 /\ lost = 0 /\ p + won = p /\ r + lost = r
        BY <3>5, <2>4
      <4>2. b.tokens <= a.tokens /\ a.tokens + r <= Tokens + less
        BY <2>6, <2>8, <3>2, <3>5
      <4>3. b.tokens + r <= Tokens + less
        BY <1>2, <2>4, <2>6, <2>8, <3>2, <4>2
      <4> QED BY <3>2, <4>1, <4>3
    <3> QED BY <3>3, <3>4, <3>5
  <2> HIDE DEF won, lost
  <2> QED BY <2>3, <2>4, <2>7, <2>8, <2>10
<1>6. ns = Nat
  <2> HIDE DEF ns
  <2>1. ns \subseteq Nat
    BY DEF ns
  <2> QED BY <1>4, <1>5, <2>1, Climb
<1>7. fits(w - 1)
  BY <1>2, <1>6
<1> QED BY <1>1, <1>7 DEF Banks

\* What a step may do to the goals and the weeks, unless its job is overtaken.
WithinCap ==
  Cardinality(G!Active') > Cardinality(G!Active) /\ Cardinality(G!Active') > MaxActive => \E j \in Jobs : G!ResetRecurring(j)
RepairsPaid ==
  \A w \in 1..Weeks :
    periods'[w] = "repaired" /\ periods[w] # "repaired" /\ (\A n \in 1..w - 1 : G!Covered(periods, n))
      => G!Covered(periods', w)

LEMMA CapStep ==
  ASSUME G!GoalsAssumption, G!TypeOK, [G!Next]_G!vars, \A j \in Jobs : ~G!Overtaken(j)
  PROVE  WithinCap
<1>1. G!Active \in SUBSET GoalIds /\ IsFiniteSet(GoalIds) /\ MaxActive \in Nat
  BY SameCount DEF G!GoalsAssumption, G!TypeOK, G!Active
<1>2. IsFiniteSet(G!Active) /\ Cardinality(G!Active) \in Nat
  BY <1>1, FS_Subset, FS_CardinalityType
<1>3. CASE G!Active' \subseteq G!Active
  <2>1. PICK before, now : before = G!Active /\ now = G!Active'
    OBVIOUS
  <2>2. Cardinality(now) <= Cardinality(before) /\ Cardinality(now) \in Nat
    <3>1. now \subseteq before /\ IsFiniteSet(before)
      BY <1>2, <1>3, <2>1
    <3> QED BY <3>1, FS_Subset, FS_CardinalityType
  <2> QED BY <1>2, <2>1, <2>2 DEF WithinCap
<1>4. ASSUME NEW j \in Jobs, G!CreateGoal(j)
      PROVE  WithinCap
  <2>1. CASE made' = made
    <3>1. G!Active' = G!Active
      BY <1>4, <2>1 DEF G!CreateGoal, G!Active
    <3> QED BY <1>3, <3>1
  <2>2. CASE made' # made
    <3>1. PICK g \in GoalIds \ made : made' = made \cup {g}
      BY <1>4, <2>2 DEF G!CreateGoal
    <3>2. ~(job[j].count >= MaxActive) /\ job[j].at = "create"
      BY <1>4, <2>2 DEF G!CreateGoal
    <3>3. job[j].count = Cardinality(G!Active)
      <4>1. job'[j] # job[j]
        <5>1. job'[j] = G!Idle
          BY <1>4, Moves DEF G!CreateGoal
        <5> QED BY <3>2, <5>1 DEF G!Idle
      <4> QED BY <3>2, <4>1, SameCount DEF G!Overtaken
    <3>4. G!Active' = G!Active \cup {g} /\ g \notin G!Active
      BY <1>4, <3>1 DEF G!CreateGoal, G!Active, G!TypeOK
    <3>5. Cardinality(G!Active \cup {g}) = Cardinality(G!Active) + 1
      BY <1>2, <3>4, FS_AddElement
    <3>6. Cardinality(G!Active') = Cardinality(G!Active) + 1
      BY <3>4, <3>5
    <3> QED BY <1>1, <1>2, <3>2, <3>3, <3>6 DEF WithinCap
  <2> QED BY <2>1, <2>2
<1>5. CASE \E j \in Jobs : G!ResetRecurring(j)
  BY <1>5 DEF WithinCap
<1>6. CASE UNCHANGED G!vars
  BY <1>3, <1>6 DEF G!vars, G!goalVars, G!Active
<1>7. ASSUME NEW j \in Jobs, G!RefreshPace(j)
      PROVE  WithinCap
  BY <1>3, <1>7 DEF G!RefreshPace, G!Active
<1>8. ASSUME NEW g \in GoalIds, G!ArchiveGoal(g)
      PROVE  WithinCap
  BY <1>3, <1>8 DEF G!ArchiveGoal, G!Active
<1>9. CASE UNCHANGED G!goalVars
  BY <1>3, <1>9 DEF G!goalVars, G!Active
<1>10. CASE G!Next
  BY <1>4, <1>5, <1>7, <1>8, <1>9, <1>10 DEF G!Next, G!CloseWeek, G!Crash, G!ReadLadder, G!RefreshLadder,
           G!ReadStage,
       G!RaiseStage, G!SkipRung, G!UnskipRung, G!CountGoals, G!ListGoals, G!ReadPeriods, G!EvaluatePeriod,
                G!EndPass
<1> QED BY <1>6, <1>10

LEMMA RepairStep ==
  ASSUME G!GoalsAssumption, G!TypeOK, [G!Next]_G!vars, \A j \in Jobs : ~G!Overtaken(j)
  PROVE  RepairsPaid
<1>1. CASE periods' = periods
  BY <1>1 DEF RepairsPaid
<1>2. ASSUME NEW j \in Jobs, G!EvaluatePeriod(j), periods' # periods
      PROVE  RepairsPaid
  <2>1. job[j] \in G!JobStates /\ job[j].at = "periods" /\ job[j].next <= job[j].upto /\ Weeks \in Nat
    BY <1>2 DEF G!EvaluatePeriod, G!TypeOK, G!GoalsAssumption
  <2>2. job[j] \in [at : {"periods"}, seen : [1..Weeks -> G!Outcomes], next : 1..Weeks + 1, upto : 0..Weeks]
    BY <2>1, Carries
  <2>3. PICK v : v = job[j].next /\ v \in 1..Weeks /\ v + 1 # v
    BY <2>1, <2>2
  <2>4. PICK outcome \in G!Answers(job[j].seen, v) :
          /\ periods' = [periods EXCEPT ![v] = outcome]
          /\ G!Goto(j, [job[j] EXCEPT !.next = v + 1, !.seen[v] = outcome])
    BY <1>2, <2>3 DEF G!EvaluatePeriod
  <2>5. job[j].seen = periods
    <3>1. job'[j].next = v + 1
      <4>1. [job[j] EXCEPT !.next = v + 1, !.seen[v] = outcome].next = v + 1
        BY <2>2
      <4> QED BY <2>4, <4>1, Moves
    <3>2. job'[j] # job[j]
      BY <2>3, <3>1
    <3> QED BY <2>1, <3>2 DEF G!Overtaken
  <2> SUFFICES ASSUME NEW w \in 1..Weeks, periods'[w] = "repaired", periods[w] # "repaired",
                      \A n \in 1..w - 1 : G!Covered(periods, n)
               PROVE  G!Covered(periods', w)
    BY DEF RepairsPaid
  <2>6. periods \in [1..Weeks -> G!Outcomes] /\ periods' \in [1..Weeks -> {periods[n] : n \in 1..Weeks} \cup {outcome}]
    BY <2>4 DEF G!TypeOK
  <2>7. w = v /\ outcome = "repaired"
    BY <2>3, <2>4, <2>6
  <2>8. G!Repairs(periods, w)
    BY <2>4, <2>5, <2>7 DEF G!Answers
  <2>9. G!ReplayStreak(periods)[w - 1].tokens > 0
    BY <2>8 DEF G!Repairs
  <2>10. PICK before, n : before = periods' /\ n = w - 1 /\ n \in Nat /\ w = n + 1
    BY <2>1
  <2>11. before[n + 1] = "repaired" /\ \A m \in 1..n : before[m] = periods[m]
    BY <2>1, <2>4, <2>6, <2>7, <2>10
  <2>12. /\ G!Weekly(before, "repaired", w) = G!Weekly(periods, "repaired", n) + 1
         /\ G!Weekly(before, "passed", w) = G!Weekly(periods, "passed", n)
         /\ G!Weekly(periods, "repaired", n) \in Nat /\ G!Weekly(periods, "passed", n) \in Nat
    <3>1. /\ G!Weekly(before, "repaired", n) = G!Weekly(periods, "repaired", n)
          /\ G!Weekly(before, "passed", n) = G!Weekly(periods, "passed", n)
      BY <2>10, <2>11, WeeklySame
    <3>2. /\ G!Weekly(before, "repaired", n + 1) = G!Weekly(before, "repaired", n) + 1
          /\ G!Weekly(before, "passed", n + 1) = G!Weekly(before, "passed", n) + 0
          /\ G!Weekly(before, "repaired", n) \in Nat /\ G!Weekly(before, "passed", n) \in Nat
      BY <2>10, <2>11, WeeklyNext
    <3> QED BY <2>10, <3>1, <3>2
  <2>13. PICK bank, spent,
           won : /\ bank = G!ReplayStreak(periods)[w - 1].tokens /\ spent = G!Weekly(periods, "repaired", n)
                                 /\ won = G!Weekly(periods, "passed", n)
    OBVIOUS
  <2>14. bank \in Nat /\ bank > 0 /\ bank + spent <= Tokens + won \div EarnEvery
    BY <2>9, <2>10, <2>13, Banked
  <2>15. spent \in Nat /\ won \div EarnEvery \in Nat /\ Tokens \in Nat
    BY <2>12, <2>13, Earned DEF G!GoalsAssumption
  <2>16. spent + 1 <= Tokens + won \div EarnEvery
    BY <2>14, <2>15
  <2> QED BY <2>10, <2>12, <2>13, <2>16 DEF G!Covered
<1>3. CASE UNCHANGED G!vars
  BY <1>1, <1>3 DEF G!vars, G!periodVars
<1>4. CASE G!Next
  BY <1>1, <1>2, <1>4 DEF G!Next, G!CloseWeek, G!Crash, G!ArchiveGoal, G!ReadLadder, G!RefreshLadder,
           G!ReadStage, G!RaiseStage, G!SkipRung,
       G!UnskipRung, G!CountGoals, G!CreateGoal, G!ListGoals, G!RefreshPace, G!ResetRecurring,
                G!ReadPeriods, G!EndPass, G!periodVars
<1> QED BY <1>3, <1>4

-----------------------------------------------------------------------------
(* The sum of the machines *)

\* Every step is a step or a stutter of each machine.
LEMMA OneMoves ==
  ASSUME [MCNext]_<<machine, vars, sVars, gVars>>
  PROVE  /\ machine' = machine /\ [Next]_vars /\ [G!Next]_G!vars
         /\ machine = "sweeps" => [S!Next]_S!vars
         /\ machine # "sweeps" => UNCHANGED S!vars
BY DEF MCNext, GoalMachines, sVars, gVars, S!vars, G!vars, G!ladderVars, G!goalVars, G!periodVars

MachinesInv == TypeOK /\ GoalsInv /\ (machine = "sweeps" => WaitInv /\ CallInv)

LEMMA MachinesStart ==
  ASSUME MCInit
  PROVE  MachinesInv
<1>1. TypeOK
  BY BudgetAssumption DEF BudgetAssumption, MCInit, Init, TypeOK
<1> QED BY <1>1, MachinesAssumption, WaitStart, CallStart, GoalsStart DEF MCInit, MachinesInv

LEMMA MachinesStep ==
  ASSUME MachinesInv, [MCNext]_<<machine, vars, sVars, gVars>>
  PROVE  MachinesInv'
<1>1. TypeOK'
  BY OneMoves, TypeStep DEF MachinesInv
<1>2. GoalsInv'
  BY OneMoves, GoalsStep, MachinesAssumption DEF MachinesInv
<1>3. machine' = "sweeps" => WaitInv' /\ CallInv'
  BY OneMoves, WaitStep, CallStep, MachinesAssumption DEF MachinesInv
<1> QED BY <1>1, <1>2, <1>3 DEF MachinesInv

\* Every variable of every machine keeps its type.
THEOREM MachinesTyped == MCSpec => []TypesOK
<1>1. MachinesInv => TypesOK
  BY DEF MachinesInv, GoalsInv, WaitInv, SweepsInv, TypesOK
<1> QED BY <1>1, MachinesStart, MachinesStep, PTL DEF MCSpec

\* Whatever overlaps, fails or is made anew, the scheduler comes back to a lone connection only when
\* its interval or the back-off of a broken one is over since it last began to call, unless a
\* restart ended that call; then at least since it last recorded an attempt
\* (sync/credential-vendors.ts, scheduler/index.ts).
THEOREM PaceSafety == MCSpec => CallsArePaced
<1> DEFINE Paces == \A u \in S!Users : S!CallUser(u) /\ S!Lone =>
                      S!Rested(swept[u]) /\ (S!Rested(called[u]) \/ u \in cut)
<1>1. MachinesInv /\ [MCNext]_<<machine, vars, sVars, gVars>> => [Paces]_S!vars
  <2> SUFFICES ASSUME MachinesInv, [MCNext]_<<machine, vars, sVars, gVars>>
               PROVE  [Paces]_S!vars
    OBVIOUS
  <2>1. CASE machine = "sweeps"
    <3>1. Paces
      BY <2>1, Paced, MachinesAssumption DEF MachinesInv
    <3> QED BY <3>1
  <2>2. CASE machine # "sweeps"
    BY <2>2, OneMoves
  <2> QED BY <2>1, <2>2
<1> QED BY <1>1, MachinesStart, MachinesStep, PTL DEF MCSpec, CallsArePaced, S!CallsArePaced

\* Within the hours in which no failing connection is tried again, a due user has waited at most
\* one pass for every Abort connections ever made besides its own, whichever of them fail, are cut
\* or are made anew, and whatever restarts (scheduler/index.ts, sync/credential-vendors.ts).
THEOREM StarvationSafety == MCSpec => []NobodyStarves
<1>1. MachinesInv => NobodyStarves
  BY WaitSafe, MachinesAssumption DEF MachinesInv, NobodyStarves
<1> QED BY <1>1, MachinesStart, MachinesStep, PTL DEF MCSpec

\* Completed rungs, stages and settled periods are kept by every step of a job that works from a
\* copy of what is stored (goals/ladder.ts, goals/evaluation.ts).
THEOREM ProgressSafety == MCSpec => ProgressIsPermanent
<1> DEFINE Permanent ==
             job' # job =>
               \/ \E j \in Jobs : G!Overtaken(j)
               \/ /\ \A r \in Rungs : ladder # Never /\ ladder[r] = "completed" => ladder'[r] = "completed"
                  /\ stage # Never => stage' # Never /\ stage' >= stage
                  /\ \A w \in 1..Weeks : periods[w] \in G!Settled => periods'[w] = periods[w]
<1>1. MachinesInv /\ [MCNext]_<<machine, vars, sVars, gVars>> => [Permanent]_G!vars
  BY OneMoves, GoalsStep, MachinesAssumption DEF MachinesInv, Keeps
<1> QED BY <1>1, MachinesStart, MachinesStep, PTL DEF MCSpec, ProgressIsPermanent, G!ProgressIsPermanent

\* A goal becomes active beyond the cap by its yearly reset only, and a week is repaired with a
\* token that the weeks before it leave over, by every job that works from what is stored
\* (store/target-goals.ts, goals/guardrails.ts, goals/evaluation.ts).
THEOREM LimitsSafety == MCSpec => LimitsKept
<1> DEFINE Limits ==
             job' # job =>
               \/ \E j \in Jobs : G!Overtaken(j)
               \/ /\ G!Cardinality(G!Active') > G!Cardinality(G!Active) /\ G!Cardinality(G!Active') > MaxActive
                       => \E j \in Jobs : G!ResetRecurring(j)
                  /\ \A w \in 1..Weeks :
                       /\ periods'[w] = "repaired" /\ periods[w] # "repaired"
                       /\ \A n \in 1..w - 1 : G!Covered(periods, n)
                       => G!Covered(periods', w)
<1>1. MachinesInv /\ [MCNext]_<<machine, vars, sVars, gVars>> => [Limits]_G!vars
  <2> SUFFICES ASSUME MachinesInv, [MCNext]_<<machine, vars, sVars, gVars>>, \A j \in Jobs : ~G!Overtaken(j)
               PROVE  [Limits]_G!vars
    OBVIOUS
  <2>1. WithinCap /\ RepairsPaid
    BY OneMoves, CapStep, RepairStep, MachinesAssumption DEF MachinesInv, GoalsInv
  <2> QED BY <2>1, SameCount DEF WithinCap, RepairsPaid
<1> QED BY <1>1, MachinesStart, MachinesStep, PTL DEF MCSpec, LimitsKept, G!LimitsKept

=============================================================================

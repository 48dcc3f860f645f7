---------------------------- MODULE CircuitBreaker ----------------------------
(***************************************************************************)
(* Calls to vendors through util/fetch.ts (fetchWithRetry) and the breaker *)
(* that guards them (resilience/circuit-breaker.ts). Calls run side by     *)
(* side; each sends up to MaxAttempts requests and reports what came back. *)
(*                                                                         *)
(* Time is counted in ticks. A call is over within CallTicks: three        *)
(* attempts of five seconds and two delays of at most two are shorter than *)
(* BREAKER_BASE_EJECTION_MS (30 s) and BREAKER_PROBE_TIMEOUT_MS (60 s).    *)
(*                                                                         *)
(* The rolling window of the rate detector is left out: where RateTrips,   *)
(* the detector may fire on any failure. The retry budget is RetryBudget;  *)
(* here a retry may be granted or denied. A refused call changes nothing.  *)
(***************************************************************************)
EXTENDS Naturals, FiniteSets

CONSTANTS
  Vendors,       \* hostnames
  Calls,         \* calls that may be in flight together
  Idle,          \* the vendor of a call slot that is not in use
  MaxAttempts,   \* MAX_ATTEMPTS
  CallTicks,     \* how long a call may take
  Threshold,     \* BREAKER_CONSECUTIVE_THRESHOLD
  BaseEjection,  \* BREAKER_BASE_EJECTION_MS
  MaxEjection,   \* BREAKER_MAX_EJECTION_MS
  ProbeTimeout,  \* BREAKER_PROBE_TIMEOUT_MS
  MaxPercent,    \* BREAKER_MAX_EJECTION_PERCENT
  RateTrips      \* the volume is high enough for the rate detector

ASSUME BreakerAssumption ==
  /\ IsFiniteSet(Vendors) /\ Idle \notin Vendors
  /\ MaxAttempts \in Nat \ {0} /\ Threshold \in Nat \ {0}
  /\ CallTicks \in Nat
  /\ BaseEjection \in Nat /\ MaxEjection \in Nat /\ ProbeTimeout \in Nat
  /\ CallTicks < BaseEjection /\ CallTicks < MaxEjection /\ CallTicks < ProbeTimeout
  /\ MaxPercent \in 1..100
  /\ RateTrips \in BOOLEAN

VARIABLES
  known,     \* vendors with a breaker
  state,     \* per vendor: "closed", "open", "half_open"
  streak,    \* per vendor: consecutiveFailures, up to Threshold
  ejection,  \* per vendor: the last open period, 0 when ejections = 0
  openFor,   \* per vendor: ticks left until openUntil
  probing,   \* per vendor: probeInFlight
  probeAge,  \* per vendor: ticks since probeStartedAt, up to ProbeTimeout
  up,        \* per vendor: it answers
  target,    \* per call: its vendor, or Idle
  attempt,   \* per call: the request it is at
  limited,   \* per call: its one retry of a 429 is spent
  age        \* per call: ticks since it began

vars == <<known, state, streak, ejection, openFor, probing, probeAge, up,
          target, attempt, limited, age>>
breakerVars == <<known, state, streak, ejection, openFor, probing, probeAge>>
callVars == <<target, attempt, limited, age>>

Smaller(a, b) == IF a < b THEN a ELSE b

TypeOK ==
  /\ known \subseteq Vendors
  /\ state \in [Vendors -> {"closed", "open", "half_open"}]
  /\ streak \in [Vendors -> 0..Threshold]
  /\ ejection \in [Vendors -> 0..MaxEjection]
  /\ openFor \in [Vendors -> 0..MaxEjection]
  /\ probing \in [Vendors -> BOOLEAN]
  /\ probeAge \in [Vendors -> 0..ProbeTimeout]
  /\ up \in [Vendors -> BOOLEAN]
  /\ target \in [Calls -> Vendors \cup {Idle}]
  /\ attempt \in [Calls -> 0..MaxAttempts]
  /\ limited \in [Calls -> BOOLEAN]
  /\ age \in [Calls -> 0..CallTicks]

Init ==
  /\ known = {}
  /\ state = [v \in Vendors |-> "closed"]
  /\ streak = [v \in Vendors |-> 0] /\ ejection = [v \in Vendors |-> 0]
  /\ openFor = [v \in Vendors |-> 0]
  /\ probing = [v \in Vendors |-> FALSE] /\ probeAge = [v \in Vendors |-> 0]
  /\ up \in [Vendors -> BOOLEAN]
  /\ target = [c \in Calls |-> Idle] /\ attempt = [c \in Calls |-> 0]
  /\ limited = [c \in Calls |-> FALSE] /\ age = [c \in Calls |-> 0]

-----------------------------------------------------------------------------
(* The breaker *)

Ejected == {v \in known : state[v] = "open" /\ openFor[v] > 0}

\* Mutant: the comparison uses the count before this ejection.
CeilingBeforeBlocks ==
  /\ Cardinality(known) > 1
  /\ Cardinality(Ejected) * 100 > MaxPercent * Cardinality(known)

\* ceilingWouldBlock: one more ejection would exceed the share of the known
\* vendors that may be ejected; a single vendor may always be.
CeilingWouldBlock ==
  /\ Cardinality(known) > 1
  /\ (Cardinality(Ejected) + 1) * 100 > MaxPercent * Cardinality(known)

\* Mutant: the doubling is not capped.
NextEjectionUncapped(v) == IF ejection[v] = 0 THEN BaseEjection ELSE 2 * ejection[v]

\* ejectionMs: the base, doubled with every ejection in a row, up to the cap.
NextEjection(v) == Smaller(IF ejection[v] = 0 THEN BaseEjection ELSE 2 * ejection[v], MaxEjection)

\* Mutant: a probe that never reports is waited for.
AllowsUnlessProbing(v) ==
  \/ state[v] = "closed"
  \/ state[v] = "open" /\ openFor[v] = 0
  \/ state[v] = "half_open" /\ ~probing[v]

\* allowRequest, what it answers.
Allows(v) ==
  \/ state[v] = "closed"
  \/ state[v] = "open" /\ openFor[v] = 0
  \/ state[v] = "half_open" /\ (~probing[v] \/ probeAge[v] >= ProbeTimeout)

\* Mutant: an abandoned probe's start time is kept for the next one.
HandOutKeepingStart(v) ==
  /\ known' = known \cup {v}
  /\ IF state[v] = "closed" THEN UNCHANGED <<state, probing, probeAge>>
     ELSE /\ state' = [state EXCEPT ![v] = "half_open"]
          /\ probing' = [probing EXCEPT ![v] = TRUE]
          /\ UNCHANGED probeAge
  /\ UNCHANGED <<streak, ejection, openFor>>

\* allowRequest, what it does when it answers true: anything but a closed
\* breaker hands out a probe.
HandOut(v) ==
  /\ known' = known \cup {v}
  /\ IF state[v] = "closed" THEN UNCHANGED <<state, probing, probeAge>>
     ELSE /\ state' = [state EXCEPT ![v] = "half_open"]
          /\ probing' = [probing EXCEPT ![v] = TRUE]
          /\ probeAge' = [probeAge EXCEPT ![v] = 0]
  /\ UNCHANGED <<streak, ejection, openFor>>

\* Mutant: a success only ends the streak.
RecordSuccessStreakOnly(v) ==
  /\ streak' = [streak EXCEPT ![v] = 0]
  /\ UNCHANGED <<known, state, ejection, openFor, probing, probeAge>>

\* recordBreakerSuccess: a half-open breaker closes and forgets.
RecordSuccess(v) ==
  /\ streak' = [streak EXCEPT ![v] = 0]
  /\ IF state[v] = "half_open"
     THEN /\ state' = [state EXCEPT ![v] = "closed"]
          /\ ejection' = [ejection EXCEPT ![v] = 0]
          /\ openFor' = [openFor EXCEPT ![v] = 0]
          /\ probing' = [probing EXCEPT ![v] = FALSE]
          /\ probeAge' = [probeAge EXCEPT ![v] = 0]
     ELSE UNCHANGED <<state, ejection, openFor, probing, probeAge>>
  /\ UNCHANGED known

\* trip, where the ceiling lets it.
Trip(v) ==
  /\ ejection' = [ejection EXCEPT ![v] = NextEjection(v)]
  /\ state' = [state EXCEPT ![v] = "open"]
  /\ openFor' = [openFor EXCEPT ![v] = NextEjection(v)]
  /\ probing' = [probing EXCEPT ![v] = FALSE]
  /\ probeAge' = [probeAge EXCEPT ![v] = 0]

\* recordBreakerFailure: a failure in half_open trips, one while open only
\* counts, and one while closed trips when a detector fires.
RecordFailure(v, rate) ==
  /\ streak' = [streak EXCEPT ![v] = Smaller(@ + 1, Threshold)]
  /\ LET wants == \/ state[v] = "half_open"
                  \/ state[v] = "closed" /\ (streak[v] + 1 >= Threshold \/ rate)
     IN IF wants /\ ~CeilingWouldBlock THEN Trip(v)
        ELSE UNCHANGED <<ejection, state, openFor, probing, probeAge>>
  /\ UNCHANGED known

-----------------------------------------------------------------------------
(* fetchWithRetry *)

CallStart(c, v) ==
  /\ target[c] = Idle /\ Allows(v)
  /\ HandOut(v)
  /\ target' = [target EXCEPT ![c] = v]
  /\ attempt' = [attempt EXCEPT ![c] = 1]
  /\ limited' = [limited EXCEPT ![c] = FALSE]
  /\ age' = [age EXCEPT ![c] = 0]
  /\ UNCHANGED up

End(c) ==
  /\ target' = [target EXCEPT ![c] = Idle]
  /\ attempt' = [attempt EXCEPT ![c] = 0]
  /\ limited' = [limited EXCEPT ![c] = FALSE]
  /\ age' = [age EXCEPT ![c] = 0]

\* Back off, then send the next request; the breaker is not asked again.
Again(c) ==
  /\ attempt[c] < MaxAttempts
  /\ attempt' = [attempt EXCEPT ![c] = @ + 1]
  /\ UNCHANGED <<target, age>>

\* A 2xx, a 4xx, or a 429 that is not retried: the vendor answered.
Answer(c) ==
  /\ target[c] # Idle /\ up[target[c]]
  /\ RecordSuccess(target[c])
  /\ End(c)
  /\ UNCHANGED up

\* A 429 with a short Retry-After: one more attempt, nothing recorded.
RateLimited(c) ==
  /\ target[c] # Idle /\ up[target[c]] /\ ~limited[c]
  /\ limited' = [limited EXCEPT ![c] = TRUE]
  /\ Again(c)
  /\ UNCHANGED <<breakerVars, up>>

\* A 5xx, a network error or a timeout: recorded, then retried or given up.
Fail(c) ==
  /\ target[c] # Idle /\ ~up[target[c]]
  /\ \E rate \in {r \in BOOLEAN : r => RateTrips} : RecordFailure(target[c], rate)
  /\ End(c) \/ (Again(c) /\ UNCHANGED limited)
  /\ UNCHANGED up

\* Any other exception leaves the call without a report to the breaker.
Vanish(c) ==
  /\ target[c] # Idle
  /\ End(c)
  /\ UNCHANGED <<breakerVars, up>>

-----------------------------------------------------------------------------
(* Time and the vendors (external) *)

Tick ==
  /\ \A c \in Calls : target[c] # Idle => age[c] < CallTicks
  /\ openFor' = [v \in Vendors |-> IF openFor[v] > 0 THEN openFor[v] - 1 ELSE 0]
  /\ probeAge' = [v \in Vendors |-> IF probing[v] THEN Smaller(probeAge[v] + 1, ProbeTimeout) ELSE probeAge[v]]
  /\ age' = [c \in Calls |-> IF target[c] = Idle THEN age[c] ELSE age[c] + 1]
  /\ UNCHANGED <<known, state, streak, ejection, probing, up, target, attempt, limited>>

VendorTurns(v) ==
  /\ up' = [up EXCEPT ![v] = ~@]
  /\ UNCHANGED <<breakerVars, callVars>>

CallStep(c) == Answer(c) \/ RateLimited(c) \/ Fail(c) \/ Vanish(c)

Next ==
  \/ \E c \in Calls : CallStep(c) \/ \E v \in Vendors : CallStart(c, v)
  \/ Tick
  \/ \E v \in Vendors : VendorTurns(v)

Spec == Init /\ [][Next]_vars

\* Time passes and calls end. A vendor is called again and again, because the
\* scheduler retries every connection, and one that is up answers some calls.
Fairness ==
  /\ WF_vars(Tick)
  /\ \A c \in Calls : WF_vars(CallStep(c))
  /\ \A v \in Vendors :
       /\ SF_vars(\E c \in Calls : CallStart(c, v))
       /\ SF_vars(\E c \in Calls : target[c] = v /\ Answer(c))

FairSpec == Spec /\ Fairness

-----------------------------------------------------------------------------
(* What the breaker promises *)

\* The ejection ceiling (circuit-breaker.ts:217): however the detectors decide,
\* at most MaxPercent of the known vendors are ejected at a time, or one.
CeilingHolds ==
  \/ Cardinality(Ejected) <= 1
  \/ Cardinality(Ejected) * 100 <= MaxPercent * Cardinality(known)

\* "The half-open probe is handed out exactly once per open period"
\* (circuit-breaker.ts:261): a half-open vendor never has two calls in flight,
\* neither a second probe nor a call admitted before the breaker opened, so
\* what closes or trips it again is the probe's own report.
OneProbe ==
  \A v \in Vendors : state[v] = "half_open" =>
    \A c, d \in Calls : target[c] = v /\ target[d] = v => c = d

\* "rather than refusing this vendor forever" (circuit-breaker.ts:287): whatever
\* happens to the probes, a vendor is admitted again after every refusal.
NeverRefusedForever == \A v \in Vendors : []<>Allows(v)

\* A vendor that is up for good is closed for good in the end.
Recovers == \A v \in Vendors : <>[]up[v] => <>[](state[v] = "closed")

=============================================================================

------------------------- MODULE CircuitBreakerProofs -------------------------
(* Proofs about CircuitBreaker: its types, the ejection ceiling and the      *)
(* single probe, for any vendors, calls and timings that respect             *)
(* BreakerAssumption.                                                        *)
EXTENDS CircuitBreaker, FiniteSetTheorems, TLAPS

-----------------------------------------------------------------------------
(* Types *)

LEMMA EjectionIsBounded ==
  ASSUME TypeOK, NEW v \in Vendors
  PROVE  NextEjection(v) \in 0..MaxEjection
BY BreakerAssumption DEF BreakerAssumption, TypeOK, NextEjection, Smaller

LEMMA TypeInit == Init => TypeOK
BY BreakerAssumption DEF BreakerAssumption, Init, TypeOK

\* What a report does to the breaker keeps its types.
LEMMA ReportTypes ==
  ASSUME TypeOK, NEW v \in Vendors, NEW rate \in BOOLEAN,
         RecordSuccess(v) \/ RecordFailure(v, rate)
  PROVE  /\ known' \subseteq Vendors
         /\ state' \in [Vendors -> {"closed", "open", "half_open"}]
         /\ streak' \in [Vendors -> 0..Threshold]
         /\ ejection' \in [Vendors -> 0..MaxEjection]
         /\ openFor' \in [Vendors -> 0..MaxEjection]
         /\ probing' \in [Vendors -> BOOLEAN]
         /\ probeAge' \in [Vendors -> 0..ProbeTimeout]
<1> USE BreakerAssumption DEF BreakerAssumption, TypeOK
<1>1. CASE RecordSuccess(v)
  <2>1. CASE state[v] = "half_open"
    <3>1. /\ known' = known
          /\ streak' = [streak EXCEPT ![v] = 0]
          /\ state' = [state EXCEPT ![v] = "closed"]
          /\ ejection' = [ejection EXCEPT ![v] = 0]
          /\ openFor' = [openFor EXCEPT ![v] = 0]
          /\ probing' = [probing EXCEPT ![v] = FALSE]
          /\ probeAge' = [probeAge EXCEPT ![v] = 0]
      BY <1>1, <2>1 DEF RecordSuccess
    <3>2. 0 \in 0..Threshold /\ 0 \in 0..MaxEjection /\ 0 \in 0..ProbeTimeout
      OBVIOUS
    <3> QED BY <3>1, <3>2
  <2>2. CASE state[v] # "half_open"
    BY <1>1, <2>2 DEF RecordSuccess
  <2> QED BY <2>1, <2>2
<1>2. CASE RecordFailure(v, rate)
  <2>1. streak' \in [Vendors -> 0..Threshold] /\ known' \subseteq Vendors
    BY <1>2 DEF RecordFailure, Smaller
  <2>2. NextEjection(v) \in 0..MaxEjection
    BY EjectionIsBounded
  <2>3. CASE Trip(v)
    BY <2>1, <2>2, <2>3 DEF Trip
  <2>4. CASE UNCHANGED <<ejection, state, openFor, probing, probeAge>>
    BY <2>1, <2>4
  <2> QED BY <1>2, <2>3, <2>4 DEF RecordFailure
<1> QED BY <1>1, <1>2

LEMMA TypeStep ==
  ASSUME TypeOK, [Next]_vars
  PROVE  TypeOK'
<1> USE BreakerAssumption DEF BreakerAssumption
<1>1. ASSUME NEW c \in Calls, Answer(c)
      PROVE  TypeOK'
  <2>1. target[c] \in Vendors
    BY <1>1 DEF Answer, TypeOK
  <2>2. RecordSuccess(target[c]) \/ RecordFailure(target[c], FALSE)
    BY <1>1 DEF Answer
  <2> QED BY <1>1, <2>1, <2>2, ReportTypes DEF Answer, End, TypeOK
<1>2. ASSUME NEW c \in Calls, RateLimited(c)
      PROVE  TypeOK'
  BY <1>2 DEF RateLimited, Again, breakerVars, TypeOK
<1>3. ASSUME NEW c \in Calls, Fail(c)
      PROVE  TypeOK'
  <2>1. target[c] \in Vendors
    BY <1>3 DEF Fail, TypeOK
  <2>2. PICK rate \in BOOLEAN : RecordFailure(target[c], rate)
    BY <1>3 DEF Fail
  <2>3. /\ known' \subseteq Vendors
        /\ state' \in [Vendors -> {"closed", "open", "half_open"}]
        /\ streak' \in [Vendors -> 0..Threshold]
        /\ ejection' \in [Vendors -> 0..MaxEjection]
        /\ openFor' \in [Vendors -> 0..MaxEjection]
        /\ probing' \in [Vendors -> BOOLEAN]
        /\ probeAge' \in [Vendors -> 0..ProbeTimeout]
    BY <2>1, <2>2, ReportTypes
  <2>4. CASE End(c)
    BY <1>3, <2>3, <2>4 DEF Fail, End, TypeOK
  <2>5. CASE Again(c) /\ UNCHANGED limited
    <3>1. attempt' \in [Calls -> 0..MaxAttempts]
      BY <2>5 DEF Again, TypeOK
    <3> QED BY <1>3, <2>3, <2>5, <3>1 DEF Fail, Again, TypeOK
  <2> QED BY <1>3, <2>4, <2>5 DEF Fail
<1>4. ASSUME NEW c \in Calls, Vanish(c)
      PROVE  TypeOK'
  BY <1>4 DEF Vanish, End, breakerVars, TypeOK
<1>5. ASSUME NEW c \in Calls, NEW v \in Vendors, CallStart(c, v)
      PROVE  TypeOK'
  <2>1. /\ target' \in [Calls -> Vendors \cup {Idle}] /\ attempt' \in [Calls -> 0..MaxAttempts]
        /\ limited' \in [Calls -> BOOLEAN] /\ age' \in [Calls -> 0..CallTicks]
        /\ up' \in [Vendors -> BOOLEAN]
    BY <1>5 DEF CallStart, TypeOK
  <2>2. /\ known' \subseteq Vendors /\ streak' = streak /\ ejection' = ejection /\ openFor' = openFor
        /\ state' \in [Vendors -> {"closed", "open", "half_open"}]
        /\ probing' \in [Vendors -> BOOLEAN] /\ probeAge' \in [Vendors -> 0..ProbeTimeout]
    <3>1. CASE state[v] = "closed"
      BY <1>5, <3>1 DEF CallStart, HandOut, TypeOK
    <3>2. CASE state[v] # "closed"
      <4>1. /\ known' = known \cup {v}
            /\ state' = [state EXCEPT ![v] = "half_open"]
            /\ probing' = [probing EXCEPT ![v] = TRUE]
            /\ probeAge' = [probeAge EXCEPT ![v] = 0]
            /\ streak' = streak /\ ejection' = ejection /\ openFor' = openFor
        BY <1>5, <3>2 DEF CallStart, HandOut
      <4>2. 0 \in 0..ProbeTimeout
        OBVIOUS
      <4> QED BY <4>1, <4>2 DEF TypeOK
    <3> QED BY <3>1, <3>2
  <2> QED BY <2>1, <2>2 DEF TypeOK
<1>6. CASE Tick
  <2>1. openFor' \in [Vendors -> 0..MaxEjection]
    BY <1>6 DEF Tick, TypeOK
  <2>2. probeAge' \in [Vendors -> 0..ProbeTimeout]
    BY <1>6 DEF Tick, TypeOK, Smaller
  <2>3. age' \in [Calls -> 0..CallTicks]
    BY <1>6 DEF Tick, TypeOK
  <2> QED BY <1>6, <2>1, <2>2, <2>3 DEF Tick, TypeOK
<1>7. ASSUME NEW v \in Vendors, VendorTurns(v)
      PROVE  TypeOK'
  BY <1>7 DEF VendorTurns, breakerVars, callVars, TypeOK
<1>8. CASE UNCHANGED vars
  BY <1>8 DEF vars, TypeOK
<1> QED BY <1>1, <1>2, <1>3, <1>4, <1>5, <1>6, <1>7, <1>8 DEF Next, CallStep

\* The breaker's and the calls' variables keep their types.
THEOREM TypeCorrect == Spec => []TypeOK
<1>1. TypeOK /\ [Next]_vars => TypeOK'
  BY TypeStep
<1> QED BY TypeInit, <1>1, PTL DEF Spec

-----------------------------------------------------------------------------
(* The single probe *)

\* Every open period outlasts the calls in flight when it began, and a probe's
\* age is the age of its call: no call is left when the next probe is handed out.
Timed ==
  /\ \A v \in Vendors : /\ ejection[v] = 0 \/ ejection[v] > CallTicks
                        /\ state[v] = "half_open" => probing[v]
  /\ \A c \in Calls : target[c] # Idle =>
       /\ state[target[c]] = "open" => CallTicks < openFor[target[c]] + age[c]
       /\ state[target[c]] = "half_open" => probeAge[target[c]] = age[c]

LEMMA EjectionOutlastsCalls ==
  ASSUME TypeOK, Timed, NEW v \in Vendors
  PROVE  NextEjection(v) > CallTicks
BY BreakerAssumption DEF BreakerAssumption, TypeOK, Timed, NextEjection, Smaller

LEMMA ProbeStep ==
  ASSUME TypeOK, Timed, OneProbe, [Next]_vars
  PROVE  Timed' /\ OneProbe'
<1> USE BreakerAssumption DEF BreakerAssumption, Timed, OneProbe, TypeOK
<1>1. ASSUME NEW c \in Calls, Answer(c)
      PROVE  Timed' /\ OneProbe'
  <2>1. \A d \in Calls : target'[d] # Idle => d # c /\ target'[d] = target[d] /\ age'[d] = age[d]
    BY <1>1 DEF Answer, End
  <2>2. CASE state[target[c]] = "half_open"
    BY <1>1, <2>1, <2>2 DEF Answer, RecordSuccess
  <2>3. CASE state[target[c]] # "half_open"
    BY <1>1, <2>1, <2>3 DEF Answer, RecordSuccess
  <2> QED BY <2>2, <2>3
<1>2. ASSUME NEW c \in Calls, RateLimited(c)
      PROVE  Timed' /\ OneProbe'
  BY <1>2 DEF RateLimited, Again, breakerVars
<1>3. ASSUME NEW c \in Calls, Fail(c)
      PROVE  Timed' /\ OneProbe'
  <2>1. target[c] \in Vendors
    BY <1>3 DEF Fail
  <2>2. PICK rate \in BOOLEAN : RecordFailure(target[c], rate)
    BY <1>3 DEF Fail
  <2>3. NextEjection(target[c]) > CallTicks /\ NextEjection(target[c]) \in Nat
    BY <2>1, EjectionOutlastsCalls, EjectionIsBounded
  <2>4. \A d \in Calls : /\ target'[d] # Idle => target'[d] = target[d] /\ age'[d] = age[d]
    BY <1>3 DEF Fail, End, Again
  <2>5. CASE Trip(target[c])
    <3>1. \A v \in Vendors : /\ ejection'[v] = 0 \/ ejection'[v] > CallTicks
                             /\ state'[v] = "half_open" => state[v] = "half_open" /\ probing'[v]
      BY <2>1, <2>3, <2>5 DEF Trip
    <3>2. ASSUME NEW d \in Calls, target'[d] # Idle
          PROVE  /\ state'[target'[d]] = "open" => CallTicks < openFor'[target'[d]] + age'[d]
                 /\ state'[target'[d]] = "half_open" => probeAge'[target'[d]] = age'[d]
      <4>1. target[d] \in Vendors /\ target[d] # Idle /\ target'[d] = target[d] /\ age'[d] = age[d] /\ age[d] \in Nat
        BY <2>4, <3>2
      <4>2. CASE target[d] = target[c]
        BY <2>1, <2>3, <2>5, <4>1, <4>2 DEF Trip
      <4>3. CASE target[d] # target[c]
        BY <2>1, <2>5, <4>1, <4>3 DEF Trip
      <4> QED BY <4>2, <4>3
    <3> QED BY <2>4, <3>1, <3>2
  <2>6. CASE UNCHANGED <<ejection, state, openFor, probing, probeAge>>
    BY <2>4, <2>6
  <2> QED BY <2>2, <2>5, <2>6 DEF RecordFailure
<1>4. ASSUME NEW c \in Calls, Vanish(c)
      PROVE  Timed' /\ OneProbe'
  BY <1>4 DEF Vanish, End, breakerVars
<1>5. ASSUME NEW c \in Calls, NEW v \in Vendors, CallStart(c, v)
      PROVE  Timed' /\ OneProbe'
  <2>1. state[v] = "closed" \/ \A d \in Calls : target[d] # v
    BY <1>5 DEF CallStart, Allows
  <2> QED BY <1>5, <2>1 DEF CallStart, HandOut
<1>6. CASE Tick
  <2>1. ASSUME NEW c \in Calls, target[c] # Idle
        PROVE  /\ state[target[c]] = "open" => CallTicks < openFor'[target[c]] + age'[c]
               /\ state[target[c]] = "half_open" => probeAge'[target[c]] = age'[c]
    <3>1. target[c] \in Vendors /\ age[c] < CallTicks /\ age'[c] = age[c] + 1
      BY <1>6, <2>1 DEF Tick
    <3> QED BY <1>6, <2>1, <3>1 DEF Tick, Smaller
  <2>2. Timed'
    BY <1>6, <2>1 DEF Tick
  <2>3. OneProbe'
    BY <1>6 DEF Tick
  <2> QED BY <2>2, <2>3
<1>7. ASSUME NEW v \in Vendors, VendorTurns(v)
      PROVE  Timed' /\ OneProbe'
  BY <1>7 DEF VendorTurns, breakerVars, callVars
<1>8. CASE UNCHANGED vars
  BY <1>8 DEF vars
<1> QED BY <1>1, <1>2, <1>3, <1>4, <1>5, <1>6, <1>7, <1>8 DEF Next, CallStep

\* A half-open vendor never has two calls in flight, as long as a call is
\* shorter than the shortest open period and than the probe timeout.
THEOREM ProbeSafety == Spec => []OneProbe
<1>1. Init => Timed /\ OneProbe
  BY DEF Init, Timed, OneProbe
<1>2. TypeOK /\ Timed /\ OneProbe /\ [Next]_vars => Timed' /\ OneProbe'
  BY ProbeStep
<1> QED BY TypeCorrect, <1>1, <1>2, PTL DEF Spec

-----------------------------------------------------------------------------
(* The ejection ceiling *)

\* A call's vendor has a breaker.
CallsKnown == \A c \in Calls : target[c] # Idle => target[c] \in known

\* The sets the ceiling counts are finite.
LEMMA Finite ==
  ASSUME TypeOK
  PROVE  /\ IsFiniteSet(known) /\ Cardinality(known) \in Nat
         /\ IsFiniteSet(Ejected) /\ Cardinality(Ejected) \in Nat
<1>1. known \subseteq Vendors /\ Ejected \subseteq Vendors
  BY DEF TypeOK, Ejected
<1>2. IsFiniteSet(known) /\ IsFiniteSet(Ejected)
  BY <1>1, BreakerAssumption, FS_Subset DEF BreakerAssumption
<1> QED BY <1>2, FS_CardinalityType

\* Fewer ejections among more known vendors stay below the ceiling.
LEMMA CeilingIsMonotone ==
  ASSUME TypeOK, TypeOK', CeilingHolds, Ejected' \subseteq Ejected, known \subseteq known'
  PROVE  CeilingHolds'
<1> DEFINE e == Cardinality(Ejected)   f == Cardinality(Ejected')
           k == Cardinality(known)     l == Cardinality(known')
<1>1. e \in Nat /\ k \in Nat /\ IsFiniteSet(Ejected)
  BY Finite
<1>2. f \in Nat /\ l \in Nat /\ IsFiniteSet(known')
  <2>1. known' \subseteq Vendors /\ Ejected' \subseteq Vendors
    BY DEF TypeOK, Ejected
  <2>2. IsFiniteSet(known') /\ IsFiniteSet(Ejected')
    BY <2>1, BreakerAssumption, FS_Subset DEF BreakerAssumption
  <2> QED BY <2>2, FS_CardinalityType
<1>3. f <= e /\ k <= l
  BY <1>1, <1>2, FS_Subset
<1>4. MaxPercent * k <= MaxPercent * l
  <2>1. MaxPercent \in Nat
    BY BreakerAssumption DEF BreakerAssumption
  <2> HIDE DEF k, l
  <2> QED BY <1>1, <1>2, <1>3, <2>1, Z3
<1>5. e <= 1 \/ e * 100 <= MaxPercent * k
  BY DEF CeilingHolds
<1>6. f <= 1 \/ f * 100 <= MaxPercent * l
  <2>1. MaxPercent * k \in Nat /\ MaxPercent * l \in Nat
    BY <1>1, <1>2, BreakerAssumption DEF BreakerAssumption
  <2> HIDE DEF e, f, k, l
  <2> QED BY <1>1, <1>2, <1>3, <1>4, <1>5, <2>1
<1> QED BY <1>6 DEF CeilingHolds

\* One ejection that the ceiling does not block stays below it.
LEMMA TripStaysBelow ==
  ASSUME TypeOK, NEW v \in known, ~CeilingWouldBlock, known' = known, Ejected' \subseteq Ejected \cup {v}
  PROVE  CeilingHolds'
<1> DEFINE e == Cardinality(Ejected)   f == Cardinality(Ejected')   k == Cardinality(known)
<1>1. e \in Nat /\ k \in Nat /\ IsFiniteSet(Ejected) /\ IsFiniteSet(known)
  BY Finite
<1>2. IsFiniteSet(Ejected \cup {v}) /\ Cardinality(Ejected \cup {v}) \in Nat /\ Cardinality(Ejected \cup {v}) <= e + 1
  <2>1. /\ IsFiniteSet(Ejected \cup {v})
        /\ Cardinality(Ejected \cup {v}) = IF v \in Ejected THEN e ELSE e + 1
    BY <1>1, FS_AddElement
  <2>2. Cardinality(Ejected \cup {v}) \in Nat
    BY <2>1, FS_CardinalityType
  <2> HIDE DEF e
  <2> QED BY <1>1, <2>1, <2>2
<1>3. f \in Nat /\ f <= e + 1
  <2>1. IsFiniteSet(Ejected') /\ f <= Cardinality(Ejected \cup {v})
    BY <1>2, FS_Subset
  <2>2. f \in Nat
    BY <2>1, FS_CardinalityType
  <2> HIDE DEF e, f
  <2> QED BY <1>1, <1>2, <2>1, <2>2
<1>4. CASE k <= 1
  <2>1. Ejected' \subseteq known
    BY DEF Ejected
  <2>2. f <= k
    BY <1>1, <2>1, FS_Subset
  <2> HIDE DEF f, k
  <2>3. f <= 1
    BY <1>1, <1>3, <1>4, <2>2
  <2> QED BY <2>3 DEF CeilingHolds, f
<1>5. CASE ~(k <= 1)
  <2>1. ~((e + 1) * 100 > MaxPercent * k)
    BY <1>1, <1>5 DEF CeilingWouldBlock
  <2>2. MaxPercent * k \in Nat
    BY <1>1, BreakerAssumption DEF BreakerAssumption
  <2>3. f * 100 <= MaxPercent * k
    <3> HIDE DEF e, f, k
    <3> QED BY <1>1, <1>3, <2>1, <2>2
  <2> QED BY <2>3 DEF CeilingHolds
<1> QED BY <1>4, <1>5

LEMMA CeilingStep ==
  ASSUME TypeOK, TypeOK', CallsKnown, CeilingHolds, [Next]_vars
  PROVE  CallsKnown' /\ CeilingHolds'
<1>1. ASSUME Ejected' \subseteq Ejected, known \subseteq known', CallsKnown'
      PROVE  CallsKnown' /\ CeilingHolds'
  BY <1>1, CeilingIsMonotone
<1>2. ASSUME NEW c \in Calls, Answer(c)
      PROVE  CallsKnown' /\ CeilingHolds'
  <2>1. Ejected' \subseteq Ejected /\ known \subseteq known'
    BY <1>2 DEF Answer, RecordSuccess, Ejected, TypeOK
  <2> QED BY <1>1, <1>2, <2>1 DEF Answer, RecordSuccess, End, CallsKnown, TypeOK
<1>3. ASSUME NEW c \in Calls, RateLimited(c)
      PROVE  CallsKnown' /\ CeilingHolds'
  BY <1>1, <1>3 DEF RateLimited, Again, breakerVars, Ejected, CallsKnown
<1>4. ASSUME NEW c \in Calls, Fail(c)
      PROVE  CallsKnown' /\ CeilingHolds'
  <2>1. PICK rate \in BOOLEAN : RecordFailure(target[c], rate)
    BY <1>4 DEF Fail
  <2>2. target[c] \in known /\ known' = known
    BY <1>4, <2>1 DEF Fail, RecordFailure, CallsKnown
  <2>3. CallsKnown'
    BY <1>4, <2>2 DEF Fail, End, Again, CallsKnown, TypeOK
  <2>4. CASE ~CeilingWouldBlock /\ Trip(target[c])
    <3>1. Ejected' \subseteq Ejected \cup {target[c]}
      BY <2>2, <2>4 DEF Trip, Ejected, TypeOK
    <3> QED BY <2>2, <2>3, <2>4, <3>1, TripStaysBelow
  <2>5. CASE UNCHANGED <<ejection, state, openFor, probing, probeAge>>
    BY <1>1, <2>2, <2>3, <2>5 DEF Ejected
  <2> QED BY <2>1, <2>4, <2>5 DEF RecordFailure
<1>5. ASSUME NEW c \in Calls, Vanish(c)
      PROVE  CallsKnown' /\ CeilingHolds'
  BY <1>1, <1>5 DEF Vanish, End, breakerVars, Ejected, CallsKnown, TypeOK
<1>6. ASSUME NEW c \in Calls, NEW v \in Vendors, CallStart(c, v)
      PROVE  CallsKnown' /\ CeilingHolds'
  <2>1. Ejected' \subseteq Ejected /\ known \subseteq known'
    BY <1>6 DEF CallStart, Allows, HandOut, Ejected, TypeOK
  <2> QED BY <1>1, <1>6, <2>1 DEF CallStart, HandOut, CallsKnown, TypeOK
<1>7. CASE Tick
  <2>1. Ejected' \subseteq Ejected /\ known' = known
    BY <1>7 DEF Tick, Ejected, TypeOK
  <2> QED BY <1>1, <1>7, <2>1 DEF Tick, CallsKnown
<1>8. ASSUME NEW v \in Vendors, VendorTurns(v)
      PROVE  CallsKnown' /\ CeilingHolds'
  BY <1>1, <1>8 DEF VendorTurns, breakerVars, callVars, Ejected, CallsKnown
<1>9. CASE UNCHANGED vars
  BY <1>1, <1>9 DEF vars, Ejected, CallsKnown
<1> QED BY <1>2, <1>3, <1>4, <1>5, <1>6, <1>7, <1>8, <1>9 DEF Next, CallStep

\* However the detectors decide, the ejected vendors stay below the ceiling.
THEOREM CeilingSafety == Spec => []CeilingHolds
<1>1. Init => CallsKnown /\ CeilingHolds
  <2>1. Init => Ejected = {}
    BY DEF Init, Ejected
  <2> QED BY <2>1, FS_EmptySet DEF Init, CallsKnown, CeilingHolds
<1>2. TypeOK /\ TypeOK' /\ CallsKnown /\ CeilingHolds /\ [Next]_vars => CallsKnown' /\ CeilingHolds'
  BY CeilingStep
<1> QED BY TypeCorrect, <1>1, <1>2, PTL DEF Spec

=============================================================================

------------------------------ MODULE RetryBudget ------------------------------
(***************************************************************************)
(* The retry budget of one vendor (resilience/retry-budget.ts) under the   *)
(* calls of util/fetch.ts that share it. A failure and the question        *)
(* whether a retry may follow are one synchronous step; calls interleave   *)
(* at every request. Tokens are counted in fractions of RETRY_BUDGET_-     *)
(* TOKEN_RATIO: a failure costs Cost of them, a success buys back Gain.    *)
(***************************************************************************)
EXTENDS Naturals

CONSTANTS
  Calls,        \* calls that may be in flight together
  MaxAttempts,  \* MAX_ATTEMPTS
  MaxTokens,    \* RETRY_BUDGET_MAX_TOKENS, in fractions
  Cost,         \* one token, in fractions
  Gain,         \* RETRY_BUDGET_TOKEN_RATIO, in fractions
  MaxCalls      \* bound: calls made

ASSUME BudgetAssumption ==
  /\ MaxAttempts \in Nat \ {0} /\ MaxTokens \in Nat \ {0}
  /\ Cost \in Nat \ {0} /\ Gain \in Nat \ {0} /\ Gain <= Cost
  /\ MaxCalls \in Nat

VARIABLES
  tokens,          \* what is left in the bucket
  requests,        \* calls counted against the vendor
  successes,       \* answers accepted
  retriesAllowed,  \* retries granted
  attempt,         \* per call: the request it is at, 0 when not in flight
  limited          \* per call: its one retry of a 429 is spent

vars == <<tokens, requests, successes, retriesAllowed, attempt, limited>>

TypeOK ==
  /\ tokens \in 0..MaxTokens
  /\ requests \in 0..MaxCalls
  /\ successes \in Nat /\ retriesAllowed \in Nat
  /\ attempt \in [Calls -> 0..MaxAttempts]
  /\ limited \in [Calls -> BOOLEAN]

Init ==
  /\ tokens = MaxTokens
  /\ requests = 0 /\ successes = 0 /\ retriesAllowed = 0
  /\ attempt = [c \in Calls |-> 0]
  /\ limited = [c \in Calls |-> FALSE]

\* recordRequest: the first attempt needs no token.
RecordRequest(c) ==
  /\ attempt[c] = 0 /\ requests < MaxCalls
  /\ requests' = requests + 1
  /\ attempt' = [attempt EXCEPT ![c] = 1]
  /\ limited' = [limited EXCEPT ![c] = FALSE]
  /\ UNCHANGED <<tokens, successes, retriesAllowed>>

\* Mutant: the clamp at RETRY_BUDGET_MAX_TOKENS is missing.
RecordSuccessUnclamped(c) ==
  /\ attempt[c] > 0
  /\ successes' = successes + 1
  /\ tokens' = tokens + Gain
  /\ attempt' = [attempt EXCEPT ![c] = 0]
  /\ UNCHANGED <<requests, retriesAllowed, limited>>

\* recordSuccess: any status that is not retried, the second 429 included.
RecordSuccess(c) ==
  /\ attempt[c] > 0
  /\ successes' = successes + 1
  /\ tokens' = IF tokens + Gain < MaxTokens THEN tokens + Gain ELSE MaxTokens
  /\ attempt' = [attempt EXCEPT ![c] = 0]
  /\ UNCHANGED <<requests, retriesAllowed, limited>>

\* A 429 is retried once without touching the budget.
RateLimited(c) ==
  /\ attempt[c] \in 1..MaxAttempts - 1 /\ ~limited[c]
  /\ limited' = [limited EXCEPT ![c] = TRUE]
  /\ attempt' = [attempt EXCEPT ![c] = @ + 1]
  /\ UNCHANGED <<tokens, requests, successes, retriesAllowed>>

AfterFailure == IF tokens > Cost THEN tokens - Cost ELSE 0

\* Mutant: exactly half of the tokens still allows a retry.
RecordFailureAtHalf(c) ==
  /\ attempt[c] > 0
  /\ tokens' = AfterFailure
  /\ IF attempt[c] < MaxAttempts /\ 2 * AfterFailure >= MaxTokens
     THEN /\ retriesAllowed' = retriesAllowed + 1
          /\ attempt' = [attempt EXCEPT ![c] = @ + 1]
     ELSE /\ attempt' = [attempt EXCEPT ![c] = 0]
          /\ UNCHANGED retriesAllowed
  /\ UNCHANGED <<requests, successes, limited>>

\* recordFailure and canRetry: a retry while more than half of the tokens is
\* left; otherwise the error goes to the caller. (The last attempt does not ask.)
RecordFailure(c) ==
  /\ attempt[c] > 0
  /\ tokens' = AfterFailure
  /\ IF attempt[c] < MaxAttempts /\ 2 * AfterFailure > MaxTokens
     THEN /\ retriesAllowed' = retriesAllowed + 1
          /\ attempt' = [attempt EXCEPT ![c] = @ + 1]
     ELSE /\ attempt' = [attempt EXCEPT ![c] = 0]
          /\ UNCHANGED retriesAllowed
  /\ UNCHANGED <<requests, successes, limited>>

\* An exception that is not transient ends the call and counts as nothing.
Throw(c) ==
  /\ attempt[c] > 0
  /\ attempt' = [attempt EXCEPT ![c] = 0]
  /\ UNCHANGED <<tokens, requests, successes, retriesAllowed, limited>>

Next == \E c \in Calls :
  RecordRequest(c) \/ RecordSuccess(c) \/ RateLimited(c) \/ RecordFailure(c) \/ Throw(c)

Spec == Init /\ [][Next]_vars

-----------------------------------------------------------------------------
\* "so retries cannot amplify an outage" (retry-budget.ts:1): however calls
\* overlap, the retries granted stay below half a bucket plus what the answers
\* bought back. A vendor that never answers gets less than half a bucket.
AmplificationBounded ==
  2 * Cost * retriesAllowed < MaxTokens + 2 * Gain * successes

=============================================================================

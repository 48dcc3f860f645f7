--------------------------- MODULE TransactionFeed ---------------------------
(***************************************************************************)
(* What the transaction path of the Plaid webhook promises, without        *)
(* deliveries, pages or crashes: a producer reports transactions 1, 2, ... *)
(* and never repeats one the consumer acknowledged; the consumer stores    *)
(* them in any order and acknowledges a prefix only once all of it is      *)
(* stored. Disconnecting the bank ends the promise.                        *)
(***************************************************************************)
EXTENDS Naturals

CONSTANT N    \* bound: transactions ever reported

VARIABLES
  feed,       \* transactions reported so far
  stored,     \* transactions the consumer holds
  acked,      \* length of the acknowledged prefix
  detached    \* the user asked to disconnect

vars == <<feed, stored, acked, detached>>

Init == feed = 0 /\ stored = {} /\ acked = 0 /\ detached = FALSE

Report == feed < N /\ feed' = feed + 1 /\ UNCHANGED <<stored, acked, detached>>

Store ==
  /\ ~detached
  /\ stored \subseteq stored' /\ stored' \subseteq stored \cup 1..feed
  /\ UNCHANGED <<feed, acked, detached>>

Acknowledge ==
  /\ ~detached
  /\ acked' \in 0..feed
  /\ 1..acked' \subseteq stored
  /\ UNCHANGED <<feed, stored, detached>>

Detach == detached' = TRUE /\ UNCHANGED <<feed, stored, acked>>

\* A detached consumer forgets, or still writes what was in flight.
Afterwards ==
  /\ detached
  /\ stored' \subseteq 1..feed /\ acked' \in 0..feed
  /\ UNCHANGED <<feed, detached>>

Next == Report \/ Store \/ Acknowledge \/ Detach \/ Afterwards

Spec == Init /\ [][Next]_vars

=============================================================================

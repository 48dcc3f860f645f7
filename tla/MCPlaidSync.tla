---------------------------- MODULE MCPlaidSync ----------------------------
(* Instances of PlaidSync for TLC. *)
EXTENDS PlaidSync, TLC

\* Jobs are interchangeable. Used by the runs without temporal properties.
JobSymmetry == Permutations(Workers)

=============================================================================

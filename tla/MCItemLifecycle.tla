--------------------------- MODULE MCItemLifecycle ---------------------------
(* Instances of ItemLifecycle for TLC. *)
EXTENDS ItemLifecycle
=============================================================================

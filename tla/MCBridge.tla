------------------------------ MODULE MCBridge ------------------------------
(* The bridge with thresholds of a few chunks. *)
EXTENDS Bridge

=============================================================================

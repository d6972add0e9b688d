------------------------------ MODULE MCStream ------------------------------
(* One stream in every combination of the two peers' modes, with a target  *)
(* that greets or waits.                                                   *)
EXTENDS Stream

=============================================================================

------------------------------ MODULE MCBroker ------------------------------
(* The broker with a few connections. *)
EXTENDS Broker, TLC

\* Connections, tokens and session ids are interchangeable.
Symmetry == Permutations(Conns) \cup Permutations(Keys) \cup Permutations(Sids)

\* A session id is always to be had.
ASSUME EnoughSids == 2 * Cardinality(Sids) >= Cardinality(Conns) - 1

=============================================================================

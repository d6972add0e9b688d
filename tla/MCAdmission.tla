---------------------------- MODULE MCAdmission -----------------------------
(* Two clients: behind no proxy, behind two trusted ones that keep the     *)
(* list, behind one that sets X-Real-IP, and behind an edge that only the  *)
(* trusted proxy after it knows.                                           *)
EXTENDS Admission, TLC

CONSTANT tunnel

MCConfigs == {[trusted |-> {}, header |-> Off, hops |-> 0],
              [trusted |-> Proxies, header |-> XFF, hops |-> 2],
              [trusted |-> Proxies, header |-> Real, hops |-> 1],
              [trusted |-> {tunnel}, header |-> Edge, hops |-> 2]}

Symmetry == Permutations(Clients) \cup Permutations(Handlers)

=============================================================================

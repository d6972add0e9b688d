----------------------------- MODULE MCSession ------------------------------
(* The session with views that agree or differ in one thing. *)
EXTENDS Session

View(secret, session, fps, scheme) ==
  [secret |-> secret, session |-> session, fps |-> fps, scheme |-> scheme]

\* the same view, another pairing secret, a spliced session id, a rewritten
\* fingerprint, another scheme
MCViews == {View(0, 0, 0, 0), View(1, 0, 0, 0), View(0, 1, 0, 0),
            View(0, 0, 1, 0), View(0, 0, 0, 1)}

OneView == {View(0, 0, 0, 0)}

Scenario(views, faults_, ice) == [views |-> views, faults |-> faults_, ice |-> ice]

\* every pair of views when nothing fails; when the views agree, the faults that
\* strike by themselves, an interrupt, and candidates at every moment, also those
\* that meet a closed connection
HandshakeOrFaults ==
  {Scenario(MCViews, {}, 0), Scenario(OneView, FaultKinds \ {"interrupt"}, 0),
   Scenario(OneView, {"interrupt"}, 0),
   Scenario(OneView, {}, 1), Scenario(OneView, {"timeout"}, 1)}

\* for liveness, a difference in one thing, and an interrupt for the fault
LiveOrInterrupted ==
  {Scenario(OneView \cup {v}, {}, 0) : v \in MCViews}
    \cup {Scenario(OneView, {"interrupt"}, 0)}

NoFaults == {Scenario(OneView, {}, 0)}

=============================================================================

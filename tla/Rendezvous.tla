----------------------------- MODULE Rendezvous -----------------------------
(***************************************************************************)
(* What the broker promises of a rendezvous token, without maps, sockets,  *)
(* goroutines or messages.  The slot of a key is empty, or has one peer    *)
(* that waits, or holds the two peers of a session.  Only an empty slot    *)
(* takes a first peer, only a waiting peer of the other mode is joined, a  *)
(* slot is given up as a whole, and a peer that was refused or has left    *)
(* never comes back: its connection must register again as a new peer.     *)
(***************************************************************************)
EXTENDS Sequences

CONSTANTS Conns, Keys, None

VARIABLES
  mode, key,  \* what a peer has announced, None before
  slot,       \* key -> the peers that hold it, at most two
  gone        \* the peers that were refused or have left

vars == <<mode, key, slot, gone>>

Holders(k) == {slot[k][i] : i \in DOMAIN slot[k]}

Placed(c) == \E k \in Keys : c \in Holders(k)

Init ==
  /\ mode = [c \in Conns |-> None]
  /\ key = [c \in Conns |-> None]
  /\ slot = [k \in Keys |-> <<>>]
  /\ gone = {}

Announce(c, m, k) ==
  /\ mode[c] = None /\ c \notin gone
  /\ mode' = [mode EXCEPT ![c] = m]
  /\ key' = [key EXCEPT ![c] = k]
  /\ UNCHANGED <<slot, gone>>

Wait(c) ==
  /\ mode[c] # None /\ c \notin gone /\ ~Placed(c)
  /\ slot[key[c]] = <<>>
  /\ slot' = [slot EXCEPT ![key[c]] = <<c>>]
  /\ UNCHANGED <<mode, key, gone>>

Join(c) ==
  /\ mode[c] # None /\ c \notin gone /\ ~Placed(c)
  /\ \E w \in Conns :
       /\ slot[key[c]] = <<w>>
       /\ mode[w] # mode[c]
       /\ slot' = [slot EXCEPT ![key[c]] = <<w, c>>]
  /\ UNCHANGED <<mode, key, gone>>

Refuse(c) ==
  /\ c \notin gone /\ ~Placed(c)
  /\ gone' = gone \cup {c}
  /\ UNCHANGED <<mode, key, slot>>

\* the keys K are given up together: one when a peer leaves, any number when
\* the broker expires them
Leave(K) ==
  /\ slot' = [k \in Keys |-> IF k \in K THEN <<>> ELSE slot[k]]
  /\ gone' = gone \cup UNION {Holders(k) : k \in K}
  /\ UNCHANGED <<mode, key>>

Next ==
  \/ \E c \in Conns : \/ \E m \in {"expose", "connect"}, k \in Keys :
                            Announce(c, m, k)
                      \/ Wait(c) \/ Join(c) \/ Refuse(c)
  \/ \E K \in SUBSET Keys : Leave(K)

Spec == Init /\ [][Next]_vars

=============================================================================

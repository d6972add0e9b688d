-------------------------- MODULE BrokerRefinement --------------------------
(***************************************************************************)
(* The broker implements Rendezvous, for any number of connections, keys   *)
(* and session ids: every step of a handler, a delivery goroutine, the     *)
(* janitor or Shutdown is one step of the slots, or none.                  *)
(***************************************************************************)
EXTENDS BrokerProofs

\* A peer that has not registered has announced nothing.
Fresh == \A c \in Conns : phase[c] \in {"idle", "register"} => mode[c] = None

\* c holds a place on key k.
On(c, k) ==
  \/ waiting[k] = c
  \/ /\ activeKey[k] # None
     /\ c \in {sessions[activeKey[k]].first, sessions[activeKey[k]].second}

\* The members of a slot are the peers that hold a place on its key.
LEMMA HoldersOn ==
  ASSUME MapTypes, MapsCore, NEW k \in Keys
  PROVE  Abstract!Holders(k) = {c \in Conns : On(c, k)}
<1> DEFINE slots == [j \in Keys |-> Slot(j)]
<1>0. Abstract!Holders(k) = {slots[k][i] : i \in DOMAIN slots[k]}
  BY DEF Abstract!Holders
<1>1. slots[k] = Slot(k)
  OBVIOUS
<1> HIDE DEF slots
<1> USE NoneAssumption DEF MapTypes, MapsCore, WaitingOK, ActiveOK, Sessions
<1>2. CASE activeKey[k] # None
  <2> DEFINE a == sessions[activeKey[k]].first
             b == sessions[activeKey[k]].second
  <2>1. a \in Conns /\ b \in Conns /\ waiting[k] = None
    BY <1>2
  <2>2. Slot(k) = <<a, b>>
    BY <1>2 DEF Slot
  <2>3. {slots[k][i] : i \in DOMAIN slots[k]} = {a, b}
    <3> HIDE DEF a, b
    <3> QED BY <1>1, <2>2
  <2>4. {c \in Conns : On(c, k)} = {a, b}
    BY <1>2, <2>1 DEF On
  <2> QED BY <1>0, <2>3, <2>4
<1>3. CASE activeKey[k] = None /\ waiting[k] # None
  <2>1. Slot(k) = <<waiting[k]>> /\ waiting[k] \in Conns
    BY <1>3 DEF Slot
  <2>2. {slots[k][i] : i \in DOMAIN slots[k]} = {waiting[k]}
    BY <1>1, <2>1
  <2>3. {c \in Conns : On(c, k)} = {waiting[k]}
    BY <1>3, <2>1 DEF On
  <2> QED BY <1>0, <2>2, <2>3
<1>4. CASE activeKey[k] = None /\ waiting[k] = None
  <2>1. Slot(k) = <<>>
    BY <1>4 DEF Slot
  <2>2. {slots[k][i] : i \in DOMAIN slots[k]} = {}
    BY <1>1, <2>1
  <2>3. {c \in Conns : On(c, k)} = {}
    BY <1>4 DEF On
  <2> QED BY <1>0, <2>2, <2>3
<1> QED BY <1>2, <1>3, <1>4

\* A peer is in the maps exactly when it holds a place, and then on its key.
LEMMA InMapsOn ==
  ASSUME MapTypes, MapsCore, NEW c \in Conns
  PROVE  /\ InMaps(c) <=> \E k \in Keys : On(c, k)
         /\ \A k \in Keys : On(c, k) => key[c] = k
BY NoneAssumption DEF MapTypes, MapsCore, WaitingOK, ActiveOK, SessionsOK,
                      Sessions, InMaps, SessionsOf, On

\* Holding a slot and being in the maps is the same.
LEMMA PlacedInMaps ==
  ASSUME MapTypes, MapsCore, NEW c \in Conns
  PROVE  Abstract!Placed(c) <=> InMaps(c)
BY HoldersOn, InMapsOn DEF Abstract!Placed

-----------------------------------------------------------------------------
(* Steps of the slots. *)

\* A step that leaves the maps and what is registered alone, and moves nobody
\* past tryPair, is a stutter.
LEMMA StutterStep ==
  ASSUME UNCHANGED <<maps, key, mode>>,
         \A c \in Conns : phase'[c] \in Early <=> phase[c] \in Early
  PROVE  UNCHANGED Abstract!vars
<1>1. [k \in Keys |-> Slot(k)]' = [k \in Keys |-> Slot(k)]
  BY DEF Slot, maps
<1>2. \A c \in Conns : InMaps(c)' = InMaps(c)
  BY DEF InMaps, SessionsOf, maps
<1>3. Gone' = Gone
  BY <1>2 DEF Gone, Early
<1> QED BY <1>1, <1>3 DEF Abstract!vars

\* A peer that leaves the early phases without a place is refused.
LEMMA RefuseStep ==
  ASSUME MapTypes, MapsCore, Owned, NEW c \in Conns,
         UNCHANGED <<maps, key, mode>>,
         phase[c] \in Early, phase'[c] \notin Early,
         \A d \in Conns \ {c} : phase'[d] = phase[d]
  PROVE  Abstract!Refuse(c)
<1>1. [k \in Keys |-> Slot(k)]' = [k \in Keys |-> Slot(k)]
  BY DEF Slot, maps
<1>2. \A d \in Conns : InMaps(d)' = InMaps(d)
  BY DEF InMaps, SessionsOf, maps
<1>3. ~InMaps(c)
  BY MapsCoreImplies DEF NoOrphanedEntry, Early
<1>4. Gone' = Gone \cup {c} /\ c \notin Gone
  BY <1>2, <1>3 DEF Gone, Early
<1> QED BY <1>1, <1>3, <1>4, PlacedInMaps DEF Abstract!Refuse

\* The places of the keys K go, all others stay.
LEMMA LeaveStep ==
  ASSUME MapTypes, MapsCore, Owned, MapTypes', MapsCore',
         UNCHANGED <<key, mode>>, NEW K \in SUBSET Keys,
         \A k \in K : waiting'[k] = None /\ activeKey'[k] = None,
         \A k \in Keys \ K :
           /\ waiting'[k] = waiting[k] /\ activeKey'[k] = activeKey[k]
           /\ activeKey[k] # None =>
                sessions'[activeKey[k]] = sessions[activeKey[k]],
         \A c \in Conns : phase'[c] \in Early <=> phase[c] \in Early
  PROVE  Abstract!Leave(K)
<1>1. [k \in Keys |-> Slot(k)]' =
        [k \in Keys |-> IF k \in K THEN <<>> ELSE [j \in Keys |-> Slot(j)][k]]
  BY DEF Slot
<1>2. \A k \in Keys, c \in Conns : On(c, k)' <=> On(c, k) /\ k \notin K
  BY NoneAssumption DEF On
<1>3. \A c \in Conns : InMaps(c)' <=> \E k \in Keys \ K : On(c, k)
  <2>1. \A c \in Conns : InMaps(c)' <=> \E k \in Keys : On(c, k)'
    BY InMapsOn, NoneAssumption
       DEF MapTypes, MapsCore, WaitingOK, ActiveOK, SessionsOK, Sessions,
           InMaps, SessionsOf, On
  <2> QED BY <1>2, <2>1
<1>4. \A c \in Conns : InMaps(c) =>
        phase[c] \notin Early /\ \E k \in Keys : On(c, k) /\ key[c] = k
  BY InMapsOn, MapsCoreImplies DEF NoOrphanedEntry, Early
<1>5. \A c \in Conns : \A k \in Keys : On(c, k) => InMaps(c) /\ key[c] = k
  BY InMapsOn
<1>6. UNION {Abstract!Holders(k) : k \in K} =
        {c \in Conns : \E k \in K : On(c, k)}
  BY HoldersOn
<1>7. Gone' = Gone \cup {c \in Conns : \E k \in K : On(c, k)}
  BY <1>3, <1>4, <1>5 DEF Gone, Early
<1> QED BY <1>1, <1>6, <1>7 DEF Abstract!Leave

\* unregisterPeer gives up one slot, or there was nothing to give up.
LEMMA UnregisterStep ==
  ASSUME MapTypes, MapsCore, Owned, MapTypes', MapsCore',
         UNCHANGED <<key, mode>>, NEW c \in Conns,
         NEW t \in Conns \cup {None}, UnregisterPeer(c, t),
         \A d \in Conns : phase'[d] \in Early <=> phase[d] \in Early
  PROVE  [Abstract!Next]_(Abstract!vars)
<1> USE NoneAssumption DEF MapTypes, Sessions
<1>1. CASE key[c] \in Keys /\ waiting[key[c]] = c
  <2>1. /\ waiting' = [waiting EXCEPT ![key[c]] = None]
        /\ UNCHANGED <<activeKey, sessions>>
    BY <1>1 DEF UnregisterPeer, SessionsOf
  <2>2. activeKey[key[c]] = None
    BY <1>1 DEF MapsCore, WaitingOK
  <2>3. Abstract!Leave({key[c]})
    BY <1>1, <2>1, <2>2, LeaveStep
  <2> QED BY <1>1, <2>3 DEF Abstract!Next
<1>2. CASE waiting[key[c]] # c /\ SessionsOf(c) # {}
  <2>1. PICK s \in SessionsOf(c) :
          /\ sessions' = [sessions EXCEPT ![s] = None]
          /\ activeKey' = [activeKey EXCEPT ![sessions[s].key] = None]
          /\ UNCHANGED waiting
    BY <1>2 DEF UnregisterPeer
  <2> DEFINE k == sessions[s].key
  <2>2. s \in Sids /\ sessions[s] # None /\ k \in Keys
    BY DEF SessionsOf
  <2>3. activeKey[k] = s /\ waiting[k] = None
    BY <2>2 DEF MapsCore, SessionsOK, WaitingOK
  <2>4. \A j \in Keys \ {k} : activeKey[j] # s
    BY <2>2 DEF MapsCore, ActiveOK
  <2>5. /\ waiting'[k] = None /\ activeKey'[k] = None
        /\ \A j \in Keys \ {k} :
             /\ waiting'[j] = waiting[j] /\ activeKey'[j] = activeKey[j]
             /\ activeKey[j] # None =>
                  sessions'[activeKey[j]] = sessions[activeKey[j]]
    BY <2>1, <2>2, <2>3, <2>4
  <2> HIDE DEF k
  <2>6. Abstract!Leave({k})
    BY <2>2, <2>5, LeaveStep
  <2> QED BY <2>2, <2>6 DEF Abstract!Next
<1>3. CASE \/ waiting[key[c]] # c /\ SessionsOf(c) = {}
           \/ key[c] \notin Keys /\ waiting[key[c]] = c
  <2>1. UNCHANGED maps
    BY <1>3 DEF UnregisterPeer, maps
  <2> QED BY <2>1, StutterStep
<1> QED BY <1>1, <1>2, <1>3

\* registerPeer announces a peer that has not been announced.
LEMMA AnnounceStep ==
  ASSUME MapTypes, Fresh, NEW c \in Conns, NEW m \in Modes, NEW k \in Keys,
         Register(c, m, k)
  PROVE  Abstract!Announce(c, m, k)
<1>1. /\ phase[c] = "register" /\ UNCHANGED maps
      /\ mode' = [mode EXCEPT ![c] = m] /\ key' = [key EXCEPT ![c] = k]
      /\ phase' = [phase EXCEPT ![c] = "ack"]
  BY DEF Register, Goto
<1>2. [j \in Keys |-> Slot(j)]' = [j \in Keys |-> Slot(j)]
  BY <1>1 DEF Slot, maps
<1>3. \A d \in Conns : InMaps(d)' = InMaps(d)
  BY <1>1 DEF InMaps, SessionsOf, maps
<1>4. Gone' = Gone /\ c \notin Gone
  BY <1>1, <1>3 DEF Gone, MapTypes
<1> QED BY <1>1, <1>2, <1>4 DEF Abstract!Announce, Fresh

\* tryPair on a free key takes the slot.
LEMMA WaitStep ==
  ASSUME MapTypes, Known, MapsCore, Owned, NEW c \in Conns, BecomeWaiter(c)
  PROVE  Abstract!Wait(c)
<1> USE NoneAssumption
<1>1. /\ phase[c] = "pair" /\ key[c] \in Keys /\ mode[c] \in Modes
      /\ activeKey[key[c]] = None /\ waiting[key[c]] = None
      /\ waiting' = [waiting EXCEPT ![key[c]] = c]
      /\ phase' = [phase EXCEPT ![c] = "read"]
      /\ UNCHANGED <<activeKey, sessions, key, mode>>
  BY DEF BecomeWaiter, Known, Goto, local
<1>2. ~InMaps(c)
  BY <1>1, MapsCoreImplies DEF NoOrphanedEntry
<1>3. [k \in Keys |-> Slot(k)]' =
        [[k \in Keys |-> Slot(k)] EXCEPT ![key[c]] = <<c>>]
  BY <1>1 DEF Slot, MapTypes
<1>4. Slot(key[c]) = <<>>
  BY <1>1 DEF Slot
<1>5. InMaps(c)' /\ \A d \in Conns \ {c} : InMaps(d)' = InMaps(d)
  BY <1>1 DEF InMaps, SessionsOf, MapTypes
<1>6. Gone' = Gone /\ c \notin Gone
  BY <1>1, <1>2, <1>5 DEF Gone, MapTypes
<1> QED BY <1>1, <1>2, <1>3, <1>4, <1>6, PlacedInMaps DEF Abstract!Wait

\* tryPair with a waiter of the other mode joins its slot.
LEMMA JoinStep ==
  ASSUME MapTypes, Known, MapsCore, Owned, NEW c \in Conns, Pair(c)
  PROVE  Abstract!Join(c)
<1> USE NoneAssumption
<1> DEFINE w == waiting[key[c]]
           S == [key |-> key[c], first |-> w, second |-> c]
<1>1. /\ phase[c] = "pair" /\ key[c] \in Keys /\ mode[c] \in Modes
      /\ activeKey[key[c]] = None /\ w \in Conns /\ w # None /\ mode[w] # mode[c]
      /\ waiting' = [waiting EXCEPT ![key[c]] = None]
      /\ phase' = [phase EXCEPT ![c] = "read"]
      /\ UNCHANGED <<key, mode>>
  BY DEF Pair, Known, Goto, local, MapTypes
<1>2. PICK s \in Sids :
        /\ sessions[s] = None
        /\ activeKey' = [activeKey EXCEPT ![key[c]] = s]
        /\ sessions' = [sessions EXCEPT ![s] = S]
  BY DEF Pair
<1>3. ~InMaps(c)
  BY <1>1, MapsCoreImplies DEF NoOrphanedEntry
<1>4. S \in Sessions /\ S.first = w /\ S.second = c /\ S # None
  BY <1>1 DEF Sessions
<1>5. sessions'[s] = S /\ \A u \in Sids \ {s} : sessions'[u] = sessions[u]
  BY <1>2 DEF MapTypes
<1>6. activeKey'[key[c]] = s
      /\ \A k \in Keys \ {key[c]} : activeKey'[k] = activeKey[k]
  BY <1>1, <1>2 DEF MapTypes
<1>7. waiting'[key[c]] = None
      /\ \A k \in Keys \ {key[c]} : waiting'[k] = waiting[k]
  BY <1>1 DEF MapTypes
<1> HIDE DEF S
<1>8. Slot(key[c]) = <<w>>
  BY <1>1 DEF Slot
<1>9. [k \in Keys |-> Slot(k)]' =
        [[k \in Keys |-> Slot(k)] EXCEPT ![key[c]] = <<w, c>>]
  <2>1. Slot(key[c])' = <<w, c>>
    BY <1>1, <1>4, <1>5, <1>6 DEF Slot
  <2>2. \A k \in Keys \ {key[c]} : Slot(k)' = Slot(k)
    <3> SUFFICES ASSUME NEW k \in Keys \ {key[c]}
                 PROVE  Slot(k)' = Slot(k)
      OBVIOUS
    <3>1. activeKey[k] # s
      BY <1>2 DEF MapsCore, ActiveOK
    <3> QED BY <3>1, <1>5, <1>6, <1>7 DEF Slot, MapTypes
  <2> QED BY <1>1, <2>1, <2>2
<1>10. InMaps(c)' /\ \A d \in Conns \ {c} : InMaps(d)' = InMaps(d)
  <2>1. \A d \in Conns : SessionsOf(d)' =
          IF d \in {w, c} THEN SessionsOf(d) \cup {s} ELSE SessionsOf(d)
    BY <1>2, <1>4, <1>5 DEF SessionsOf
  <2>2. \A d \in Conns \ {c} :
          (\E k \in Keys : waiting'[k] = d) \/ d = w
            <=> \E k \in Keys : waiting[k] = d
    BY <1>1, <1>7
  <2> QED BY <1>1, <2>1, <2>2 DEF InMaps
<1>11. Gone' = Gone /\ c \notin Gone
  BY <1>1, <1>3, <1>10 DEF Gone, MapTypes
<1> QED BY <1>1, <1>3, <1>8, <1>9, <1>11, PlacedInMaps DEF Abstract!Join

-----------------------------------------------------------------------------
(* Every step. *)

\* A client's step announces its peer or is a stutter.
LEMMA ClientRefines ==
  ASSUME MapTypes, Fresh, NEW c \in Conns, ClientStep(c)
  PROVE  [Abstract!Next]_(Abstract!vars)
<1>1. CASE \E m \in Modes, k \in Keys : Register(c, m, k)
  BY <1>1, AnnounceStep DEF Abstract!Next, Modes
<1>2. CASE ~\E m \in Modes, k \in Keys : Register(c, m, k)
  <2>1. /\ UNCHANGED <<maps, key, mode>>
        /\ \A d \in Conns : phase'[d] \in Early <=> phase[d] \in Early
    BY <1>2 DEF ClientStep, Connect, ConnLost, WriteStall, ReadSignal, CanRead,
                ReadOther, Early, MapTypes, Goto, local
  <2> QED BY <2>1, StutterStep
<1> QED BY <1>1, <1>2

\* A handler's step takes, joins or gives up a slot, is refused, or is a
\* stutter.
LEMMA ServerRefines ==
  ASSUME MapTypes, MapTypes', Known, MapsCore, MapsCore', Owned,
         NEW c \in Conns, ServerStep(c) \/ RegisterFail(c)
  PROVE  [Abstract!Next]_(Abstract!vars)
<1>1. CASE Unregister(c)
  <2>1. PICK t \in Conns \cup {None} : UnregisterPeer(c, t)
    BY <1>1 DEF Unregister
  <2>2. /\ UNCHANGED <<key, mode>>
        /\ \A d \in Conns : phase'[d] \in Early <=> phase[d] \in Early
    BY <1>1 DEF Unregister, Goto, local, MapTypes, Early
  <2> QED BY <2>1, <2>2, UnregisterStep
<1>2. CASE BecomeWaiter(c)
  BY <1>2, WaitStep DEF Abstract!Next
<1>3. CASE Pair(c)
  BY <1>3, JoinStep DEF Abstract!Next
<1>4. CASE PairRefused(c) \/ RegisterFail(c) \/ (Ack(c) /\ ~CanSend(c))
  <2>1. /\ UNCHANGED <<maps, key, mode>>
        /\ phase[c] \in Early /\ phase'[c] \notin Early
        /\ \A d \in Conns \ {c} : phase'[d] = phase[d]
    BY <1>4 DEF PairRefused, RegisterFail, Ack, Early, MapTypes, Goto, local
  <2>2. Abstract!Refuse(c)
    BY <2>1, RefuseStep
  <2> QED BY <2>2 DEF Abstract!Next
<1>5. CASE \/ Ack(c) /\ CanSend(c)
           \/ Reject(c) \/ RelaySignal(c) \/ RelayFailed(c) \/ ReadError(c)
           \/ NotifyLeft(c) \/ Close(c)
  <2>1. /\ UNCHANGED <<maps, key, mode>>
        /\ \A d \in Conns : phase'[d] \in Early <=> phase[d] \in Early
    BY <1>5 DEF Ack, Reject, RelaySignal, RelayFailed, ReadError, NotifyLeft,
                Close, Early, MapTypes, Goto, local
  <2> QED BY <2>1, StutterStep
<1> QED BY <1>1, <1>2, <1>3, <1>4, <1>5 DEF ServerStep

\* The sweep gives up the slots of the waiters and sessions it finds.
LEMMA CollectRefines ==
  ASSUME MapTypes, MapTypes', MapsCore, MapsCore', Owned,
         NEW W \in SUBSET Keys, NEW S \in SUBSET Sids, CollectStale(W, S)
  PROVE  [Abstract!Next]_(Abstract!vars)
<1> DEFINE K == W \cup {sessions[s].key : s \in S}
<1>1. /\ \A k \in Keys : waiting'[k] = IF k \in W THEN None ELSE waiting[k]
      /\ \A s \in Sids : sessions'[s] = IF s \in S THEN None ELSE sessions[s]
      /\ \A k \in Keys : activeKey'[k] =
           IF \E s \in S : sessions[s].key = k THEN None ELSE activeKey[k]
      /\ \A s \in S : sessions[s] # None
      /\ \A k \in W : waiting[k] # None
      /\ UNCHANGED <<key, mode, phase>>
  BY DEF CollectStale, local
<1>2. K \in SUBSET Keys
  BY <1>1 DEF MapTypes, Sessions
<1>3. \A k \in K : waiting'[k] = None /\ activeKey'[k] = None
  <2>1. \A k \in W : waiting'[k] = None /\ activeKey'[k] = None
    BY <1>1 DEF MapsCore, WaitingOK
  <2>2. \A s \in S : sessions[s].key \in Keys
                     /\ waiting[sessions[s].key] = None
    BY <1>1, NoneAssumption DEF MapsCore, SessionsOK, WaitingOK, MapTypes,
                                Sessions
  <2> QED BY <1>1, <2>1, <2>2
<1>4. \A k \in Keys \ K :
        /\ waiting'[k] = waiting[k] /\ activeKey'[k] = activeKey[k]
        /\ activeKey[k] # None =>
             sessions'[activeKey[k]] = sessions[activeKey[k]]
  BY <1>1 DEF MapsCore, ActiveOK, MapTypes
<1> HIDE DEF K
<1>5. Abstract!Leave(K)
  BY <1>1, <1>2, <1>3, <1>4, LeaveStep
<1> QED BY <1>2, <1>5 DEF Abstract!Next

\* The broker is a set of slots: whatever the interleaving of handlers,
\* delivery goroutines, the janitor and Shutdown, only a free key takes a
\* waiter, only a waiter of the other mode is joined, a slot is given up as a
\* whole, and a peer that left one never returns.
THEOREM BrokerImplementsRendezvous == Spec => ImplementsRendezvous
<1>1. Init => Abstract!Init
  BY NoneAssumption DEF Init, Abstract!Init, Slot, Gone
<1>2. Init => Fresh
  BY DEF Init, Fresh
<1>3. TypeOK /\ Fresh /\ [Next]_vars => Fresh'
  <2> SUFFICES ASSUME TypeOK, Fresh, [Next]_vars
               PROVE  Fresh'
    OBVIOUS
  <2> USE DEF Fresh, TypeOK
  <2>1. CASE \E c \in Conns : ClientStep(c) \/ RegisterFail(c)
    BY <2>1 DEF ClientStep, Connect, ConnLost, WriteStall, Register,
         ReadSignal, CanRead, ReadOther, RegisterFail, Goto, local
  <2>2. CASE \E c \in Conns : ServerStep(c)
    BY <2>2 DEF ServerStep, Ack, PairRefused, BecomeWaiter, Pair, Reject,
         RelaySignal, RelayFailed, ReadError, Unregister, NotifyLeft, Close,
         Goto, local
  <2>3. CASE \E c \in Conns : TaskStep(c)
    BY <2>3 DEF TaskStep, DeliverPaired, TaskUnregister, TaskNotify, local
  <2>4. CASE \/ \E W \in SUBSET Keys, S \in SUBSET Sids : CollectStale(W, S)
             \/ EvictStep \/ Shutdown \/ JanitorExit \/ ShutdownClose
             \/ Finished \/ UNCHANGED vars
    BY <2>4 DEF CollectStale, EvictStep, EvictSend, EvictClose, Shutdown,
         JanitorExit, ShutdownClose, Finished, vars, local
  <2> QED BY <2>1, <2>2, <2>3, <2>4 DEF Next
<1>4. MapsInv /\ MapsInv' /\ Fresh /\ [Next]_vars
        => [Abstract!Next]_(Abstract!vars)
  <2> SUFFICES ASSUME MapsInv, MapsInv', Fresh, [Next]_vars
               PROVE  [Abstract!Next]_(Abstract!vars)
    OBVIOUS
  <2>1. MapTypes /\ MapTypes' /\ Known /\ MapsCore /\ MapsCore' /\ Owned
    BY DEF MapsInv, TypeOK, MapTypes
  <2>2. CASE \E c \in Conns : \/ ClientStep(c)
                              \/ ServerStep(c) \/ RegisterFail(c)
    BY <2>1, <2>2, ClientRefines, ServerRefines
  <2>3. CASE \E c \in Conns : TaskUnregister(c)
    <3>1. PICK c \in Conns, t \in Conns \cup {None} : UnregisterPeer(c, t)
      BY <2>3 DEF TaskUnregister
    <3>2. UNCHANGED <<key, mode, phase>>
      BY <2>3 DEF TaskUnregister, local
    <3> QED BY <2>1, <3>1, <3>2, UnregisterStep
  <2>4. CASE \E W \in SUBSET Keys, S \in SUBSET Sids : CollectStale(W, S)
    BY <2>1, <2>4, CollectRefines
  <2>5. CASE \/ \E c \in Conns : DeliverPaired(c) \/ TaskNotify(c)
             \/ EvictStep \/ Shutdown \/ JanitorExit \/ ShutdownClose
             \/ Finished \/ UNCHANGED vars
    <3>1. UNCHANGED <<maps, key, mode, phase>>
      BY <2>5 DEF DeliverPaired, TaskNotify, EvictStep, EvictSend, EvictClose,
           Shutdown, JanitorExit, ShutdownClose, Finished, vars, local, maps
    <3> QED BY <3>1, StutterStep
  <2> QED BY <2>2, <2>3, <2>4, <2>5 DEF Next, TaskStep
<1>5. Spec => [](MapsInv /\ Fresh)
  BY <1>2, <1>3, MapsInvHolds, TypeCorrect, PTL DEF Spec
<1> QED BY <1>1, <1>4, <1>5, PTL DEF Spec, ImplementsRendezvous, Abstract!Spec

=============================================================================

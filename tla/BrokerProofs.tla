---------------------------- MODULE BrokerProofs ----------------------------
(***************************************************************************)
(* Theorems about the broker for any number of connections, keys and       *)
(* session ids and any bound on messages.                                  *)
(***************************************************************************)
EXTENDS Broker, TLAPS

-----------------------------------------------------------------------------
(* Type correctness. *)

\* Every message an action writes is a Message.
LEMMA MessageTypes ==
  /\ Registered \in Message /\ PeerLeft \in Message /\ Pong \in Message
  /\ \A i \in BOOLEAN : Paired(i) \in Message
  /\ \A c \in Conns, n \in 0..MaxMsgs : Signal(c, n) \in Message
  /\ \A e \in ErrorCodes : BrokerError(e) \in Message
BY DEF Message

\* A write, delivered or not, leaves every log a sequence of messages; the
\* target may be None, which no log belongs to.
LEMMA SendType ==
  ASSUME NEW c \in Conns \cup {None}, NEW m \in Message,
         out \in [Conns -> Seq(Message)], Send(c, m)
  PROVE  out' \in [Conns -> Seq(Message)]
<1>1. CASE c \in Conns
  <2>1. Append(out[c], m) \in Seq(Message)
    BY <1>1
  <2> QED BY <1>1, <2>1 DEF Send
<1>2. CASE c \notin Conns
  <2>1. [out EXCEPT ![c] = Append(@, m)] = out
    BY <1>2
  <2> QED BY <2>1 DEF Send
<1> QED BY <1>1, <1>2

\* A handler past registerPeer knows the key and the mode of its peer.
Known ==
  \A c \in Conns : phase[c] \notin {"idle", "register", "done"} =>
    key[c] \in Keys /\ mode[c] \in Modes

\* What a client or its network does, and the reading of its messages, keep
\* the types.
LEMMA ClientStepType ==
  ASSUME TypeOK, NEW c \in Conns, ClientStep(c)
  PROVE  TypeOK'
<1> USE BoundAssumption DEF TypeOK
<1>1. CASE Connect(c)
  BY <1>1 DEF Connect, Goto, Phases, local, jobs, maps, halt
<1>2. CASE ConnLost(c)
  BY <1>2 DEF ConnLost, local, jobs, maps, halt
<1>3. CASE WriteStall(c)
  BY <1>3 DEF WriteStall, local, jobs, maps, halt
<1>4. CASE \E m \in Modes, k \in Keys : Register(c, m, k)
  BY <1>4 DEF Register, Goto, Phases, jobs, maps, halt
<1>5. CASE ReadSignal(c)
  <2>1. sent' \in [Conns -> 0..MaxMsgs]
    BY <1>5 DEF ReadSignal, CanRead
  <2>2. target' \in [Conns -> Conns \cup {None}]
    BY <1>5 DEF ReadSignal, SessionsOf, Partner, Sessions
  <2>3. phase' \in [Conns -> Phases]
    BY <1>5 DEF ReadSignal, Goto, Phases
  <2> QED BY <1>5, <2>1, <2>2, <2>3 DEF ReadSignal, jobs, maps, halt
<1>6. CASE \E reply \in {Pong, BrokerError("invalid-message"), None} :
             ReadOther(c, reply)
  <2>1. PICK reply \in {Pong, BrokerError("invalid-message"), None} :
          ReadOther(c, reply)
    BY <1>6
  <2>2. sent' \in [Conns -> 0..MaxMsgs]
    BY <2>1 DEF ReadOther, CanRead
  <2>3. out' \in [Conns -> Seq(Message)]
    <3>1. CASE reply = None
      BY <2>1, <3>1 DEF ReadOther
    <3>2. CASE reply # None
      <4>1. reply \in Message
        BY <3>2, MessageTypes DEF ErrorCodes
      <4>2. Send(c, reply)
        BY <2>1, <3>2 DEF ReadOther
      <4> QED BY <4>1, <4>2, SendType
    <3> QED BY <3>1, <3>2
  <2> QED BY <2>1, <2>2, <2>3 DEF ReadOther, jobs, maps, halt
<1> QED
  BY <1>1, <1>2, <1>3, <1>4, <1>5, <1>6 DEF ClientStep

\* unregisterPeer keeps the maps well typed and names a peer or None.
LEMMA UnregisterType ==
  ASSUME TypeOK, NEW c \in Conns, NEW t \in Conns \cup {None},
         UnregisterPeer(c, t)
  PROVE  /\ waiting' \in [Keys -> Conns \cup {None}]
         /\ activeKey' \in [Keys -> Sids \cup {None}]
         /\ sessions' \in [Sids -> Sessions \cup {None}]
BY DEF TypeOK, UnregisterPeer, maps, SessionsOf, Sessions

\* Every step of a handler after registration keeps the types.
LEMMA ServerStepType ==
  ASSUME TypeOK, Known, NEW c \in Conns, ServerStep(c) \/ RegisterFail(c)
  PROVE  TypeOK'
<1> USE DEF TypeOK, Goto, Phases, local, jobs, maps, halt
<1>1. CASE Ack(c)
  <2>1. out' \in [Conns -> Seq(Message)]
    BY <1>1, SendType, MessageTypes DEF Ack
  <2> QED BY <1>1, <2>1 DEF Ack
<1>2. CASE PairRefused(c)
  BY <1>2 DEF PairRefused
<1>3. CASE BecomeWaiter(c)
  BY <1>3 DEF BecomeWaiter
<1>4. CASE Pair(c)
  <2>1. PICK s \in Sids :
          /\ sessions[s] = None
          /\ activeKey' = [activeKey EXCEPT ![key[c]] = s]
          /\ sessions' = [sessions EXCEPT
               ![s] = [key |-> key[c], first |-> waiting[key[c]], second |-> c]]
    BY <1>4 DEF Pair
  <2>2. key[c] \in Keys /\ waiting[key[c]] \in Conns
    BY <1>4 DEF Pair, Known
  <2> QED BY <1>4, <2>1, <2>2 DEF Pair, Sessions
<1>5. CASE Reject(c)
  <2>1. out' \in [Conns -> Seq(Message)]
    BY <1>5, SendType, MessageTypes DEF Reject, ErrorCodes
  <2> QED BY <1>5, <2>1 DEF Reject
<1>6. CASE RelaySignal(c)
  <2>1. out' \in [Conns -> Seq(Message)]
    BY <1>6, SendType, MessageTypes DEF RelaySignal
  <2> QED BY <1>6, <2>1 DEF RelaySignal
<1>7. CASE RelayFailed(c)
  <2>1. out' \in [Conns -> Seq(Message)]
    BY <1>7, SendType, MessageTypes DEF RelayFailed, ErrorCodes
  <2> QED BY <1>7, <2>1 DEF RelayFailed
<1>8. CASE ReadError(c)
  BY <1>8 DEF ReadError
<1>9. CASE Unregister(c)
  <2>1. PICK t \in Conns \cup {None} :
          /\ UnregisterPeer(c, t)
          /\ target' = [target EXCEPT ![c] = t]
          /\ phase' = [phase EXCEPT ![c] = IF t = None THEN "close" ELSE "notify"]
    BY <1>9 DEF Unregister
  <2> QED BY <1>9, <2>1, UnregisterType DEF Unregister
<1>10. CASE NotifyLeft(c)
  <2>1. out' \in [Conns -> Seq(Message)]
    BY <1>10, SendType, MessageTypes DEF NotifyLeft
  <2> QED BY <1>10, <2>1 DEF NotifyLeft
<1>11. CASE Close(c)
  BY <1>11 DEF Close
<1>12. CASE RegisterFail(c)
  <2>1. out' \in [Conns -> Seq(Message)]
    BY <1>12, SendType, MessageTypes DEF RegisterFail, ErrorCodes
  <2> QED BY <1>12, <2>1 DEF RegisterFail
<1> QED
  BY <1>1, <1>2, <1>3, <1>4, <1>5, <1>6, <1>7, <1>8, <1>9, <1>10, <1>11,
     <1>12 DEF ServerStep

\* The goroutines that deliver `paired' keep the types.
LEMMA TaskStepType ==
  ASSUME TypeOK, NEW c \in Conns, TaskStep(c)
  PROVE  TypeOK'
<1> USE DEF TypeOK, local, maps, halt
<1>1. CASE DeliverPaired(c)
  <2>1. out' \in [Conns -> Seq(Message)]
    BY <1>1, SendType, MessageTypes DEF DeliverPaired
  <2> QED BY <1>1, <2>1 DEF DeliverPaired
<1>2. CASE TaskUnregister(c)
  <2>1. PICK t \in Conns \cup {None} :
          /\ UnregisterPeer(c, t)
          /\ taskTarget' = [taskTarget EXCEPT ![c] = t]
          /\ task' = [task EXCEPT ![c] = IF t = None THEN "none" ELSE "notify"]
    BY <1>2 DEF TaskUnregister
  <2> QED BY <1>2, <2>1, UnregisterType DEF TaskUnregister
<1>3. CASE TaskNotify(c)
  <2>1. out' \in [Conns -> Seq(Message)]
    BY <1>3, SendType, MessageTypes DEF TaskNotify
  <2> QED BY <1>3, <2>1 DEF TaskNotify
<1> QED BY <1>1, <1>2, <1>3 DEF TaskStep

\* The janitor and Shutdown keep the types.
LEMMA JanitorType ==
  ASSUME TypeOK,
         \/ \E W \in SUBSET Keys, S \in SUBSET Sids : CollectStale(W, S)
         \/ EvictStep \/ Shutdown \/ JanitorExit \/ ShutdownClose
  PROVE  TypeOK'
<1> USE DEF TypeOK, local, jobs, maps, halt
<1>1. CASE \E W \in SUBSET Keys, S \in SUBSET Sids : CollectStale(W, S)
  BY <1>1 DEF CollectStale
<1>2. CASE EvictStep
  <2>1. PICK c \in Conns : EvictSend(c) \/ EvictClose(c)
    BY <1>2 DEF EvictStep
  <2>2. CASE EvictSend(c)
    <3>1. out' \in [Conns -> Seq(Message)]
      BY <2>2, SendType, MessageTypes DEF EvictSend, ErrorCodes
    <3> QED BY <2>2, <3>1 DEF EvictSend
  <2>3. CASE EvictClose(c)
    BY <2>3 DEF EvictClose
  <2> QED BY <2>1, <2>2, <2>3
<1>3. CASE Shutdown
  BY <1>3 DEF Shutdown
<1>4. CASE JanitorExit
  BY <1>4 DEF JanitorExit
<1>5. CASE ShutdownClose
  BY <1>5 DEF ShutdownClose
<1> QED BY <1>1, <1>2, <1>3, <1>4, <1>5

\* What a peer registered is known from then on: only registerPeer writes it.
LEMMA KnownStep ==
  ASSUME TypeOK, Known, Next
  PROVE  Known'
<1> USE DEF TypeOK, Known, Goto, local, jobs, maps, halt
<1>1. CASE \E c \in Conns : ClientStep(c)
  <2>1. PICK c \in Conns : ClientStep(c)
    BY <1>1
  <2>2. CASE \E m \in Modes, k \in Keys : Register(c, m, k)
    BY <2>2 DEF Register
  <2>3. CASE ~\E m \in Modes, k \in Keys : Register(c, m, k)
    BY <2>1, <2>3 DEF ClientStep, Connect, ConnLost, WriteStall, ReadSignal,
                      CanRead, ReadOther
  <2> QED BY <2>2, <2>3
<1>2. CASE \E c \in Conns : RegisterFail(c)
  BY <1>2 DEF RegisterFail
<1>3. CASE \E c \in Conns : ServerStep(c)
  <2>1. PICK c \in Conns : ServerStep(c)
    BY <1>3
  <2>2. phase[c] \notin {"idle", "register", "done"}
    BY <2>1 DEF ServerStep, Ack, PairRefused, BecomeWaiter, Pair, Reject,
         RelaySignal, RelayFailed, ReadError, Unregister, NotifyLeft, Close
  <2>3. UNCHANGED <<key, mode>> /\ \E p : phase' = [phase EXCEPT ![c] = p]
    BY <2>1 DEF ServerStep, Ack, PairRefused, BecomeWaiter, Pair, Reject,
         RelaySignal, RelayFailed, ReadError, Unregister, NotifyLeft, Close
  <2> QED BY <2>2, <2>3
<1>4. CASE \E c \in Conns : TaskStep(c)
  BY <1>4 DEF TaskStep, DeliverPaired, TaskUnregister, TaskNotify
<1>5. CASE EvictStep
  BY <1>5 DEF EvictStep, EvictSend, EvictClose
<1>6. CASE \/ \E W \in SUBSET Keys, S \in SUBSET Sids : CollectStale(W, S)
           \/ Shutdown \/ JanitorExit \/ ShutdownClose
  BY <1>6 DEF CollectStale, Shutdown, JanitorExit, ShutdownClose
<1>7. CASE Finished
  BY <1>7 DEF Finished, vars
<1> QED BY <1>1, <1>2, <1>3, <1>4, <1>5, <1>6, <1>7 DEF Next

\* Every variable keeps its type: in particular the functions that stand for
\* Go maps are never read or written outside their domain.
THEOREM TypeCorrect == Spec => []TypeOK
<1>1. Init => TypeOK /\ Known
  BY BoundAssumption DEF Init, TypeOK, Known, Phases, Modes
<1>2. TypeOK /\ Known /\ [Next]_vars => (TypeOK /\ Known)'
  <2> SUFFICES ASSUME TypeOK, Known, [Next]_vars
               PROVE  TypeOK' /\ Known'
    OBVIOUS
  <2>1. CASE Next
    <3>1. CASE \E c \in Conns : \/ ClientStep(c) \/ RegisterFail(c)
                                \/ ServerStep(c) \/ TaskStep(c)
      BY <2>1, <3>1, ClientStepType, ServerStepType, TaskStepType, KnownStep
    <3>2. CASE Finished
      BY <3>2 DEF Finished, vars, TypeOK, Known, local, jobs, maps, halt
    <3> QED BY <2>1, <3>1, <3>2, JanitorType, KnownStep DEF Next
  <2>2. CASE UNCHANGED vars
    BY <2>2 DEF vars, TypeOK, Known, local, jobs, maps, halt
  <2> QED BY <2>1, <2>2
<1> QED BY <1>1, <1>2, PTL DEF Spec

-----------------------------------------------------------------------------
(* The maps. *)

\* The types of the variables the maps are about.
MapTypes ==
  /\ waiting \in [Keys -> Conns \cup {None}]
  /\ activeKey \in [Keys -> Sids \cup {None}]
  /\ sessions \in [Sids -> Sessions \cup {None}]
  /\ key \in [Conns -> Keys \cup {None}]
  /\ mode \in [Conns -> Modes \cup {None}]
  /\ phase \in [Conns -> Phases]

\* The typing facts that the proofs about the maps need.
LEMMA MapsTyped == TypeOK => MapTypes
BY DEF TypeOK, MapTypes

\* The inductive core of MapsAgree.  That no peer holds two places need not be
\* in it: the places of a peer all carry its key, and a key has one place.
WaitingOK ==
  \A k \in Keys : waiting[k] # None =>
    key[waiting[k]] = k /\ activeKey[k] = None

ActiveOK ==
  \A k \in Keys : activeKey[k] # None =>
    sessions[activeKey[k]] # None /\ sessions[activeKey[k]].key = k

SessionsOK ==
  \A s \in Sids : sessions[s] # None =>
    /\ activeKey[sessions[s].key] = s
    /\ sessions[s].first # sessions[s].second
    /\ key[sessions[s].first] = sessions[s].key
    /\ key[sessions[s].second] = sessions[s].key
    /\ mode[sessions[s].first] # mode[sessions[s].second]

MapsCore == WaitingOK /\ ActiveOK /\ SessionsOK

Owning == {"read", "relay", "relayfail", "leaving"}

\* The phases of a handler that has not been through tryPair.
Early == {"idle", "register", "ack", "pair"}

\* NoOrphanedEntry, written over the entries.
Owned ==
  /\ \A k \in Keys : waiting[k] # None => phase[waiting[k]] \in Owning
  /\ \A s \in Sids : sessions[s] # None =>
       phase[sessions[s].first] \in Owning /\ phase[sessions[s].second] \in Owning

\* The core of the invariant, stated per entry, gives MapsAgree.
LEMMA MapsCoreImplies ==
  ASSUME MapTypes, MapsCore, Owned
  PROVE  MapsAgree /\ NoOrphanedEntry
<1> USE NoneAssumption DEF MapTypes, MapsCore, WaitingOK, ActiveOK, SessionsOK,
                          SessionsOf, Sessions
<1>1. \A c \in Conns : \A s, t \in SessionsOf(c) : s = t
  OBVIOUS
<1>2. \A k \in Keys : waiting[k] # None => SessionsOf(waiting[k]) = {}
  OBVIOUS
<1>3. \A k \in Keys, s \in Sids :
       activeKey[k] = s <=> sessions[s] # None /\ sessions[s].key = k
  OBVIOUS
<1>4. MapsAgree
  BY <1>1, <1>2, <1>3 DEF MapsAgree
<1>5. NoOrphanedEntry
  BY DEF NoOrphanedEntry, Owned, Owning, InMaps
<1> QED BY <1>4, <1>5

\* An entry after the step is an entry of before the step.
Shrinks ==
  /\ \A k \in Keys : waiting'[k] \in {waiting[k], None}
  /\ \A s \in Sids : sessions'[s] \in {sessions[s], None}

\* unregisterPeer only removes entries, keeps the maps in agreement, and, for
\* a registered peer, leaves none of its entries behind.
LEMMA UnregisterMaps ==
  ASSUME MapTypes, MapsCore, UNCHANGED <<key, mode>>,
         NEW c \in Conns, NEW t \in Conns \cup {None}, UnregisterPeer(c, t)
  PROVE  /\ MapsCore' /\ Shrinks
         /\ key[c] \in Keys =>
              /\ \A k \in Keys : waiting'[k] # c
              /\ \A s \in Sids : sessions'[s] # None =>
                   sessions'[s].first # c /\ sessions'[s].second # c
<1> USE NoneAssumption DEF MapTypes, Sessions
<1> DEFINE Left == /\ \A k \in Keys : waiting'[k] # c
                   /\ \A s \in Sids : sessions'[s] # None =>
                        sessions'[s].first # c /\ sessions'[s].second # c
<1>1. CASE /\ waiting[key[c]] = c
           /\ waiting' = [waiting EXCEPT ![key[c]] = None]
           /\ UNCHANGED <<activeKey, sessions>>
  <2>1. Shrinks
    BY <1>1 DEF Shrinks
  <2>2. MapsCore'
    BY <1>1 DEF MapsCore, WaitingOK, ActiveOK, SessionsOK
  <2>3. key[c] \in Keys => Left
    BY <1>1 DEF MapsCore, WaitingOK, SessionsOK
  <2> QED BY <2>1, <2>2, <2>3
<1>2. CASE /\ waiting[key[c]] # c
           /\ SessionsOf(c) = {}
           /\ UNCHANGED <<waiting, activeKey, sessions>>
  <2>1. Shrinks
    BY <1>2 DEF Shrinks
  <2>2. MapsCore'
    BY <1>2 DEF MapsCore, WaitingOK, ActiveOK, SessionsOK
  <2>3. Left
    <3>1. \A k \in Keys : waiting'[k] # c
      BY <1>2 DEF MapsCore, WaitingOK
    <3>2. \A s \in Sids : sessions[s] # None =>
            sessions[s].first # c /\ sessions[s].second # c
      BY <1>2 DEF SessionsOf
    <3> QED BY <1>2, <3>1, <3>2
  <2> QED BY <2>1, <2>2, <2>3
<1>3. CASE /\ waiting[key[c]] # c
           /\ \E s \in SessionsOf(c) :
                /\ sessions' = [sessions EXCEPT ![s] = None]
                /\ activeKey' = [activeKey EXCEPT ![sessions[s].key] = None]
           /\ UNCHANGED waiting
  <2>1. PICK s \in SessionsOf(c) :
          /\ sessions' = [sessions EXCEPT ![s] = None]
          /\ activeKey' = [activeKey EXCEPT ![sessions[s].key] = None]
    BY <1>3
  <2>2. s \in Sids /\ sessions[s] # None /\ sessions[s] \in Sessions
        /\ (c = sessions[s].first \/ c = sessions[s].second)
    BY DEF SessionsOf
  <2>3. Shrinks
    BY <1>3, <2>1, <2>2 DEF Shrinks
  <2>4. \A u \in Sids \ {s} : sessions'[u] = sessions[u]
    BY <2>1, <2>2
  <2>5. sessions'[s] = None
    BY <2>1, <2>2
  <2>6. MapsCore'
    <3>1. \A k \in Keys : activeKey'[k] =
            IF k = sessions[s].key THEN None ELSE activeKey[k]
      BY <2>1, <2>2
    <3>2. activeKey[sessions[s].key] = s
      BY <2>2 DEF MapsCore, SessionsOK
    <3>3. WaitingOK'
      BY <1>3, <3>1 DEF MapsCore, WaitingOK
    <3>4. ActiveOK'
      BY <3>1, <3>2, <2>2, <2>4 DEF MapsCore, ActiveOK, SessionsOK
    <3>5. SessionsOK'
      BY <3>1, <3>2, <2>2, <2>4, <2>5 DEF MapsCore, SessionsOK
    <3> QED BY <3>3, <3>4, <3>5 DEF MapsCore
  <2>7. Left
    <3>1. \A k \in Keys : waiting'[k] # c
      BY <1>3 DEF MapsCore, WaitingOK
    <3>2. \A u \in Sids \ {s} : sessions[u] # None =>
            sessions[u].first # c /\ sessions[u].second # c
      BY <2>2 DEF MapsCore, SessionsOK
    <3> QED BY <2>4, <2>5, <3>1, <3>2
  <2> QED BY <2>3, <2>6, <2>7
<1> QED BY <1>1, <1>2, <1>3 DEF UnregisterPeer, maps

\* Entries may go and phases may change outside the entries that stay.
LEMMA OwnedShrinks ==
  ASSUME MapTypes, MapTypes', Owned, Shrinks,
         \A d \in Conns : phase[d] \in Owning /\ phase'[d] \notin Owning =>
           /\ \A k \in Keys : waiting'[k] # d
           /\ \A s \in Sids : sessions'[s] # None =>
                sessions'[s].first # d /\ sessions'[s].second # d
  PROVE  Owned'
BY DEF MapTypes, Owned, Shrinks, Sessions

\* A step that leaves the maps and what is registered alone, and takes no
\* handler out of the phases that own an entry.
Frame == /\ UNCHANGED <<maps, key, mode>>
         /\ \A d \in Conns : phase[d] \in Owning => phase'[d] \in Owning

\* A step that leaves the maps alone and lets no owner go keeps the invariant.
LEMMA FrameMaps ==
  ASSUME MapTypes, MapsCore, Owned, Frame
  PROVE  MapsCore' /\ Owned'
BY DEF MapTypes, MapsCore, WaitingOK, ActiveOK, SessionsOK, Owned, Frame,
       maps, Sessions

\* A client never changes the maps, and takes no owner away.
LEMMA ClientStepMaps ==
  ASSUME MapTypes, MapsCore, Owned, NEW c \in Conns, ClientStep(c)
  PROVE  MapsCore' /\ Owned'
<1>1. CASE \E m \in Modes, k \in Keys : Register(c, m, k)
  <2>1. phase[c] = "register"
        /\ UNCHANGED maps
        /\ phase' = [phase EXCEPT ![c] = "ack"]
        /\ \A d \in Conns \ {c} : key'[d] = key[d] /\ mode'[d] = mode[d]
    BY <1>1 DEF Register, MapTypes, Goto
  <2>2. \A k \in Keys : waiting[k] # c
    BY <2>1, NoneAssumption DEF Owned, Owning
  <2>3. \A s \in Sids : sessions[s] # None =>
          sessions[s].first # c /\ sessions[s].second # c
    BY <2>1 DEF Owned, Owning
  <2>4. MapsCore'
    BY <2>1, <2>2, <2>3 DEF MapsCore, WaitingOK, ActiveOK, SessionsOK, maps,
                            MapTypes, Sessions
  <2>5. Owned'
    BY <2>1, <2>2, <2>3 DEF Owned, maps, MapTypes, Sessions
  <2> QED BY <2>4, <2>5
<1>2. CASE ~\E m \in Modes, k \in Keys : Register(c, m, k)
  <2>1. Frame
    BY <1>2 DEF ClientStep, Connect, ConnLost, WriteStall, ReadSignal, CanRead,
                ReadOther, Frame, Owning, MapTypes, Goto, local
  <2> QED BY <2>1, FrameMaps
<1> QED BY <1>1, <1>2

\* tryPair turns a waiter into a session of two and nothing else.
LEMMA PairMaps ==
  ASSUME MapTypes, Known, MapsCore, Owned, NEW c \in Conns,
         BecomeWaiter(c) \/ Pair(c)
  PROVE  MapsCore' /\ Owned'
<1>1. phase[c] = "pair" /\ key[c] \in Keys /\ activeKey[key[c]] = None
      /\ UNCHANGED <<key, mode>> /\ phase' = [phase EXCEPT ![c] = "read"]
  BY DEF BecomeWaiter, Pair, Known, Goto, local
<1>2. \A k \in Keys : waiting[k] # c
  BY <1>1, NoneAssumption DEF Owned, Owning
<1>3. \A s \in Sids : sessions[s] # None =>
        /\ sessions[s].first # c /\ sessions[s].second # c
        /\ sessions[s].key # key[c]
  BY <1>1, NoneAssumption DEF Owned, Owning, MapsCore, SessionsOK
<1>4. CASE BecomeWaiter(c)
  <2>1. /\ waiting' = [waiting EXCEPT ![key[c]] = c]
        /\ UNCHANGED <<activeKey, sessions>>
    BY <1>4 DEF BecomeWaiter
  <2>2. MapsCore'
    BY <1>1, <2>1 DEF MapsCore, WaitingOK, ActiveOK, SessionsOK, MapTypes
  <2>3. Owned'
    BY <1>1, <2>1 DEF Owned, Owning, MapTypes, Sessions
  <2> QED BY <2>2, <2>3
<1>5. CASE Pair(c)
  <2> DEFINE w == waiting[key[c]]
             S == [key |-> key[c], first |-> w, second |-> c]
  <2>1. PICK s \in Sids :
          /\ sessions[s] = None
          /\ activeKey' = [activeKey EXCEPT ![key[c]] = s]
          /\ sessions' = [sessions EXCEPT ![s] = S]
    BY <1>5 DEF Pair
  <2>2. /\ w \in Conns /\ w # c /\ mode[w] # mode[c] /\ key[w] = key[c]
        /\ phase[w] \in Owning
        /\ waiting' = [waiting EXCEPT ![key[c]] = None]
    BY <1>1, <1>5 DEF Pair, MapTypes, MapsCore, WaitingOK, Owned
  <2>3. S \in Sessions /\ S.key = key[c] /\ S.first = w /\ S.second = c
    BY <1>1, <2>2 DEF Sessions
  <2>4. sessions'[s] = S /\ \A u \in Sids \ {s} : sessions'[u] = sessions[u]
    BY <2>1 DEF MapTypes
  <2>5. activeKey'[key[c]] = s
        /\ \A k \in Keys \ {key[c]} : activeKey'[k] = activeKey[k]
    BY <1>1, <2>1 DEF MapTypes
  <2>6. waiting'[key[c]] = None
        /\ \A k \in Keys \ {key[c]} : waiting'[k] = waiting[k]
    BY <1>1, <2>2 DEF MapTypes
  <2> HIDE DEF S
  <2>7. WaitingOK'
    BY <1>1, <2>5, <2>6 DEF MapsCore, WaitingOK
  <2>8. ActiveOK'
    <3> SUFFICES ASSUME NEW k \in Keys, activeKey'[k] # None
                 PROVE  /\ sessions'[activeKey'[k]] # None
                        /\ sessions'[activeKey'[k]].key = k
      BY DEF ActiveOK
    <3>1. CASE k = key[c]
      <4>1. S # None
        BY <2>3, NoneAssumption
      <4> QED BY <3>1, <4>1, <2>3, <2>4, <2>5
    <3>2. CASE k # key[c]
      BY <3>2, <2>1, <2>4, <2>5 DEF MapsCore, ActiveOK, MapTypes
    <3> QED BY <3>1, <3>2
  <2>9. SessionsOK'
    BY <1>1, <1>3, <2>2, <2>3, <2>4, <2>5 DEF MapsCore, SessionsOK, MapTypes,
                                              Sessions
  <2>10. Owned'
    BY <1>1, <1>2, <1>3, <2>2, <2>3, <2>4, <2>6
       DEF Owned, Owning, MapTypes, Sessions
  <2> QED BY <2>7, <2>8, <2>9, <2>10 DEF MapsCore
<1> QED BY <1>4, <1>5

\* Each step of a handler keeps the maps in agreement and owned.
LEMMA ServerStepMaps ==
  ASSUME MapTypes, MapTypes', Known, MapsCore, Owned, NEW c \in Conns,
         ServerStep(c) \/ RegisterFail(c)
  PROVE  MapsCore' /\ Owned'
<1>1. CASE Unregister(c)
  <2>1. PICK t \in Conns \cup {None} : UnregisterPeer(c, t)
    BY <1>1 DEF Unregister
  <2>2. /\ key[c] \in Keys /\ UNCHANGED <<key, mode>>
        /\ \A d \in Conns \ {c} : phase'[d] = phase[d]
    BY <1>1 DEF Unregister, Known, Goto, local, MapTypes
  <2> QED BY <2>1, <2>2, UnregisterMaps, OwnedShrinks
<1>2. CASE BecomeWaiter(c) \/ Pair(c)
  BY <1>2, PairMaps
<1>3. CASE \/ Ack(c) \/ PairRefused(c) \/ Reject(c) \/ RelaySignal(c)
           \/ RelayFailed(c) \/ ReadError(c) \/ NotifyLeft(c) \/ Close(c)
           \/ RegisterFail(c)
  <2>1. Frame
    BY <1>3 DEF Ack, PairRefused, Reject, RelaySignal, RelayFailed, ReadError,
                NotifyLeft, Close, RegisterFail, Frame, Owning, MapTypes, Goto,
                local
  <2> QED BY <2>1, FrameMaps
<1> QED BY <1>1, <1>2, <1>3 DEF ServerStep

\* A delivery goroutine that unregisters its peer does so as a handler would.
LEMMA TaskStepMaps ==
  ASSUME MapTypes, MapTypes', MapsCore, Owned, NEW c \in Conns, TaskStep(c)
  PROVE  MapsCore' /\ Owned'
<1>1. CASE TaskUnregister(c)
  <2>1. PICK t \in Conns \cup {None} : UnregisterPeer(c, t)
    BY <1>1 DEF TaskUnregister
  <2>2. UNCHANGED <<key, mode, phase>>
    BY <1>1 DEF TaskUnregister, local
  <2> QED BY <2>1, <2>2, UnregisterMaps, OwnedShrinks
<1>2. CASE DeliverPaired(c) \/ TaskNotify(c)
  <2>1. Frame
    BY <1>2 DEF DeliverPaired, TaskNotify, Frame, local
  <2> QED BY <2>1, FrameMaps
<1> QED BY <1>1, <1>2 DEF TaskStep

\* The sweep removes waiters and sessions together with their keys.
LEMMA CollectStaleMaps ==
  ASSUME MapTypes, MapTypes', MapsCore, Owned,
         NEW W \in SUBSET Keys, NEW S \in SUBSET Sids, CollectStale(W, S)
  PROVE  MapsCore' /\ Owned'
<1>1. /\ \A k \in Keys : waiting'[k] = IF k \in W THEN None ELSE waiting[k]
      /\ \A s \in Sids : sessions'[s] = IF s \in S THEN None ELSE sessions[s]
      /\ \A k \in Keys : activeKey'[k] =
           IF \E s \in S : sessions[s].key = k THEN None ELSE activeKey[k]
      /\ \A s \in S : sessions[s] # None
      /\ UNCHANGED <<key, mode, phase>>
  BY DEF CollectStale, local
<1>2. WaitingOK'
  BY <1>1 DEF MapsCore, WaitingOK
<1>3. ActiveOK'
  BY <1>1 DEF MapsCore, ActiveOK, MapTypes
<1>4. SessionsOK'
  BY <1>1 DEF MapsCore, SessionsOK, MapTypes, Sessions
<1>5. Owned'
  BY <1>1, OwnedShrinks DEF Shrinks
<1> QED BY <1>2, <1>3, <1>4, <1>5 DEF MapsCore

\* The inductive invariant of the broker's maps.
MapsInv == TypeOK /\ Known /\ MapsCore /\ Owned

\* The invariant is inductive.
LEMMA MapsInvHolds == Spec => []MapsInv
<1>1. Init => MapsInv
  BY BoundAssumption DEF Init, MapsInv, TypeOK, Known, MapsCore, WaitingOK,
     ActiveOK, SessionsOK, Owned, Phases, Modes
<1>2. MapsInv /\ TypeOK' /\ [Next]_vars => MapsInv'
  <2> SUFFICES ASSUME TypeOK, Known, MapsCore, Owned, TypeOK', [Next]_vars
               PROVE  Known' /\ MapsCore' /\ Owned'
    BY DEF MapsInv
  <2>1. MapTypes /\ MapTypes'
    BY DEF TypeOK, MapTypes
  <2>2. CASE \E c \in Conns : \/ ClientStep(c) \/ RegisterFail(c)
                              \/ ServerStep(c) \/ TaskStep(c)
    <3>1. MapsCore' /\ Owned'
      BY <2>1, <2>2, ClientStepMaps, ServerStepMaps, TaskStepMaps
    <3>2. Next
      BY <2>2 DEF Next
    <3> QED BY <3>1, <3>2, KnownStep
  <2>3. CASE \E W \in SUBSET Keys, S \in SUBSET Sids : CollectStale(W, S)
    <3>1. Next
      BY <2>3 DEF Next
    <3> QED BY <2>1, <2>3, <3>1, CollectStaleMaps, KnownStep
  <2>4. CASE EvictStep \/ Shutdown \/ JanitorExit \/ ShutdownClose \/ Finished
             \/ UNCHANGED vars
    <3>1. Frame /\ UNCHANGED phase
      BY <2>4 DEF EvictStep, EvictSend, EvictClose, Shutdown, JanitorExit,
                  ShutdownClose, Finished, vars, Frame, local, maps
    <3>2. Known'
      BY <3>1 DEF Frame, Known
    <3> QED BY <2>1, <3>1, <3>2, FrameMaps
  <2> QED BY <2>2, <2>3, <2>4 DEF Next
<1> QED BY <1>1, <1>2, TypeCorrect, PTL DEF Spec

\* The three maps agree in every reachable state, whatever the interleaving of
\* handlers, delivery goroutines, the janitor and Shutdown: a key is free,
\* waited on or active, and no peer holds two places.
THEOREM MapsAgreeAlways == Spec => []MapsAgree
<1>1. MapsInv => MapsAgree
  BY MapsCoreImplies DEF MapsInv, TypeOK, MapTypes
<1> QED BY <1>1, MapsInvHolds, PTL

\* No entry outlives the handler that would remove it.
THEOREM NoOrphanedEntryAlways == Spec => []NoOrphanedEntry
<1>1. MapsInv => NoOrphanedEntry
  BY MapsCoreImplies DEF MapsInv, TypeOK, MapTypes
<1> QED BY <1>1, MapsInvHolds, PTL

-----------------------------------------------------------------------------
(* Signals stay within a pair. *)

Past(c) == phase[c] \notin {"idle", "register"}

\* c and d have registered as the two ends of one key.
Linked(c, d) ==
  /\ c \in Conns /\ d \in Conns
  /\ Past(c) /\ Past(d)
  /\ key[c] = key[d] /\ mode[c] # mode[d]

\* The target a handler has looked up is linked to its peer, however stale.
RelayLinked == \A c \in Conns : phase[c] = "relay" => Linked(c, target[c])

LogLinked ==
  \A c \in Conns : \A i \in DOMAIN out[c] :
    out[c][i].type = "signal" => Linked(c, out[c][i].from)

\* A handler never goes back to before registerPeer, and only registerPeer
\* writes mode and key.
LEMMA PastStable ==
  ASSUME TypeOK, [Next]_vars, NEW e \in Conns, Past(e)
  PROVE  key'[e] = key[e] /\ mode'[e] = mode[e] /\ Past(e)'
<1>1. CASE \E d \in Conns : ClientStep(d) \/ RegisterFail(d)
  BY <1>1 DEF ClientStep, Connect, ConnLost, WriteStall, Register, ReadSignal,
       ReadOther, RegisterFail, Past, Goto, local, TypeOK
<1>2. CASE \E d \in Conns : ServerStep(d)
  BY <1>2 DEF ServerStep, Ack, PairRefused, BecomeWaiter, Pair, Reject,
       RelaySignal, RelayFailed, ReadError, Unregister, NotifyLeft, Close,
       Past, Goto, local, TypeOK
<1>3. CASE \E d \in Conns : TaskStep(d)
  BY <1>3 DEF TaskStep, DeliverPaired, TaskUnregister, TaskNotify, Past, local
<1>4. CASE \/ \E W \in SUBSET Keys, S \in SUBSET Sids : CollectStale(W, S)
           \/ EvictStep \/ Shutdown \/ JanitorExit \/ ShutdownClose
           \/ Finished \/ UNCHANGED vars
  BY <1>4 DEF CollectStale, EvictStep, EvictSend, EvictClose, Shutdown,
       JanitorExit, ShutdownClose, Finished, vars, Past, local
<1> QED BY <1>1, <1>2, <1>3, <1>4 DEF Next

\* Links last.
LEMMA LinkedStable ==
  ASSUME TypeOK, [Next]_vars, NEW c, NEW d, Linked(c, d)
  PROVE  Linked(c, d)'
BY PastStable DEF Linked

\* A signal in a log was there before, or its sender's handler is writing it.
LogStep ==
  \A c \in Conns : \A i \in DOMAIN out'[c] :
    out'[c][i].type = "signal" =>
      \/ i \in DOMAIN out[c] /\ out'[c][i] = out[c][i]
      \/ \E d \in Conns : /\ phase[d] = "relay" /\ target[d] = c
                          /\ out'[c][i].from = d

\* A write adds at most one message, to one log.
LEMMA SendLog ==
  ASSUME TypeOK, NEW c \in Conns \cup {None}, NEW m, Send(c, m),
         \/ m.type # "signal"
         \/ m.from \in Conns /\ phase[m.from] = "relay" /\ target[m.from] = c
  PROVE  LogStep
<1>1. CASE out' = out
  BY <1>1 DEF LogStep
<1>2. CASE out' # out
  <2>1. c \in Conns /\ out' = [out EXCEPT ![c] = Append(@, m)]
    BY <1>2 DEF Send, TypeOK
  <2>2. out[c] \in Seq(Message)
    BY <2>1 DEF TypeOK
  <2>3. \A i \in DOMAIN out'[c] :
          \/ i \in DOMAIN out[c] /\ out'[c][i] = out[c][i]
          \/ out'[c][i] = m
    BY <2>1, <2>2 DEF TypeOK
  <2>4. \A d \in Conns \ {c} : out'[d] = out[d]
    BY <2>1 DEF TypeOK
  <2> QED BY <2>1, <2>3, <2>4 DEF LogStep
<1> QED BY <1>1, <1>2

\* Every new signal in a log was written by RelaySignal.
LEMMA NextLog ==
  ASSUME TypeOK, [Next]_vars
  PROVE  LogStep
<1> USE DEF Registered, Paired, PeerLeft, Pong, BrokerError
<1>1. CASE \E c \in Conns : ClientStep(c) \/ RegisterFail(c)
  <2>1. PICK c \in Conns : ClientStep(c) \/ RegisterFail(c)
    BY <1>1
  <2>2. \/ UNCHANGED out
        \/ Send(c, Pong) \/ \E e \in ErrorCodes : Send(c, BrokerError(e))
    BY <2>1 DEF ClientStep, Connect, ConnLost, WriteStall, Register, ReadSignal,
         ReadOther, RegisterFail, ErrorCodes
  <2> QED BY <2>2, SendLog DEF LogStep
<1>2. CASE \E c \in Conns : ServerStep(c)
  <2>1. PICK c \in Conns : ServerStep(c)
    BY <1>2
  <2>2. CASE RelaySignal(c)
    <3>1. /\ Send(target[c], Signal(c, sent[c]))
          /\ target[c] \in Conns \cup {None} /\ phase[c] = "relay"
      BY <2>2 DEF RelaySignal, TypeOK
    <3>2. Signal(c, sent[c]).from = c
      BY DEF Signal
    <3> QED BY <3>1, <3>2, SendLog
  <2>3. CASE ~RelaySignal(c)
    <3>1. \/ UNCHANGED out
          \/ Send(c, Registered) \/ Send(target[c], PeerLeft)
          \/ \E e \in ErrorCodes : Send(c, BrokerError(e))
      BY <2>1, <2>3 DEF ServerStep, Ack, PairRefused, BecomeWaiter, Pair,
           Reject, RelayFailed, ReadError, Unregister, NotifyLeft, Close,
           ErrorCodes
    <3>2. target[c] \in Conns \cup {None}
      BY DEF TypeOK
    <3> QED BY <3>1, <3>2, SendLog DEF LogStep
  <2> QED BY <2>2, <2>3
<1>3. CASE \E c \in Conns : TaskStep(c)
  <2>1. PICK c \in Conns : TaskStep(c)
    BY <1>3
  <2>2. \/ UNCHANGED out
        \/ Send(c, Paired(mode[c] = "connect")) \/ Send(taskTarget[c], PeerLeft)
    BY <2>1 DEF TaskStep, DeliverPaired, TaskUnregister, TaskNotify
  <2>3. taskTarget[c] \in Conns \cup {None}
    BY DEF TypeOK
  <2> QED BY <2>2, <2>3, SendLog DEF LogStep
<1>4. CASE EvictStep
  <2>1. PICK c \in Conns : UNCHANGED out \/ Send(c, BrokerError(evict[c]))
    BY <1>4 DEF EvictStep, EvictSend, EvictClose
  <2> QED BY <2>1, SendLog DEF LogStep
<1>5. CASE \/ \E W \in SUBSET Keys, S \in SUBSET Sids : CollectStale(W, S)
           \/ Shutdown \/ JanitorExit \/ ShutdownClose
           \/ Finished \/ UNCHANGED vars
  BY <1>5 DEF CollectStale, Shutdown, JanitorExit, ShutdownClose, Finished,
       vars, LogStep
<1> QED BY <1>1, <1>2, <1>3, <1>4, <1>5 DEF Next

\* A handler in "relay" was there with the same target, or looks it up now.
LEMMA NextRelay ==
  ASSUME TypeOK, [Next]_vars, NEW c \in Conns, phase'[c] = "relay"
  PROVE  \/ phase[c] = "relay" /\ target'[c] = target[c]
         \/ phase[c] = "read" /\ UNCHANGED maps
            /\ \E s \in SessionsOf(c) : target'[c] = Partner(s, c)
<1> USE DEF TypeOK, Goto
<1>1. CASE \E d \in Conns : ClientStep(d) \/ RegisterFail(d)
  <2>1. PICK d \in Conns : ClientStep(d) \/ RegisterFail(d)
    BY <1>1
  <2>2. CASE ReadSignal(d)
    BY <2>2 DEF ReadSignal, CanRead
  <2>3. CASE ~ReadSignal(d)
    BY <2>1, <2>3 DEF ClientStep, Connect, ConnLost, WriteStall, Register,
         ReadOther, RegisterFail
  <2> QED BY <2>2, <2>3
<1>2. CASE \E d \in Conns : ServerStep(d)
  BY <1>2 DEF ServerStep, Ack, PairRefused, BecomeWaiter, Pair, Reject,
       RelaySignal, RelayFailed, ReadError, Unregister, NotifyLeft, Close
<1>3. CASE \E d \in Conns : TaskStep(d)
  BY <1>3 DEF TaskStep, DeliverPaired, TaskUnregister, TaskNotify
<1>4. CASE \/ \E W \in SUBSET Keys, S \in SUBSET Sids : CollectStale(W, S)
           \/ EvictStep \/ Shutdown \/ JanitorExit \/ ShutdownClose
           \/ Finished \/ UNCHANGED vars
  BY <1>4 DEF CollectStale, EvictStep, EvictSend, EvictClose, Shutdown,
       JanitorExit, ShutdownClose, Finished, vars
<1> QED BY <1>1, <1>2, <1>3, <1>4 DEF Next

\* The two members of a session are linked.
LEMMA PartnerLinked ==
  ASSUME MapTypes, MapsCore, Owned, NEW c \in Conns, NEW s \in SessionsOf(c)
  PROVE  Linked(c, Partner(s, c))
BY DEF MapTypes, MapsCore, SessionsOK, Owned, Owning, SessionsOf, Partner,
       Sessions, Linked, Past

\* A signal is only ever written to the peer of the same key and the other
\* mode, even though relaySignal writes after it has released b.mu.
THEOREM NoCrossTalkAlways == Spec => []NoCrossTalk
<1> DEFINE Inv == RelayLinked /\ LogLinked
<1>1. Init => Inv
  BY DEF Init, RelayLinked, LogLinked
<1>2. MapsInv /\ MapsInv' /\ Inv /\ [Next]_vars => Inv'
  <2> SUFFICES ASSUME MapsInv, MapsInv', Inv, [Next]_vars
               PROVE  Inv'
    OBVIOUS
  <2>1. TypeOK /\ MapTypes /\ MapsCore /\ Owned
    BY DEF MapsInv, TypeOK, MapTypes
  <2>2. RelayLinked'
    <3> SUFFICES ASSUME NEW c \in Conns, phase'[c] = "relay"
                 PROVE  Linked(c, target[c])'
      BY DEF RelayLinked
    <3>1. CASE phase[c] = "relay" /\ target'[c] = target[c]
      <4>1. Linked(c, target[c])
        BY <3>1 DEF RelayLinked
      <4>2. PICK d : d = target[c]
        OBVIOUS
      <4>3. Linked(c, d)'
        BY <2>1, <4>1, <4>2, LinkedStable
      <4> QED BY <3>1, <4>2, <4>3 DEF Linked
    <3>2. CASE \E s \in SessionsOf(c) : target'[c] = Partner(s, c)
      <4>1. PICK d : d = target'[c] /\ Linked(c, d)
        BY <2>1, <3>2, PartnerLinked
      <4>2. Linked(c, d)'
        BY <2>1, <4>1, LinkedStable
      <4> QED BY <4>1, <4>2 DEF Linked
    <3> QED BY <2>1, <3>1, <3>2, NextRelay
  <2>3. LogLinked'
    <3> SUFFICES ASSUME NEW c \in Conns, NEW i \in DOMAIN out'[c],
                        out'[c][i].type = "signal"
                 PROVE  Linked(c, out[c][i].from)'
      BY DEF LogLinked
    <3>1. CASE i \in DOMAIN out[c] /\ out'[c][i] = out[c][i]
      <4>1. PICK d : d = out[c][i].from /\ Linked(c, d)
        BY <3>1 DEF LogLinked
      <4>2. Linked(c, d)'
        BY <2>1, <4>1, LinkedStable
      <4> QED BY <3>1, <4>1, <4>2 DEF Linked
    <3>2. CASE \E d \in Conns : /\ phase[d] = "relay" /\ target[d] = c
                                /\ out'[c][i].from = d
      <4>1. PICK d \in Conns : out'[c][i].from = d /\ Linked(c, d)
        BY <3>2 DEF RelayLinked, Linked
      <4>2. Linked(c, d)'
        BY <2>1, <4>1, LinkedStable
      <4> QED BY <4>1, <4>2 DEF Linked
    <3> QED BY <2>1, <3>1, <3>2, NextLog DEF LogStep
  <2> QED BY <2>2, <2>3
<1>3. Inv => NoCrossTalk
  BY DEF LogLinked, NoCrossTalk, Linked
<1> QED BY <1>1, <1>2, <1>3, MapsInvHolds, PTL DEF Spec

=============================================================================
